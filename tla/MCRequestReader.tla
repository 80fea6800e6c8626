--------------------------- MODULE MCRequestReader ---------------------------
(***************************************************************************)
(* Small instances of RequestReader for TLC.  The buffer holds zeros at    *)
(* first, or the lines of an earlier connection whose stack was reused.    *)
(***************************************************************************)
EXTENDS RequestReader

Version == <<"v", SP, "1", CR, LF>>
Format == <<"format", SP, "table", CR, LF>>
Spaced == <<SP, "format", SP, SP, "json", CR, LF>>
Wrong == <<"format", SP, "x", CR, LF>>
Exec == <<"exec", SP, "x", CR, LF>>
Unknown == <<"x", SP, "1", CR, LF>>
Spaces == <<SP, SP>>
Nulled == <<"x", NUL, CR, LF>>

Zeros == [i \in Index |-> NUL]
Leftover == [i \in Index |-> IF i <= 5 THEN Exec[i] ELSE NUL]

OnlyVersion == {Version}
WithEot == {Version, <<EOT>>}
AllInputs == {Version, Format, Wrong, Exec, Unknown, Spaces, Spaced, Nulled, <<EOT>>}
FreshStack == {Zeros}
AnyStack == {Zeros, Leftover}
=============================================================================
