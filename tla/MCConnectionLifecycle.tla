----------------------- MODULE MCConnectionLifecycle -----------------------
(* Two heap blocks, so that one is used again while the other lives. *)
EXTENDS ConnectionLifecycle

CONSTANTS b1, b2

=============================================================================
