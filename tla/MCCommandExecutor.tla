------------------------- MODULE MCCommandExecutor -------------------------
(***************************************************************************)
(* Small instances of CommandExecutor for TLC: a get command with a date   *)
(* (get-day-generated) and two set commands.  The data of one day unpacks  *)
(* as the data of another.                                                 *)
(***************************************************************************)
EXTENDS CommandExecutor, TLC

CONSTANTS t1, t2, t3, DayGenerated, SetFlag, SetDefaults, a, b

MCParses == {<<DayGenerated, DayGenerated>>}

OneSet == {<<SetFlag, a>>}
TwoSets == {<<SetFlag, a>>, <<SetDefaults, a>>}
TwoGets == {<<DayGenerated, a>>, <<DayGenerated, b>>}
GetAndSets == {<<DayGenerated, a>>} \union TwoSets

ThreadSymmetry == Permutations(Threads)
=============================================================================
