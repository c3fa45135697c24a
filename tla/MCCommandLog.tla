----------------------------- MODULE MCCommandLog ----------------------------
(* Instances of CommandLog for TLC.  Labels and processes are interchangeable. *)
EXTENDS CommandLog, TLC

CONSTANTS t1, t2, o1, p1, p2

LabelsAndProcesses == Permutations(Label) \cup Permutations(Process)
=============================================================================
