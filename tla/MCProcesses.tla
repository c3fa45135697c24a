----------------------------- MODULE MCProcesses -----------------------------
(* Instances of Processes for TLC.                                         *)
EXTENDS Processes, TLC

CONSTANTS t1, t2, o1, p1, p2

ProcessSymmetry == Permutations(Label) \cup Permutations(Process)
=============================================================================
