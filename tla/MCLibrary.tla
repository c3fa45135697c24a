------------------------------ MODULE MCLibrary ------------------------------
(* Instances of Library for TLC.  Labels are interchangeable: no command   *)
(* and no property tells one label from another.                           *)
EXTENDS Reports, TLC

CONSTANTS t1, t2, o1

LabelSymmetry == Permutations(Label)
=============================================================================
