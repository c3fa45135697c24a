------------------------------ MODULE MCSharing ------------------------------
(* An instance of Sharing for TLC.                                         *)
EXTENDS Sharing

CONSTANTS p1, p2
=============================================================================
