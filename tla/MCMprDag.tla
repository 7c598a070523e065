------------------------------ MODULE MCMprDag ------------------------------
(***************************************************************************)
(* Instances of MprDag for TLC.                                            *)
(***************************************************************************)
EXTENDS MprDag
CONSTANTS q1, q2, q3, r1, r2, r3, r4
=============================================================================
