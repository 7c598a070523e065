------------------------------- MODULE MCBuf -------------------------------
(***************************************************************************)
(* Instances of Buf for TLC.                                               *)
(***************************************************************************)
EXTENDS Buf
CONSTANTS b1, b2
=============================================================================
