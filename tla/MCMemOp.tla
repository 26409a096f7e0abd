------------------------------ MODULE MCMemOp ------------------------------
(***************************************************************************)
(* MemOp on four bytes of three values: regions of every length, apart,    *)
(* equal, and overlapping by one or two bytes on either side.              *)
(***************************************************************************)
EXTENDS MemOp
=============================================================================
