------------------------------ MODULE MCQueue ------------------------------
(***************************************************************************)
(* Small instances of CsQueue for TLC.  The values enqueued are never      *)
(* looked at by the code, so they can be permuted.                         *)
(***************************************************************************)
EXTENDS CsQueue, TLC

DataSymmetry == Permutations(Data)
=============================================================================
