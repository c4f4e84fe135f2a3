---------------------------- MODULE MCWorkerPool ----------------------------
(***************************************************************************)
(* Small instances of CsWorkerPool for TLC.  The controller searches the   *)
(* workers in order and the tasks are numbered in order, so neither can be *)
(* permuted.                                                               *)
(***************************************************************************)
EXTENDS CsWorkerPool
=============================================================================
