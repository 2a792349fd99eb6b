---------------------------- MODULE MCWorkerPool ----------------------------
(***************************************************************************)
(* Model checking of WorkerPool.                                           *)
(***************************************************************************)
EXTENDS WorkerPool
=============================================================================
