----------------------------- MODULE MCPipePool -----------------------------
(***************************************************************************)
(* Model checking of PipePool: outPool (ordered, several producers, one    *)
(* index reader) and inPool (one producer, several readers).               *)
(***************************************************************************)
EXTENDS PipePool
=============================================================================
