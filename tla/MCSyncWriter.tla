----------------------------- MODULE MCSyncWriter -----------------------------
(***************************************************************************)
(* Model checking of SyncWriter.                                           *)
(***************************************************************************)
EXTENDS SyncWriter
=============================================================================
