------------------------------- MODULE MCLzma -------------------------------
(***************************************************************************)
(* Model checking of Lzma.                                                 *)
(***************************************************************************)
EXTENDS Lzma
=============================================================================
