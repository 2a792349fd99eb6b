------------------------------ MODULE MCLiteral ------------------------------
(***************************************************************************)
(* Model checking of Literal: literal chunks of eight bytes, and chunk     *)
(* sizes on both sides of a literal chunk and of a second size byte.       *)
(***************************************************************************)
EXTENDS Literal

MCRequests == {ChunkStream, 0, 9, 85, 92, 131}
=============================================================================
