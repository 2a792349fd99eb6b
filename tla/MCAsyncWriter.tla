---------------------------- MODULE MCAsyncWriter ----------------------------
(***************************************************************************)
(* Model checking of AsyncWriter.                                          *)
(***************************************************************************)
EXTENDS AsyncWriter, TLC

\* Workers differ in nothing but their name.
WorkerSymmetry == Permutations(Workers)
=============================================================================
