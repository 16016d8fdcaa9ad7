---------------------------- MODULE MCMMapStream -----------------------------
(***************************************************************************)
(* MMapStream under its discipline: two threads taking turns, frames held  *)
(* by two holders at once, up to three buffers.                            *)
(***************************************************************************)
EXTENDS MMapStream, TLC

Symmetry == Permutations(Threads) \cup Permutations(Holders)
=============================================================================
