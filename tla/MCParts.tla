------------------------------- MODULE MCParts --------------------------------
(***************************************************************************)
(* Parts with two clients that share the buffers of one sink.              *)
(***************************************************************************)
EXTENDS Parts, TLC

Symmetry == Permutations(Bufs) \cup Permutations(Clients) \cup Permutations(Pictures)
=============================================================================
