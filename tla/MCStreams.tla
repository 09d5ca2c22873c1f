----------------------------- MODULE MCStreams -----------------------------
(* Instances of Streams for TLC. *)
EXTENDS Streams, TLC

Symmetry == Permutations(Handlers) \union Permutations(Paths)
=============================================================================
