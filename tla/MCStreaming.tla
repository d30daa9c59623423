---------------------------- MODULE MCStreaming ----------------------------
(* A small instance of Streaming for TLC. *)
EXTENDS Streaming, TLC

Symmetric == Permutations(Request) \cup Permutations(Library)
============================================================================
