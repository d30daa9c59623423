-------------------------- MODULE MCLibraryWrites --------------------------
(* Small instances of LibraryWrites for TLC. *)
EXTENDS LibraryWrites, TLC

Symmetric ==
    Permutations(Request) \cup Permutations(Collections) \cup Permutations(Items)
      \cup Permutations(Value)
============================================================================
