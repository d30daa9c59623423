--------------------------- MODULE MCLibrarySync ---------------------------
(* A small instance of LibrarySync for TLC. *)
EXTENDS LibrarySync
============================================================================
