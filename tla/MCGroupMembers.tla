--------------------------- MODULE MCGroupMembers ---------------------------
(* A small instance of GroupMembers for TLC. *)
EXTENDS GroupMembers, TLC

Symmetric == Permutations(Request) \cup Permutations(Offer)
=============================================================================
