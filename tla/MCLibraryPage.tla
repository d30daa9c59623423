---- MODULE MCLibraryPage ----
(* Instances of LibraryPage for TLC. *)
EXTENDS LibraryPage, TLC

CONSTANTS mine, group

\* Two items in the library the page opens with, one in the other.
MCItems == 1..3
MCHome == 1 :> mine @@ 2 :> mine @@ 3 :> group

====
