---- MODULE MCNoteEditing ----
(* Instances of NoteEditing for TLC. *)
EXTENDS NoteEditing, TLC

CONSTANTS n1, n2

====
