---------------------------- MODULE MCFileStore ----------------------------
(* Small instances of FileStore for TLC: a plain file and a snapshot whose *)
(* archive has a digest of its own, or two plain files.                    *)
EXTENDS FileStore, TLC

CONSTANTS d1, d2

Digests == {d1, d2}
OneDigest == {d1}
NoDigests == {}
Files == {[md5 |-> d1, zip |-> None], [md5 |-> d1, zip |-> d2]}
PlainFiles == {[md5 |-> d1, zip |-> None], [md5 |-> d2, zip |-> None]}

Symmetric == Permutations(Request)
============================================================================
