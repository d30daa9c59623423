SPECIFICATION Spec
CONSTANTS
    d1 = d1
    d2 = d2
    Item = {i1}
    Digest <- Digests
    File <- Files
    Harmed <- NoDigests
    Upload = {u1}
    Request = {r1}
    None = None
    MaxVersion = 3
INVARIANTS ReferencedIsSpared
