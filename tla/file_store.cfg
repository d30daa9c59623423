SPECIFICATION Spec
CONSTANTS
    d1 = d1
    d2 = d2
    Item = {i1}
    Digest <- Digests
    File <- Files
    Harmed <- OneDigest
    Upload = {u1}
    Request = {r1, r2}
    None = None
    MaxVersion = 2
SYMMETRY Symmetric
INVARIANTS TypeOK RegisteredIsStored
PROPERTIES OncePerGrant FileChangesStamped
