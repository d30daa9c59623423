SPECIFICATION Spec
CONSTANTS
    Request = {r1, r2}
    Collections = {c1, c2}
    Items = {}
    Searches = {}
    Settings = {s1}
    Value = {v1}
    Token = {t1}
    NoParent = NoParent
    NoToken = NoToken
    NoVersion = NoVersion
    Absent = Absent
    Nobody = Nobody
    NoWork = NoWork
    MaxVersion = 3
SYMMETRY Symmetric
INVARIANTS TypeOK StagedOverCommitted ParentsExist SinceIsComplete
PROPERTIES NoLostUpdate TokenHonouredOnce ImplementsVersions
