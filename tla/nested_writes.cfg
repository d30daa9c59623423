SPECIFICATION Spec
CONSTANTS
    Request = {r1, r2}
    Collections = {c1, c2, c3}
    Items = {i1, i2, i3}
    Searches = {q1}
    Settings = {}
    Value = {v1}
    Token = {}
    NoParent = NoParent
    NoToken = NoToken
    NoVersion = NoVersion
    Absent = Absent
    Nobody = Nobody
    NoWork = NoWork
    MaxVersion = 2
SYMMETRY Symmetric
INVARIANTS ParentsExist
