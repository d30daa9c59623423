SPECIFICATION Spec
CONSTANTS
    code1 = code1
    device1 = device1
    r1 = r1
    r2 = r2
    Codes = {code1}
    Devices = {device1}
    Callers = {r1, r2}
    MaxPairs = 3
    MaxGrants = 2
    MaxClaims = 2
SYMMETRY Alike
INVARIANTS
    TypeOK
    SpentOnce
    OneLiveRefresh
    NothingWithoutGrant
    DenialStands
PROPERTIES
    BurnReaches
CHECK_DEADLOCK FALSE
