SPECIFICATION Spec
CONSTANTS
    User = {u1, u2}
    Verified = {u1}
    Request = {r1, r2}
    Offer = {o1}
    Nothing = Nothing
    MaxVersion = 3
    MaxTokens = 3
SYMMETRY Symmetric
INVARIANTS OwnerAdministers
PROPERTIES JoinsAsOffered
