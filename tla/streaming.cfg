SPECIFICATION Spec
CONSTANTS
    Library = {l1}
    Request = {r1, r2}
    Conn = {c1}
    Account = Account
    None = None
    QueueSize = 2
    MaxVersion = 2
SYMMETRY Symmetric
INVARIANTS TypeOK EveryCommitAnnounced SubscriptionFollowsAccess
