SPECIFICATION FairSync
CONSTANTS
    Key = {s1, i1}
    Content = {a, b}
    Absent = Absent
    Forgets = {s1}
    MaxVersion = 4
    Client = {c1}
INVARIANTS SyncTypeOK IInv NothingMissed
PROPERTIES UploadsSeeEverything Converges
CHECK_DEADLOCK FALSE
