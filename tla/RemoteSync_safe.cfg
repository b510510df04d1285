SPECIFICATION Spec
CONSTANTS
    Scopes = {"global"}
    Values = {}
    LocalValues = {}
    Codes = {c1, c2}
    Commands = {1, 2}
    Garbled = {}
    None = None
    PollBase = 1
    PollJitter = 1
    PollCap = 3
    MaxFaults = 1
    MaxFailures = 0
    MaxRevision = 2
    MaxCrashes = 1
    c1 = c1
    c2 = c2
SYMMETRY SyncSymmetry
INVARIANTS TypeOK ConsumedWasApplied AckIsDurable PasswordIsKept ReplayedOnlyAfterCrash
PROPERTY AppliedInOrder
