SPECIFICATION FairSpec
CONSTANTS
    Scopes = {"global"}
    Values = {v1, v2}
    LocalValues = {}
    Codes = {c1}
    Commands = {1}
    Garbled = {1}
    None = None
    PollBase = 1
    PollJitter = 1
    PollCap = 3
    MaxFaults = 1
    MaxFailures = 3
    MaxRevision = 3
    MaxCrashes = 1
    v1 = v1
    v2 = v2
    c1 = c1
INVARIANT PollDelayBounded
PROPERTIES Delivered
CHECK_DEADLOCK FALSE
