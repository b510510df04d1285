SPECIFICATION FairSpec
CONSTANTS
    Scopes = {"global", "device"}
    Values = {v1, v2}
    LocalValues = {}
    Codes = {c1}
    Commands = {}
    Garbled = {}
    None = None
    PollBase = 1
    PollJitter = 1
    PollCap = 3
    MaxFaults = 0
    MaxFailures = 0
    MaxRevision = 2
    MaxCrashes = 0
    v1 = v1
    v2 = v2
    c1 = c1
PROPERTY Delivered
CHECK_DEADLOCK FALSE
