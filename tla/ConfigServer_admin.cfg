SPECIFICATION Spec
CONSTANTS
    Requests = {r1, r2}
    Operations = {"publish", "rollback"}
    Groups = {g1, g2}
    Devices = {}
    Fields = {f1}
    Values = {v1}
    Codes = {}
    Commands = {}
    None = None
    MaxRevision = 2
    HistoryCap = 3
    Fresh = {}
SYMMETRY ServerSymmetry
INVARIANTS TypeOK Recorded RollbackReturnsToThePast RevisionNamesConfig
PROPERTY OthersKept
CHECK_DEADLOCK FALSE
