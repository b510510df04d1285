SPECIFICATION Spec
CONSTANTS
    Requests = {r1, r2}
    Operations = {"code", "register", "group", "ack", "enqueue"}
    Groups = {g1}
    Devices = {d1, d2}
    Fields = {f1}
    Values = {v1}
    Codes = {c1, c2}
    Commands = {k1}
    None = None
    MaxRevision = 1
    HistoryCap = 1
    Fresh = {"queue"}
SYMMETRY RequestSymmetry
INVARIANT CodeRegistersOnce
PROPERTY OthersKept
