SPECIFICATION Spec
CONSTANTS
    Urls = {u1, u2}
    Workers = {w1, w2}
    UI = UI
    Message = Message
    Nothing = Nothing
    MaxEvents = 1
    Settles = FALSE
SYMMETRY MonitorSymmetry
INVARIANTS TypeOK OneMonitor MainKnows
