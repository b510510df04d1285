SPECIFICATION FairSpec
CONSTANT MaxAttempts = 2
INVARIANTS TypeOK NothingReachesPage PollArmed
PROPERTIES AskedByPress ClosedStaysClosed KeepsGate ExitCompletes
