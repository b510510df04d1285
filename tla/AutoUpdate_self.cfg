SPECIFICATION Spec
CONSTANTS
    Versions = {1, 2, 3}
    Bad = {2}
    Absent = Absent
    Torn = Torn
    Short = Short
    MaxAttempts = 2
    Source = "self"
    Jobs = {j1, j2}
SYMMETRY JobSymmetry
INVARIANTS TypeOK BoundedUnconfirmedStarts FallbackUntilTrusted PendingIsVerified
PROPERTIES ReplacedUnderMarker SelfHostedNeverDowngrades
