SPECIFICATION FairSpec
CONSTANTS
    Versions = {1, 2}
    Bad = {}
    Absent = Absent
    Torn = Torn
    Short = Short
    MaxAttempts = 1
    Source = "self"
    Jobs = {j1}
PROPERTY HealthyIsConfirmed
