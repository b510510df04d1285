SPECIFICATION RestartSpec
CONSTANTS
    Versions = {1, 2}
    Bad = {2}
    Absent = Absent
    Torn = Torn
    Short = Short
    MaxAttempts = 1
    Source = "github"
    Jobs = {j1}
PROPERTY InterruptedSwapCompletes
