SPECIFICATION Spec
CONSTANTS
    None = None
    Default = Default
    Elsewhere = Elsewhere
    Modes = {"none", "ephemeral", "fresh", "reused"}
    Timeout = 2
    MaxRuns = 2
    RetainLogs = 1
    Commands = {"move"}
    MaxMishaps = 1
    Faults = {}
INVARIANTS
    MissingTreeRebuilt
CHECK_DEADLOCK FALSE
