\* Claims the code does not keep. TLC reports the first it finds: leave one at
\* a time.
SPECIFICATION Spec
CONSTANTS
    None = None
    Default = Default
    Elsewhere = Elsewhere
    Modes = {"none", "ephemeral", "fresh", "reused"}
    Timeout = 2
    MaxRuns = 2
    RetainLogs = 1
    Commands = {"rm", "close", "prune"}
    MaxMishaps = 1
    Faults = {"env"}
INVARIANTS
    EnvFailureStopsRun
    CompletedTreeIsLive
PROPERTIES
    RunIdsDistinct
    StaleReferenceCleared
    RunningTreeStays
CHECK_DEADLOCK FALSE
