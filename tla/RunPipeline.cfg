SPECIFICATION Spec
CONSTANTS
    None = None
    Default = Default
    Elsewhere = Elsewhere
    Modes = {"none", "ephemeral", "fresh", "reused"}
    Timeout = 3
    MaxRuns = 2
    RetainLogs = 1
    Commands = {"move", "rm", "close", "prune"}
    MaxMishaps = 1
    Faults = {"env", "pre", "agent", "turn", "git", "subdir"}
INVARIANTS
    ToldIsTrue
    FreshTree
    LeftoversKnown
PROPERTIES
    ReuseKeepsWork
    EveryRunCompletes
CHECK_DEADLOCK FALSE
