CONSTANTS
    Repos = {r1, r2}
    Fields = {"memory", "cpus", "pids", "blkio_weight"}
    Written <- MCWritten
    Memory = 6
    Cpus = 1
    Gibibyte = 4
    Grain = 8
    DefaultPids = 3
    Kilo = 4
    MaxPids = 6
    MinWeight = 2
    MaxWeight = 6
    MaxSessions = 3
    MaxEdits = 2
SPECIFICATION LimitsSpec
INVARIANTS
    LimitsTypeOK
    RepositoriesOnlyTighten
    CappedUnlessUnlimited
    ChoiceSurvives
PROPERTY
    ResumeKeepsTheCap
CHECK_DEADLOCK FALSE
