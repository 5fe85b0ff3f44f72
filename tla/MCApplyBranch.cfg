CONSTANTS
    Files = {f, g}
    Values = {0, 1, 2}
    Fork <- AllZero
    SessionValues = {0, 1}
    UserValues = {2}
    MaxCommits = 3
    MaxEdits = 1
    MaxRuns = 2
SPECIFICATION Spec
SYMMETRY Symmetry
INVARIANT ReportIsTrue
PROPERTIES StagedWorkIsKept BaselineOnlyWhenAsked
CHECK_DEADLOCK FALSE
