CONSTANTS
    below = below
    key = key
    chain = chain
    kept = kept
    lock = lock
    v1 = v1
    v2 = v2
    Absent = Absent
    Files <- MCFiles
    Contents = {v1, v2}
    Ignored = {chain}
    Secret = {key}
    UserExcluded = {}
    Outward = {kept}
    Chained = {chain}
    Submodule = {below}
    CopyTargets = {kept}
    Locks = {lock}
    Checkouts <- MCCheckouts
    MaxEdits = 1
    MaxChanges = 1
    MaxSessions = 3
SPECIFICATION Spec
INVARIANTS
    TypeOK
    OnlyTheToolsWork
    BranchWins
    CopiesSurvive
    ExcludedStaysOut
CHECK_DEADLOCK FALSE
