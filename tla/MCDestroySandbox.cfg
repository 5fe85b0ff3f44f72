CONSTANTS
    Repos = {r1, r2}
    Commits = {base, c1}
    Baseline = base
    Destroyers = {destroy, gc}
    Collectors = {gc}
    Dirty = {r1}
    Movable = {r2}
    Overlap = FALSE
    NoRepo = none
SPECIFICATION Spec
PROPERTIES UnappliedKept ArchiveGoesLast
CHECK_DEADLOCK FALSE
