CONSTANTS
    r1 = r1
    r2 = r2
    e1 = e1
    e2 = e2
    stray = stray
    none = none
    Repos <- OneRepo
    Changes <- ThreeEdits
    Edits = {e1}
    HostChanges = {}
    Big = {e2}
    Owner <- OneOwner
    Unmounted = none
    Basename <- OneName
    Canonical <- OneCanonical
    ConcurrentDiff = TRUE
SPECIFICATION Spec
INVARIANT CompletedMeansDelivered
CHECK_DEADLOCK FALSE
