CONSTANTS
    r1 = r1
    r2 = r2
    e1 = e1
    e2 = e2
    stray = stray
    none = none
    Repos <- TwoRepos
    Changes <- ThreeEdits
    Edits <- ThreeEdits
    HostChanges = {e1}
    Big = {e2}
    Owner <- TwoOwners
    Unmounted = none
    Basename <- OneBasename
    Canonical <- TwoCanonicals
    ConcurrentDiff = FALSE
SPECIFICATION FairSpec
INVARIANTS
    CompletedMeansDelivered
    HeadHidesOnlyLateOrUnmounted
PROPERTIES
    ImplementsSessionOutcome
    ExtractionEnds
CHECK_DEADLOCK FALSE
