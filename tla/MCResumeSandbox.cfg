CONSTANTS
    Resumes = {p1, p2}
    Old = old
    None = none
    MaxSession = 3
SPECIFICATION Spec
SYMMETRY Symmetry
INVARIANT ClaimsAreUnique
PROPERTIES RollsBack CommittedKept RestoresNewest
CHECK_DEADLOCK FALSE
