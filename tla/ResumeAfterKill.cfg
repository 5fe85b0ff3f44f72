CONSTANTS
    Resumes = {p1, p2}
    Old = old
    None = none
    MaxSession = 3
SPECIFICATION Spec
SYMMETRY Symmetry
PROPERTY RestoresChecked
CHECK_DEADLOCK FALSE
