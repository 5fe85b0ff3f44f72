CONSTANTS
    copier = copier
    builtin = builtin
    Creates = {c1, c2}
    Tools = {copier, builtin}
    Configured = {copier}
    Manifests = {m1, m2}
    Method <- MethodOf
    Shipped = {copier, builtin}
    MaxEvents = 1
    None = None
SPECIFICATION ImageSpec
SYMMETRY Symmetry
INVARIANTS
    ImageTypeOK
    ContainerHasCredentials
    EarnedLabels
    RecordedImageIsCurrent
    DefaultIsFit
CHECK_DEADLOCK FALSE
