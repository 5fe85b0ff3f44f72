CONSTANTS
    Commands = {c1, c2, c3}
    Pids = {d1, d2}
    Targets = {t1, t2}
    Requests <- NoneOrOne
    None = None
SPECIFICATION Spec
SYMMETRY Symmetry
INVARIANTS TypeOK NoOrphan ContainerIsServed
PROPERTIES StrangersLive
CHECK_DEADLOCK FALSE
