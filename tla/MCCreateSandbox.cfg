CONSTANTS
    r1 = r1
    r2 = r2
    change = change
    secret = secret
    replaced = replaced
    settings = settings
    Repos = {r1, r2}
    Changes = {change, secret, replaced}
    Editable <- EditableByUser
    Submodules = {r1}
    LeftOut = {secret}
    Contents = contents
    Ignored = ignored
    CopyPaths = {settings}
    Target <- IntoTheSecond
    Replaces <- OverTheChanged
    NoRepo = none
SPECIFICATION Spec
INVARIANTS
    CreatedIsWhole
    FailedLeavesNothing
    BaselineIsWorkspace
CHECK_DEADLOCK FALSE
