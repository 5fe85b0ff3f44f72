CONSTANTS
    Repos = {r1, r2}
    Names = {"opencode", "tool", "mine"}
    Contents <- MCContents
    BuiltIn = {"opencode"}
    UserGlobal = {"mine"}
    OpenCode = "opencode"
    Nothing = Nothing
    EditsInResume = FALSE
    MaxEdits = 2
    MaxRuns = 2
SYMMETRY Symmetry
SPECIFICATION Spec
INVARIANTS
    TypeOK
    NothingRunsUnconfirmed
    MarkersAreConsent
    TheUserChoseTheTool
CHECK_DEADLOCK FALSE
