SPECIFICATION Spec
CONSTANTS
    Run = {r1, r2}
    MaxBuilds = 2
    Version <- MCVersion
    Rejected <- MCRejected
    LiveExisting = LiveExisting
    BootstrapGenerate = BootstrapGenerate
    Nothing = Nothing
    Torn = Torn
    Miss = Miss
INVARIANTS
    OverlayIsFrozen
    AttestedFits
PROPERTIES
    EvidenceIsKept
    LaterBuildsKeepTheirs
