SPECIFICATION Spec
CONSTANTS
    None = None
    Inputs <- MCInputs
INVARIANTS
    TarjanFindsComponents
    CollapseKeepsPaths
    EdgesAccountedFor
    LeavesAreEnds
    PaintsAncestors
PROPERTIES
    AnalysisEnds
CHECK_DEADLOCK FALSE
