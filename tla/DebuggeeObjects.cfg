SPECIFICATION Spec
CONSTANTS
    kStringBufferSize = 4
    SzArrayNames = {}
    ArrayNames = {}
    kTypesAtOnce = 100
    Modules <- MCModules
    Types <- MCTypes
    Values <- MCValues
    Locals <- MCLocals
    LocalConstants <- MCLocalConstants
    FrameModule = 1
    Collections = {"List"}
    kReferenceDepth = 3
    kDefaultObjectEvalDepth = 3
    PropertyEvaluation = TRUE
    Failures <- MCFailures
    Beyond = {0, 255}
    MaxHits = 2
    MaxFailures = 1
INVARIANT TypeOK
INVARIANT ShownIsTrue
INVARIANT ReportIsComplete
INVARIANT ConstantIsExact
INVARIANT EnumIsExplained
CHECK_DEADLOCK FALSE
