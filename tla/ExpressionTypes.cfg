SPECIFICATION Spec
CONSTANTS
    kStringBufferSize = 4
    SzArrayNames = {"Main[]"}
    ArrayNames = {"Main[,]"}
    kTypesAtOnce = 2
    Modules <- MCModules
    Frames <- MCFrames
    NameExpressions <- NoExpressions
    LiteralExpressions <- ExampleExpressions
    Failures <- NoFailures
INVARIANT CompileChecksTypes
