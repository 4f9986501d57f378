SPECIFICATION Spec
CONSTANTS
    kStringBufferSize = 4
    SzArrayNames = {"Main[]"}
    ArrayNames = {"Main[,]"}
    kTypesAtOnce = 2
    Modules <- MCModules
    Frames <- MCFrames
    NameExpressions <- MCNameExpressions
    LiteralExpressions <- MCLiteralExpressions
    Failures <- MCFailures
INVARIANT KnownClassIsFound
INVARIANT ClassKeepsMeaning
INVARIANT FailureKeepsType
INVARIANT DeclaredType
INVARIANT PromotionIsLeast
PROPERTY ImplementsFrameCache
