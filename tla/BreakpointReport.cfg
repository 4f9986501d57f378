\* One and two breakpoints at a location, every kind of stack, two hits.
\* The model stops after MaxHits hits.
SPECIFICATION FairSpec
CONSTANTS
    Objects <- MCObjects
    Kind <- MCKind
    Members <- MCMembers
    Count <- MCCount
    Stacks <- MCStacks
    Batches <- MCBatches
    Faults <- MCFaults
    None = None
    kMaximumStackFrames = 4
    kMaximumStackFramesWithVariables = 2
    kMaximumCollectionSize = 2
    Unlimited = 100
    kDefaultObjectEvalDepth = 3
    kMaximumBreakpointSize = 16
    Word = 64
    MaxHits = 2
CHECK_DEADLOCK FALSE
INVARIANTS
    FramesFollowStack
    MissingOnlyForSize
    FramesWithinSize
    StaticsAreOfThisHit
    CollectionsWithinLimit
PROPERTY
    EveryBreakpointIsAnswered
