SPECIFICATION FairSpec
CONSTANTS
    b1 = b1  b2 = b2  b3 = b3
    L1 = L1  L2 = L2
    m1 = m1  m2 = m2
    p1 = p1
    None = None
    Ids = {b1, b2, b3}
    Locations = {L1, L2}
    Modules = {m1, m2}
    Spots = {p1}
    LocationOf <- MCLocationOf
    Resolve <- MCResolve
    Unparsable = {}
    Conditional = {b2}
    Faults <- AllFaults
    MaxMessages = 4
INVARIANTS
    ListedIsActive
    NoDuplicates
    AgentAndDebuggerAgree
PROPERTIES
    EventuallyAgree
CHECK_DEADLOCK FALSE
