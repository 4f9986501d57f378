SPECIFICATION FairSpec
CONSTANTS
    Messages = {1, 2, 3}
    BodyLen <- MCBodyLen
    SendSize = 4
    RecvSize = 6
    ReadingEnds = {"unix", "windows", "agent"}
    MaxPadding = 2
INVARIANTS
    DeliveredInOrder
PROPERTIES
    AllDelivered
CHECK_DEADLOCK FALSE
