SPECIFICATION Spec
CONSTANTS
    Breakpoint = {b1}
    AppDomain = {d1}
    DomainOf <- MCDomainOf
    CountModulus = 6
    b1 = b1
    d1 = d1
INVARIANT CallbackOutlivesEvents
INVARIANT OnlyLaunchedIsKilled
PROPERTY AttachedIsReleased
PROPERTY SuspendedIsResumed
PROPERTY ExitEndsDebugger
CHECK_DEADLOCK FALSE
