SPECIFICATION FairSpec
CONSTANTS
    s1 = s1  g1 = g1
    Ids = {s1, g1}
    LogPoints = {g1}
    MinBackOff = 1
    MaxBackOff = 3
    Events = {"Disabled", "Forgotten", "Exit"}
    MaxFailures = 3
    MaxChanges = 2
    MaxReports = 1
INVARIANTS
    ManagerMatchesPipe
PROPERTIES
    DebuggerFollowsService
    ReportGetsThrough
CHECK_DEADLOCK FALSE
