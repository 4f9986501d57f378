SPECIFICATION FairSpec
CONSTANTS
    Threads = {th1, th2}
    Tasks = {t1, t2}
    Evals = {e1, e2, e3}
    Allowed = {"ForeignException"}
    None = None
PROPERTIES
    ImplementsInspection
    DebuggeeResumes
CHECK_DEADLOCK FALSE
