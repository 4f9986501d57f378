SPECIFICATION FairSpec
CONSTANTS
    Threads = {th1, th2}
    Tasks = {t1}
    Evals = {e1}
    Allowed = {"Timeout"}
    None = None
PROPERTY
    DebuggeeResumes
CHECK_DEADLOCK FALSE
