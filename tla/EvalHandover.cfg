SPECIFICATION Spec
CONSTANTS
    Threads = {th1, th2}
    Tasks = {t1, t2}
    Evals = {e1, e2, e3}
    Allowed = {"Timeout", "Spurious", "ForeignException", "OutOfMemory"}
    None = None
SYMMETRY Symmetry
INVARIANTS
    InspectsStopped
    OneInspection
    OutcomeIsTrue
CHECK_DEADLOCK FALSE
