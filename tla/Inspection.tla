----------------------------- MODULE Inspection -----------------------------
(***************************************************************************)
(* What EvalCoordinator promises to the code that inspects a debuggee (see *)
(* the comment of IEvalCoordinator): a breakpoint stops the debuggee and   *)
(* starts one inspection of it; the inspection reads the debuggee while it *)
(* is stopped; it may have the debuggee evaluate a function, during which  *)
(* the debuggee runs and is stopped by other events; and the debuggee goes *)
(* its way only when the inspection has ended.                             *)
(***************************************************************************)
VARIABLES
    debuggee,    \* "running", "stopped" or "exited"
    inspection   \* "none", "reading" or "evaluating"

vars == <<debuggee, inspection>>

Init == debuggee = "running" /\ inspection = "none"

\* Any debugging event stops the debuggee.
Stop ==
    /\ debuggee = "running"
    /\ debuggee' = "stopped"
    /\ UNCHANGED inspection

\* It is continued when nobody is reading it.
Resume ==
    /\ debuggee = "stopped" /\ inspection # "reading"
    /\ debuggee' = "running"
    /\ UNCHANGED inspection

Exit ==
    /\ debuggee = "running"
    /\ debuggee' = "exited"
    /\ UNCHANGED inspection

Begin ==
    /\ debuggee = "stopped" /\ inspection = "none"
    /\ inspection' = "reading"
    /\ UNCHANGED debuggee

Evaluate ==
    /\ debuggee = "stopped" /\ inspection = "reading"
    /\ inspection' = "evaluating"
    /\ UNCHANGED debuggee

\* The result is taken from a debuggee that is stopped again, or is gone.
Answer ==
    /\ debuggee # "running" /\ inspection = "evaluating"
    /\ inspection' = "reading"
    /\ UNCHANGED debuggee

End ==
    /\ debuggee # "running" /\ inspection = "reading"
    /\ inspection' = "none"
    /\ UNCHANGED debuggee

Next == Stop \/ Resume \/ Exit \/ Begin \/ Evaluate \/ Answer \/ End

Spec == Init /\ [][Next]_vars
=============================================================================
