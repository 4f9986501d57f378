--------------------------- MODULE EvalCoordinator ---------------------------
(***************************************************************************)
(* The hand-over between the ICorDebug callback thread and the tasks that  *)
(* inspect a stopped debuggee (class EvalCoordinator and the callbacks     *)
(* Breakpoint, Exception, EvalComplete, EvalException and ExitProcess of   *)
(* DebuggerCallback).                                                      *)
(*                                                                         *)
(* A Breakpoint callback starts a task and waits.  The task reads the      *)
(* stopped debuggee; to read a property it has a debuggee thread call a    *)
(* function, for which the waiting callback has to continue the debuggee.  *)
(* The end of the call arrives as another callback, which wakes the task   *)
(* and waits in turn.  ICorDebug delivers one callback at a time, and the  *)
(* next one only after Continue.                                           *)
(*                                                                         *)
(* Everything EvalCoordinator does under mutex_ up to the next wait on a   *)
(* condition variable is one step.                                         *)
(***************************************************************************)
CONSTANTS
    Threads,  \* managed threads of the debuggee
    Tasks,    \* identities for the tasks of ProcessBreakpoints
    Evals,    \* identities for ICorDebugEval objects
    Allowed,  \* which of the rare events below may happen
    None      \* no thread, no evaluation

\* "Timeout": an evaluation takes longer than a minute.
\* "Spurious": variable_threads_cv_.wait_for, which has no predicate, returns
\*     without a notification.
\* "ForeignException": a debuggee thread raises an exception that is not the
\*     end of an evaluation.
\* "OutOfMemory": ProcessBreakpointsTask cannot create its StackFrameCollection.
RareEvents == {"Timeout", "Spurious", "ForeignException", "OutOfMemory"}

ASSUME AllowedAssumption == Allowed \subseteq RareEvents
ASSUME NoneAssumption == None \notin Threads \cup Evals

VARIABLES
    proc,            \* the debuggee process
    cb,              \* control point of the callback thread
    cbThread,        \* the debuggee thread the callback is about
    canContinue,     \* debuggercallback_can_continue_
    waitingForEval,  \* waiting_for_eval_
    exceptionSeen,   \* eval_exception_occurred_
    activeThread,    \* active_debug_thread_
    task,            \* control point of each task
    woken,           \* the task has been notified on variable_threads_cv_
    current,         \* the evaluation a task is waiting for
    eval,            \* each evaluation, in the debuggee
    evalThread,      \* the debuggee thread an evaluation runs on
    disturbed,       \* history: what befell a task's wait for an evaluation:
                     \* "exception" of the program's own, or the result taken
                     \* on an "earlyWakeup", before any notification
    outcome,         \* what WaitForEval and its caller made of the evaluation
    timedOut         \* history: some WaitForEval has timed out

cbVars   == <<cb, cbThread>>
flagVars == <<canContinue, waitingForEval, exceptionSeen, activeThread>>
taskVars == <<task, woken, current>>
evalVars == <<eval, evalThread, disturbed>>
vars == <<proc, cbVars, flagVars, taskVars, evalVars, outcome, timedOut>>

CallbackPoints ==
    {"idle", "breakpoint", "lookup", "process", "exception", "evalException",
     "evalComplete", "await", "continue", "exited"}

\* The type invariant; a task in WaitForEval has an evaluation to wait for.
TypeOK ==
    /\ proc \in {"running", "stopped", "exited"}
    /\ cb \in CallbackPoints
    /\ cbThread \in Threads \cup {None}
    /\ canContinue \in BOOLEAN
    /\ waitingForEval \in BOOLEAN
    /\ exceptionSeen \in BOOLEAN
    /\ activeThread \in Threads \cup {None}
    /\ task \in [Tasks -> {"none", "work", "enter", "wait", "done"}]
    /\ woken \in [Tasks -> BOOLEAN]
    /\ current \in [Tasks -> Evals \cup {None}]
    /\ \A t \in Tasks : task[t] \in {"enter", "wait"} => current[t] \in Evals
    /\ eval \in [Evals -> {"unused", "set", "returned", "threw"}]
    /\ evalThread \in [Evals -> Threads \cup {None}]
    /\ disturbed \in [Evals -> SUBSET {"exception", "earlyWakeup"}]
    /\ outcome \in [Evals -> {"none", "value", "exception", "failed"}]
    /\ timedOut \in BOOLEAN

Init ==
    /\ proc = "running"
    /\ cb = "idle" /\ cbThread = None
    /\ canContinue = FALSE /\ waitingForEval = FALSE /\ exceptionSeen = FALSE
    /\ activeThread = None
    /\ task = [t \in Tasks |-> "none"]
    /\ woken = [t \in Tasks |-> FALSE]
    /\ current = [t \in Tasks |-> None]
    /\ eval = [e \in Evals |-> "unused"]
    /\ evalThread = [e \in Evals |-> None]
    /\ disturbed = [e \in Evals |-> {}]
    /\ outcome = [e \in Evals |-> "none"]
    /\ timedOut = FALSE

-----------------------------------------------------------------------------
(* The debuggee, as ICorDebug presents it: while it runs, an event stops   *)
(* it and is delivered as a callback.                                      *)

StopFor(point, th) ==
    /\ proc = "running" /\ cb = "idle"
    /\ proc' = "stopped"
    /\ cb' = point
    /\ cbThread' = th

\* A thread reaches an active breakpoint (the collection has an entry for it
\* or, see CbLookup, no longer has one).  Bound: there are Tasks inspections.
Hit(th) ==
    /\ \E t \in Tasks : task[t] = "none"
    /\ StopFor("breakpoint", th)
    /\ UNCHANGED <<flagVars, taskVars, evalVars, outcome, timedOut>>

\* The function an evaluation called returns.
EvalReturns(e) ==
    /\ eval[e] = "set"
    /\ StopFor("evalComplete", evalThread[e])
    /\ eval' = [eval EXCEPT ![e] = "returned"]
    /\ UNCHANGED <<flagVars, taskVars, evalThread, disturbed, outcome, timedOut>>

\* The function an evaluation called ends with an exception.
EvalThrows(e) ==
    /\ eval[e] = "set"
    /\ StopFor("evalException", evalThread[e])
    /\ eval' = [eval EXCEPT ![e] = "threw"]
    /\ UNCHANGED <<flagVars, taskVars, evalThread, disturbed, outcome, timedOut>>

\* An exception of the program's own, on any thread; one the function of an
\* evaluation throws and catches is reported in the same way.
ForeignException(th) ==
    /\ "ForeignException" \in Allowed
    /\ StopFor("exception", th)
    /\ UNCHANGED <<flagVars, taskVars, evalVars, outcome, timedOut>>

\* The debuggee exits.  ExitProcess cancels SyncBreakpoints (see
\* BreakpointCollection) and does not touch the coordinator.
Exit ==
    /\ proc = "running" /\ cb = "idle"
    /\ proc' = "exited"
    /\ cb' = "exited"
    /\ UNCHANGED <<cbThread, flagVars, taskVars, evalVars, outcome, timedOut>>

-----------------------------------------------------------------------------
(* The callback thread.                                                    *)

\* Faulty variant: nobody is notified.
NotifyNobody == woken' = woken

\* variable_threads_cv_.notify_all().
NotifyTasks == woken' = [t \in Tasks |-> woken[t] \/ task[t] = "wait"]

\* Faulty variant: a breakpoint hit during an evaluation is processed.
CbBreakpointAlways ==
    /\ cb = "breakpoint"
    /\ cb' = "lookup"
    /\ UNCHANGED <<proc, cbThread, flagVars, taskVars, evalVars, outcome,
                   timedOut>>

\* Breakpoint asks WaitingForEval: a breakpoint hit while a function is being
\* evaluated is skipped.
CbBreakpoint ==
    /\ cb = "breakpoint"
    /\ cb' = IF waitingForEval THEN "continue" ELSE "lookup"
    /\ UNCHANGED <<proc, cbThread, flagVars, taskVars, evalVars, outcome,
                   timedOut>>

\* EvaluateAndPrintBreakpoint finds breakpoints to process or not; in
\* ProcessBreakpoints active_debug_thread_ is written before the lock.
CbLookup ==
    /\ cb = "lookup"
    /\ \/ cb' = "continue" /\ activeThread' = activeThread
       \/ cb' = "process" /\ activeThread' = cbThread
    /\ UNCHANGED <<proc, cbThread, canContinue, waitingForEval, exceptionSeen,
                   taskVars, evalVars, outcome, timedOut>>

\* Faulty variant: debuggercallback_can_continue_ keeps its last value.
CbProcessKeepsFlag(t) ==
    /\ cb = "process" /\ task[t] = "none"
    /\ task' = [task EXCEPT ![t] = "work"]
    /\ NotifyTasks
    /\ cb' = "await"
    /\ UNCHANGED <<proc, cbThread, flagVars, current, evalVars, outcome,
                   timedOut>>

\* ProcessBreakpoints, under the lock: a task is started, all tasks are
\* notified, and the callback waits for debuggercallback_can_continue_.
\* (ready_to_print_variables_ is set here and never reset, so that
\* WaitForReadySignal, which a task calls later, never waits.)
CbProcess(t) ==
    /\ cb = "process" /\ task[t] = "none"
    /\ task' = [task EXCEPT ![t] = "work"]
    /\ canContinue' = FALSE
    /\ NotifyTasks
    /\ cb' = "await"
    /\ UNCHANGED <<proc, cbThread, waitingForEval, exceptionSeen, activeThread,
                   current, evalVars, outcome, timedOut>>

\* Exception: HandleException, then Continue.
CbException ==
    /\ cb = "exception"
    /\ exceptionSeen' = TRUE
    /\ cb' = "continue"
    /\ disturbed' = [e \in Evals |->
           IF \E t \in Tasks : task[t] = "wait" /\ current[t] = e
           THEN disturbed[e] \cup {"exception"} ELSE disturbed[e]]
    /\ UNCHANGED <<proc, cbThread, canContinue, waitingForEval, activeThread,
                   taskVars, eval, evalThread, outcome, timedOut>>

\* EvalException: HandleException in a locked section of its own, then as
\* EvalComplete.
CbEvalException ==
    /\ cb = "evalException"
    /\ exceptionSeen' = TRUE
    /\ cb' = "evalComplete"
    /\ UNCHANGED <<proc, cbThread, canContinue, waitingForEval, activeThread,
                   taskVars, evalVars, outcome, timedOut>>

\* Faulty variant: debuggercallback_can_continue_ keeps its last value.
CbSignalFinishedEvalKeepsFlag ==
    /\ cb = "evalComplete"
    /\ activeThread' = cbThread
    /\ NotifyTasks
    /\ cb' = "await"
    /\ UNCHANGED <<proc, cbThread, canContinue, waitingForEval, exceptionSeen,
                   task, current, evalVars, outcome, timedOut>>

\* EvalComplete: SignalFinishedEval up to its wait.
CbSignalFinishedEval ==
    /\ cb = "evalComplete"
    /\ canContinue' = FALSE
    /\ activeThread' = cbThread
    /\ NotifyTasks
    /\ cb' = "await"
    /\ UNCHANGED <<proc, cbThread, waitingForEval, exceptionSeen, task, current,
                   evalVars, outcome, timedOut>>

\* The wait on debugger_callback_cv_ in ProcessBreakpoints and in
\* SignalFinishedEval is over.
CbAwake ==
    /\ cb = "await" /\ canContinue
    /\ cb' = "continue"
    /\ UNCHANGED <<proc, cbThread, flagVars, taskVars, evalVars, outcome,
                   timedOut>>

\* ICorDebugController::Continue, the last call of every callback.
CbContinue ==
    /\ cb = "continue"
    /\ proc' = "running"
    /\ cb' = "idle"
    /\ UNCHANGED <<cbThread, flagVars, taskVars, evalVars, outcome, timedOut>>

-----------------------------------------------------------------------------
(* A task: ProcessBreakpointsTask and what it calls.                       *)

\* Whether ICorDebugEval::GetResult answers: CORDBG_E_PROCESS_NOT_SYNCHRONIZED
\* while the debuggee runs, CORDBG_E_FUNC_EVAL_NOT_COMPLETE before the end.
Pending(e) == proc = "running" \/ (proc = "stopped" /\ eval[e] = "set")

\* CreateEval on the active thread and ICorDebugEval2::CallParameterizedFunction,
\* which both need a stopped debuggee: EvaluateAndCreateDbgObject up to the
\* call of WaitForEval.
CallFunction(t, e) ==
    /\ task[t] = "work" /\ eval[e] = "unused"
    /\ proc = "stopped" /\ activeThread # None
    /\ eval' = [eval EXCEPT ![e] = "set"]
    /\ evalThread' = [evalThread EXCEPT ![e] = activeThread]
    /\ current' = [current EXCEPT ![t] = e]
    /\ task' = [task EXCEPT ![t] = "enter"]
    /\ UNCHANGED <<proc, cbVars, flagVars, woken, disturbed, outcome, timedOut>>

\* How WaitForEval ends, and what EvaluateAndCreateDbgObject makes of that: an
\* HRESULT that failed (GetResult may fail at any time) counts before the
\* exception flag.  If CreateDbgObject of the result fails, the debugger
\* crashes there (see DebuggeeObjects) and its behaviours here end.
LeaveWait(t, failed, thrown) ==
    /\ canContinue' = FALSE
    /\ waitingForEval' = FALSE
    /\ task' = [task EXCEPT ![t] = "work"]
    /\ \E result \in {"failed", IF failed THEN "failed"
                                ELSE IF thrown THEN "exception" ELSE "value"} :
          outcome' = [outcome EXCEPT ![current[t]] = result]

\* Faulty variant: eval_exception_occurred_ is not reset.
EnterWaitKeepsException(t) ==
    /\ task[t] = "enter"
    /\ IF Pending(current[t])
       THEN /\ canContinue' = TRUE
            /\ waitingForEval' = TRUE
            /\ task' = [task EXCEPT ![t] = "wait"]
            /\ woken' = [woken EXCEPT ![t] = FALSE]
            /\ UNCHANGED outcome
       ELSE /\ LeaveWait(t, proc = "exited", FALSE)
            /\ UNCHANGED woken
    /\ UNCHANGED <<proc, cbVars, exceptionSeen, activeThread, current, evalVars,
                   timedOut>>

\* WaitForEval from its start to its first wait: the flags are set, GetResult
\* is tried, and the callback thread is notified.
EnterWait(t) ==
    /\ task[t] = "enter"
    /\ exceptionSeen' = FALSE
    /\ IF Pending(current[t])
       THEN /\ canContinue' = TRUE
            /\ waitingForEval' = TRUE
            /\ task' = [task EXCEPT ![t] = "wait"]
            /\ woken' = [woken EXCEPT ![t] = FALSE]
            /\ UNCHANGED outcome
       ELSE /\ LeaveWait(t, proc = "exited", FALSE)
            /\ UNCHANGED woken
    /\ UNCHANGED <<proc, cbVars, activeThread, current, evalVars, timedOut>>

\* WaitForEval wakes up, tries GetResult again and leaves or waits again.
Recheck(t) ==
    /\ task[t] = "wait"
    /\ woken[t] \/ "Spurious" \in Allowed
    /\ woken' = [woken EXCEPT ![t] = FALSE]
    /\ IF Pending(current[t])
       THEN UNCHANGED <<canContinue, waitingForEval, task, outcome, disturbed>>
       ELSE /\ LeaveWait(t, proc = "exited", exceptionSeen)
            /\ disturbed' = IF woken[t] THEN disturbed
                            ELSE [disturbed EXCEPT ![current[t]] =
                                                       @ \cup {"earlyWakeup"}]
    /\ UNCHANGED <<proc, cbVars, exceptionSeen, activeThread, current, eval,
                   evalThread, timedOut>>

\* WaitForEval gives up after a minute.  The evaluation is not aborted.
TimeOut(t) ==
    /\ "Timeout" \in Allowed
    /\ task[t] = "wait"
    /\ LeaveWait(t, TRUE, exceptionSeen)
    /\ woken' = [woken EXCEPT ![t] = FALSE]
    /\ timedOut' = TRUE
    /\ UNCHANGED <<proc, cbVars, exceptionSeen, activeThread, current, evalVars>>

\* The end of ProcessBreakpointsTask: SignalFinishedPrintingVariable.
SignalFinishedPrintingVariable(t) ==
    /\ task[t] = "work"
    /\ canContinue' = TRUE
    /\ task' = [task EXCEPT ![t] = "done"]
    /\ UNCHANGED <<proc, cbVars, waitingForEval, exceptionSeen, activeThread,
                   woken, current, evalVars, outcome, timedOut>>

\* ProcessBreakpointsTask returns E_OUTOFMEMORY before it has read anything,
\* and without signalling.
OutOfMemory(t) ==
    /\ "OutOfMemory" \in Allowed
    /\ task[t] = "work" /\ current[t] = None
    /\ task' = [task EXCEPT ![t] = "done"]
    /\ UNCHANGED <<proc, cbVars, flagVars, woken, current, evalVars, outcome,
                   timedOut>>

-----------------------------------------------------------------------------
Callback ==
    \/ CbBreakpoint \/ CbLookup \/ CbException \/ CbEvalException
    \/ CbSignalFinishedEval \/ CbAwake \/ CbContinue
    \/ \E t \in Tasks : CbProcess(t)

Work(t) ==
    \/ \E e \in Evals : CallFunction(t, e)
    \/ SignalFinishedPrintingVariable(t)

WaitForEval(t) == EnterWait(t) \/ Recheck(t) \/ TimeOut(t)

Evaluation(e) == EvalReturns(e) \/ EvalThrows(e)

Next ==
    \/ \E th \in Threads : Hit(th) \/ ForeignException(th)
    \/ \E e \in Evals : Evaluation(e)
    \/ Exit
    \/ Callback
    \/ \E t \in Tasks : Work(t) \/ WaitForEval(t) \/ OutOfMemory(t)

Spec == Init /\ [][Next]_vars

\* The callback thread and the tasks are operating-system threads; a task
\* ends its work after finitely many evaluations; a function that is being
\* evaluated ends, sooner or later than the timeout.
FairSpec ==
    /\ Spec
    /\ WF_vars(Callback)
    /\ \A t \in Tasks : WF_vars(Work(t)) /\ WF_vars(WaitForEval(t))
    /\ \A e \in Evals : WF_vars(Evaluation(e))

-----------------------------------------------------------------------------
(* Properties.                                                             *)

Live(t) == task[t] \in {"work", "enter", "wait"}

\* Until an evaluation times out, a task reads the debuggee only while it is
\* stopped, although each evaluation has the callback thread continue it, a
\* second debuggee thread may hit a breakpoint meanwhile, and the wait for the
\* result may wake up too early.
InspectsStopped ==
    ~timedOut => \A t \in Tasks : task[t] \in {"work", "enter"} => proc # "running"

\* Until an evaluation times out, no two tasks inspect the debuggee at a time:
\* active_debug_thread_ and the three flags serve one of them.
OneInspection ==
    ~timedOut => \A t, u \in Tasks : Live(t) /\ Live(u) => t = u

\* Until an evaluation times out, what WaitForEval's caller reports is what
\* happened during this evaluation, whatever happened during those before and
\* between them.  An exception: the function threw, or the program raised an
\* exception of its own while the task waited, which the flag does not tell
\* apart.  A value: no exception of any thread was delivered during the wait,
\* and the function returned, unless the wait woke up by itself in the moment
\* between the end of a function that threw and HandleException.
OutcomeIsTrue ==
    ~timedOut =>
        \A e \in Evals :
            /\ outcome[e] = "exception" =>
                   eval[e] = "threw" \/ "exception" \in disturbed[e]
            /\ outcome[e] = "value" =>
                   /\ "exception" \notin disturbed[e]
                   /\ \/ eval[e] = "returned"
                      \/ eval[e] = "threw" /\ "earlyWakeup" \in disturbed[e]

\* The debuggee does not stay stopped: "The StackFrame in active_debug_thread_
\* will have to set debuggerCallBackCanContinue to TRUE by either calling
\* WaitForEval or SignalFinishPrintingVariable" (ProcessBreakpoints; the same
\* is said in SignalFinishedEval).
DebuggeeResumes == (proc = "stopped") ~> (proc # "stopped")

-----------------------------------------------------------------------------
(* The inductive invariant behind InspectsStopped and OneInspection.       *)

\* The debuggee is stopped exactly while a callback is being served.
CallbackStops ==
    /\ cb = "idle" => proc = "running"
    /\ cb = "exited" => proc = "exited"
    /\ cb \notin {"idle", "exited"} => proc = "stopped"

\* The callback thread cannot call Continue: it is on its way to, or in, a
\* wait for a flag that is not set (or the debuggee is gone).
Held ==
    \/ cb \in {"evalException", "evalComplete", "exited"}
    \/ cb = "await" /\ ~canContinue

\* A task that is not waiting holds the callback thread; so does one whose
\* evaluation is over, until it takes the result.
TasksHold ==
    \A t \in Tasks :
        \/ task[t] \in {"none", "done"}
        \/ task[t] \in {"work", "enter"} /\ Held
        \/ /\ task[t] = "wait" /\ waitingForEval
           /\ eval[current[t]] # "set" => Held

\* A new task is started only when no other is live.
StartsAlone == cb \in {"lookup", "process"} => \A t \in Tasks : ~Live(t)

HandoverInv ==
    /\ CallbackStops
    /\ OneInspection
    /\ ~timedOut => TasksHold /\ StartsAlone

\* The inductive part of OutcomeIsTrue: an evaluation that runs has a task that
\* waits for it; before the wait nothing has befallen the evaluation or been
\* reported of it.
EvalsAreAwaited ==
    /\ \A e \in Evals :
          /\ eval[e] = "unused" => outcome[e] = "none" /\ disturbed[e] = {}
          /\ eval[e] = "set" /\ cb # "exited" =>
                \E t \in Tasks : task[t] \in {"enter", "wait"} /\ current[t] = e
    /\ \A t \in Tasks :
          /\ task[t] \in {"enter", "wait"} => outcome[current[t]] = "none"
          /\ task[t] = "enter" =>
                eval[current[t]] = "set" /\ disturbed[current[t]] = {}

\* While a task waits, the exception flag says how its evaluation ended or
\* that an exception was delivered meanwhile.  The exception (the last
\* disjunct): the callback of an earlier evaluation whose result was taken on
\* an early wake-up; it resets debuggercallback_can_continue_ after the task
\* has set it, so that the new evaluation never runs.
FlagTellsOutcome ==
    \A t \in Tasks : task[t] = "wait" =>
        LET e == current[t] IN
        /\ eval[e] # "unused"
        /\ "exception" \in disturbed[e] => exceptionSeen
        /\ exceptionSeen =>
              \/ "exception" \in disturbed[e]
              \/ eval[e] = "threw"
              \/ eval[e] = "set" /\ Held
        /\ woken[t] /\ eval[e] = "set" => Held
        /\ eval[e] = "threw" =>
              exceptionSeen \/ (cb = "evalException" /\ ~woken[t])
        /\ cb = "evalException" /\ eval[e] # "set" => eval[e] = "threw"

OutcomeInv ==
    /\ OutcomeIsTrue
    /\ ~timedOut => EvalsAreAwaited /\ FlagTellsOutcome

-----------------------------------------------------------------------------
(* What the hand-over promises, module Inspection.                         *)

inspection ==
    CASE \E t \in Tasks : task[t] = "work"            -> "reading"
      [] \E t \in Tasks : task[t] \in {"enter", "wait"} -> "evaluating"
      [] OTHER                                          -> "none"

Abstract == INSTANCE Inspection WITH debuggee <- proc, inspection <- inspection

\* Without timeouts the coordinator implements Inspection: at each instant one
\* inspection at most, which reads a stopped debuggee and lets it run exactly
\* for its evaluations.
ImplementsInspection == Abstract!Spec
=============================================================================
