------------------------ MODULE EvalCoordinatorProofs ------------------------
(***************************************************************************)
(* Proofs about EvalCoordinator, for every set of debuggee threads, tasks  *)
(* and evaluations: type correctness; that, until an evaluation times out, *)
(* a task inspects a stopped debuggee, is alone in doing so and reports    *)
(* what happened to its evaluations; and that without timeouts the         *)
(* coordinator implements module Inspection.                               *)
(***************************************************************************)
EXTENDS EvalCoordinator, TLAPS

\* A task that leaves WaitForEval leaves the flags, its own point and the
\* outcome of its evaluation in their types.
LEMMA LeaveWaitType ==
    ASSUME TypeOK, NEW t \in Tasks, NEW failed \in BOOLEAN,
           NEW thrown \in BOOLEAN, current[t] \in Evals,
           LeaveWait(t, failed, thrown)
    PROVE  /\ canContinue' \in BOOLEAN /\ waitingForEval' \in BOOLEAN
           /\ task' \in [Tasks -> {"none", "work", "enter", "wait", "done"}]
           /\ \A u \in Tasks : task'[u] \in {"enter", "wait"}
                                 => task[u] \in {"enter", "wait"}
           /\ outcome' \in [Evals -> {"none", "value", "exception", "failed"}]
<1>1. PICK result \in {"failed", "exception", "value"} :
         outcome' = [outcome EXCEPT ![current[t]] = result]
  BY DEF LeaveWait
<1>2. outcome' \in [Evals -> {"none", "value", "exception", "failed"}]
  BY <1>1 DEF TypeOK
<1>3. canContinue' \in BOOLEAN /\ waitingForEval' \in BOOLEAN
  BY Zenon DEF LeaveWait
<1> QED
  BY <1>2, <1>3 DEF LeaveWait, TypeOK

\* The variables of EvalCoordinator always have values of their types.
THEOREM TypeCorrect == Spec => []TypeOK
<1>1. Init => TypeOK
  <2> SUFFICES ASSUME Init PROVE TypeOK
    OBVIOUS
  <2>1. woken \in [Tasks -> BOOLEAN]
    BY Zenon DEF Init
  <2>2. canContinue \in BOOLEAN /\ waitingForEval \in BOOLEAN
        /\ exceptionSeen \in BOOLEAN /\ timedOut \in BOOLEAN
    BY Zenon DEF Init
  <2> QED
    BY <2>1, <2>2 DEF Init, TypeOK, CallbackPoints
<1>2. TypeOK /\ [Next]_vars => TypeOK'
  <2> SUFFICES ASSUME TypeOK, [Next]_vars PROVE TypeOK'
    OBVIOUS
  <2> USE DEF TypeOK, CallbackPoints, flagVars, taskVars, evalVars, cbVars
  <2>1. ASSUME NEW th \in Threads, Hit(th) PROVE TypeOK'
    BY <2>1 DEF Hit, StopFor
  <2>2. ASSUME NEW th \in Threads, ForeignException(th) PROVE TypeOK'
    BY <2>2 DEF ForeignException, StopFor
  <2>3. ASSUME NEW e \in Evals, EvalReturns(e) PROVE TypeOK'
    BY <2>3 DEF EvalReturns, StopFor
  <2>4. ASSUME NEW e \in Evals, EvalThrows(e) PROVE TypeOK'
    BY <2>4 DEF EvalThrows, StopFor
  <2>5. CASE Exit
    BY <2>5 DEF Exit
  <2>6. CASE CbBreakpoint
    BY <2>6 DEF CbBreakpoint
  <2>7. CASE CbLookup
    BY <2>7 DEF CbLookup
  <2>8. CASE CbException
    BY <2>8 DEF CbException
  <2>9. CASE CbEvalException
    BY <2>9 DEF CbEvalException
  <2>10. CASE CbSignalFinishedEval
    BY <2>10 DEF CbSignalFinishedEval, NotifyTasks
  <2>11. CASE CbAwake
    BY <2>11 DEF CbAwake
  <2>12. CASE CbContinue
    BY <2>12 DEF CbContinue
  <2>13. ASSUME NEW t \in Tasks, CbProcess(t) PROVE TypeOK'
    BY <2>13 DEF CbProcess, NotifyTasks
  <2>14. ASSUME NEW t \in Tasks, NEW e \in Evals, CallFunction(t, e)
         PROVE  TypeOK'
    BY <2>14 DEF CallFunction
  <2>15. ASSUME NEW t \in Tasks, SignalFinishedPrintingVariable(t)
         PROVE  TypeOK'
    BY <2>15 DEF SignalFinishedPrintingVariable
  <2>16. ASSUME NEW t \in Tasks, EnterWait(t) PROVE TypeOK'
    <3>1. CASE Pending(current[t])
      BY <2>16, <3>1 DEF EnterWait
    <3>2. CASE ~Pending(current[t])
      <4>1. LeaveWait(t, proc = "exited", FALSE)
        BY <2>16, <3>2 DEF EnterWait
      <4> QED
        BY <2>16, <3>2, <4>1, LeaveWaitType DEF EnterWait
    <3> QED
      BY <3>1, <3>2
  <2>17. ASSUME NEW t \in Tasks, Recheck(t) PROVE TypeOK'
    <3>1. CASE Pending(current[t])
      BY <2>17, <3>1 DEF Recheck
    <3>2. CASE ~Pending(current[t])
      <4>1. LeaveWait(t, proc = "exited", exceptionSeen)
        BY <2>17, <3>2 DEF Recheck
      <4>2. woken' \in [Tasks -> BOOLEAN]
        BY <2>17, Zenon DEF Recheck
      <4>3. /\ canContinue' \in BOOLEAN /\ waitingForEval' \in BOOLEAN
            /\ task' \in [Tasks -> {"none", "work", "enter", "wait", "done"}]
            /\ \A u \in Tasks : task'[u] \in {"enter", "wait"}
                                  => task[u] \in {"enter", "wait"}
            /\ outcome' \in [Evals -> {"none", "value", "exception", "failed"}]
        <5>1. current[t] \in Evals
          BY <2>17 DEF Recheck
        <5>2. (proc = "exited") \in BOOLEAN
          OBVIOUS
        <5> HIDE DEF TypeOK
        <5> QED
          BY <4>1, <5>1, <5>2, LeaveWaitType DEF TypeOK
      <4> QED
        BY <2>17, <4>1, <4>2, <4>3 DEF Recheck
    <3> QED
      BY <3>1, <3>2
  <2>18. ASSUME NEW t \in Tasks, TimeOut(t) PROVE TypeOK'
    BY <2>18 DEF TimeOut, LeaveWait
  <2>19. ASSUME NEW t \in Tasks, OutOfMemory(t) PROVE TypeOK'
    BY <2>19 DEF OutOfMemory
  <2>20. CASE UNCHANGED vars
    BY <2>20 DEF vars
  <2> QED
    BY <2>1, <2>2, <2>3, <2>4, <2>5, <2>6, <2>7, <2>8, <2>9, <2>10, <2>11,
       <2>12, <2>13, <2>14, <2>15, <2>16, <2>17, <2>18, <2>19, <2>20
    DEF Next, Callback, Work, WaitForEval, Evaluation
<1> QED
  BY <1>1, <1>2, PTL DEF Spec

-----------------------------------------------------------------------------
\* Every step keeps HandoverInv: the callback thread is held while a task
\* reads, the breakpoints hit during an evaluation are skipped because
\* waiting_for_eval_ is set, and so a task is started only when it is alone.
LEMMA HandoverStep == TypeOK /\ HandoverInv /\ [Next]_vars => HandoverInv'
<1> SUFFICES ASSUME TypeOK, HandoverInv, [Next]_vars PROVE HandoverInv'
  OBVIOUS
<1> USE DEF TypeOK, CallbackPoints, HandoverInv, CallbackStops, Held, TasksHold,
            StartsAlone, OneInspection, Live,
            flagVars, taskVars, evalVars, cbVars
<1>1. ASSUME NEW th \in Threads, Hit(th)
      PROVE  HandoverInv'
  BY <1>1 DEF Hit, StopFor
<1>2. ASSUME NEW th \in Threads, ForeignException(th)
      PROVE  HandoverInv'
  BY <1>2 DEF ForeignException, StopFor
<1>3. ASSUME NEW e \in Evals, EvalReturns(e)
      PROVE  HandoverInv'
  BY <1>3 DEF EvalReturns, StopFor
<1>4. ASSUME NEW e \in Evals, EvalThrows(e)
      PROVE  HandoverInv'
  BY <1>4 DEF EvalThrows, StopFor
<1>5. CASE Exit
  BY <1>5 DEF Exit
<1>6. CASE CbBreakpoint
  BY <1>6 DEF CbBreakpoint
<1>7. CASE CbLookup
  BY <1>7 DEF CbLookup
<1>8. CASE CbException
  BY <1>8 DEF CbException
<1>9. CASE CbEvalException
  BY <1>9 DEF CbEvalException
<1>10. CASE CbSignalFinishedEval
  BY <1>10 DEF CbSignalFinishedEval
<1>11. CASE CbAwake
  BY <1>11 DEF CbAwake
<1>12. CASE CbContinue
  BY <1>12 DEF CbContinue
<1>13. ASSUME NEW t \in Tasks, CbProcess(t)
      PROVE  HandoverInv'
  BY <1>13 DEF CbProcess
<1>14. ASSUME NEW t \in Tasks, NEW e \in Evals, CallFunction(t, e)
      PROVE  HandoverInv'
  BY <1>14 DEF CallFunction
<1>15. ASSUME NEW t \in Tasks, SignalFinishedPrintingVariable(t)
      PROVE  HandoverInv'
  BY <1>15 DEF SignalFinishedPrintingVariable
<1>16. ASSUME NEW t \in Tasks, EnterWait(t)
      PROVE  HandoverInv'
  BY <1>16 DEF EnterWait, LeaveWait, Pending
<1>17. ASSUME NEW t \in Tasks, Recheck(t)
      PROVE  HandoverInv'
  BY <1>17 DEF Recheck, LeaveWait, Pending
<1>18. ASSUME NEW t \in Tasks, TimeOut(t)
      PROVE  HandoverInv'
  BY <1>18 DEF TimeOut
<1>19. ASSUME NEW t \in Tasks, OutOfMemory(t)
      PROVE  HandoverInv'
  BY <1>19 DEF OutOfMemory
<1>20. CASE UNCHANGED vars
  BY <1>20 DEF vars
<1> QED
  BY <1>1, <1>2, <1>3, <1>4, <1>5, <1>6, <1>7, <1>8, <1>9, <1>10, <1>11,
     <1>12, <1>13, <1>14, <1>15, <1>16, <1>17, <1>18, <1>19, <1>20
  DEF Next, Callback, Work, WaitForEval, Evaluation

\* HandoverInv is an invariant.
LEMMA HandoverInvariant == Spec => []HandoverInv
<1>1. Init => HandoverInv
  BY DEF Init, HandoverInv, CallbackStops, OneInspection, TasksHold, StartsAlone,
         Live
<1> QED
  BY <1>1, HandoverStep, TypeCorrect, PTL DEF Spec

\* Until an evaluation times out a task reads the debuggee only while it is
\* stopped, for any number of debuggee threads, tasks and evaluations.
THEOREM InspectsStoppedHolds == Spec => []InspectsStopped
<1>1. TypeOK /\ HandoverInv => InspectsStopped
  BY DEF TypeOK, CallbackPoints, HandoverInv, InspectsStopped, CallbackStops,
         TasksHold, Held
<1> QED
  BY <1>1, TypeCorrect, HandoverInvariant, PTL

\* Until an evaluation times out no two tasks inspect the debuggee at a time.
THEOREM OneInspectionHolds == Spec => []OneInspection
<1>1. HandoverInv => OneInspection
  BY DEF HandoverInv
<1> QED
  BY <1>1, HandoverInvariant, PTL

-----------------------------------------------------------------------------
(* The refinement of Inspection.                                           *)

\* If evaluations never take longer than a minute, none ever times out.
LEMMA NeverTimedOut ==
    ASSUME "Timeout" \notin Allowed
    PROVE  Spec => []~timedOut
<1>1. Init => ~timedOut
  BY DEF Init
<1>2. ~timedOut /\ [Next]_vars => ~timedOut'
  BY DEF Next, vars, Callback, Work, WaitForEval, Evaluation, Hit,
         ForeignException, EvalReturns, EvalThrows, StopFor, Exit, CbBreakpoint,
         CbLookup, CbException, CbEvalException, CbSignalFinishedEval, CbAwake,
         CbContinue, CbProcess, CallFunction, SignalFinishedPrintingVariable,
         EnterWait, Recheck, TimeOut, OutOfMemory
<1> QED
  BY <1>1, <1>2, PTL DEF Spec

\* While no evaluation has timed out, each step of the coordinator is a step
\* of Inspection or leaves its state unchanged.
LEMMA RefinementStep ==
    TypeOK /\ HandoverInv /\ ~timedOut /\ ~timedOut' /\ [Next]_vars
        => [Abstract!Next]_(Abstract!vars)
<1> SUFFICES ASSUME TypeOK, HandoverInv, ~timedOut, ~timedOut', [Next]_vars
             PROVE  [Abstract!Next]_(Abstract!vars)
  OBVIOUS
<1> USE DEF TypeOK, CallbackPoints, HandoverInv, CallbackStops, Held, TasksHold,
            StartsAlone, OneInspection, Live,
            flagVars, taskVars, evalVars, cbVars,
            inspection, Abstract!vars, Abstract!Next
<1>1. ASSUME NEW th \in Threads, Hit(th)
      PROVE  [Abstract!Next]_(Abstract!vars)
  BY <1>1 DEF Hit, StopFor, Abstract!Stop
<1>2. ASSUME NEW th \in Threads, ForeignException(th)
      PROVE  [Abstract!Next]_(Abstract!vars)
  BY <1>2 DEF ForeignException, StopFor, Abstract!Stop
<1>3. ASSUME NEW e \in Evals, EvalReturns(e)
      PROVE  [Abstract!Next]_(Abstract!vars)
  BY <1>3 DEF EvalReturns, StopFor, Abstract!Stop
<1>4. ASSUME NEW e \in Evals, EvalThrows(e)
      PROVE  [Abstract!Next]_(Abstract!vars)
  BY <1>4 DEF EvalThrows, StopFor, Abstract!Stop
<1>5. CASE Exit
  BY <1>5 DEF Exit, Abstract!Exit
<1>6. CASE CbBreakpoint
  BY <1>6 DEF CbBreakpoint
<1>7. CASE CbLookup
  BY <1>7 DEF CbLookup
<1>8. CASE CbException
  BY <1>8 DEF CbException
<1>9. CASE CbEvalException
  BY <1>9 DEF CbEvalException
<1>10. CASE CbSignalFinishedEval
  BY <1>10 DEF CbSignalFinishedEval
<1>11. CASE CbAwake
  BY <1>11 DEF CbAwake
<1>12. CASE CbContinue
  BY <1>12 DEF CbContinue, Abstract!Resume
<1>13. ASSUME NEW t \in Tasks, CbProcess(t)
      PROVE  [Abstract!Next]_(Abstract!vars)
  BY <1>13 DEF CbProcess, Abstract!Begin
<1>14. ASSUME NEW t \in Tasks, NEW e \in Evals, CallFunction(t, e)
      PROVE  [Abstract!Next]_(Abstract!vars)
  BY <1>14 DEF CallFunction, Abstract!Evaluate
<1>15. ASSUME NEW t \in Tasks, SignalFinishedPrintingVariable(t)
      PROVE  [Abstract!Next]_(Abstract!vars)
  BY <1>15 DEF SignalFinishedPrintingVariable, Abstract!End
<1>16. ASSUME NEW t \in Tasks, EnterWait(t)
      PROVE  [Abstract!Next]_(Abstract!vars)
  BY <1>16 DEF EnterWait, LeaveWait, Pending, Abstract!Answer
<1>17. ASSUME NEW t \in Tasks, Recheck(t)
      PROVE  [Abstract!Next]_(Abstract!vars)
  BY <1>17 DEF Recheck, LeaveWait, Pending, Abstract!Answer
<1>18. ASSUME NEW t \in Tasks, TimeOut(t)
      PROVE  [Abstract!Next]_(Abstract!vars)
  BY <1>18 DEF TimeOut
<1>19. ASSUME NEW t \in Tasks, OutOfMemory(t)
      PROVE  [Abstract!Next]_(Abstract!vars)
  BY <1>19 DEF OutOfMemory, Abstract!End
<1>20. CASE UNCHANGED vars
  BY <1>20 DEF vars
<1> QED
  BY <1>1, <1>2, <1>3, <1>4, <1>5, <1>6, <1>7, <1>8, <1>9, <1>10, <1>11,
     <1>12, <1>13, <1>14, <1>15, <1>16, <1>17, <1>18, <1>19, <1>20
  DEF Next, Callback, Work, WaitForEval, Evaluation

\* If evaluations never take longer than a minute, the coordinator implements
\* Inspection: the debuggee runs only between inspections and for the
\* functions an inspection evaluates.
THEOREM CoordinatorImplementsInspection ==
    ASSUME "Timeout" \notin Allowed
    PROVE  Spec => ImplementsInspection
<1>1. Init => Abstract!Init
  BY DEF Init, Abstract!Init, inspection
<1> QED
  BY <1>1, RefinementStep, TypeCorrect, HandoverInvariant, NeverTimedOut, PTL
  DEF Spec, ImplementsInspection, Abstract!Spec

-----------------------------------------------------------------------------
(* What is reported of an evaluation.                                      *)

\* Every step keeps OutcomeInv, early wake-ups and exceptions of the program's
\* own included: an evaluation ends only while its task waits for it alone.
LEMMA OutcomeStep ==
    TypeOK /\ HandoverInv /\ OutcomeInv /\ [Next]_vars => OutcomeInv'
<1> SUFFICES ASSUME TypeOK, HandoverInv, OutcomeInv, [Next]_vars
             PROVE  OutcomeInv'
  OBVIOUS
<1> USE DEF TypeOK, CallbackPoints, HandoverInv, CallbackStops, Held, TasksHold,
            StartsAlone, OneInspection, Live,
            OutcomeInv, OutcomeIsTrue, EvalsAreAwaited, FlagTellsOutcome,
            flagVars, taskVars, evalVars, cbVars
<1>1. ASSUME NEW th \in Threads, Hit(th)
      PROVE  OutcomeInv'
  BY <1>1 DEF Hit, StopFor
<1>2. ASSUME NEW th \in Threads, ForeignException(th)
      PROVE  OutcomeInv'
  BY <1>2 DEF ForeignException, StopFor
<1>3. ASSUME NEW e \in Evals, EvalReturns(e)
      PROVE  OutcomeInv'
  BY <1>3 DEF EvalReturns, StopFor
<1>4. ASSUME NEW e \in Evals, EvalThrows(e)
      PROVE  OutcomeInv'
  BY <1>4 DEF EvalThrows, StopFor
<1>5. CASE Exit
  BY <1>5 DEF Exit
<1>6. CASE CbBreakpoint
  BY <1>6 DEF CbBreakpoint
<1>7. CASE CbLookup
  BY <1>7 DEF CbLookup
<1>8. CASE CbException
  BY <1>8 DEF CbException
<1>9. CASE CbEvalException
  BY <1>9 DEF CbEvalException
<1>10. CASE CbSignalFinishedEval
  BY <1>10 DEF CbSignalFinishedEval, NotifyTasks
<1>11. CASE CbAwake
  BY <1>11 DEF CbAwake
<1>12. CASE CbContinue
  BY <1>12 DEF CbContinue
<1>13. ASSUME NEW t \in Tasks, CbProcess(t)
      PROVE  OutcomeInv'
  BY <1>13 DEF CbProcess, NotifyTasks
<1>14. ASSUME NEW t \in Tasks, NEW e \in Evals, CallFunction(t, e)
      PROVE  OutcomeInv'
  BY <1>14 DEF CallFunction
<1>15. ASSUME NEW t \in Tasks, SignalFinishedPrintingVariable(t)
      PROVE  OutcomeInv'
  BY <1>15 DEF SignalFinishedPrintingVariable
<1>16. ASSUME NEW t \in Tasks, EnterWait(t)
      PROVE  OutcomeInv'
  BY <1>16 DEF EnterWait, LeaveWait, Pending
<1>17. ASSUME NEW t \in Tasks, Recheck(t)
      PROVE  OutcomeInv'
  BY <1>17 DEF Recheck, LeaveWait, Pending
<1>18. ASSUME NEW t \in Tasks, TimeOut(t)
      PROVE  OutcomeInv'
  BY <1>18 DEF TimeOut
<1>19. ASSUME NEW t \in Tasks, OutOfMemory(t)
      PROVE  OutcomeInv'
  BY <1>19 DEF OutOfMemory
<1>20. CASE UNCHANGED vars
  BY <1>20 DEF vars
<1> QED
  BY <1>1, <1>2, <1>3, <1>4, <1>5, <1>6, <1>7, <1>8, <1>9, <1>10, <1>11,
     <1>12, <1>13, <1>14, <1>15, <1>16, <1>17, <1>18, <1>19, <1>20
  DEF Next, Callback, Work, WaitForEval, Evaluation

\* Until an evaluation times out, what a task reports of an evaluation is what
\* happened to it, whatever exceptions the program raises and however early
\* the wait for a result wakes up.
THEOREM OutcomeIsTrueHolds == Spec => []OutcomeIsTrue
<1>1. Init => OutcomeInv
  BY DEF Init, OutcomeInv, OutcomeIsTrue, EvalsAreAwaited, FlagTellsOutcome
<1>2. OutcomeInv => OutcomeIsTrue
  BY DEF OutcomeInv
<1> QED
  BY <1>1, <1>2, OutcomeStep, TypeCorrect, HandoverInvariant, PTL DEF Spec
=============================================================================
