-------------------------- MODULE DebuggerLifecycle --------------------------
(***************************************************************************)
(* From main (consoledebugger.cc) to the destructor of Debugger            *)
(* (debugger.cc): three threads of the debugger's process share one        *)
(* Debugger object without a lock.                                         *)
(*                                                                         *)
(*   main     starts or attaches to the application, reads breakpoints     *)
(*            until the pipe is closed, and destroys the object;           *)
(*   startup  is the thread of dbgshim that runs CallbackFunction when the *)
(*            runtime of the application is there, at any time after       *)
(*            RegisterForRuntimeStartup, before it returns as well;        *)
(*   event    is the thread of ICorDebug that runs the methods of          *)
(*            DebuggerCallback, one at a time.                             *)
(*                                                                         *)
(* What SyncBreakpoints and a hit do is the matter of BreakpointCollection *)
(* and EvalCoordinator.  failed is a history of the calls that failed.     *)
(*                                                                         *)
(* ref_count_ of the callback (debugger_callback.h:216) has no             *)
(* initialiser and the project is built as C++11 and C++14: the object     *)
(* starts with whatever count its memory held.                             *)
(***************************************************************************)
EXTENDS Integers, FiniteSets

CONSTANTS
    Breakpoint,         \* breakpoints that the agent may ask for
    AppDomain,
    DomainOf,           \* the domain of a breakpoint
    CountModulus        \* of a reference count: 2^32 for a ULONG

ASSUME DomainAssumption == DomainOf \in [Breakpoint -> AppDomain]

\* Five references to the callback can be counted.
ASSUME CountAssumption == CountModulus \in Nat /\ CountModulus > 5

VARIABLES
    mode,               \* "launch", "attach", or "invalid" arguments
    os,                 \* "windows" or "unix": the pipe at its end of stream
    main, startup, event,
    kill_proc,          \* the values kill_proc_ may have: any until it is assigned
    proc_id,            \* proc_id_; 0 until it is assigned
    token,              \* unregister_token_ has been assigned
    initialized,        \* initialized_success_ of the callback
    evaluation,         \* what the two options say has been set
    handles,            \* which of "cordebug", "process" CallbackFunction has set
    first_count,        \* the value ref_count_ of the callback object happens to have
    ref_count,          \* ref_count_
    holders,            \* the CComPtrs that refer to it: debugger_callback_ of
                        \* Debugger ("main") and of BreakpointCollection ("collection")
    freed,              \* the callback object has been deleted
    handler,            \* ICorDebug has the callback for its handler
    debuggee,           \* the application
    attached,
    stops,              \* the stop count of the process
    pdbs,               \* portable_pdbs_ has a module
    active,             \* breakpoints active in the application
    pipe,               \* "open", has a kill_server message ("kill"), "cut" by the
                        \* agent, or "cancelled" by ExitProcess
    failed

references == <<first_count, ref_count, holders, freed>>
object == <<kill_proc, proc_id, token, initialized, evaluation, handles, references,
           handler>>
process == <<debuggee, attached, stops, pdbs, active>>
setting == <<mode, os>>
vars == <<setting, main, startup, event, object, process, pipe, failed>>

Pid == 1

\* The two ends of the application.
Dead == {"exited", "killed"}

\* The debugger's process has ended, by itself or by the use of a deleted object.
Over == {"ended", "crashed"}

\* A count wraps around in both directions.
Wrapped(n) ==
    IF n < 0 THEN n + CountModulus ELSE IF n < CountModulus THEN n ELSE n - CountModulus

\* n calls of AddRef, and of Release: the one that counts to 0 deletes the
\* object, whoever else refers to it.  The count is unsigned: it is not below 0.
AddRef(n) == ref_count' = Wrapped(ref_count + n) /\ UNCHANGED freed

Release(n) ==
    /\ ref_count' = Wrapped(ref_count - n)
    /\ freed' = (freed \/ ref_count \in 1..n)

\* Faulty variant: an interface is handed out without a reference.
QueryInterfaceUncounted(interfaces) == UNCHANGED <<ref_count, freed>>

\* A reference for each interface that is asked for.
QueryInterface(interfaces) == AddRef(Cardinality(interfaces))

\* What ICorDebug asks a handler for.
ManagedCallbacks ==
    {"ICorDebugManagedCallback", "ICorDebugManagedCallback2", "ICorDebugManagedCallback3"}

\* A call that fails, or does not.
Call(name, ok) == failed' = IF ok THEN failed ELSE failed \cup {<<name>>}

-----------------------------------------------------------------------------
(* Initial states *)

Init ==
    /\ mode \in {"launch", "attach", "invalid"}
    /\ os \in {"windows", "unix"}
    /\ main = "options"
    /\ startup = "none"
    /\ event = "none"
    /\ kill_proc = BOOLEAN /\ proc_id = 0 /\ token = FALSE /\ initialized = FALSE
    /\ evaluation = FALSE
    /\ first_count \in 0..CountModulus - 1 /\ ref_count = first_count
    /\ holders = {} /\ freed = FALSE
    /\ handles = {} /\ handler = FALSE
    /\ debuggee = IF mode = "launch" THEN "none" ELSE "running"
    /\ attached = FALSE /\ stops = 0 /\ pdbs = FALSE /\ active = {}
    /\ pipe = "open"
    /\ failed = {}

-----------------------------------------------------------------------------
(* main: starting *)

\* A command line or process id that main refuses destroys the object it has
\* just made.
Options ==
    /\ main = "options"
    /\ main' = CASE mode = "launch" -> "create"
                 [] mode = "attach" -> "callback"
                 [] OTHER -> "stop"
    /\ UNCHANGED <<setting, startup, event, object, process, pipe, failed>>

\* StartDebugging(command_line): the process is suspended.
CreateProcessForLaunch(ok) ==
    /\ main = "create"
    /\ Call("CreateProcessForLaunch", ok)
    /\ main' = IF ok THEN "callback" ELSE "stop"
    /\ debuggee' = IF ok THEN "suspended" ELSE debuggee
    /\ UNCHANGED <<setting, startup, event, object, attached, stops, pdbs, active,
                   pipe>>

\* StartDebugging(process_id, kill_proc), up to Initialize of the callback, which
\* gives its collection a reference back to it.  It fails without an object, or
\* without the collection's reference.
InitializeCallback(ok) ==
    /\ main = "callback"
    /\ Call("Initialize", ok)
    /\ holders' \in IF ok THEN {{"main", "collection"}} ELSE {{}, {"main"}}
    /\ AddRef(Cardinality(holders'))
    /\ initialized' = ok
    /\ main' = IF ok THEN "register" ELSE "stop"
    /\ UNCHANGED <<setting, startup, event, first_count, kill_proc, proc_id, token,
                   evaluation, handles, handler, process, pipe>>

\* Faulty variant: the process is killed by default.
RegisterToKill(ok) ==
    /\ main = "register"
    /\ Call("RegisterForRuntimeStartup", ok)
    /\ proc_id' = Pid
    /\ kill_proc' = {TRUE}
    /\ startup' = IF ok THEN "registered" ELSE startup
    /\ main' = IF ok THEN "registering" ELSE "stop"
    /\ UNCHANGED <<setting, event, token, initialized, evaluation, handles,
                   references, handler, process, pipe>>

\* kill_proc is given for a process that was launched.
RegisterForRuntimeStartup(ok) ==
    /\ main = "register"
    /\ Call("RegisterForRuntimeStartup", ok)
    /\ proc_id' = Pid
    /\ kill_proc' = {mode = "launch"}
    /\ startup' = IF ok THEN "registered" ELSE startup
    /\ main' = IF ok THEN "registering" ELSE "stop"
    /\ UNCHANGED <<setting, event, token, initialized, evaluation, handles,
                   references, handler, process, pipe>>

\* It returns: only now the token is in unregister_token_.
Registered ==
    /\ main = "registering"
    /\ token' = TRUE
    /\ main' = IF mode = "launch" THEN "resume" ELSE "settings"
    /\ UNCHANGED <<setting, startup, event, kill_proc, proc_id, initialized,
                   evaluation, handles, references, handler, process, pipe,
                   failed>>

\* Faulty variant: the process is not resumed.
ResumeForgotten(ok) ==
    /\ main = "resume"
    /\ main' = "close"
    /\ UNCHANGED <<setting, startup, event, object, process, pipe, failed>>

ResumeProcess(ok) ==
    /\ main = "resume"
    /\ Call("ResumeProcess", ok)
    /\ debuggee' = IF ok THEN "running" ELSE debuggee
    /\ main' = IF ok THEN "close" ELSE "stop"
    /\ UNCHANGED <<setting, startup, event, object, attached, stops, pdbs, active,
                   pipe>>

CloseResumeHandle(ok) ==
    /\ main = "close"
    /\ Call("CloseResumeHandle", ok)
    /\ main' = IF ok THEN "settings" ELSE "stop"
    /\ UNCHANGED <<setting, startup, event, object, process, pipe>>

\* SetPropertyEvaluation and SetMethodEvaluation.
SetEvaluation ==
    /\ main = "settings"
    /\ evaluation' = TRUE
    /\ main' = "sync"
    /\ UNCHANGED <<setting, startup, event, kill_proc, proc_id, token, initialized,
                   handles, references, handler, process, pipe, failed>>

-----------------------------------------------------------------------------
(* main: reading breakpoints *)

\* SyncBreakpoints activates a breakpoint that the agent has sent.
ActivateBreakpoint(b) ==
    /\ main = "sync" /\ pipe = "open"
    /\ attached /\ pdbs /\ debuggee = "running"
    /\ active' = active \cup {b}
    /\ UNCHANGED <<setting, main, startup, event, object, debuggee, attached, stops,
                   pdbs, pipe, failed>>

\* Faulty variant: only the agent can end it.
SyncReturnsOnKill(ok) ==
    /\ main = "sync"
    /\ ok => pipe = "kill"
    /\ Call("SyncBreakpoints", ok)
    /\ main' = "stop"
    /\ UNCHANGED <<setting, startup, event, object, process, pipe>>

\* The agent asks for the end, or the read fails: in any case for a reason of
\* its own (not ok), and on Windows when the pipe is closed at either end.  On
\* Unix recv returns 0 for a closed pipe, and ReadBreakpoint calls it again.
SyncReturns(ok) ==
    /\ main = "sync"
    /\ ok => \/ pipe = "kill"
             \/ os = "windows" /\ pipe \in {"cut", "cancelled"}
    /\ Call("SyncBreakpoints", ok)
    /\ main' = "stop"
    /\ UNCHANGED <<setting, startup, event, object, process, pipe>>

-----------------------------------------------------------------------------
(* main: the destructor *)

\* Without a process there is nothing to detach from.
StopProcess(ok) ==
    /\ main = "stop"
    /\ IF "process" \in handles
       THEN /\ Call("Stop", ok)
            /\ stops' = IF ok /\ debuggee \notin Dead THEN stops + 1 ELSE stops
            /\ main' = "deactivate"
       ELSE /\ ok
            /\ main' = "terminate"
            /\ UNCHANGED <<stops, failed>>
    /\ UNCHANGED <<setting, startup, event, object, debuggee, attached, pdbs, active,
                   pipe>>

\* DeactivateBreakpoints: domains are those whose breakpoints can be enumerated,
\* failing the breakpoints whose Activate fails.
DeactivateBreakpoints(enumerates, domains, failing) ==
    LET reached == {b \in active : DomainOf[b] \in domains}
        failures == {<<"EnumerateBreakpoints", d>> : d \in AppDomain \ domains}
                    \cup {<<"Activate", b>> : b \in failing}
    IN /\ main = "deactivate"
       /\ IF enumerates
          THEN /\ failed' = failed \cup failures
               /\ active' = active \ (reached \ failing)
          ELSE /\ failed' = failed \cup {<<"EnumerateAppDomains">>}
               /\ active' = active
       /\ main' = "detach"
       /\ UNCHANGED <<setting, startup, event, object, debuggee, attached, stops,
                      pdbs, pipe>>

\* Faulty variant: the process is left without Detach.
DetachForgotten(ok) ==
    /\ main = "detach"
    /\ main' = "terminate"
    /\ UNCHANGED <<setting, startup, event, object, process, pipe, failed>>

\* The process runs on.  A method of the callback may keep it from being detached.
Detach(ok) ==
    /\ main = "detach"
    /\ Call("Detach", ok)
    /\ attached' = (attached /\ ~ok)
    /\ stops' = IF ok THEN 0 ELSE stops
    /\ main' = "terminate"
    /\ UNCHANGED <<setting, startup, event, object, debuggee, pdbs, active, pipe>>

\* Terminate is refused while a process is debugged; otherwise it waits for the
\* method of the callback that runs, and gives the callback back.  A Release that
\* is called on what an earlier one has deleted may do anything.
Terminate(ok) ==
    /\ main = "terminate"
    /\ IF "cordebug" \in handles
       THEN /\ ok => ~attached /\ event = "none" /\ handler
            /\ Call("Terminate", ok)
            /\ IF ok THEN Release(Cardinality(ManagedCallbacks)) /\ handler' = FALSE
               ELSE UNCHANGED <<ref_count, freed, handler>>
       ELSE ok /\ UNCHANGED <<ref_count, freed, handler, failed>>
    /\ main' = "kill" \/ (main' = "crashed" /\ ~freed /\ freed' /\ ref_count < 3)
    /\ UNCHANGED <<setting, startup, event, first_count, holders, kill_proc, proc_id,
                   token, initialized, evaluation, handles, process, pipe>>

\* 0 is the process group of the debugger, not the application.
Kill(kills, ok) ==
    /\ main = "kill"
    /\ kills \in kill_proc
    /\ IF kills
       THEN /\ Call("kill", ok)
            /\ debuggee' = IF ok /\ proc_id = Pid /\ debuggee \notin Dead THEN "killed"
                           ELSE debuggee
       ELSE ok /\ UNCHANGED <<debuggee, failed>>
    /\ main' = "release"
    /\ UNCHANGED <<setting, startup, event, object, attached, stops, pdbs, active,
                   pipe>>

\* The members are destroyed, debugger_callback_ with its reference.
ReleaseMembers ==
    /\ main = "release"
    /\ IF "main" \in holders THEN Release(1) ELSE UNCHANGED <<ref_count, freed>>
    /\ holders' = holders \ {"main"}
    /\ handles' = {}
    /\ main' = "ended" \/ (main' = "crashed" /\ freed)
    /\ UNCHANGED <<setting, startup, event, first_count, kill_proc, proc_id, token,
                   initialized, evaluation, handler, process, pipe, failed>>

-----------------------------------------------------------------------------
(* startup: CallbackFunction *)

\* The process of the debugger is still there.
Alive == main \notin Over

\* The runtime of the application has started, or dbgshim gives up.
RuntimeStarts(ok) ==
    /\ Alive /\ startup = "registered"
    /\ ok => debuggee = "running"
    /\ Call("RuntimeStartup", ok)
    /\ startup' = IF ok THEN "unregister" ELSE "done"
    /\ UNCHANGED <<setting, main, event, object, process, pipe>>

\* UnregisterForRuntimeStartup and QueryInterface.  A token that has not been
\* assigned yet names no registration.
QueryICorDebug(ok) ==
    /\ Alive /\ startup = "unregister"
    /\ Call("QueryInterface", ok)
    /\ handles' = IF ok THEN handles \cup {"cordebug"} ELSE handles
    /\ startup' = IF ok THEN "initialize" ELSE "done"
    /\ UNCHANGED <<setting, main, event, kill_proc, proc_id, token, initialized,
                   evaluation, references, handler, process, pipe>>

\* Initialize of ICorDebug and SetManagedHandler.
SetManagedHandler(ok) ==
    /\ Alive /\ startup = "initialize"
    /\ Call("SetManagedHandler", ok)
    /\ IF ok THEN QueryInterface(ManagedCallbacks) ELSE UNCHANGED <<ref_count, freed>>
    /\ handler' = ok
    /\ startup' = IF ok THEN "attach" ELSE "done"
    /\ UNCHANGED <<setting, main, event, first_count, holders, kill_proc, proc_id,
                   token, initialized, evaluation, handles, process, pipe>>

\* Events may come before the process is stored.
DebugActiveProcess(ok) ==
    /\ Alive /\ startup = "attach"
    /\ ok => debuggee = "running" /\ proc_id = Pid
    /\ Call("DebugActiveProcess", ok)
    /\ attached' = ok
    /\ startup' = IF ok THEN "store" ELSE "done"
    /\ UNCHANGED <<setting, main, event, object, debuggee, stops, pdbs, active, pipe>>

\* cordebug_process_ and SetDebugProcess.
StoreProcess ==
    /\ Alive /\ startup = "store"
    /\ handles' = handles \cup {"process"}
    /\ startup' = "done"
    /\ UNCHANGED <<setting, main, event, kill_proc, proc_id, token, initialized,
                   evaluation, references, handler, process, pipe, failed>>

-----------------------------------------------------------------------------
(* event: DebuggerCallback *)

\* The methods whose effect is seen here; "stub" stands for those that only
\* continue, the ones with an evaluation or an exception among them.
Events == {"Breakpoint", "LoadModule", "stub"}

\* ICorDebug stops the process and calls a method of the handler.
Dispatch(e) ==
    /\ Alive /\ event = "none"
    /\ attached /\ debuggee = "running" /\ stops = 0 /\ handler
    /\ e = "Breakpoint" => active # {}
    /\ event' = e
    /\ stops' = 1
    /\ UNCHANGED <<setting, main, startup, object, debuggee, attached, pdbs, active,
                   pipe, failed>>

\* Every method continues, whether or not it succeeded.
Continue(ok) ==
    /\ Alive /\ event \in Events
    /\ pdbs' = (pdbs \/ (event = "LoadModule" /\ ok))
    /\ stops' = IF stops > 0 THEN stops - 1 ELSE 0
    /\ event' = "none"
    /\ UNCHANGED <<setting, main, startup, object, debuggee, attached, active, pipe,
                   failed>>

\* ExitProcess does not continue.  CancelSyncBreakpoints tells the agent and
\* closes the pipes; when the agent cannot be told they stay as they are.  What
\* the agent had asked for before is still read.
ExitProcess(ok) ==
    /\ Alive /\ event = "none"
    /\ attached /\ debuggee \in Dead /\ handler
    /\ attached' = FALSE
    /\ Call("CancelSyncBreakpoints", ok)
    /\ pipe' = IF ok /\ main = "sync" /\ pipe # "kill" THEN "cancelled" ELSE pipe
    /\ UNCHANGED <<setting, main, startup, event, object, debuggee, stops, pdbs,
                   active>>

-----------------------------------------------------------------------------
(* The application and the agent *)

DebuggeeExits ==
    /\ debuggee = "running" /\ stops = 0
    /\ debuggee' = "exited"
    /\ active' = {}
    /\ UNCHANGED <<setting, main, startup, event, object, attached, stops, pdbs,
                   pipe, failed>>

\* The agent sends a kill_server message, or ends without one.
AgentClosesPipe ==
    /\ pipe = "open"
    /\ pipe' \in {"kill", "cut"}
    /\ UNCHANGED <<setting, main, startup, event, object, process, failed>>

-----------------------------------------------------------------------------
MainStep ==
    \/ Options \/ Registered \/ SetEvaluation \/ ReleaseMembers
    \/ \E ok \in BOOLEAN :
        \/ CreateProcessForLaunch(ok) \/ InitializeCallback(ok)
        \/ RegisterForRuntimeStartup(ok) \/ ResumeProcess(ok) \/ CloseResumeHandle(ok)
        \/ StopProcess(ok) \/ Detach(ok) \/ Terminate(ok)
        \/ \E kills \in BOOLEAN : Kill(kills, ok)
        \/ \E domains \in SUBSET AppDomain, failing \in SUBSET active :
               DeactivateBreakpoints(ok, domains, failing)
    \/ SyncReturns(TRUE)

StartupStep ==
    \/ \E ok \in BOOLEAN :
        RuntimeStarts(ok) \/ QueryICorDebug(ok) \/ SetManagedHandler(ok) \/ DebugActiveProcess(ok)
    \/ StoreProcess

EventStep == \E ok \in BOOLEAN : ExitProcess(ok) \/ Continue(ok)

Next ==
    \/ MainStep \/ StartupStep \/ EventStep
    \/ SyncReturns(FALSE)
    \/ \E b \in Breakpoint : ActivateBreakpoint(b)
    \/ \E e \in Events : Dispatch(e)
    \/ DebuggeeExits
    \/ AgentClosesPipe

\* Each thread of the debugger is scheduled; the application, the agent and
\* the calls that fail promise nothing.
Fairness == WF_vars(MainStep) /\ WF_vars(EventStep)

Spec == Init /\ [][Next]_vars /\ Fairness

-----------------------------------------------------------------------------
(* Properties *)

FlagsOK ==
    /\ kill_proc \in {{TRUE}, {FALSE}, BOOLEAN}
    /\ token \in BOOLEAN /\ initialized \in BOOLEAN /\ evaluation \in BOOLEAN
    /\ freed \in BOOLEAN /\ handler \in BOOLEAN
    /\ attached \in BOOLEAN /\ pdbs \in BOOLEAN

\* The type invariant; the process is stopped by at most one event and by Stop.
TypeOK ==
    /\ mode \in {"launch", "attach", "invalid"} /\ os \in {"windows", "unix"}
    /\ main \in {"options", "create", "callback", "register", "registering", "resume",
                 "close", "settings", "sync", "stop", "deactivate", "detach", "terminate",
                 "kill", "release"} \cup Over
    /\ startup \in {"none", "registered", "unregister", "initialize", "attach", "store", "done"}
    /\ event \in Events \cup {"none"}
    /\ FlagsOK
    /\ proc_id \in {0, Pid}
    /\ handles \subseteq {"cordebug", "process"}
    /\ first_count \in 0..CountModulus - 1 /\ ref_count \in 0..CountModulus - 1
    /\ holders \subseteq {"main", "collection"}
    /\ debuggee \in {"none", "suspended", "running"} \cup Dead
    /\ stops \in 0..2
    /\ active \subseteq Breakpoint
    /\ pipe \in {"open", "kill", "cut", "cancelled"}

\* Nothing orders main and the thread of dbgshim but what main has done before it
\* registers: when CallbackFunction attaches, the callback has been initialised
\* and the process id it uses is the one of the application.
StartupSeesDebugger ==
    startup \in {"unregister", "initialize", "attach", "store"} =>
        /\ initialized
        /\ proc_id = Pid
        /\ kill_proc # BOOLEAN

\* Options reach the evaluation before any breakpoint can be hit, though the
\* application runs before they are passed on.
HitsSeeOptions == event = "Breakpoint" => evaluation

\* A count that starts this high reaches 0 while there are references: after one,
\* two or three of those that ICorDebug gives back, or at the one of main when
\* ICorDebug gives none back.
Unlucky == first_count \in CountModulus - 4..CountModulus - 2

\* The methods of the callback never run, and Release is never called, on a
\* deleted object, in whatever order main and ICorDebug give their references
\* back and wherever the indeterminate count starts, but for three of its values.
CallbackOutlivesEvents ==
    \/ ~freed
    \/ ~handler /\ "main" \notin holders /\ main # "crashed"
    \/ Unlucky

\* A breakpoint that is still active when the debugger detaches had a failing
\* call of its own: one application domain, or one breakpoint, that fails does
\* not keep the others active.
LeftActiveOnlyForItsFailure ==
    main = "detach" =>
        \A b \in active :
            \/ <<"EnumerateAppDomains">> \in failed
            \/ <<"EnumerateBreakpoints", DomainOf[b]>> \in failed
            \/ <<"Activate", b>> \in failed

\* The regular end of the debugger: an application it started is dead, unless kill failed
\* or the callback could not be initialised, which leaves kill_proc_ unassigned;
\* an application it attached to is not killed.
OnlyLaunchedIsKilled ==
    main = "ended" =>
        /\ mode = "launch" /\ debuggee # "none" =>
               debuggee \in Dead \/ <<"kill">> \in failed \/ <<"Initialize">> \in failed
        /\ mode # "launch" => debuggee # "killed"

\* An application that the destructor finds attached is let go: in the end the
\* debugger is detached from it and it is not stopped, also when a method of the
\* callback was running, unless Detach failed.
AttachedIsReleased ==
    main = "deactivate" ~>
        main \in Over /\ ((~attached /\ stops = 0) \/ <<"Detach">> \in failed)

\* A process that was launched suspended does not stay so: it is resumed or
\* killed, unless the callback could not be initialised or kill failed.
SuspendedIsResumed ==
    debuggee = "suspended" ~>
        \/ debuggee # "suspended"
        \/ <<"Initialize">> \in failed \/ <<"kill">> \in failed

\* The debugger ends, whatever it has got to by then, when the agent asks for it
\* and, on Windows, when the application exits while breakpoints are read.  On
\* Unix the second is not true: SyncBreakpoints never returns.
ExitEndsDebugger ==
    (pipe = "kill" \/ (pipe = "cancelled" /\ os = "windows")) ~> main \in Over
-----------------------------------------------------------------------------
(* The inductive invariant *)

\* What main has done before it is where it is.
Ordered ==
    /\ main \in {"options", "create", "callback", "register"} =>
           startup = "none" /\ proc_id = 0
    /\ main = "register" => initialized
    /\ startup # "none" => initialized /\ proc_id = Pid
    /\ proc_id = Pid => kill_proc = IF mode = "launch" THEN {TRUE} ELSE {FALSE}
    /\ main = "sync" \/ active # {} => evaluation
    /\ main \in {"options", "create"} /\ mode = "launch" => debuggee = "none"
    /\ main \in {"registering", "resume", "close", "settings", "sync"} => proc_id = Pid
    /\ stops <= 1 \/ main \in {"deactivate", "detach", "terminate", "kill", "release",
                               "ended", "crashed"}

\* The references to the callback object: one of main and one of the collection
\* from Initialize on, and those of ICorDebug while it has it for its handler.
References ==
    (IF "main" \in holders THEN 1 ELSE 0) + (IF "collection" \in holders THEN 1 ELSE 0)
    + (IF handler THEN 3 ELSE 0)

\* Until the object is deleted its count differs from the references by what it
\* started with, and it is deleted under a reference only where that is Unlucky.
Counted ==
    /\ ~freed => ref_count = Wrapped(first_count + References)
    /\ handler => "collection" \in holders /\ startup \in {"attach", "store", "done"}
    /\ main \in {"options", "create", "callback"} => holders = {} /\ ~handler
    /\ main = "register" \/ startup # "none" => "collection" \in holders
    /\ "collection" \in holders /\ main \notin Over => "main" \in holders
    /\ main = "crashed" => freed
    /\ freed => Unlucky \/ (main = "ended" /\ ~handler)
    /\ main \in Over => "main" \notin holders \/ Unlucky

\* From the failure or the end of the reading on, an application that was
\* launched is going to be killed.
Ending ==
    /\ mode # "launch" => debuggee # "killed"
    /\ /\ mode = "launch" /\ debuggee # "none"
       /\ main \notin {"options", "create", "callback", "register"}
       => proc_id = Pid \/ <<"Initialize">> \in failed
    /\ main \in {"release", "ended"} /\ mode = "launch" /\ debuggee # "none" =>
           debuggee \in Dead \/ <<"kill">> \in failed \/ <<"Initialize">> \in failed

Inv ==
    /\ TypeOK /\ Ordered /\ Counted /\ Ending
    /\ HitsSeeOptions /\ LeftActiveOnlyForItsFailure
=============================================================================
