------------------------------- MODULE Agent -------------------------------
(***************************************************************************)
(* The agent process (C#): its main thread, which starts the debugger and  *)
(* blocks (Agent.StartAndBlock), the thread that polls the debugger        *)
(* service and writes breakpoints to the debugger (StartWriteLoopAsync,    *)
(* BreakpointWriteActionServer, BreakpointManager), and the thread that    *)
(* reads hit breakpoints from the debugger and reports them to the service *)
(* (StartReadLoopAsync, BreakpointReadActionServer).  The two loops share  *)
(* a DebuggerClient with a lock, the cancellation source _cts and the      *)
(* completion source _tcs.                                                 *)
(*                                                                         *)
(* The debugger process and the service are external: they do what the     *)
(* agent's code has to cope with.                                          *)
(***************************************************************************)
EXTENDS Naturals, Sequences

CONSTANTS
    Ids,          \* breakpoint identifiers of the service
    LogPoints,    \* breakpoints whose action is Log
    MinBackOff,   \* _minBackOffWaitTime
    MaxBackOff,   \* _maxBackOffWaitTime
    Events,       \* which of the rare events below may happen
    MaxFailures,  \* bound on the RPCs that fail
    MaxChanges,   \* bound on the changes of the service's list
    MaxReports    \* bound on the breakpoints the debugger reports

\* "Disabled": the service disables the debuggee.
\* "Forgotten": the service no longer knows the debuggee (NotFound).
\* "Exit": the debuggee exits, and the debugger with it.
RareEvents == {"Disabled", "Forgotten", "Exit"}

ASSUME EventsAssumption == Events \subseteq RareEvents
ASSUME LogPointsAssumption == LogPoints \subseteq Ids
ASSUME BackOffAssumption ==
    MinBackOff \in Nat \ {0} /\ MaxBackOff \in Nat /\ MinBackOff <= MaxBackOff
ASSUME BoundsAssumption ==
    MaxFailures \in Nat /\ MaxChanges \in Nat /\ MaxReports \in Nat

VARIABLES
    main,       \* control point of StartAndBlock
    writer,     \* control point of the write thread
    reader,     \* control point of the read thread
    cts,        \* _cts has been cancelled
    tcs,        \* _tcs has been completed
    lock,       \* DebuggerClient._mutex
    manager,    \* BreakpointManager._breakpointDictionary
    removed,    \* bpmResponse.Removed still to be written
    added,      \* bpmResponse.New still to be written
    report,     \* the breakpoint the read thread is reporting
    wait,       \* currentWaitTime of each loop
    crashed,    \* an unhandled exception has ended the process
    service,    \* what the service knows of the debuggee
    active,     \* the service's list of active breakpoints
    reported,   \* breakpoints the service has been told of
    debugger,   \* the debugger process
    inlet,      \* the debugger's read client has connected
    outlet,     \* the debugger's write client has connected
    told,       \* breakpoints last written to the debugger as activated
    killSent,   \* kill_server has been written to the debugger
    inbox,      \* messages from the debugger
    failed,     \* number of RPCs that have failed
    changes,    \* number of changes of the service's list
    reports     \* number of breakpoints the debugger has reported

threadVars   == <<main, writer, reader>>
signalVars   == <<cts, tcs, lock, crashed>>
managerVars  == <<manager, removed, added>>
backOffVars  == <<wait, failed>>
serviceVars  == <<service, active, reported, changes>>
debuggerVars == <<debugger, inlet, outlet, told, killSent, inbox, reports>>
vars == <<threadVars, signalVars, managerVars, report, backOffVars, serviceVars,
          debuggerVars>>

Loops == {"write", "read"}
Kill  == [kill |-> TRUE]
Report(id) == [kill |-> FALSE, id |-> id]

\* The type invariant; a read thread past ReadBreakpointAsync has a breakpoint
\* to report.
TypeOK ==
    /\ main \in {"register", "waitWrite", "waitRead", "block", "returned"}
    /\ writer \in {"none", "connect", "loop", "list", "poll", "repoll", "write",
                   "kill", "done"}
    /\ reader \in {"none", "connect", "loop", "read", "log", "update",
                   "register", "reupdate", "done"}
    /\ cts \in BOOLEAN /\ tcs \in BOOLEAN /\ crashed \in BOOLEAN
    /\ lock \in {"write", "free"}
    /\ manager \in SUBSET Ids /\ removed \in SUBSET Ids /\ added \in SUBSET Ids
    /\ report \in Ids \cup {"none"}
    /\ reader \in {"log", "update", "register", "reupdate"} => report \in Ids
    /\ wait \in [Loops -> 0..MaxBackOff]
    /\ failed \in 0..MaxFailures
    /\ service \in {"known", "forgotten", "disabled"}
    /\ active \in SUBSET Ids /\ reported \in SUBSET Ids
    /\ changes \in 0..MaxChanges
    /\ debugger \in {"none", "starting", "connected", "exiting", "gone"}
    /\ inlet \in BOOLEAN /\ outlet \in BOOLEAN /\ killSent \in BOOLEAN
    /\ told \in SUBSET Ids
    /\ inbox \in Seq({Kill} \cup {Report(id) : id \in Ids})
    /\ reports \in 0..MaxReports

Init ==
    /\ main = "register" /\ writer = "none" /\ reader = "none"
    /\ cts = FALSE /\ tcs = FALSE /\ lock = "free" /\ crashed = FALSE
    /\ manager = {} /\ removed = {} /\ added = {}
    /\ report = "none"
    /\ wait = [t \in Loops |-> 0]
    /\ failed = 0
    /\ service = "known" /\ active = {} /\ reported = {} /\ changes = 0
    /\ debugger = "none" /\ inlet = FALSE /\ outlet = FALSE
    /\ told = {} /\ killSent = FALSE
    /\ inbox = <<>> /\ reports = 0

-----------------------------------------------------------------------------
(* The service and the debugger process.                                   *)

\* Users set and delete breakpoints.
ServiceChange(id) ==
    /\ changes < MaxChanges
    /\ active' = IF id \in active THEN active \ {id} ELSE active \cup {id}
    /\ changes' = changes + 1
    /\ UNCHANGED <<threadVars, signalVars, managerVars, report, backOffVars,
                   service, reported, debuggerVars>>

\* The service disables the debuggee, or drops it for inactivity (not between
\* a registration and the call that is repeated right after it).
ServiceDrops ==
    /\ service = "known"
    /\ \/ "Disabled" \in Events /\ service' = "disabled"
       \/ /\ "Forgotten" \in Events
          /\ writer # "repoll" /\ reader # "reupdate"
          /\ service' = "forgotten"
    /\ UNCHANGED <<threadVars, signalVars, managerVars, report, backOffVars,
                   active, reported, changes, debuggerVars>>

\* SyncBreakpoints connects the debugger's read client.
DebuggerConnects ==
    /\ debugger = "starting" /\ writer = "connect"
    /\ debugger' = "connected"
    /\ inlet' = TRUE
    /\ UNCHANGED <<threadVars, signalVars, managerVars, report, backOffVars,
                   serviceVars, outlet, told, killSent, inbox, reports>>

\* A breakpoint is hit and written; the write client connects on first use,
\* which needs the agent's second pipe server.
DebuggerReports(id) ==
    /\ debugger = "connected" /\ id \in told /\ reports < MaxReports
    /\ outlet \/ reader = "connect"
    /\ outlet' = TRUE
    /\ inbox' = Append(inbox, Report(id))
    /\ reports' = reports + 1
    /\ UNCHANGED <<threadVars, signalVars, managerVars, report, backOffVars,
                   serviceVars, debugger, inlet, told, killSent>>

\* The debuggee exits: CancelSyncBreakpoints writes the kill breakpoint, if
\* there is a write client, and shuts the pipes down afterwards.  (Or the
\* debugger fails before it has connected.)
DebuggeeExits ==
    /\ "Exit" \in Events /\ debugger \in {"starting", "connected"}
    /\ IF outlet
       THEN debugger' = "exiting" /\ inbox' = Append(inbox, Kill)
       ELSE debugger' = "gone" /\ UNCHANGED inbox
    /\ UNCHANGED <<threadVars, signalVars, managerVars, report, backOffVars,
                   serviceVars, inlet, outlet, told, killSent, reports>>

\* The debugger's pipes are closed: after its exit, or when SyncBreakpoints
\* has read the kill breakpoint and the process has ended.
DebuggerGone ==
    /\ debugger = "exiting" \/ (debugger = "connected" /\ killSent)
    /\ debugger' = "gone"
    /\ UNCHANGED <<threadVars, signalVars, managerVars, report, backOffVars,
                   serviceVars, inlet, outlet, told, killSent, inbox, reports>>

-----------------------------------------------------------------------------
(* The main thread.                                                        *)

\* TryAction on a DebuggeeDisabledException: a _tcs that is completed already
\* throws in turn, which nobody catches.
CompleteTcs ==
    IF tcs THEN crashed' = TRUE /\ UNCHANGED tcs
           ELSE tcs' = TRUE /\ UNCHANGED crashed

\* StartAndBlock: Register fails with an RpcException, which nobody catches.
MainRegisterFails ==
    /\ ~crashed /\ main = "register" /\ failed < MaxFailures
    /\ failed' = failed + 1
    /\ crashed' = TRUE
    /\ UNCHANGED <<threadVars, cts, tcs, lock, managerVars, report, wait,
                   serviceVars, debuggerVars>>

\* StartAndBlock: Register, start the debugger, start the write thread.  The
\* debugger is started even when the debuggee is disabled.
MainRegister ==
    /\ ~crashed /\ main = "register"
    /\ \/ service = "disabled" /\ CompleteTcs /\ UNCHANGED service
       \/ service # "disabled" /\ service' = "known" /\ UNCHANGED <<tcs, crashed>>
    /\ debugger' = "starting"
    /\ writer' = "connect"
    /\ main' = "waitWrite"
    /\ UNCHANGED <<reader, cts, lock, managerVars, report, backOffVars, active,
                   reported, changes, inlet, outlet, told, killSent, inbox, reports>>

\* The write server is connected: start the read thread.
MainStartsReader ==
    /\ ~crashed /\ main = "waitWrite" /\ writer \notin {"none", "connect"}
    /\ reader' = "connect"
    /\ main' = "waitRead"
    /\ UNCHANGED <<writer, signalVars, managerVars, report, backOffVars,
                   serviceVars, debuggerVars>>

\* The read server is connected: block on _tcs.
MainBlocks ==
    /\ ~crashed /\ main = "waitRead" /\ reader \notin {"none", "connect"}
    /\ main' = "block"
    /\ UNCHANGED <<writer, reader, signalVars, managerVars, report, backOffVars,
                   serviceVars, debuggerVars>>

\* _tcs is completed: Dispose kills the debugger, which may throw if it has
\* exited already, and cancels _cts.  The threads are foreground threads.
MainReturns ==
    /\ ~crashed /\ main = "block" /\ tcs
    /\ \/ /\ main' = "returned" /\ cts' = TRUE /\ debugger' = "gone"
          /\ UNCHANGED crashed
       \/ /\ debugger = "gone" /\ crashed' = TRUE
          /\ UNCHANGED <<main, cts, debugger>>
    /\ UNCHANGED <<writer, reader, tcs, lock, managerVars, report, backOffVars,
                   serviceVars, inlet, outlet, told, killSent, inbox, reports>>

-----------------------------------------------------------------------------
(* BreakpointActionServer.StartActionLoop: what becomes of currentWaitTime *)
(* after a successful action of loop t, and after an RpcException.         *)

Smaller(a, b) == IF a < b THEN a ELSE b

BackOff(w) ==
    LET doubled == IF w < MaxBackOff THEN Smaller(w * 2, MaxBackOff) ELSE w
    IN  IF doubled = 0 THEN MinBackOff ELSE doubled

Succeeds(t) ==
    /\ wait' = [wait EXCEPT ![t] = 0]
    /\ UNCHANGED failed

RpcFails(t) ==
    /\ failed < MaxFailures
    /\ failed' = failed + 1
    /\ wait' = [wait EXCEPT ![t] = BackOff(@)]

-----------------------------------------------------------------------------
(* The write thread.                                                       *)

WriteConnected ==
    /\ ~crashed /\ writer = "connect" /\ inlet
    /\ writer' = "loop"
    /\ UNCHANGED <<main, reader, signalVars, managerVars, report, backOffVars,
                   serviceVars, debuggerVars>>

\* The loop's condition.
WriteLoop ==
    /\ ~crashed /\ writer = "loop"
    /\ writer' = IF cts THEN "kill" ELSE "list"
    /\ UNCHANGED <<main, reader, signalVars, managerVars, report, backOffVars,
                   serviceVars, debuggerVars>>

\* ListBreakpoints takes the lock for the time of the call, a long poll.
ListBreakpoints ==
    /\ ~crashed /\ writer = "list" /\ lock = "free"
    /\ lock' = "write"
    /\ writer' = "poll"
    /\ UNCHANGED <<main, reader, cts, tcs, crashed, managerVars, report,
                   backOffVars, serviceVars, debuggerVars>>

\* Faulty variant: breakpoints that left the list are only forgotten.
UpdateWithoutRemoved ==
    /\ ~crashed /\ writer \in {"poll", "repoll"} /\ service # "forgotten"
    /\ added' = active \ manager
    /\ manager' = active
    /\ lock' = "free"
    /\ writer' = "write"
    /\ UNCHANGED <<main, reader, cts, tcs, crashed, removed, report, backOffVars,
                   serviceVars, debuggerVars>>

\* The service answers with its list: BreakpointManager.UpdateBreakpoints.
UpdateBreakpoints ==
    /\ ~crashed /\ writer \in {"poll", "repoll"} /\ service # "forgotten"
    /\ added' = active \ manager
    /\ removed' = manager \ active
    /\ manager' = active
    /\ lock' = "free"
    /\ writer' = "write"
    /\ UNCHANGED <<main, reader, cts, tcs, crashed, report, backOffVars,
                   serviceVars, debuggerVars>>

\* The poll expires (SuccessOnTimeout): MainAction returns.
PollExpires ==
    /\ ~crashed /\ writer \in {"poll", "repoll"} /\ service # "forgotten"
    /\ active = manager
    /\ lock' = "free"
    /\ writer' = "loop"
    /\ Succeeds("write")
    /\ UNCHANGED <<main, reader, cts, tcs, crashed, managerVars, report,
                   serviceVars, debuggerVars>>

\* Faulty variant: the lock is not released when the call throws.
PollFailsLocked ==
    /\ ~crashed /\ writer \in {"poll", "repoll"}
    /\ RpcFails("write")
    /\ writer' = "loop"
    /\ UNCHANGED <<main, reader, signalVars, managerVars, report, serviceVars,
                   debuggerVars>>

\* The call fails, or the one that registers the debuggee again.
PollFails ==
    /\ ~crashed /\ writer \in {"poll", "repoll"}
    /\ RpcFails("write")
    /\ lock' = "free"
    /\ writer' = "loop"
    /\ UNCHANGED <<main, reader, cts, tcs, crashed, managerVars, report,
                   serviceVars, debuggerVars>>

\* Faulty variant: the lock is not released when Register throws.
PollRegistersLocked ==
    /\ ~crashed /\ writer = "poll" /\ service # "known"
    /\ \/ /\ service = "forgotten"
          /\ service' = "known"
          /\ writer' = "repoll"
          /\ UNCHANGED <<tcs, crashed>>
       \/ /\ service = "disabled" \/ "Disabled" \in Events
          /\ service' = "disabled"
          /\ CompleteTcs
          /\ writer' = "kill"
    /\ UNCHANGED <<main, reader, cts, lock, managerVars, report, backOffVars,
                   active, reported, changes, debuggerVars>>

\* DebuggerClient.TryAction: the debuggee is not found and is registered
\* again, in the lock that is held already; a disabled one ends the loop.
PollRegisters ==
    /\ ~crashed /\ writer = "poll" /\ service # "known"
    /\ \/ /\ service = "forgotten"
          /\ service' = "known"
          /\ writer' = "repoll"
          /\ UNCHANGED <<lock, tcs, crashed>>
       \/ /\ service = "disabled" \/ "Disabled" \in Events
          /\ service' = "disabled"
          /\ CompleteTcs
          /\ lock' = "free"
          /\ writer' = "kill"
    /\ UNCHANGED <<main, reader, cts, managerVars, report, backOffVars, active,
                   reported, changes, debuggerVars>>

\* MainAction writes the removed breakpoints and then the new ones.  Writing
\* to a closed pipe throws, which the loop does not catch.
WriteNext ==
    /\ ~crashed /\ writer = "write"
    /\ \/ /\ debugger # "gone"
          /\ \E id \in removed :
                removed' = removed \ {id} /\ told' = told \ {id}
          /\ UNCHANGED <<added, crashed>>
       \/ /\ debugger # "gone" /\ removed = {}
          /\ \E id \in added : added' = added \ {id} /\ told' = told \cup {id}
          /\ UNCHANGED <<removed, crashed>>
       \/ /\ debugger = "gone" /\ removed \cup added # {}
          /\ crashed' = TRUE
          /\ UNCHANGED <<removed, added, told>>
    /\ UNCHANGED <<threadVars, cts, tcs, lock, manager, report, backOffVars,
                   serviceVars, debugger, inlet, outlet, killSent, inbox, reports>>

WriteEnds ==
    /\ ~crashed /\ writer = "write" /\ removed \cup added = {}
    /\ writer' = "loop"
    /\ Succeeds("write")
    /\ UNCHANGED <<main, reader, signalVars, managerVars, report, serviceVars,
                   debuggerVars>>

\* The last message of the write thread, outside the loop, then Dispose.
WriteKill ==
    /\ ~crashed /\ writer = "kill"
    /\ IF debugger = "gone"
       THEN crashed' = TRUE /\ UNCHANGED <<writer, killSent>>
       ELSE writer' = "done" /\ killSent' = TRUE /\ UNCHANGED crashed
    /\ UNCHANGED <<main, reader, cts, tcs, lock, managerVars, report,
                   backOffVars, serviceVars, debugger, inlet, outlet, told, inbox,
                   reports>>

-----------------------------------------------------------------------------
(* The read thread.                                                        *)

ReadConnected ==
    /\ ~crashed /\ reader = "connect" /\ outlet
    /\ reader' = "loop"
    /\ UNCHANGED <<main, writer, signalVars, managerVars, report, backOffVars,
                   serviceVars, debuggerVars>>

ReadLoop ==
    /\ ~crashed /\ reader = "loop"
    /\ reader' = IF cts THEN "done" ELSE "read"
    /\ UNCHANGED <<main, writer, signalVars, managerVars, report, backOffVars,
                   serviceVars, debuggerVars>>

\* ReadBreakpointAsync, which is not cancelled by _cts and does not return at
\* the end of the stream; on KillServer _cts is cancelled.
ReadBreakpoint ==
    /\ ~crashed /\ reader = "read" /\ inbox # <<>>
    /\ inbox' = Tail(inbox)
    /\ IF Head(inbox).kill
       THEN /\ cts' = TRUE
            /\ reader' = "loop"
            /\ Succeeds("read")
            /\ UNCHANGED report
       ELSE /\ report' = Head(inbox).id
            /\ reader' = IF Head(inbox).id \in LogPoints THEN "log" ELSE "update"
            /\ UNCHANGED <<cts, backOffVars>>
    /\ UNCHANGED <<main, writer, tcs, lock, crashed, managerVars, serviceVars,
                   debugger, inlet, outlet, told, killSent, reports>>

\* LoggingClient.WriteLogEntry.
WriteLogEntry ==
    /\ ~crashed /\ reader = "log"
    /\ \/ reader' = "update" /\ UNCHANGED backOffVars
       \/ reader' = "loop" /\ RpcFails("read")
    /\ UNCHANGED <<main, writer, signalVars, managerVars, report, serviceVars,
                   debuggerVars>>

\* The service accepts the report; one in its final state, which that of a
\* log point is not, leaves the service's list.
UpdateBreakpoint ==
    /\ ~crashed /\ reader \in {"update", "reupdate"} /\ service # "forgotten"
    /\ reported' = reported \cup {report}
    /\ active' = IF report \in LogPoints THEN active ELSE active \ {report}
    /\ reader' = "loop"
    /\ Succeeds("read")
    /\ UNCHANGED <<main, writer, signalVars, managerVars, report, service,
                   changes, debuggerVars>>

\* The call, or the one that registers the debuggee again, fails: the loop
\* goes on with the next breakpoint.
UpdateFails ==
    /\ ~crashed
    /\ reader \in {"update", "reupdate"} \/ (reader = "register" /\ lock = "free")
    /\ RpcFails("read")
    /\ reader' = "loop"
    /\ UNCHANGED <<main, writer, signalVars, managerVars, report, serviceVars,
                   debuggerVars>>

\* NotFound: Register waits for the lock that the long poll may hold.
UpdateNotFound ==
    /\ ~crashed /\ reader = "update" /\ service # "known"
    /\ reader' = "register"
    /\ UNCHANGED <<main, writer, signalVars, managerVars, report, backOffVars,
                   serviceVars, debuggerVars>>

UpdateRegisters ==
    /\ ~crashed /\ reader = "register" /\ lock = "free"
    /\ \/ /\ service # "disabled"
          /\ service' = "known"
          /\ reader' = "reupdate"
          /\ UNCHANGED <<tcs, crashed>>
       \/ /\ service = "disabled" \/ "Disabled" \in Events
          /\ service' = "disabled"
          /\ CompleteTcs
          /\ reader' = "done"
    /\ UNCHANGED <<main, writer, cts, lock, managerVars, report, backOffVars,
                   active, reported, changes, debuggerVars>>

-----------------------------------------------------------------------------
Main ==
    \/ MainRegister \/ MainRegisterFails \/ MainStartsReader
    \/ MainBlocks \/ MainReturns

WriteThread ==
    \/ WriteConnected \/ WriteLoop \/ ListBreakpoints
    \/ UpdateBreakpoints \/ PollExpires \/ PollFails \/ PollRegisters
    \/ WriteNext \/ WriteEnds \/ WriteKill

ReadThread ==
    \/ ReadConnected \/ ReadLoop \/ ReadBreakpoint \/ WriteLogEntry
    \/ UpdateBreakpoint \/ UpdateFails \/ UpdateNotFound \/ UpdateRegisters

Environment ==
    \/ \E id \in Ids : ServiceChange(id) \/ DebuggerReports(id)
    \/ ServiceDrops \/ DebuggeeExits

Next ==
    \/ Main \/ WriteThread \/ ReadThread
    \/ DebuggerConnects \/ DebuggerGone
    \/ Environment

Spec == Init /\ [][Next]_vars

\* The agent's threads are operating-system threads, a long poll is answered
\* (SuccessOnTimeout), and the debugger connects and exits.  The monitor lets
\* a waiting read thread in although the write thread, which releases it for
\* moments only, takes it again and again (strong fairness).
FairSpec ==
    /\ Spec
    /\ WF_vars(Main) /\ WF_vars(WriteThread) /\ WF_vars(ReadThread)
    /\ SF_vars(UpdateRegisters)
    /\ WF_vars(DebuggerConnects) /\ WF_vars(DebuggerGone)

-----------------------------------------------------------------------------
(* Properties.                                                             *)

\* What the debugger has been sent and what the write thread still has to send
\* add up to what BreakpointManager records, whatever happens to the polls, to
\* the registration and to the other thread in between: no breakpoint is lost
\* between the dictionary and the pipe.
ManagerMatchesPipe == manager = (told \ removed) \cup added

\* The write thread never activates a breakpoint the debugger has, and never
\* deactivates one it does not have (the collection in the debugger relies on
\* getting the two in turn).
NothingSentTwice == removed \subseteq told /\ added \cap told = {}

\* The inductive strengthening of ManagerMatchesPipe and NothingSentTwice:
\* outside of MainAction's writes nothing is left to write, and the write
\* thread starts once.
PipeInv ==
    /\ ManagerMatchesPipe
    /\ NothingSentTwice
    /\ main = "register" => writer = "none"
    /\ writer # "write" => removed = {} /\ added = {}

\* The debugger comes to have the service's list once that no longer changes,
\* unless the agent is shutting down or has lost the debugger.
DebuggerFollowsService ==
    <>[](told = active \/ cts \/ tcs \/ crashed \/ debugger = "gone")

\* A breakpoint the read thread has taken from the pipe does not block it for
\* ever, although Register may wait for the lock the write thread polls under.
ReportGetsThrough ==
    (reader \in {"log", "update", "register", "reupdate"})
        ~> (reader \in {"loop", "read", "done"} \/ crashed)

=============================================================================
