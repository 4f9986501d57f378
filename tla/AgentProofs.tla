---------------------------- MODULE AgentProofs ----------------------------
(***************************************************************************)
(* Proofs about Agent, for every set of breakpoints, every service and     *)
(* every debugger: what the debugger has been sent and what is still to be *)
(* sent add up to what BreakpointManager records, no breakpoint is sent    *)
(* twice, and the read thread has a breakpoint whenever it reports one.    *)
(***************************************************************************)
EXTENDS Agent, TLAPS

\* Only UpdateBreakpoints, WriteNext and WriteEnds touch what PipeInv is
\* about, or leave the writing part of MainAction.
LEMMA PipeFrame ==
    ASSUME PipeInv, UNCHANGED <<managerVars, told>>,
           writer' = "write" \/ writer # "write",
           main' = main /\ (writer' = writer \/ writer # "none")
    PROVE  PipeInv'
  BY DEF PipeInv, ManagerMatchesPipe, NothingSentTwice, managerVars

\* PipeInv is an invariant.
LEMMA PipeInvariant == Spec => []PipeInv
<1>1. Init => PipeInv
  BY DEF Init, PipeInv, ManagerMatchesPipe, NothingSentTwice
<1>2. PipeInv /\ [Next]_vars => PipeInv'
  <2> SUFFICES ASSUME PipeInv, [Next]_vars PROVE PipeInv'
    OBVIOUS
  <2>1. CASE Main
    <3>1. CASE MainRegister
      BY <3>1
      DEF MainRegister, PipeInv, ManagerMatchesPipe, NothingSentTwice,
          managerVars
    <3>2. CASE MainStartsReader \/ MainBlocks \/ MainReturns
      BY <3>2
      DEF MainStartsReader, MainBlocks, MainReturns, PipeInv,
          ManagerMatchesPipe, NothingSentTwice, managerVars, debuggerVars
    <3>3. CASE MainRegisterFails
      BY <3>3, PipeFrame DEF MainRegisterFails, threadVars, debuggerVars
    <3> QED
      BY <2>1, <3>1, <3>2, <3>3 DEF Main
  <2>2. CASE WriteThread
    <3>1. CASE WriteConnected \/ WriteLoop \/ ListBreakpoints
      BY <3>1, PipeFrame
      DEF WriteConnected, WriteLoop, ListBreakpoints, debuggerVars
    <3>2. CASE UpdateBreakpoints
      <4>1. removed = {} /\ added = {} /\ told = manager
        BY <3>2 DEF UpdateBreakpoints, PipeInv, ManagerMatchesPipe
      <4>2. /\ added' = active \ manager /\ removed' = manager \ active
            /\ manager' = active /\ told' = told /\ writer' = "write"
            /\ main' = main /\ main # "register"
        BY <3>2 DEF UpdateBreakpoints, debuggerVars, PipeInv
      <4> QED
        BY <4>1, <4>2 DEF PipeInv, ManagerMatchesPipe, NothingSentTwice
    <3>3. CASE PollExpires \/ PollFails \/ PollRegisters
      BY <3>3, PipeFrame
      DEF PollExpires, PollFails, PollRegisters, debuggerVars
    <3>4. CASE WriteNext
      <4>0. /\ manager' = manager /\ main' = main
            /\ writer' = writer /\ writer = "write"
        BY <3>4 DEF WriteNext, threadVars
      <4>1. ASSUME NEW id \in removed, removed' = removed \ {id},
                   told' = told \ {id}, added' = added
            PROVE  PipeInv'
        BY <4>0, <4>1 DEF PipeInv, ManagerMatchesPipe, NothingSentTwice
      <4>2. ASSUME NEW id \in added, added' = added \ {id},
                   told' = told \cup {id}, removed' = removed, removed = {}
            PROVE  PipeInv'
        BY <4>0, <4>2 DEF PipeInv, ManagerMatchesPipe, NothingSentTwice
      <4>3. CASE UNCHANGED <<removed, added, told>>
        BY <4>0, <4>3, PipeFrame DEF managerVars
      <4> QED
        BY <3>4, <4>1, <4>2, <4>3 DEF WriteNext
    <3>5. CASE WriteEnds
      <4>1. removed = {} /\ added = {}
        BY <3>5 DEF WriteEnds
      <4>2. /\ UNCHANGED <<manager, removed, added, told, main>>
            /\ main # "register"
        BY <3>5 DEF WriteEnds, managerVars, debuggerVars, PipeInv
      <4> QED
        BY <4>1, <4>2 DEF PipeInv, ManagerMatchesPipe, NothingSentTwice
    <3>6. CASE WriteKill
      BY <3>6, PipeFrame DEF WriteKill
    <3> QED
      BY <2>2, <3>1, <3>2, <3>3, <3>4, <3>5, <3>6 DEF WriteThread
  <2>3. CASE ReadThread
    BY <2>3, PipeFrame
    DEF ReadThread, ReadConnected, ReadLoop, ReadBreakpoint, WriteLogEntry,
        UpdateBreakpoint, UpdateFails, UpdateNotFound, UpdateRegisters,
        debuggerVars
  <2>4. CASE DebuggerConnects \/ DebuggerGone
    BY <2>4, PipeFrame DEF DebuggerConnects, DebuggerGone, threadVars
  <2>5. CASE Environment
    BY <2>5, PipeFrame
    DEF Environment, ServiceChange, DebuggerReports, ServiceDrops,
        DebuggeeExits, threadVars, debuggerVars
  <2>6. CASE UNCHANGED vars
    BY <2>6, PipeFrame DEF vars, threadVars, debuggerVars
  <2> QED
    BY <2>1, <2>2, <2>3, <2>4, <2>5, <2>6 DEF Next
<1> QED
  BY <1>1, <1>2, PTL DEF Spec

\* What has been sent and what is left to send is what the manager records.
THEOREM ManagerMatchesPipeHolds == Spec => []ManagerMatchesPipe
<1>1. PipeInv => ManagerMatchesPipe
  BY DEF PipeInv
<1> QED
  BY <1>1, PipeInvariant, PTL

\* No breakpoint is activated twice or deactivated twice in a row.
THEOREM NothingSentTwiceHolds == Spec => []NothingSentTwice
<1>1. PipeInv => NothingSentTwice
  BY DEF PipeInv
<1> QED
  BY <1>1, PipeInvariant, PTL
-----------------------------------------------------------------------------
\* BackOff stays within its cap, so that a failing call leaves the waits typed.
LEMMA RpcFailsType ==
    ASSUME NEW t \in Loops, RpcFails(t),
           wait \in [Loops -> 0..MaxBackOff], failed \in 0..MaxFailures
    PROVE  wait' \in [Loops -> 0..MaxBackOff] /\ failed' \in 0..MaxFailures
<1>1. ASSUME NEW w \in 0..MaxBackOff PROVE BackOff(w) \in 0..MaxBackOff
  BY BackOffAssumption DEF BackOff, Smaller
<1> QED
  BY <1>1, BoundsAssumption DEF RpcFails

\* A successful action resets the wait of its loop.
LEMMA SucceedsType ==
    ASSUME NEW t \in Loops, Succeeds(t),
           wait \in [Loops -> 0..MaxBackOff], failed \in 0..MaxFailures
    PROVE  wait' \in [Loops -> 0..MaxBackOff] /\ failed' \in 0..MaxFailures
  BY BackOffAssumption DEF Succeeds

\* Every reachable state of the agent is well typed: the read thread has a
\* breakpoint to report whenever it is about to, and the wait of a loop stays
\* within its cap.
THEOREM TypeCorrect == Spec => []TypeOK
<1> USE BackOffAssumption, BoundsAssumption
<1>0. "write" \in Loops /\ "read" \in Loops
  BY DEF Loops
<1>1. Init => TypeOK
  <2> SUFFICES ASSUME Init PROVE TypeOK
    OBVIOUS
  <2>1. inbox \in Seq({Kill} \cup {Report(id) : id \in Ids})
    BY DEF Init
  <2>2. /\ wait \in [Loops -> 0..MaxBackOff] /\ failed \in 0..MaxFailures
        /\ changes \in 0..MaxChanges /\ reports \in 0..MaxReports
    BY DEF Init
  <2>3. /\ cts \in BOOLEAN /\ tcs \in BOOLEAN /\ crashed \in BOOLEAN
        /\ inlet \in BOOLEAN /\ outlet \in BOOLEAN /\ killSent \in BOOLEAN
    BY DEF Init
  <2> QED
    BY <2>1, <2>2, <2>3 DEF Init, TypeOK
<1>2. TypeOK /\ [Next]_vars => TypeOK'
  <2> SUFFICES ASSUME TypeOK, [Next]_vars PROVE TypeOK'
    OBVIOUS
  <2> USE DEF TypeOK
  <2>1. CASE Main
    <3> USE DEF threadVars, signalVars, managerVars, backOffVars, serviceVars,
               debuggerVars, CompleteTcs
    <3>1. CASE MainRegister
      BY <3>1 DEF MainRegister
    <3>2. CASE MainRegisterFails
      BY <3>2 DEF MainRegisterFails
    <3>3. CASE MainStartsReader
      BY <3>3 DEF MainStartsReader
    <3>4. CASE MainBlocks
      BY <3>4 DEF MainBlocks
    <3>5. CASE MainReturns
      <4>1. main' \in {main, "returned"} /\ debugger' \in {debugger, "gone"}
        BY <3>5 DEF MainReturns
      <4>2. cts' \in BOOLEAN /\ crashed' \in BOOLEAN
        BY <3>5 DEF MainReturns
      <4> QED
        BY <3>5, <4>1, <4>2 DEF MainReturns
    <3> QED
      BY <2>1, <3>1, <3>2, <3>3, <3>4, <3>5 DEF Main
  <2>2. CASE WriteThread
    <3> USE DEF threadVars, signalVars, managerVars, backOffVars, serviceVars,
               debuggerVars, CompleteTcs
    <3>1. CASE WriteConnected
      BY <3>1 DEF WriteConnected
    <3>2. CASE WriteLoop
      BY <3>2 DEF WriteLoop
    <3>3. CASE ListBreakpoints
      BY <3>3 DEF ListBreakpoints
    <3>4. CASE UpdateBreakpoints
      BY <3>4 DEF UpdateBreakpoints
    <3>5. CASE PollExpires
      BY <3>5, <1>0, SucceedsType DEF PollExpires
    <3>6. CASE PollFails
      BY <3>6, <1>0, RpcFailsType DEF PollFails
    <3>7. CASE PollRegisters
      <4>1. tcs' \in BOOLEAN /\ crashed' \in BOOLEAN
        BY <3>7 DEF PollRegisters
      <4> QED
        BY <3>7, <4>1 DEF PollRegisters
    <3>8. CASE WriteNext
      <4>1. /\ removed' \in SUBSET Ids /\ added' \in SUBSET Ids
            /\ told' \in SUBSET Ids
        BY <3>8 DEF WriteNext
      <4>2. crashed' \in BOOLEAN
        BY <3>8 DEF WriteNext
      <4> QED
        BY <3>8, <4>1, <4>2 DEF WriteNext
    <3>9. CASE WriteEnds
      BY <3>9, <1>0, SucceedsType DEF WriteEnds
    <3>10. CASE WriteKill
      <4>1. writer' \in {writer, "done"}
        BY <3>10 DEF WriteKill
      <4>2. killSent' \in BOOLEAN /\ crashed' \in BOOLEAN
        BY <3>10 DEF WriteKill
      <4> QED
        BY <3>10, <4>1, <4>2 DEF WriteKill
    <3> QED
      BY <2>2, <3>1, <3>2, <3>3, <3>4, <3>5, <3>6, <3>7, <3>8, <3>9, <3>10
      DEF WriteThread
  <2>3. CASE ReadThread
    <3> USE DEF threadVars, signalVars, managerVars, backOffVars, serviceVars,
               debuggerVars, CompleteTcs
    <3>1. CASE ReadConnected
      BY <3>1 DEF ReadConnected
    <3>2. CASE ReadLoop
      BY <3>2 DEF ReadLoop
    <3>3. CASE ReadBreakpoint
      <4>1. /\ Head(inbox) \in {Kill} \cup {Report(id) : id \in Ids}
            /\ inbox' \in Seq({Kill} \cup {Report(id) : id \in Ids})
        BY <3>3 DEF ReadBreakpoint
      <4>2. CASE Head(inbox).kill
        <5>1. wait' \in [Loops -> 0..MaxBackOff] /\ failed' \in 0..MaxFailures
          BY <3>3, <4>2, <1>0, SucceedsType DEF ReadBreakpoint
        <5> QED
          BY <3>3, <4>1, <4>2, <5>1 DEF ReadBreakpoint
      <4>3. CASE ~Head(inbox).kill
        <5>1. Head(inbox).id \in Ids
          BY <4>1, <4>3 DEF Kill, Report
        <5> QED
          BY <3>3, <4>1, <4>3, <5>1 DEF ReadBreakpoint
      <4> QED
        BY <4>2, <4>3
    <3>4. CASE WriteLogEntry
      <4>1. wait' \in [Loops -> 0..MaxBackOff] /\ failed' \in 0..MaxFailures
        BY <3>4, <1>0, RpcFailsType DEF WriteLogEntry
      <4> QED
        BY <3>4, <4>1 DEF WriteLogEntry
    <3>5. CASE UpdateBreakpoint
      BY <3>5, <1>0, SucceedsType DEF UpdateBreakpoint
    <3>6. CASE UpdateFails
      BY <3>6, <1>0, RpcFailsType DEF UpdateFails
    <3>7. CASE UpdateNotFound
      BY <3>7 DEF UpdateNotFound
    <3>8. CASE UpdateRegisters
      <4>1. tcs' \in BOOLEAN /\ crashed' \in BOOLEAN
        BY <3>8 DEF UpdateRegisters
      <4> QED
        BY <3>8, <4>1 DEF UpdateRegisters
    <3> QED
      BY <2>3, <3>1, <3>2, <3>3, <3>4, <3>5, <3>6, <3>7, <3>8 DEF ReadThread
  <2>4. CASE DebuggerConnects \/ DebuggerGone
    <3>1. CASE DebuggerConnects
      BY <3>1 DEF DebuggerConnects, threadVars, signalVars, managerVars,
                  backOffVars, serviceVars
    <3>2. CASE DebuggerGone
      BY <3>2 DEF DebuggerGone, threadVars, signalVars, managerVars,
                  backOffVars, serviceVars
    <3> QED
      BY <2>4, <3>1, <3>2
  <2>5. ASSUME NEW id \in Ids, ServiceChange(id) PROVE TypeOK'
    BY <2>5 DEF ServiceChange, threadVars, signalVars, managerVars, backOffVars,
                debuggerVars
  <2>6. ASSUME NEW id \in Ids, DebuggerReports(id) PROVE TypeOK'
    <3>1. Report(id) \in {Kill} \cup {Report(i) : i \in Ids}
      OBVIOUS
    <3> QED
      BY <2>6, <3>1
      DEF DebuggerReports, threadVars, signalVars, managerVars, backOffVars,
          serviceVars
  <2>7. CASE ServiceDrops
    BY <2>7 DEF ServiceDrops, threadVars, signalVars, managerVars, backOffVars,
                debuggerVars
  <2>8. CASE DebuggeeExits
    BY <2>8 DEF DebuggeeExits, threadVars, signalVars, managerVars, backOffVars,
                serviceVars
  <2>9. CASE UNCHANGED vars
    BY <2>9 DEF vars, threadVars, signalVars, managerVars, backOffVars,
                serviceVars, debuggerVars
  <2> QED
    BY <2>1, <2>2, <2>3, <2>4, <2>5, <2>6, <2>7, <2>8, <2>9
    DEF Next, Environment
<1> QED
  BY <1>1, <1>2, PTL DEF Spec
=============================================================================
