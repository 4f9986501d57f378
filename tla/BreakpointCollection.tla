------------------------ MODULE BreakpointCollection ------------------------
(***************************************************************************)
(* The debugger's collection of breakpoints and the two threads that share *)
(* it:                                                                     *)
(*   - the main thread runs BreakpointCollection::SyncBreakpoints, which   *)
(*     reads one breakpoint message after another from the agent and       *)
(*     applies it with UpdateBreakpoint;                                   *)
(*   - the ICorDebug callback thread runs DebuggerCallback::LoadModule,    *)
(*     Breakpoint and ExitProcess, one callback at a time.                 *)
(*                                                                         *)
(* Every section under BreakpointCollection::mutex_ is one step.  The part *)
(* of UpdateBreakpoint that searches the PDB files runs without the mutex, *)
(* one step per PDB file.  The inspection of a stopped debuggee, which     *)
(* ProcessBreakpoints hands to a task of its own, is module                *)
(* EvalCoordinator; here it is the reports it writes.                      *)
(***************************************************************************)
EXTENDS Naturals, Sequences, Functions

CONSTANTS
    Ids,          \* breakpoint identifiers given out by the debugger service
    Locations,    \* requested locations: GetBreakpointLocation, "path##line"
    Modules,      \* modules (and their PDB files) the debuggee may load
    Spots,        \* pairs of a method token and an IL offset
    LocationOf,   \* the location each breakpoint asks for
    Resolve,      \* the spot TrySetBreakpoint finds for a location in a PDB
    Unparsable,   \* modules whose PDB file ParsePdbFile rejects
    Conditional,  \* breakpoints whose condition may evaluate to false
    Faults,       \* external calls that may fail
    MaxMessages,  \* bound on the messages the agent sends
    None          \* no native breakpoint

ASSUME LocationOfAssumption == LocationOf \in [Ids -> Locations]
ASSUME ResolveAssumption ==
    Resolve \in [Locations -> [Modules -> Spots \cup {None}]]
ASSUME NoneAssumption == None \notin Spots
ASSUME MaxMessagesAssumption == MaxMessages \in Nat

VARIABLES
    wanted,   \* agent: BreakpointManager._breakpointDictionary
    inbox,    \* messages in the pipe from the agent
    sent,     \* number of messages sent so far
    killed,   \* the agent has written its last message, kill_server
    pdbs,     \* DebuggerCallback::portable_pdbs_
    known,    \* keys of location_to_breakpoints_
    bps,      \* BreakpointLocationCollection::breakpoints_ of each location
    site,     \* where the location's ICorDebugBreakpoint was created
    active,   \* whether the location's ICorDebugBreakpoint is active
    sync,     \* control point of the main thread
    msg,      \* the message UpdateBreakpoint is applying
    cursor,   \* next element of the loop over GetPdbFiles()
    limit,    \* end of that loop, fixed when it starts
    moved,    \* the vector was extended while the loop was running
    cb,       \* control point of the callback thread
    hit,      \* the site of the Breakpoint callback being served
    todo,     \* matched_breakpoints still to be reported
    reader,   \* breakpoint_client_read_
    writer,   \* breakpoint_client_write_
    told,     \* the agent has been sent a kill_server breakpoint
    dead,     \* the debugger process has crashed
    dropped,  \* history: breakpoints some message of which was not applied
    reported  \* history: breakpoints reported to the agent

agentVars == <<wanted, inbox, sent, killed>>
tableVars == <<known, bps, site, active>>
syncVars  == <<sync, msg, cursor, limit>>
cbVars    == <<cb, hit, todo>>
pipeVars  == <<reader, writer, told>>
histVars  == <<dropped, reported>>
vars == <<agentVars, pdbs, tableVars, syncVars, moved, cbVars, pipeVars, dead,
          histVars>>

Messages == [id : Ids, activated : BOOLEAN]
Entries  == [id : Ids, activated : BOOLEAN]
Sites    == [module : Modules, spot : Spots]
ClientStates == {"none", "open", "shut"}

\* The type invariant; a control point determines which of the thread's
\* registers mean something: the loop of UpdateBreakpoint never leaves the
\* vector of PDB files.
TypeOK ==
    /\ wanted \in SUBSET Ids
    /\ inbox \in Seq(Messages)
    /\ sent \in 0..MaxMessages
    /\ killed \in BOOLEAN
    /\ pdbs \in Seq(Modules)
    /\ known \in SUBSET Locations
    /\ bps \in [Locations -> Seq(Entries)]
    /\ site \in [Locations -> Sites \cup {None}]
    /\ active \in [Locations -> BOOLEAN]
    /\ sync \in {"read", "update", "search", "insert", "done"}
    /\ msg \in Messages \cup {None}
    /\ sync \in {"update", "search", "insert"} => msg \in Messages
    /\ cursor \in Nat
    /\ limit \in 0..Len(pdbs)
    /\ moved \in BOOLEAN
    /\ cb \in {"idle", "stopped", "process", "exited"}
    /\ hit \in Sites \cup {None}
    /\ cb = "stopped" => hit \in Sites
    /\ todo \in Seq(Ids)
    /\ reader \in ClientStates
    /\ writer \in ClientStates
    /\ told \in BOOLEAN
    /\ dead \in BOOLEAN
    /\ dropped \in SUBSET Ids
    /\ reported \in SUBSET Ids

Init ==
    /\ wanted = {} /\ inbox = <<>> /\ sent = 0 /\ killed = FALSE
    /\ pdbs = <<>>
    /\ known = {}
    /\ bps = [l \in Locations |-> <<>>]
    /\ site = [l \in Locations |-> None]
    /\ active = [l \in Locations |-> FALSE]
    /\ sync = "read" /\ msg = None /\ cursor = 0 /\ limit = 0 /\ moved = FALSE
    /\ cb = "idle" /\ hit = None /\ todo = <<>>
    /\ reader = "none" /\ writer = "none" /\ told = FALSE
    /\ dead = FALSE
    /\ dropped = {} /\ reported = {}

-----------------------------------------------------------------------------
(* The agent's end of the pipe.                                            *)

\* BreakpointWriteActionServer.MainAction: a breakpoint new to the
\* BreakpointManager is sent activated, one that left the service's list is
\* sent deactivated.
AgentSend(id) ==
    /\ ~killed /\ sent < MaxMessages
    /\ inbox' = Append(inbox, [id |-> id, activated |-> id \notin wanted])
    /\ wanted' = IF id \in wanted THEN wanted \ {id} ELSE wanted \cup {id}
    /\ sent' = sent + 1
    /\ UNCHANGED <<killed, pdbs, tableVars, syncVars, moved, cbVars, pipeVars,
                   dead, histVars>>

\* The agent's write loop ends and writes its kill_server breakpoint.
AgentKill ==
    /\ ~killed
    /\ killed' = TRUE
    /\ UNCHANGED <<wanted, inbox, sent, pdbs, tableVars, syncVars, moved,
                   cbVars, pipeVars, dead, histVars>>

-----------------------------------------------------------------------------
(* BreakpointLocationCollection, for location l.                           *)

Fails(call) == call \in Faults

Existing(l, id) == \E i \in 1..Len(bps[l]) : bps[l][i].id = id

\* Faulty variant: the other breakpoints of the location are not looked at.
AnyActivatedIgnored(l) == FALSE

AnyActivated(l) == \E i \in 1..Len(bps[l]) : bps[l][i].activated

\* What ActivateCorDebugBreakpointHelper may return and leave behind: ok is
\* SUCCEEDED(hr), active the state of the ICorDebugBreakpoint.  A native
\* breakpoint in the requested state is left alone, and so is one that is to
\* be deactivated while some breakpoint of the list has Activated().
ActivateCorDebugBreakpointHelper(l, state) ==
    LET NothingToDo == active[l] = state \/ (~state /\ AnyActivated(l))
    IN  {r \in [ok : BOOLEAN, active : BOOLEAN] :
            \/ Fails("IsActive") /\ ~r.ok /\ r.active = active[l]
            \/ NothingToDo /\ r.ok /\ r.active = active[l]
            \/ ~NothingToDo /\ r.ok /\ r.active = state
            \/ ~NothingToDo /\ Fails("Activate") /\ ~r.ok /\ r.active = active[l]}

\* Where find_if finds this id (there is one place at most: NoDuplicates), and
\* the list after it is erased.
Position(l, id) == CHOOSE i \in 1..Len(bps[l]) : bps[l][i].id = id

Erase(l, id) ==
    [j \in 1..(Len(bps[l]) - 1) |->
        IF j < Position(l, id) THEN bps[l][j] ELSE bps[l][j + 1]]

\* Faulty variant: a deactivated breakpoint is not erased.
UpdateExistingWithoutErase(l) ==
    /\ Existing(l, msg.id)
    /\ \E r \in ActivateCorDebugBreakpointHelper(l, msg.activated) :
          /\ active' = [active EXCEPT ![l] = r.active]
          /\ dropped' = IF r.ok THEN dropped ELSE dropped \cup {msg.id}
    /\ UNCHANGED bps

\* UpdateExistingBreakpoint: the native breakpoint is updated first, and a
\* deactivated breakpoint is erased afterwards.
UpdateExistingBreakpoint(l) ==
    /\ Existing(l, msg.id)
    /\ \E r \in ActivateCorDebugBreakpointHelper(l, msg.activated) :
          /\ active' = [active EXCEPT ![l] = r.active]
          /\ bps' = IF r.ok /\ ~msg.activated
                    THEN [bps EXCEPT ![l] = Erase(l, msg.id)]
                    ELSE bps
          /\ dropped' = IF r.ok THEN dropped ELSE dropped \cup {msg.id}

\* A deactivation of a breakpoint that is not in the list changes nothing.
IgnoreDeactivation(l) ==
    /\ ~Existing(l, msg.id) /\ ~msg.activated
    /\ UNCHANGED <<active, bps, dropped>>

\* Faulty variant: the list is not searched for the breakpoint first.
AddWithoutSearch(l) ==
    /\ msg.activated
    /\ \E r \in ActivateCorDebugBreakpointHelper(l, TRUE) :
          /\ r.ok
          /\ active' = [active EXCEPT ![l] = r.active]
          /\ bps' = [bps EXCEPT ![l] =
                        Append(@, [id |-> msg.id, activated |-> TRUE])]
    /\ dropped' = dropped

\* A new breakpoint at a location that has its native breakpoint already.
AddFromCache(l) ==
    /\ ~Existing(l, msg.id) /\ msg.activated
    /\ \E r \in ActivateCorDebugBreakpointHelper(l, TRUE) :
          /\ active' = [active EXCEPT ![l] = r.active]
          /\ bps' = IF r.ok
                    THEN [bps EXCEPT ![l] =
                            Append(@, [id |-> msg.id, activated |-> TRUE])]
                    ELSE bps
          /\ dropped' = IF r.ok THEN dropped ELSE dropped \cup {msg.id}

UpdateBreakpoints(l) ==
    \/ UpdateExistingBreakpoint(l)
    \/ IgnoreDeactivation(l)
    \/ AddFromCache(l)

-----------------------------------------------------------------------------
(* The main thread: SyncBreakpoints.                                       *)

\* ReadBreakpoint creates and connects the read client on its first call; a
\* failure ends SyncBreakpoints.
SyncConnect ==
    /\ ~dead /\ sync = "read" /\ reader = "none"
    /\ \/ reader' = "open" /\ sync' = sync
       \/ Fails("Connect") /\ sync' = "done" /\ reader' = reader
    /\ UNCHANGED <<agentVars, pdbs, tableVars, msg, cursor, limit, moved,
                   cbVars, writer, told, dead, histVars>>

\* ReadAndParseBreakpoint.
SyncRead ==
    /\ ~dead /\ sync = "read" /\ reader = "open" /\ inbox # <<>>
    /\ msg' = Head(inbox)
    /\ inbox' = Tail(inbox)
    /\ sync' = "update"
    /\ UNCHANGED <<wanted, sent, killed, pdbs, tableVars, cursor, limit, moved,
                   cbVars, pipeVars, dead, histVars>>

\* SyncBreakpoints returns on a kill_server breakpoint.
SyncEnd ==
    /\ ~dead /\ sync = "read" /\ reader = "open" /\ inbox = <<>> /\ killed
    /\ sync' = "done"
    /\ UNCHANGED <<agentVars, pdbs, tableVars, msg, cursor, limit, moved,
                   cbVars, pipeVars, dead, histVars>>

\* SyncBreakpoints returns on a failed read after CancelSyncBreakpoints has
\* shut the read client down.  Not every platform's pipe fails such a read,
\* so that this step is never assumed to happen.
SyncCancelled ==
    /\ ~dead /\ sync = "read" /\ reader = "shut"
    /\ sync' = "done"
    /\ UNCHANGED <<agentVars, pdbs, tableVars, msg, cursor, limit, moved,
                   cbVars, pipeVars, dead, histVars>>

\* UpdateBreakpoint, first locked section, when the location is in the map.
SyncUpdateKnown ==
    /\ ~dead /\ sync = "update"
    /\ LocationOf[msg.id] \in known
    /\ UpdateBreakpoints(LocationOf[msg.id])
    /\ sync' = "read"
    /\ UNCHANGED <<agentVars, pdbs, known, site, msg, cursor, limit, moved,
                   cbVars, pipeVars, dead, reported>>

\* UpdateBreakpoint, when it is not: the loop over GetPdbFiles() starts, for
\* an activated and for a deactivated breakpoint alike.
SyncUpdateUnknown ==
    /\ ~dead /\ sync = "update"
    /\ LocationOf[msg.id] \notin known
    /\ sync' = "search"
    /\ cursor' = 1
    /\ limit' = Len(pdbs)
    /\ moved' = FALSE
    /\ UNCHANGED <<agentVars, pdbs, tableVars, msg, cbVars, pipeVars, dead,
                   histVars>>

\* The spot TrySetBreakpoint finds in the PDB file the loop is at.
Candidate(l) ==
    IF pdbs[cursor] \in Unparsable THEN None ELSE Resolve[l][pdbs[cursor]]

\* Faulty variant: a PDB file without the location is tried again for ever.
SearchMissWithoutAdvance ==
    /\ ~dead /\ sync = "search" /\ cursor \in 1..limit
    /\ Candidate(LocationOf[msg.id]) = None
    /\ UNCHANGED vars

\* This PDB file does not parse or does not have the location.
SyncSearchMiss ==
    /\ ~dead /\ sync = "search" /\ cursor \in 1..limit
    /\ Candidate(LocationOf[msg.id]) = None
    /\ cursor' = cursor + 1
    /\ UNCHANGED <<agentVars, pdbs, tableVars, sync, msg, limit, moved, cbVars,
                   pipeVars, dead, histVars>>

\* No PDB file has the location: UpdateBreakpoint returns S_FALSE, which
\* SyncBreakpoints takes for success.
SyncSearchNone ==
    /\ ~dead /\ sync = "search" /\ cursor > limit
    /\ sync' = "read"
    /\ dropped' = dropped \cup {msg.id}
    /\ UNCHANGED <<agentVars, pdbs, tableVars, msg, cursor, limit, moved,
                   cbVars, pipeVars, dead, reported>>

\* ActivateBreakpointHelper on the first PDB file that has the location: the
\* native breakpoint is created and activated, or the method is not among
\* the enumerated ones (S_FALSE, no native breakpoint), or a call fails and
\* UpdateBreakpoint gives up.
SyncSearchFound ==
    /\ ~dead /\ sync = "search" /\ cursor \in 1..limit
    /\ LET l == LocationOf[msg.id]
       IN  /\ Candidate(l) # None
           /\ \/ /\ sync' = "insert"
                 /\ site' = [site EXCEPT ![l] = [module |-> pdbs[cursor],
                                                 spot |-> Candidate(l)]]
                 /\ active' = [active EXCEPT ![l] = TRUE]
                 /\ dropped' = dropped
              \/ /\ Fails("EnumMethods")
                 /\ sync' = "insert"
                 /\ UNCHANGED <<site, active, dropped>>
              \/ /\ Fails("CreateBreakpoint")
                 /\ sync' = "read"
                 /\ dropped' = dropped \cup {msg.id}
                 /\ UNCHANGED <<site, active>>
    /\ UNCHANGED <<agentVars, pdbs, known, bps, msg, cursor, limit, moved,
                   cbVars, pipeVars, dead, reported>>

\* UpdateBreakpoint, second locked section: AddFirstBreakpoint and the new
\* entry of the map.  The new breakpoint was initialised from the message by
\* DbgBreakpoint::Initialize, which leaves activated_ false.
SyncInsert ==
    /\ ~dead /\ sync = "insert"
    /\ LET l == LocationOf[msg.id]
       IN  \/ /\ site[l] # None
              /\ known' = known \cup {l}
              /\ bps' = [bps EXCEPT ![l] = <<[id |-> msg.id,
                                              activated |-> FALSE]>>]
              /\ dropped' = dropped
           \/ /\ site[l] = None
              /\ dropped' = dropped \cup {msg.id}
              /\ UNCHANGED <<known, bps>>
    /\ sync' = "read"
    /\ UNCHANGED <<agentVars, pdbs, site, active, msg, cursor, limit, moved,
                   cbVars, pipeVars, dead, reported>>

\* The loop holds iterators into a vector that LoadModule has reallocated:
\* reading through them is undefined, and a crash is one outcome (the old
\* storage still being intact, the others above, is another).
SyncReadsFreedStorage ==
    /\ ~dead /\ sync = "search" /\ moved
    /\ dead' = TRUE
    /\ UNCHANGED <<agentVars, pdbs, tableVars, syncVars, moved, cbVars,
                   pipeVars, histVars>>

-----------------------------------------------------------------------------
(* The callback thread: DebuggerCallback.                                  *)

\* LoadModule appends without a lock.
LoadModule(m) ==
    /\ ~dead /\ cb = "idle" /\ m \notin Range(pdbs)
    /\ pdbs' = Append(pdbs, m)
    /\ moved' = (moved \/ sync = "search")
    /\ UNCHANGED <<agentVars, tableVars, syncVars, cbVars, pipeVars, dead,
                   histVars>>

\* A debuggee thread reaches an active native breakpoint; the debuggee stops
\* and the Breakpoint callback is called.
BreakpointHit(l) ==
    /\ ~dead /\ cb = "idle"
    /\ active[l] /\ site[l] # None
    /\ cb' = "stopped"
    /\ hit' = site[l]
    /\ UNCHANGED <<agentVars, pdbs, tableVars, syncVars, moved, todo, pipeVars,
                   dead, histVars>>

\* The locations EvaluateAndPrintBreakpoint takes for the one that was hit:
\* it compares the method token and the IL offset.
Matches == {l \in known : site[l].spot = hit.spot}

IdsAt(l) == [i \in 1..Len(bps[l]) |-> bps[l][i].id]

\* EvaluateAndPrintBreakpoint, locked section: the breakpoints of the first
\* match in the map's iteration order, which is not specified.  With none to
\* process the callback continues the debuggee at once.
EvaluateAndPrintBreakpoint ==
    /\ ~dead /\ cb = "stopped"
    /\ \/ Matches = {} /\ todo' = <<>>
       \/ \E l \in Matches : todo' = IdsAt(l)
    /\ cb' = IF todo' = <<>> THEN "idle" ELSE "process"
    /\ UNCHANGED <<agentVars, pdbs, tableVars, syncVars, moved, hit, pipeVars,
                   dead, histVars>>

\* GetFunctionTokenAndILOffset fails: the callback continues the debuggee.
HitUnresolved ==
    /\ ~dead /\ cb = "stopped" /\ Fails("GetFunction")
    /\ cb' = "idle"
    /\ UNCHANGED <<agentVars, pdbs, tableVars, syncVars, moved, hit, todo,
                   pipeVars, dead, histVars>>

\* One turn of ProcessBreakpointsTask: the condition is not met, or the
\* breakpoint (with its data or with an error) is written to the agent, the
\* write client being created on first use; a failed write ends the loop.
ReportNext ==
    /\ ~dead /\ cb = "process" /\ todo # <<>>
    /\ \/ /\ Head(todo) \in Conditional
          /\ todo' = Tail(todo)
          /\ UNCHANGED <<writer, reported>>
       \/ /\ writer' = IF writer = "none" THEN "open" ELSE writer
          /\ todo' = Tail(todo)
          /\ reported' = reported \cup {Head(todo)}
       \/ /\ Fails("Write")
          /\ todo' = <<>>
          /\ writer' \in {writer, "open"}
          /\ reported' = reported
    /\ UNCHANGED <<agentVars, pdbs, tableVars, syncVars, moved, cb, hit, reader,
                   told, dead, dropped>>

\* ICorDebugController::Continue at the end of the callback.
Continue ==
    /\ ~dead /\ cb = "process" /\ todo = <<>>
    /\ cb' = "idle"
    /\ UNCHANGED <<agentVars, pdbs, tableVars, syncVars, moved, hit, todo,
                   pipeVars, dead, histVars>>

\* ExitProcess: CancelSyncBreakpoints writes the kill breakpoint through
\* breakpoint_client_write_, shuts the read client down and then the write
\* client.  The write client is dereferenced whether or not it exists.
ExitProcess ==
    /\ ~dead /\ cb = "idle"
    /\ cb' = "exited"
    /\ \/ /\ writer = "none"
          /\ dead' = TRUE
          /\ UNCHANGED pipeVars
       \/ /\ writer # "none" /\ Fails("Write")
          /\ UNCHANGED <<pipeVars, dead>>
       \/ /\ writer # "none"
          /\ told' = TRUE
          /\ reader' = IF reader = "open" THEN "shut" ELSE reader
          /\ writer' = "shut"
          /\ dead' = dead
    /\ UNCHANGED <<agentVars, pdbs, tableVars, syncVars, moved, hit, todo,
                   histVars>>

-----------------------------------------------------------------------------
SyncThread ==
    \/ SyncConnect \/ SyncRead \/ SyncEnd
    \/ SyncUpdateKnown \/ SyncUpdateUnknown
    \/ SyncSearchMiss \/ SyncSearchNone \/ SyncSearchFound \/ SyncInsert

InspectDebuggee ==
    EvaluateAndPrintBreakpoint \/ HitUnresolved \/ ReportNext \/ Continue

Next ==
    \/ \E id \in Ids : AgentSend(id)
    \/ AgentKill
    \/ SyncThread
    \/ SyncCancelled
    \/ SyncReadsFreedStorage
    \/ \E m \in Modules : LoadModule(m)
    \/ \E l \in Locations : BreakpointHit(l)
    \/ InspectDebuggee
    \/ ExitProcess

Spec == Init /\ [][Next]_vars

\* Both threads are operating-system threads that never block except on the
\* pipe and on the mutex, which is held for single steps.
FairSpec == Spec /\ WF_vars(SyncThread) /\ WF_vars(InspectDebuggee)

-----------------------------------------------------------------------------
(* Properties.                                                             *)

Listed(id) == Existing(LocationOf[id], id)

\* A message about this breakpoint is still in the pipe or being applied.
InFlight(id) ==
    \/ \E i \in 1..Len(inbox) : inbox[i].id = id
    \/ sync \in {"update", "search", "insert"} /\ msg.id = id

\* As long as a location has a breakpoint in its list, its native breakpoint
\* is active: no sequence of additions and removals, in which the last-removed
\* breakpoint may or may not count as activated, and no failing ICorDebug
\* call, silences a breakpoint the user still has
\* (BreakpointLocationCollection::ActivateCorDebugBreakpointHelper).
ListedIsActive ==
    \A l \in Locations : bps[l] # <<>> => active[l]

\* A breakpoint is at most once in a location's list, although the list is
\* extended by two different functions, AddFirstBreakpoint and
\* UpdateBreakpoints: a hit is reported once per breakpoint.
NoDuplicates ==
    \A l \in Locations : \A i, j \in 1..Len(bps[l]) :
        bps[l][i].id = bps[l][j].id => i = j

\* Only the breakpoint a location was first created for can have Activated()
\* false.
OneNotActivated ==
    \A l \in Locations : \A i, j \in 1..Len(bps[l]) :
        ~bps[l][i].activated /\ ~bps[l][j].activated => i = j

\* A location outside the map has no list yet, its native breakpoint, once
\* created, is active, and it is not in the map before the search ends.
UnknownIsFresh ==
    /\ \A l \in Locations \ known :
          bps[l] = <<>> /\ (site[l] # None => active[l])
    /\ sync \in {"search", "insert"} => LocationOf[msg.id] \notin known

\* The inductive strengthening of ListedIsActive and NoDuplicates.
TableInv ==
    ListedIsActive /\ NoDuplicates /\ OneNotActivated /\ UnknownIsFresh

\* When nothing about a breakpoint is in flight and none of its messages was
\* dropped, the debugger has it exactly when the agent's BreakpointManager
\* believes it has, however additions and removals at the same location
\* interleave with searches, module loads and hits.
AgentAndDebuggerAgree ==
    \A id \in Ids \ dropped :
        ~InFlight(id) => (Listed(id) <=> id \in wanted)

\* The messages that are not yet applied, in the order in which they will be.
Flight ==
    IF sync \in {"update", "search", "insert"} THEN <<msg>> \o inbox ELSE inbox

\* The messages of f about a breakpoint that is listed, or not, before they are
\* applied take turns in adding and removing it, and leave it as the agent
\* wants it.
Alternates(f, id, listed, want) ==
    LET About == {i \in 1..Len(f) : f[i].id = id}
    IN  /\ \A i \in About : (\A j \in About : i <= j)
               => (f[i].activated <=> ~listed)
        /\ \A i \in About : (\A j \in About : j <= i)
               => (f[i].activated <=> want)
        /\ \A i, k \in About : (i < k /\ \A j \in About : j <= i \/ k <= j)
               => (f[k].activated <=> ~f[i].activated)
        /\ About = {} => (listed <=> want)

\* The inductive strengthening of AgentAndDebuggerAgree.
MessagesAlternate ==
    \A id \in Ids \ dropped :
        Alternates(Flight, id, Listed(id), id \in wanted)

\* Once the agent sends no more, the two ends come to agree for good, unless
\* SyncBreakpoints has ended or lost its pipe, or the debugger process died.
EventuallyAgree ==
    <>[](\/ dead \/ sync = "done" \/ reader = "shut"
         \/ \A id \in Ids \ dropped : Listed(id) <=> id \in wanted)

=============================================================================
