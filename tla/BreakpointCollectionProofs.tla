--------------------- MODULE BreakpointCollectionProofs ---------------------
(***************************************************************************)
(* Proofs about BreakpointCollection, for every set of breakpoints,        *)
(* locations and modules, every assignment of spots to locations and every *)
(* set of calls that may fail: type correctness, that a location with      *)
(* breakpoints has an active native breakpoint, that no breakpoint is      *)
(* twice in a list, and that the agent and the debugger agree.             *)
(***************************************************************************)
EXTENDS BreakpointCollection, SequenceTheorems, TLAPS

-----------------------------------------------------------------------------
(* Operators of the model.                                                 *)

\* ActivateCorDebugBreakpointHelper returns an HRESULT and leaves the native
\* breakpoint as it was or in the requested state; it switches it off only
\* when no breakpoint of the list counts as activated, and after a success
\* on the activating side it is on.
LEMMA HelperResult ==
    ASSUME TypeOK, NEW l \in Locations, NEW state \in BOOLEAN,
           NEW r \in ActivateCorDebugBreakpointHelper(l, state)
    PROVE  /\ r.ok \in BOOLEAN /\ r.active \in BOOLEAN
           /\ r.active # active[l] => r.ok /\ r.active = state
           /\ active[l] /\ ~r.active => ~state /\ ~AnyActivated(l)
           /\ r.ok /\ state => r.active
  BY DEF TypeOK, ActivateCorDebugBreakpointHelper

\* The elements of the lists are breakpoints.
LEMMA EntryType ==
    ASSUME TypeOK, NEW l \in Locations, NEW i \in 1..Len(bps[l])
    PROVE  /\ bps[l][i] \in Entries
           /\ bps[l][i].id \in Ids /\ bps[l][i].activated \in BOOLEAN
<1>1. bps[l] \in Seq(Entries)
  BY DEF TypeOK
<1>2. bps[l][i] \in Entries
  BY <1>1
<1> QED
  BY <1>2 DEF Entries

\* What a hit hands over to the inspection is a list of breakpoints.
LEMMA IdsAtType ==
    ASSUME TypeOK, NEW l \in Locations
    PROVE  IdsAt(l) \in Seq(Ids)
<1>1. bps[l] \in Seq(Entries)
  BY DEF TypeOK
<1>2. Len(bps[l]) \in Nat
  BY <1>1, LenProperties
<1>3. \A i \in 1..Len(bps[l]) : bps[l][i].id \in Ids
  BY EntryType
<1>4. IdsAt(l) \in [1..Len(bps[l]) -> Ids]
  BY <1>3, Zenon DEF IdsAt
<1> QED
  BY <1>2, <1>4

\* Erasing a breakpoint of the list leaves a list that is one shorter, in
\* which every element comes from the element at the same or the next
\* position.
LEMMA EraseResult ==
    ASSUME TypeOK, NEW l \in Locations, NEW id \in Ids, Existing(l, id)
    PROVE  /\ Erase(l, id) \in Seq(Entries)
           /\ Len(Erase(l, id)) = Len(bps[l]) - 1
           /\ Position(l, id) \in 1..Len(bps[l])
           /\ \A j \in 1..(Len(bps[l]) - 1) :
                 Erase(l, id)[j] = IF j < Position(l, id) THEN bps[l][j]
                                                          ELSE bps[l][j + 1]
<1> DEFINE s == bps[l]
<1>1. s \in Seq(Entries) /\ Len(s) \in Nat /\ Len(s) > 0
  BY DEF TypeOK, Existing
<1>2. \A j \in 1..Len(s) : s[j] \in Entries
  BY <1>1
<1>3. Erase(l, id) \in [1..(Len(s) - 1) -> Entries]
  BY <1>1, <1>2 DEF Erase
<1>4. Erase(l, id) \in Seq(Entries) /\ Len(Erase(l, id)) = Len(s) - 1
  BY <1>1, <1>3
<1>5. Position(l, id) \in 1..Len(s)
  BY DEF Existing, Position
<1> QED
  BY <1>1, <1>4, <1>5 DEF Erase

-----------------------------------------------------------------------------
\* The variables of BreakpointCollection always have values of their types.
THEOREM TypeCorrect == Spec => []TypeOK
<1>1. Init => TypeOK
  <2> SUFFICES ASSUME Init PROVE TypeOK
    OBVIOUS
  <2>1. active \in [Locations -> BOOLEAN]
    BY Zenon DEF Init
  <2>2. /\ killed \in BOOLEAN /\ moved \in BOOLEAN /\ told \in BOOLEAN
        /\ dead \in BOOLEAN
    BY Zenon DEF Init
  <2> QED
    BY <2>1, <2>2, MaxMessagesAssumption DEF Init, TypeOK, ClientStates
<1>2. TypeOK /\ [Next]_vars => TypeOK'
  <2> SUFFICES ASSUME TypeOK, [Next]_vars PROVE TypeOK'
    OBVIOUS
  <2> USE LocationOfAssumption, ResolveAssumption, MaxMessagesAssumption
      DEF TypeOK, Messages, Sites, ClientStates, agentVars, tableVars, syncVars, cbVars,
          pipeVars, histVars
  <2>1. ASSUME NEW id \in Ids, AgentSend(id)
       PROVE  TypeOK'
    BY <2>1 DEF AgentSend
  <2>2. CASE AgentKill
    BY <2>2 DEF AgentKill
  <2>3. CASE SyncConnect
    BY <2>3 DEF SyncConnect
  <2>4. CASE SyncRead
    <3>1. Head(inbox) \in Messages /\ Tail(inbox) \in Seq(Messages)
      BY <2>4, HeadTailProperties DEF SyncRead
    <3> HIDE DEF Messages, Sites
    <3> QED
      BY <2>4, <3>1 DEF SyncRead
  <2>5. CASE SyncEnd
    BY <2>5 DEF SyncEnd
  <2>6. CASE SyncCancelled
    BY <2>6 DEF SyncCancelled
  <2>7. CASE SyncUpdateKnown
    <3>1. msg \in Messages /\ LocationOf[msg.id] \in Locations
      BY <2>7, LocationOfAssumption DEF SyncUpdateKnown, Messages
    <3>2. CASE UpdateExistingBreakpoint(LocationOf[msg.id])
      BY <2>7, <3>1, <3>2, HelperResult, EraseResult
      DEF SyncUpdateKnown, UpdateExistingBreakpoint, Messages
    <3>3. CASE IgnoreDeactivation(LocationOf[msg.id])
      BY <2>7, <3>3 DEF SyncUpdateKnown, IgnoreDeactivation
    <3>4. CASE AddFromCache(LocationOf[msg.id])
      <4> DEFINE l == LocationOf[msg.id]
                 n == [id |-> msg.id, activated |-> TRUE]
      <4>1. n \in Entries
        BY <3>1, Zenon DEF Entries, Messages
      <4>2. Append(bps[l], n) \in Seq(Entries)
        BY <3>1, <4>1, AppendProperties
      <4> HIDE DEF n, Messages, Sites
      <4>3. bps' \in [Locations -> Seq(Entries)]
        BY <3>1, <3>4, <4>2 DEF AddFromCache, n
      <4>4. msg.id \in Ids
        BY <3>1 DEF Messages
      <4>5. active' \in [Locations -> BOOLEAN]
        <5>1. PICK r \in ActivateCorDebugBreakpointHelper(l, TRUE) :
                 active' = [active EXCEPT ![l] = r.active]
          BY <3>4 DEF AddFromCache
        <5>2. r.active \in BOOLEAN
          BY <3>1, <5>1, HelperResult
        <5>3. active \in [Locations -> BOOLEAN] /\ l \in Locations
          BY <3>1
        <5> QED
          BY ONLY <5>1, <5>2, <5>3
      <4> QED
        BY <2>7, <3>1, <3>4, <4>3, <4>4, <4>5 DEF SyncUpdateKnown, AddFromCache
    <3> QED
      BY <2>7, <3>2, <3>3, <3>4 DEF SyncUpdateKnown, UpdateBreakpoints
  <2>8. CASE SyncUpdateUnknown
    <3>1. limit' \in 0..Len(pdbs') /\ cursor' \in Nat
      BY <2>8, LenProperties DEF SyncUpdateUnknown
    <3>2. moved' \in BOOLEAN
      BY <2>8, Zenon DEF SyncUpdateUnknown
    <3> HIDE DEF Messages, Sites
    <3> QED
      BY <2>8, <3>1, <3>2 DEF SyncUpdateUnknown
  <2>9. CASE SyncSearchMiss
    BY <2>9 DEF SyncSearchMiss
  <2>10. CASE SyncSearchNone
    BY <2>10 DEF SyncSearchNone
  <2>11. CASE SyncSearchFound
    <3>1. msg \in Messages /\ LocationOf[msg.id] \in Locations /\ msg.id \in Ids
      BY <2>11 DEF SyncSearchFound
    <3>2. pdbs[cursor] \in Modules
      BY <2>11 DEF SyncSearchFound
    <3> DEFINE l == LocationOf[msg.id]
               c == Candidate(l)
    <3>3. c \in Spots \cup {None}
      BY <3>1, <3>2 DEF Candidate
    <3>4. c # None => [module |-> pdbs[cursor], spot |-> c] \in Sites
      BY <3>2, <3>3
    <3> DEFINE n == [module |-> pdbs[cursor], spot |-> c]
    <3>5. /\ c # None
          /\ site' = site \/ site' = [site EXCEPT ![l] = n]
      BY <2>11 DEF SyncSearchFound
    <3> HIDE DEF l, c, n, Messages, Sites
    <3>7. site' \in [Locations -> Sites \cup {None}]
      <4>1. l \in Locations /\ n \in Sites
        BY <3>1, <3>4, <3>5 DEF l, n
      <4>2. site \in [Locations -> Sites \cup {None}]
        OBVIOUS
      <4> HIDE DEF TypeOK
      <4> QED
        BY ONLY <3>5, <4>1, <4>2
    <3>6. active' \in [Locations -> BOOLEAN]
      BY <2>11, <3>1 DEF SyncSearchFound
    <3> QED
      BY <2>11, <3>1, <3>7, <3>6 DEF SyncSearchFound
  <2>12. CASE SyncInsert
    <3>1. msg.id \in Ids /\ LocationOf[msg.id] \in Locations
      BY <2>12 DEF SyncInsert
    <3>2. [id |-> msg.id, activated |-> FALSE] \in Entries
      BY <3>1, Zenon DEF Entries
    <3>3. <<[id |-> msg.id, activated |-> FALSE]>> \in Seq(Entries)
      BY <3>2
    <3>4. bps' \in [Locations -> Seq(Entries)]
      BY <2>12, <3>1, <3>3 DEF SyncInsert
    <3> HIDE DEF Messages, Sites
    <3> QED
      BY <2>12, <3>1, <3>4 DEF SyncInsert
  <2>13. CASE SyncReadsFreedStorage
    BY <2>13 DEF SyncReadsFreedStorage
  <2>14. ASSUME NEW m \in Modules, LoadModule(m)
       PROVE  TypeOK'
    <3>1. pdbs' \in Seq(Modules) /\ Len(pdbs') = Len(pdbs) + 1
      BY <2>14, AppendProperties DEF LoadModule
    <3>2. limit' \in 0..Len(pdbs')
      BY <2>14, <3>1, LenProperties DEF LoadModule
    <3> HIDE DEF Messages, Sites
    <3> QED
      BY <2>14, <3>1, <3>2 DEF LoadModule
  <2>15. ASSUME NEW l \in Locations, BreakpointHit(l)
       PROVE  TypeOK'
    BY <2>15 DEF BreakpointHit
  <2>16. CASE EvaluateAndPrintBreakpoint
    <3>1. ASSUME NEW l \in Locations PROVE IdsAt(l) \in Seq(Ids)
      BY IdsAtType
    <3>2. Matches \subseteq Locations
      BY DEF Matches
    <3>3. todo' \in Seq(Ids)
      <4>1. CASE Matches = {} /\ todo' = <<>>
        BY <4>1, EmptySeq
      <4>2. ASSUME NEW l \in Matches, todo' = IdsAt(l)
            PROVE  todo' \in Seq(Ids)
        BY <3>1, <3>2, <4>2
      <4> QED
        BY <2>16, <4>1, <4>2 DEF EvaluateAndPrintBreakpoint
    <3>4. cb' \in {"idle", "process"}
      BY <2>16 DEF EvaluateAndPrintBreakpoint
    <3>5. UNCHANGED <<agentVars, pdbs, tableVars, syncVars, moved, hit,
                      pipeVars, dead, histVars>>
      BY <2>16 DEF EvaluateAndPrintBreakpoint
    <3> HIDE DEF Messages, Sites
    <3> QED
      BY <3>3, <3>4, <3>5
  <2>17. CASE ReportNext
    <3>1. Head(todo) \in Ids /\ Tail(todo) \in Seq(Ids)
      BY <2>17, HeadTailProperties DEF ReportNext
    <3> HIDE DEF Messages, Sites
    <3>2. writer' \in ClientStates
      BY <2>17 DEF ReportNext
    <3>3. todo' \in Seq(Ids)
      BY <2>17, <3>1, EmptySeq DEF ReportNext
    <3>4. reported' \in SUBSET Ids
      BY <2>17, <3>1 DEF ReportNext
    <3> QED
      BY <2>17, <3>2, <3>3, <3>4 DEF ReportNext
  <2>18. CASE Continue \/ HitUnresolved
    BY <2>18 DEF Continue, HitUnresolved
  <2>19. CASE ExitProcess
    <3> HIDE DEF Messages, Sites
    <3>1. told' \in BOOLEAN /\ dead' \in BOOLEAN
      BY <2>19, Zenon DEF ExitProcess
    <3> QED
      BY <2>19, <3>1 DEF ExitProcess
  <2>20. CASE UNCHANGED vars
    BY <2>20 DEF vars
  <2> QED
    BY <2>1, <2>2, <2>3, <2>4, <2>5, <2>6, <2>7, <2>8, <2>9, <2>10,
       <2>11, <2>12, <2>13, <2>14, <2>15, <2>16, <2>17, <2>18, <2>19,
       <2>20
    DEF Next, SyncThread, InspectDebuggee
<1> QED
  BY <1>1, <1>2, PTL DEF Spec
-----------------------------------------------------------------------------
(* The table of locations.                                                 *)

\* A step that leaves the lists, the native breakpoints and the map alone, and
\* does not enter a search, preserves TableInv.
LEMMA TableFrame ==
    ASSUME TableInv, UNCHANGED tableVars,
           sync' \in {"search", "insert"}
              => LocationOf[msg'.id] \notin known
    PROVE  TableInv'
  BY DEF TableInv, ListedIsActive, NoDuplicates, OneNotActivated,
         UnknownIsFresh, tableVars

\* Two positions of a list that hold the same breakpoint are one, and so are
\* two that hold breakpoints that do not count as activated.
Separate(s) ==
    \A i, j \in 1..Len(s) :
        \/ s[i].id = s[j].id
        \/ ~s[i].activated /\ ~s[j].activated
        => i = j

\* Erasing keeps the positions separate.
LEMMA EraseSeparate ==
    ASSUME TypeOK, NEW l \in Locations, NEW id \in Ids, Existing(l, id),
           Separate(bps[l])
    PROVE  Separate(Erase(l, id))
<1> DEFINE s == bps[l]
           n == Len(bps[l]) - 1
           p == Position(l, id)
           From(j) == IF j < p THEN j ELSE j + 1
           t == Erase(l, id)
<1>1. /\ Len(s) \in Nat /\ n \in Nat /\ p \in 1..Len(s)
      /\ Len(t) = n
      /\ \A j \in 1..n : t[j] = s[From(j)]
  BY EraseResult, LenProperties DEF TypeOK, Existing
<1>2. \A j \in 1..n : From(j) \in 1..Len(s)
  BY <1>1
<1>3. \A i, j \in 1..n : From(i) = From(j) => i = j
  BY <1>1
<1> HIDE DEF t, n, p, s, From
<1>4. Separate(s)
  BY DEF s
<1>5. Separate(t)
  <2> SUFFICES ASSUME NEW i \in 1..n, NEW j \in 1..n,
                      \/ t[i].id = t[j].id
                      \/ ~t[i].activated /\ ~t[j].activated
               PROVE  i = j
    BY <1>1 DEF Separate
  <2>1. t[i] = s[From(i)] /\ t[j] = s[From(j)]
    BY <1>1
  <2>2. From(i) = From(j)
    BY <1>2, <1>4, <2>1 DEF Separate
  <2> QED
    BY <1>3, <2>2
<1> QED
  BY <1>5 DEF t

\* Appending an activated breakpoint that is not in the list keeps the
\* positions separate.
LEMMA AppendSeparate ==
    ASSUME TypeOK, NEW l \in Locations, NEW id \in Ids, ~Existing(l, id),
           Separate(bps[l])
    PROVE  Separate(Append(bps[l], [id |-> id, activated |-> TRUE]))
<1> DEFINE s == bps[l]
           e == [id |-> id, activated |-> TRUE]
           t == Append(s, e)
<1>1. s \in Seq(Entries) /\ Len(s) \in Nat /\ e.id = id /\ e.activated
  BY LenProperties DEF TypeOK
<1>2. e \in Entries
  BY Zenon DEF Entries
<1>3. /\ Len(t) = Len(s) + 1
      /\ \A i \in 1..Len(s) : t[i] = s[i]
      /\ t[Len(s) + 1] = e
  BY <1>1, <1>2, AppendProperties
<1>4. \A i \in 1..Len(s) : s[i].id # id
  BY DEF Existing
<1>5. Separate(s)
  BY DEF s
<1> HIDE DEF t, e, s
<1>6. Separate(t)
  BY <1>1, <1>3, <1>4, <1>5 DEF Separate
<1> QED
  BY <1>6 DEF t, s, e

\* The lists of a state in which TableInv holds are separate, and conversely.
LEMMA SeparateMeaning ==
    (NoDuplicates /\ OneNotActivated)
        <=> \A l \in Locations : Separate(bps[l])
  BY DEF NoDuplicates, OneNotActivated, Separate

\* UpdateBreakpoints, at a location of the map, preserves what TableInv says
\* of that location's list and native breakpoint.
LEMMA UpdateBreakpointsStep ==
    ASSUME TypeOK, TableInv, NEW l \in Locations, msg \in Messages,
           UpdateBreakpoints(l)
    PROVE  /\ bps' \in [Locations -> Seq(Entries)]
           /\ active' \in [Locations -> BOOLEAN]
           /\ Separate(bps'[l])
           /\ bps'[l] # <<>> => active'[l]
           /\ \A k \in Locations \ {l} :
                 bps'[k] = bps[k] /\ active'[k] = active[k]
<1>0. /\ msg.id \in Ids /\ msg.activated \in BOOLEAN
      /\ bps \in [Locations -> Seq(Entries)] /\ active \in [Locations -> BOOLEAN]
      /\ bps[l] \in Seq(Entries) /\ Len(bps[l]) \in Nat
      /\ Separate(bps[l]) /\ (bps[l] # <<>> => active[l])
  BY SeparateMeaning, LenProperties DEF TypeOK, Messages, TableInv, ListedIsActive
<1>1. CASE UpdateExistingBreakpoint(l)
  <2>1. Existing(l, msg.id)
    BY <1>1 DEF UpdateExistingBreakpoint
  <2>2. PICK r \in ActivateCorDebugBreakpointHelper(l, msg.activated) :
           /\ active' = [active EXCEPT ![l] = r.active]
           /\ bps' = IF r.ok /\ ~msg.activated
                     THEN [bps EXCEPT ![l] = Erase(l, msg.id)]
                     ELSE bps
    BY <1>1 DEF UpdateExistingBreakpoint
  <2>3. /\ r.ok \in BOOLEAN /\ r.active \in BOOLEAN
        /\ r.active # active[l] => r.ok /\ r.active = msg.activated
        /\ active[l] /\ ~r.active => ~msg.activated /\ ~AnyActivated(l)
        /\ r.ok /\ msg.activated => r.active
    BY <1>0, HelperResult
  <2>4. active[l] /\ Len(bps[l]) > 0
    BY <1>0, <2>1 DEF Existing
  <2> DEFINE e == Erase(l, msg.id)
  <2>5. /\ e \in Seq(Entries) /\ Len(e) = Len(bps[l]) - 1
        /\ Separate(e)
    BY <1>0, <2>1, EraseResult, EraseSeparate
  <2>6. ~AnyActivated(l) => Len(bps[l]) = 1
    <3> SUFFICES ASSUME ~AnyActivated(l) PROVE Len(bps[l]) = 1
      OBVIOUS
    <3>1. ASSUME Len(bps[l]) > 1 PROVE FALSE
      <4>1. /\ 1 \in 1..Len(bps[l]) /\ 2 \in 1..Len(bps[l])
        BY <1>0, <3>1
      <4>2. ~bps[l][1].activated /\ ~bps[l][2].activated
        BY <4>1 DEF AnyActivated
      <4> QED
        BY <1>0, <4>1, <4>2 DEF Separate
    <3> DEFINE n == Len(bps[l])
    <3>2. n \in Nat /\ n > 0
      BY <1>0, <2>4
    <3>3. ~(n > 1)
      BY <3>1
    <3> HIDE DEF n
    <3>4. n = 1
      BY <3>2, <3>3
    <3> QED
      BY <3>4 DEF n
  <2>9. /\ active' \in [Locations -> BOOLEAN] /\ active'[l] = r.active
        /\ \A k \in Locations \ {l} : active'[k] = active[k]
    BY <1>0, <2>2, <2>3
  <2> HIDE DEF e
  <2>7. CASE r.ok /\ ~msg.activated
    <3>1. bps' = [bps EXCEPT ![l] = e]
      BY <2>2, <2>7 DEF e
    <3>2. ~r.active => e = <<>>
      <4> SUFFICES ASSUME ~r.active PROVE e = <<>>
        OBVIOUS
      <4>1. ~AnyActivated(l)
        BY <2>3, <2>4
      <4>2. Len(e) = 0
        BY <2>5, <2>6, <4>1
      <4> QED
        BY <2>5, <4>2, EmptySeq
    <3>3. /\ bps' \in [Locations -> Seq(Entries)] /\ bps'[l] = e
          /\ \A k \in Locations \ {l} : bps'[k] = bps[k]
      BY <1>0, <2>5, <3>1
    <3> QED
      BY <2>5, <2>9, <3>2, <3>3
  <2>8. CASE ~(r.ok /\ ~msg.activated)
    <3>1. bps' = bps
      BY <2>2, <2>8
    <3>2. r.active
      BY <2>3, <2>4, <2>8
    <3> QED
      BY <1>0, <2>9, <3>1, <3>2
  <2> QED
    BY <2>7, <2>8
<1>2. CASE IgnoreDeactivation(l)
  BY <1>0, <1>2 DEF IgnoreDeactivation
<1>3. CASE AddFromCache(l)
  <2> DEFINE a == Append(bps[l], [id |-> msg.id, activated |-> TRUE])
  <2>1. ~Existing(l, msg.id)
    BY <1>3 DEF AddFromCache
  <2>2. PICK r \in ActivateCorDebugBreakpointHelper(l, TRUE) :
           /\ active' = [active EXCEPT ![l] = r.active]
           /\ bps' = IF r.ok THEN [bps EXCEPT ![l] = a] ELSE bps
    BY <1>3 DEF AddFromCache
  <2>3. /\ r.ok \in BOOLEAN /\ r.active \in BOOLEAN
        /\ active[l] => r.active
        /\ r.ok => r.active
    <3>1. TRUE \in BOOLEAN
      OBVIOUS
    <3> QED
      BY <1>0, <3>1, HelperResult
  <2>4. [id |-> msg.id, activated |-> TRUE] \in Entries
    BY <1>0, Zenon DEF Entries
  <2>5. a \in Seq(Entries) /\ Separate(a)
    BY <1>0, <2>1, <2>4, AppendProperties, AppendSeparate
  <2> HIDE DEF a
  <2> QED
    BY <1>0, <2>2, <2>3, <2>5
<1> QED
  BY <1>1, <1>2, <1>3 DEF UpdateBreakpoints

\* TableInv is an invariant: every step of both threads preserves it.
LEMMA TableInvariant == Spec => []TableInv
<1> USE LocationOfAssumption, ResolveAssumption, NoneAssumption
<1>1. Init => TableInv
  BY EmptySeq DEF Init, TableInv, ListedIsActive, NoDuplicates,
     OneNotActivated, UnknownIsFresh
<1>2. TypeOK /\ TableInv /\ [Next]_vars => TableInv'
  <2> SUFFICES ASSUME TypeOK, TableInv, [Next]_vars PROVE TableInv'
    OBVIOUS
  <2>0. sync \in {"search", "insert"} => LocationOf[msg.id] \notin known
    BY DEF TableInv, UnknownIsFresh
  <2>1. ASSUME NEW id \in Ids, AgentSend(id) PROVE TableInv'
    BY <2>0, <2>1, TableFrame DEF AgentSend, syncVars
  <2>2. CASE AgentKill
    BY <2>0, <2>2, TableFrame DEF AgentKill, syncVars
  <2>3. CASE SyncConnect
    BY <2>3, TableFrame DEF SyncConnect
  <2>4. CASE SyncRead
    BY <2>4, TableFrame DEF SyncRead
  <2>5. CASE SyncEnd \/ SyncCancelled
    BY <2>5, TableFrame DEF SyncEnd, SyncCancelled
  <2>6. CASE SyncUpdateKnown
    <3> DEFINE l == LocationOf[msg.id]
    <3>1. l \in known /\ l \in Locations /\ msg \in Messages
      BY <2>6 DEF SyncUpdateKnown, TypeOK, Messages
    <3>2. UpdateBreakpoints(l) /\ UNCHANGED <<known, site>> /\ sync' = "read"
      BY <2>6 DEF SyncUpdateKnown
    <3> HIDE DEF l
    <3>3. /\ Separate(bps'[l])
          /\ bps'[l] # <<>> => active'[l]
          /\ \A k \in Locations \ {l} :
                bps'[k] = bps[k] /\ active'[k] = active[k]
      BY <3>1, <3>2, UpdateBreakpointsStep
    <3>4. ListedIsActive'
      BY <3>3 DEF ListedIsActive, TableInv
    <3>5. \A k \in Locations : Separate(bps'[k])
      BY <3>3, SeparateMeaning DEF TableInv
    <3>6. NoDuplicates' /\ OneNotActivated'
      BY <3>5 DEF NoDuplicates, OneNotActivated, Separate
    <3>7. UnknownIsFresh'
      BY <3>1, <3>2, <3>3 DEF UnknownIsFresh, TableInv
    <3> QED
      BY <3>4, <3>6, <3>7 DEF TableInv
  <2>7. CASE SyncUpdateUnknown
    BY <2>7, TableFrame DEF SyncUpdateUnknown
  <2>8. CASE SyncSearchMiss \/ SyncSearchNone
    BY <2>0, <2>8, TableFrame DEF SyncSearchMiss, SyncSearchNone, tableVars
  <2>9. CASE SyncSearchFound
    <3> DEFINE l == LocationOf[msg.id]
    <3>1. l \in Locations /\ l \notin known
      BY <2>0, <2>9 DEF SyncSearchFound, TypeOK, Messages
    <3>2. UNCHANGED <<known, bps, msg>>
      BY <2>9 DEF SyncSearchFound
    <3>3. \/ active' = [active EXCEPT ![l] = TRUE]
          \/ UNCHANGED <<site, active>>
      BY <2>9 DEF SyncSearchFound
    <3>4. \A k \in Locations \ {l} : site'[k] = site[k] /\ active'[k] = active[k]
      BY <2>9, <3>1 DEF SyncSearchFound, TypeOK
    <3> HIDE DEF l
    <3>5. active'[l] \/ (site'[l] = site[l] /\ active'[l] = active[l])
      BY <3>1, <3>3 DEF TypeOK
    <3>6. \A k \in Locations : active[k] => active'[k]
      BY <3>4, <3>5
    <3>7. ListedIsActive' /\ NoDuplicates' /\ OneNotActivated'
      BY <3>2, <3>6
      DEF TableInv, ListedIsActive, NoDuplicates, OneNotActivated
    <3>8. UnknownIsFresh'
      BY <3>1, <3>2, <3>4, <3>5 DEF TableInv, UnknownIsFresh, l
    <3> QED
      BY <3>7, <3>8 DEF TableInv
  <2>10. CASE SyncInsert
    <3> DEFINE l == LocationOf[msg.id]
               e == [id |-> msg.id, activated |-> FALSE]
    <3>1. l \in Locations /\ l \notin known
      BY <2>0, <2>10 DEF SyncInsert, TypeOK, Messages
    <3>2. sync' = "read" /\ UNCHANGED <<site, active>>
      BY <2>10 DEF SyncInsert
    <3>3. CASE UNCHANGED <<known, bps>>
      BY <3>2, <3>3, TableFrame DEF tableVars
    <3>4. CASE /\ site[l] # None /\ known' = known \cup {l}
               /\ bps' = [bps EXCEPT ![l] = <<e>>]
      <4>1. active[l]
        BY <3>1, <3>4 DEF TableInv, UnknownIsFresh
      <4> HIDE DEF l, e
      <4>2. /\ bps'[l] = <<e>>
            /\ \A k \in Locations \ {l} : bps'[k] = bps[k]
        BY <3>1, <3>4 DEF TypeOK
      <4>3. Separate(bps'[l])
        BY <4>2 DEF Separate
      <4>4. \A k \in Locations : Separate(bps'[k])
        BY <4>2, <4>3, SeparateMeaning DEF TableInv
      <4>5. NoDuplicates' /\ OneNotActivated'
        BY <4>4 DEF NoDuplicates, OneNotActivated, Separate
      <4>6. ListedIsActive'
        BY <3>2, <4>1, <4>2 DEF TableInv, ListedIsActive
      <4>7. UnknownIsFresh'
        BY <3>2, <3>4, <4>2 DEF TableInv, UnknownIsFresh
      <4> QED
        BY <4>5, <4>6, <4>7 DEF TableInv
    <3> QED
      BY <2>10, <3>3, <3>4 DEF SyncInsert
  <2>11. CASE SyncReadsFreedStorage
    BY <2>0, <2>11, TableFrame DEF SyncReadsFreedStorage, syncVars
  <2>12. ASSUME NEW m \in Modules, LoadModule(m) PROVE TableInv'
    BY <2>0, <2>12, TableFrame DEF LoadModule, syncVars
  <2>13. ASSUME NEW l \in Locations, BreakpointHit(l) PROVE TableInv'
    BY <2>0, <2>13, TableFrame DEF BreakpointHit, syncVars
  <2>14. CASE EvaluateAndPrintBreakpoint
    BY <2>0, <2>14, TableFrame DEF EvaluateAndPrintBreakpoint, syncVars
  <2>15. CASE ReportNext
    BY <2>0, <2>15, TableFrame DEF ReportNext, syncVars
  <2>16. CASE Continue \/ HitUnresolved
    BY <2>0, <2>16, TableFrame DEF Continue, HitUnresolved, syncVars
  <2>17. CASE ExitProcess
    BY <2>0, <2>17, TableFrame DEF ExitProcess, syncVars
  <2>18. CASE UNCHANGED vars
    BY <2>0, <2>18, TableFrame DEF vars, syncVars
  <2> QED
    BY <2>1, <2>2, <2>3, <2>4, <2>5, <2>6, <2>7, <2>8, <2>9, <2>10,
       <2>11, <2>12, <2>13, <2>14, <2>15, <2>16, <2>17, <2>18
    DEF Next, SyncThread, InspectDebuggee
<1> QED
  BY <1>1, <1>2, TypeCorrect, PTL DEF Spec

\* A location with breakpoints in its list has an active native breakpoint, in
\* every behaviour of the two threads and whichever ICorDebug calls fail.
THEOREM ListedIsActiveHolds == Spec => []ListedIsActive
<1>1. TableInv => ListedIsActive
  BY DEF TableInv
<1> QED
  BY <1>1, TableInvariant, PTL

\* No breakpoint is in a location's list twice.
THEOREM NoDuplicatesHolds == Spec => []NoDuplicates
<1>1. TableInv => NoDuplicates
  BY DEF TableInv
<1> QED
  BY <1>1, TableInvariant, PTL

-----------------------------------------------------------------------------
(* The agent and the debugger.                                             *)

\* The agent sends the opposite of what it sent last.
LEMMA AlternatesAppend ==
    ASSUME NEW f \in Seq(Messages), NEW id \in Ids, NEW listed \in BOOLEAN,
           NEW want \in BOOLEAN, Alternates(f, id, listed, want),
           NEW m \in Messages
    PROVE  IF m.id = id
           THEN (m.activated <=> ~want) => Alternates(Append(f, m), id, listed, ~want)
           ELSE Alternates(Append(f, m), id, listed, want)
<1> DEFINE About(s) == {i \in 1..Len(s) : s[i].id = id}
           g == Append(f, m)
<1>1. /\ Len(f) \in Nat
      /\ Len(g) = Len(f) + 1
      /\ \A i \in 1..Len(f) : g[i] = f[i]
      /\ g[Len(f) + 1] = m
  BY AppendProperties, LenProperties
<1>2. m.id = id => About(g) = About(f) \cup {Len(f) + 1}
  BY <1>1
<1>3. m.id # id => About(g) = About(f)
  BY <1>1
<1>4. \A i \in About(f) : i \in Nat /\ i <= Len(f) /\ g[i] = f[i]
  BY <1>1
<1>5. /\ \A i \in About(f) : (\A j \in About(f) : i <= j)
             => (f[i].activated <=> ~listed)
      /\ \A i \in About(f) : (\A j \in About(f) : j <= i)
             => (f[i].activated <=> want)
      /\ \A i, k \in About(f) : (i < k /\ \A j \in About(f) : j <= i \/ k <= j)
             => (f[k].activated <=> ~f[i].activated)
      /\ About(f) = {} => (listed <=> want)
  BY DEF Alternates
<1> HIDE DEF About, g
<1>6. ASSUME m.id # id PROVE Alternates(g, id, listed, want)
  <2>1. About(g) = About(f)
    BY <1>3, <1>6
  <2> SUFFICES
        /\ \A i \in About(g) : (\A j \in About(g) : i <= j)
               => (g[i].activated <=> ~listed)
        /\ \A i \in About(g) : (\A j \in About(g) : j <= i)
               => (g[i].activated <=> want)
        /\ \A i, k \in About(g) : (i < k /\ \A j \in About(g) : j <= i \/ k <= j)
               => (g[k].activated <=> ~g[i].activated)
        /\ About(g) = {} => (listed <=> want)
    BY DEF Alternates, About
  <2> QED
    BY <1>4, <1>5, <2>1
<1>7. ASSUME m.id = id, m.activated <=> ~want
      PROVE  Alternates(g, id, listed, ~want)
  <2> DEFINE n == Len(f) + 1
  <2>1. About(g) = About(f) \cup {n} /\ g[n].activated = m.activated
    BY <1>1, <1>2, <1>7
  <2>2. n \in Nat /\ \A i \in About(f) : i \in Nat /\ i < n /\ g[i] = f[i]
    BY <1>1, <1>4
  <2> HIDE DEF n
  <2>3. \A i \in About(g) : (\A j \in About(g) : i <= j)
            => (g[i].activated <=> ~listed)
    <3> SUFFICES ASSUME NEW i \in About(g), \A j \in About(g) : i <= j
                 PROVE  g[i].activated <=> ~listed
      OBVIOUS
    <3>1. CASE i \in About(f)
      BY <1>5, <2>1, <2>2, <3>1
    <3>2. CASE i = n
      <4>1. About(f) = {}
        BY <2>1, <2>2, <3>2
      <4> QED
        BY <1>5, <1>7, <2>1, <3>2, <4>1
    <3> QED
      BY <2>1, <3>1, <3>2
  <2>4. \A i \in About(g) : (\A j \in About(g) : j <= i)
            => (g[i].activated <=> ~want)
    BY <1>7, <2>1, <2>2
  <2>5. \A i, k \in About(g) : (i < k /\ \A j \in About(g) : j <= i \/ k <= j)
            => (g[k].activated <=> ~g[i].activated)
    <3> SUFFICES ASSUME NEW i \in About(g), NEW k \in About(g), i < k,
                        \A j \in About(g) : j <= i \/ k <= j
                 PROVE  g[k].activated <=> ~g[i].activated
      OBVIOUS
    <3>1. i \in About(f)
      BY <2>1, <2>2
    <3>2. CASE k \in About(f)
      BY <1>5, <2>1, <2>2, <3>1, <3>2
    <3>3. CASE k = n
      <4>1. ASSUME NEW j \in About(f) PROVE j <= i
        <5>1. j \in About(g) /\ j \in Nat /\ j < n
          BY <2>1, <2>2
        <5>2. j <= i \/ n <= j
          BY <3>3, <5>1
        <5> QED
          BY <2>2, <5>1, <5>2
      <4>2. f[i].activated <=> want
        BY <1>5, <3>1, <4>1
      <4>3. g[i] = f[i]
        BY <2>2, <3>1
      <4>4. g[k].activated <=> ~want
        BY <1>7, <2>1, <3>3
      <4> QED
        BY <4>2, <4>3, <4>4
    <3> QED
      BY <2>1, <3>2, <3>3
  <2>6. About(g) # {}
    BY <2>1
  <2> QED
    BY <2>3, <2>4, <2>5, <2>6 DEF Alternates, About
<1> QED
  BY <1>6, <1>7 DEF g

\* The debugger applies the first message: it is the opposite of what the
\* debugger has, and what follows alternates from there.
LEMMA AlternatesTail ==
    ASSUME NEW f \in Seq(Messages), f # <<>>, NEW id \in Ids,
           NEW listed \in BOOLEAN, NEW want \in BOOLEAN,
           Alternates(f, id, listed, want)
    PROVE  IF Head(f).id = id
           THEN /\ Head(f).activated <=> ~listed
                /\ Alternates(Tail(f), id, ~listed, want)
           ELSE Alternates(Tail(f), id, listed, want)
<1> DEFINE About(s) == {i \in 1..Len(s) : s[i].id = id}
           g == Tail(f)
<1>1. /\ Len(f) \in Nat /\ Len(f) > 0
      /\ Len(g) = Len(f) - 1
      /\ \A i \in 1..Len(g) : g[i] = f[i + 1]
      /\ Head(f) = f[1]
  BY HeadTailProperties, LenProperties, EmptySeq
<1>2. /\ \A i \in About(g) : i \in Nat /\ i >= 1 /\ i + 1 \in About(f) /\ g[i] = f[i + 1]
      /\ \A i \in About(f) : i \in Nat /\ i >= 1 /\ (i = 1 \/ i - 1 \in About(g))
      /\ Head(f).id = id <=> 1 \in About(f)
  BY <1>1
<1>5. /\ \A i \in About(f) : (\A j \in About(f) : i <= j)
             => (f[i].activated <=> ~listed)
      /\ \A i \in About(f) : (\A j \in About(f) : j <= i)
             => (f[i].activated <=> want)
      /\ \A i, k \in About(f) : (i < k /\ \A j \in About(f) : j <= i \/ k <= j)
             => (f[k].activated <=> ~f[i].activated)
      /\ About(f) = {} => (listed <=> want)
  BY DEF Alternates
<1> HIDE DEF About, g
<1>3. \A i \in About(g) : (\A j \in About(g) : j <= i)
          => (g[i].activated <=> want)
  <2> SUFFICES ASSUME NEW i \in About(g), \A j \in About(g) : j <= i
               PROVE  g[i].activated <=> want
    OBVIOUS
  <2>1. \A j \in About(f) : j <= i + 1
    BY <1>2
  <2> QED
    BY <1>2, <1>5, <2>1
<1>4. \A i, k \in About(g) : (i < k /\ \A j \in About(g) : j <= i \/ k <= j)
          => (g[k].activated <=> ~g[i].activated)
  <2> SUFFICES ASSUME NEW i \in About(g), NEW k \in About(g), i < k,
                      \A j \in About(g) : j <= i \/ k <= j
               PROVE  g[k].activated <=> ~g[i].activated
    OBVIOUS
  <2>1. i \in Nat /\ k \in Nat /\ i >= 1 /\ i + 1 < k + 1
    BY <1>2
  <2>2. ASSUME NEW j \in About(f) PROVE j <= i + 1 \/ k + 1 <= j
    <3>1. j \in Nat /\ (j = 1 \/ j - 1 <= i \/ k <= j - 1)
      BY <1>2
    <3> QED
      BY <2>1, <3>1
  <2> QED
    BY <1>2, <1>5, <2>1, <2>2
<1>6. ASSUME Head(f).id # id PROVE Alternates(g, id, listed, want)
  <2>1. \A i \in About(g) : (\A j \in About(g) : i <= j)
            => (g[i].activated <=> ~listed)
    <3> SUFFICES ASSUME NEW i \in About(g), \A j \in About(g) : i <= j
                 PROVE  g[i].activated <=> ~listed
      OBVIOUS
    <3>1. \A j \in About(f) : i + 1 <= j
      BY <1>2, <1>6
    <3> QED
      BY <1>2, <1>5, <3>1
  <2>2. About(g) = {} => About(f) = {}
    BY <1>2, <1>6
  <2> QED
    BY <1>3, <1>4, <1>5, <2>1, <2>2 DEF Alternates, About
<1>7. ASSUME Head(f).id = id
      PROVE  /\ Head(f).activated <=> ~listed
             /\ Alternates(g, id, ~listed, want)
  <2>1. 1 \in About(f) /\ \A j \in About(f) : 1 <= j
    BY <1>2, <1>7
  <2>2. f[1].activated <=> ~listed
    BY <1>5, <2>1
  <2>3. \A i \in About(g) : (\A j \in About(g) : i <= j)
            => (g[i].activated <=> listed)
    <3> SUFFICES ASSUME NEW i \in About(g), \A j \in About(g) : i <= j
                 PROVE  g[i].activated <=> listed
      OBVIOUS
    <3>1. \A j \in About(f) : j <= 1 \/ i + 1 <= j
      BY <1>2
    <3>2. 1 < i + 1
      BY <1>2
    <3> QED
      BY <1>2, <1>5, <2>1, <2>2, <3>1, <3>2
  <2>4. About(g) = {} => (~listed <=> want)
    <3> SUFFICES ASSUME About(g) = {} PROVE ~listed <=> want
      OBVIOUS
    <3>1. \A j \in About(f) : j <= 1
      BY <1>2
    <3> QED
      BY <1>5, <2>1, <2>2, <3>1
  <2> QED
    BY <1>1, <1>3, <1>4, <2>2, <2>3, <2>4 DEF Alternates, About
<1> QED
  BY <1>6, <1>7 DEF g

\* Erasing takes that breakpoint out of the list and no other.
LEMMA EraseExisting ==
    ASSUME TypeOK, NEW l \in Locations, NEW id \in Ids, Existing(l, id),
           Separate(bps[l]), NEW k \in Ids
    PROVE  (\E j \in 1..Len(Erase(l, id)) : Erase(l, id)[j].id = k)
               <=> k # id /\ Existing(l, k)
<1> DEFINE s == bps[l]
           n == Len(bps[l])
           p == Position(l, id)
           t == Erase(l, id)
<1>1. /\ n \in Nat /\ p \in 1..n /\ Len(t) = n - 1
      /\ \A j \in 1..(n - 1) : t[j] = IF j < p THEN s[j] ELSE s[j + 1]
  BY EraseResult, LenProperties DEF TypeOK
<1>2. s[p].id = id
  BY DEF Existing, Position
<1>3. \A i, j \in 1..n : s[i].id = s[j].id => i = j
  BY DEF Separate
<1>4. Existing(l, k) <=> \E i \in 1..n : s[i].id = k
  BY DEF Existing
<1> HIDE DEF s, n, p, t
<1>5. ASSUME NEW j \in 1..(n - 1), t[j].id = k PROVE k # id /\ Existing(l, k)
  <2>1. CASE j < p
    <3>1. j \in 1..n /\ s[j].id = k /\ j # p
      BY <1>1, <1>5, <2>1
    <3> QED
      BY <1>1, <1>2, <1>3, <1>4, <3>1
  <2>2. CASE ~(j < p)
    <3>1. j + 1 \in 1..n /\ s[j + 1].id = k /\ j + 1 # p
      BY <1>1, <1>5, <2>2
    <3> QED
      BY <1>1, <1>2, <1>3, <1>4, <3>1
  <2> QED
    BY <2>1, <2>2
<1>6. ASSUME k # id, NEW i \in 1..n, s[i].id = k
      PROVE  \E j \in 1..(n - 1) : t[j].id = k
  <2>1. i # p
    BY <1>2, <1>6
  <2>2. CASE i < p
    <3>1. i \in 1..(n - 1) /\ t[i].id = k
      BY <1>1, <1>6, <2>2
    <3> QED
      BY <3>1
  <2>3. CASE i > p
    <3>1. i - 1 \in 1..(n - 1) /\ ~(i - 1 < p) /\ (i - 1) + 1 = i
      BY <1>1, <2>3
    <3>2. t[i - 1].id = k
      BY <1>1, <1>6, <3>1
    <3> QED
      BY <3>1, <3>2
  <2> QED
    BY <1>1, <2>1, <2>2, <2>3
<1> QED
  BY <1>1, <1>4, <1>5, <1>6 DEF t

\* UpdateBreakpoints does to the list what the message says, or counts the
\* message as dropped, and changes no other breakpoint.
LEMMA UpdateBreakpointsApplies ==
    ASSUME TypeOK, TableInv, msg \in Messages,
           UpdateBreakpoints(LocationOf[msg.id])
    PROVE  /\ dropped \subseteq dropped'
           /\ \A id \in Ids :
                 IF id # msg.id THEN Listed(id)' <=> Listed(id)
                 ELSE (id \notin dropped' /\ (msg.activated <=> ~Listed(id)))
                          => (Listed(id)' <=> msg.activated)
<1> USE LocationOfAssumption
<1> DEFINE l == LocationOf[msg.id]
<1>0. /\ msg.id \in Ids /\ msg.activated \in BOOLEAN /\ l \in Locations
      /\ bps \in [Locations -> Seq(Entries)] /\ bps[l] \in Seq(Entries)
      /\ Len(bps[l]) \in Nat /\ Separate(bps[l])
  BY SeparateMeaning, LenProperties DEF TypeOK, Messages, TableInv
<1>1. \A k \in Locations \ {l} : bps'[k] = bps[k]
  BY <1>0, UpdateBreakpointsStep
<1>2. ASSUME NEW id \in Ids, LocationOf[id] # l
      PROVE  Listed(id)' <=> Listed(id)
  BY <1>1, <1>2 DEF Listed, Existing
<1>3. CASE UNCHANGED bps
  <2>1. dropped \subseteq dropped'
    BY DEF UpdateBreakpoints, UpdateExistingBreakpoint, IgnoreDeactivation, AddFromCache
  <2>2. \A id \in Ids : Listed(id)' <=> Listed(id)
    BY <1>3 DEF Listed, Existing
  <2>3. ASSUME msg.id \notin dropped', msg.activated <=> ~Listed(msg.id) PROVE FALSE
    <3>1. CASE UpdateExistingBreakpoint(l)
      <4>1. Existing(l, msg.id) /\ ~msg.activated
        BY <2>3, <3>1 DEF UpdateExistingBreakpoint, Listed
      <4>2. bps' = [bps EXCEPT ![l] = Erase(l, msg.id)]
        BY <2>3, <3>1, <4>1 DEF UpdateExistingBreakpoint
      <4>3. bps'[l] = Erase(l, msg.id)
        BY <1>0, <4>2
      <4>4. Len(Erase(l, msg.id)) = Len(bps[l]) - 1
        BY <1>0, <4>1, EraseResult
      <4> QED
        BY <1>0, <1>3, <4>3, <4>4
    <3>2. CASE IgnoreDeactivation(l)
      BY <2>3, <3>2 DEF IgnoreDeactivation, Listed
    <3>3. CASE AddFromCache(l)
      <4> DEFINE e == [id |-> msg.id, activated |-> TRUE]
      <4>1. bps' = [bps EXCEPT ![l] = Append(bps[l], e)]
        BY <2>3, <3>3 DEF AddFromCache
      <4>2. bps'[l] = Append(bps[l], e)
        BY <1>0, <4>1
      <4>3. e \in Entries
        BY <1>0, Zenon DEF Entries
      <4>4. Len(Append(bps[l], e)) = Len(bps[l]) + 1
        BY <1>0, <4>3, AppendProperties
      <4> QED
        BY <1>0, <1>3, <4>2, <4>4
    <3> QED
      BY <3>1, <3>2, <3>3 DEF UpdateBreakpoints
  <2> QED
    BY <2>1, <2>2, <2>3
<1>4. CASE /\ Existing(l, msg.id) /\ ~msg.activated /\ dropped' = dropped
           /\ bps' = [bps EXCEPT ![l] = Erase(l, msg.id)]
  <2>1. bps'[l] = Erase(l, msg.id)
    BY <1>0, <1>4
  <2>2. ASSUME NEW id \in Ids, LocationOf[id] = l
        PROVE  Listed(id)' <=> id # msg.id /\ Listed(id)
    <3>1. Listed(id)' <=> \E j \in 1..Len(Erase(l, msg.id)) :
                              Erase(l, msg.id)[j].id = id
      BY <2>1, <2>2 DEF Listed, Existing
    <3>2. Listed(id) <=> Existing(l, id)
      BY <2>2 DEF Listed
    <3> DEFINE k == msg.id
               e == LocationOf[k]
    <3>3. k \in Ids /\ e \in Locations /\ Existing(e, k) /\ Separate(bps[e])
      BY <1>0, <1>4
    <3> HIDE DEF k, e
    <3>4. (\E j \in 1..Len(Erase(e, k)) : Erase(e, k)[j].id = id)
             <=> id # k /\ Existing(e, id)
      BY ONLY <3>3, TypeOK, EraseExisting, id \in Ids
    <3> QED
      BY <3>1, <3>2, <3>4 DEF k, e
  <2>3. ASSUME NEW id \in Ids, id = msg.id PROVE Listed(id)' <=> FALSE
    BY <2>2, <2>3
  <2>4. ASSUME NEW id \in Ids, id # msg.id PROVE Listed(id)' <=> Listed(id)
    <3>1. CASE LocationOf[id] = l
      BY <2>2, <2>4, <3>1
    <3>2. CASE LocationOf[id] # l
      BY <1>2, <3>2
    <3> QED
      BY <3>1, <3>2
  <2> QED
    BY <1>4, <2>3, <2>4
<1>5. CASE /\ ~Existing(l, msg.id) /\ msg.activated /\ dropped' = dropped
           /\ bps' = [bps EXCEPT ![l] =
                         Append(@, [id |-> msg.id, activated |-> TRUE])]
  <2> DEFINE e == [id |-> msg.id, activated |-> TRUE]
             t == Append(bps[l], e)
  <2>1. bps'[l] = t
    BY <1>0, <1>5
  <2>2. e \in Entries /\ e.id = msg.id
    BY <1>0, Zenon DEF Entries
  <2>3. /\ Len(t) = Len(bps[l]) + 1 /\ t[Len(bps[l]) + 1] = e
        /\ \A i \in 1..Len(bps[l]) : t[i] = bps[l][i]
    BY <1>0, <2>2, AppendProperties
  <2> HIDE DEF t, e
  <2>4. ASSUME NEW id \in Ids, LocationOf[id] = l
        PROVE  Listed(id)' <=> id = msg.id \/ Listed(id)
    <3>1. Listed(id)' <=> \E i \in 1..Len(t) : t[i].id = id
      BY <2>1, <2>4 DEF Listed, Existing
    <3>2. Listed(id) <=> \E i \in 1..Len(bps[l]) : bps[l][i].id = id
      BY <2>4 DEF Listed, Existing
    <3>3. Len(bps[l]) + 1 \in 1..Len(t)
      BY <1>0, <2>3
    <3>4. CASE id = msg.id
      BY <2>2, <2>3, <3>1, <3>3, <3>4
    <3>5. ASSUME id # msg.id, NEW i \in 1..Len(t), t[i].id = id
          PROVE  i \in 1..Len(bps[l])
      BY <1>0, <2>2, <2>3, <3>5
    <3>6. 1..Len(bps[l]) \subseteq 1..Len(t)
      BY <1>0, <2>3
    <3>7. CASE id # msg.id
      BY <2>3, <3>1, <3>2, <3>5, <3>6, <3>7
    <3> QED
      BY <3>4, <3>7
  <2>5. ASSUME NEW id \in Ids, id = msg.id PROVE Listed(id)' <=> TRUE
    BY <2>4, <2>5
  <2>6. ASSUME NEW id \in Ids, id # msg.id PROVE Listed(id)' <=> Listed(id)
    <3>1. CASE LocationOf[id] = l
      BY <2>4, <2>6, <3>1
    <3>2. CASE LocationOf[id] # l
      BY <1>2, <3>2
    <3> QED
      BY <3>1, <3>2
  <2> QED
    BY <1>5, <2>5, <2>6
<1> QED
  BY <1>0, <1>3, <1>4, <1>5
  DEF UpdateBreakpoints, UpdateExistingBreakpoint, IgnoreDeactivation, AddFromCache

\* The messages in flight are messages; the one being applied is the first.
LEMMA FlightType ==
    ASSUME TypeOK
    PROVE  /\ Flight \in Seq(Messages)
           /\ sync \in {"update", "search", "insert"} =>
                 Flight # <<>> /\ Head(Flight) = msg /\ Tail(Flight) = inbox
<1>1. inbox \in Seq(Messages)
  BY DEF TypeOK
<1>2. CASE sync \in {"update", "search", "insert"}
  <2>1. msg \in Messages
    BY <1>2 DEF TypeOK
  <2> DEFINE f == <<msg>> \o inbox
  <2>2. Flight = f
    BY <1>2 DEF Flight
  <2> HIDE DEF Messages
  <2>3. <<msg>> \in Seq(Messages) /\ Len(<<msg>>) = 1
    BY <2>1
  <2>4. /\ f \in Seq(Messages) /\ Len(f) = 1 + Len(inbox)
        /\ \A i \in 1..Len(f) : f[i] = IF i <= 1 THEN msg ELSE inbox[i - 1]
    BY <1>1, <2>1, <2>3, ConcatProperties
  <2>5. Len(inbox) \in Nat
    BY <1>1
  <2> HIDE DEF f
  <2>6. f # <<>> /\ Head(f) = msg
    BY <2>4, <2>5, HeadTailProperties, EmptySeq
  <2>7. /\ Tail(f) \in Seq(Messages) /\ Len(Tail(f)) = Len(inbox)
        /\ \A i \in 1..Len(inbox) : Tail(f)[i] = inbox[i]
    BY <2>4, <2>5, <2>6, HeadTailProperties
  <2>8. Tail(f) = inbox
    BY <1>1, <2>7, SeqEqual
  <2> QED
    BY <2>2, <2>4, <2>6, <2>8
<1>3. CASE sync \notin {"update", "search", "insert"}
  BY <1>1, <1>3 DEF Flight
<1> QED
  BY <1>2, <1>3

\* A step that leaves the messages, the lists and the agent's dictionary alone
\* preserves MessagesAlternate.
LEMMA AgreeFrame ==
    ASSUME MessagesAlternate, Flight' = Flight, UNCHANGED <<bps, wanted>>,
           dropped \subseteq dropped'
    PROVE  MessagesAlternate'
  BY DEF MessagesAlternate, Alternates, Listed, Existing

\* A step that has applied the message: the list is as the message says, unless
\* the message was dropped, and the other breakpoints are as they were.
LEMMA AgreeApplied ==
    ASSUME TypeOK, MessagesAlternate,
           sync \in {"update", "search", "insert"},
           sync' = "read", UNCHANGED <<inbox, wanted>>,
           dropped \subseteq dropped',
           \A id \in Ids :
              IF id # msg.id THEN Listed(id)' <=> Listed(id)
              ELSE (id \notin dropped' /\ (msg.activated <=> ~Listed(id)))
                       => (Listed(id)' <=> msg.activated)
    PROVE  MessagesAlternate'
<1>1. /\ Flight \in Seq(Messages) /\ Flight # <<>>
      /\ Head(Flight) = msg /\ Tail(Flight) = inbox
  BY FlightType
<1>2. Flight' = inbox
  BY DEF Flight
<1> SUFFICES ASSUME NEW id \in Ids, id \notin dropped'
             PROVE  Alternates(Flight', id, Listed(id)', id \in wanted)
  BY DEF MessagesAlternate, Alternates
<1>3. Alternates(Flight, id, Listed(id), id \in wanted)
  BY DEF MessagesAlternate
<1>4. PICK a \in BOOLEAN : a <=> Listed(id)
  BY Zenon
<1>5. PICK w \in BOOLEAN : w <=> id \in wanted
  BY Zenon
<1>6. Alternates(Flight, id, a, w)
  BY <1>3, <1>4, <1>5 DEF Alternates
<1>7. CASE id = msg.id
  <2> DEFINE f == Flight
  <2>1. Head(f).id = id /\ f \in Seq(Messages) /\ f # <<>> /\ Alternates(f, id, a, w)
    BY <1>1, <1>6, <1>7
  <2> HIDE DEF f
  <2>2. (Head(f).activated <=> ~a) /\ Alternates(Tail(f), id, ~a, w)
    BY ONLY <2>1, AlternatesTail, id \in Ids, a \in BOOLEAN, w \in BOOLEAN
  <2>3. (msg.activated <=> ~a) /\ Alternates(inbox, id, ~a, w)
    BY <1>1, <2>2 DEF f
  <2>4. Listed(id)' <=> ~a
    BY <1>4, <1>7, <2>3
  <2> QED
    BY <1>2, <1>5, <2>3, <2>4 DEF Alternates
<1>8. CASE id # msg.id
  <2> DEFINE f == Flight
  <2>1. Head(f).id # id /\ f \in Seq(Messages) /\ f # <<>> /\ Alternates(f, id, a, w)
    BY <1>1, <1>6, <1>8
  <2> HIDE DEF f
  <2>2. Alternates(Tail(f), id, a, w)
    BY ONLY <2>1, AlternatesTail, id \in Ids, a \in BOOLEAN, w \in BOOLEAN
  <2>3. Alternates(inbox, id, a, w)
    BY <1>1, <2>2 DEF f
  <2>4. Listed(id)' <=> a
    BY <1>4, <1>8
  <2> QED
    BY <1>2, <1>5, <2>3, <2>4 DEF Alternates
<1> QED
  BY <1>7, <1>8

\* MessagesAlternate is an invariant.
LEMMA AgreeInvariant == Spec => []MessagesAlternate
<1> USE LocationOfAssumption
<1>1. Init => MessagesAlternate
  <2> SUFFICES ASSUME Init, NEW id \in Ids
               PROVE  Alternates(Flight, id, Listed(id), id \in wanted)
    BY DEF MessagesAlternate
  <2>1. Flight = <<>> /\ Len(Flight) = 0
    BY DEF Init, Flight
  <2>2. ~Listed(id) /\ id \notin wanted
    BY DEF Init, Listed, Existing
  <2> QED
    BY <2>1, <2>2 DEF Alternates
<1>2. TypeOK /\ TableInv /\ MessagesAlternate /\ [Next]_vars => MessagesAlternate'
  <2> SUFFICES ASSUME TypeOK, TableInv, MessagesAlternate, [Next]_vars
               PROVE  MessagesAlternate'
    OBVIOUS
  <2> USE DEF agentVars, tableVars, syncVars, histVars
  <2>1. ASSUME NEW k \in Ids, AgentSend(k) PROVE MessagesAlternate'
    <3> DEFINE m == [id |-> k, activated |-> k \notin wanted]
    <3>1. m \in Messages /\ m.id = k /\ (m.activated <=> k \notin wanted)
      BY Zenon DEF Messages
    <3>2. /\ inbox' = Append(inbox, m)
          /\ wanted' = IF k \in wanted THEN wanted \ {k} ELSE wanted \cup {k}
          /\ UNCHANGED <<sync, msg, bps, dropped>>
      BY <2>1 DEF AgentSend
    <3> HIDE DEF m
    <3>3. Flight' = Append(Flight, m)
      <4>1. /\ inbox \in Seq(Messages)
            /\ sync \in {"update", "search", "insert"} => msg \in Messages
        BY DEF TypeOK
      <4> HIDE DEF Messages
      <4>2. CASE sync \in {"update", "search", "insert"}
        <5>1. <<msg>> \in Seq(Messages) /\ <<m>> \in Seq(Messages)
          BY <3>1, <4>1, <4>2
        <5>2. inbox' = inbox \o <<m>>
          BY <3>1, <3>2, <4>1, AppendIsConcat
        <5>3. <<msg>> \o (inbox \o <<m>>) = (<<msg>> \o inbox) \o <<m>>
          BY <4>1, <5>1, ConcatAssociative
        <5>4. Flight \in Seq(Messages) /\ Flight = <<msg>> \o inbox
          BY <4>2, FlightType DEF Flight
        <5>5. Flight' = <<msg>> \o inbox'
          BY <3>2, <4>2 DEF Flight
        <5> QED
          BY <3>1, <5>2, <5>3, <5>4, <5>5, AppendIsConcat
      <4>3. CASE sync \notin {"update", "search", "insert"}
        BY <3>2, <4>3 DEF Flight
      <4> QED
        BY <4>2, <4>3
    <3> SUFFICES ASSUME NEW id \in Ids, id \notin dropped
                 PROVE  Alternates(Flight', id, Listed(id)', id \in wanted')
      BY <3>2 DEF MessagesAlternate, Alternates
    <3>4. Alternates(Flight, id, Listed(id), id \in wanted) /\ Flight \in Seq(Messages)
      BY FlightType DEF MessagesAlternate
    <3>5. Listed(id)' <=> Listed(id)
      BY <3>2 DEF Listed, Existing
    <3>6. PICK a \in BOOLEAN : a <=> Listed(id)
      BY Zenon
    <3>7. PICK w \in BOOLEAN : w <=> id \in wanted
      BY Zenon
    <3>8. Alternates(Flight, id, a, w)
      BY <3>4, <3>6, <3>7 DEF Alternates
    <3>9. CASE id = k
      <4>1. Alternates(Append(Flight, m), id, a, ~w)
        BY <3>1, <3>4, <3>7, <3>8, <3>9, AlternatesAppend
      <4>2. ~w <=> id \in wanted'
        BY <3>2, <3>7, <3>9
      <4> QED
        BY <3>3, <3>5, <3>6, <4>1, <4>2 DEF Alternates
    <3>10. CASE id # k
      <4>1. Alternates(Append(Flight, m), id, a, w)
        BY <3>1, <3>4, <3>8, <3>10, AlternatesAppend
      <4>2. w <=> id \in wanted'
        BY <3>2, <3>7, <3>10
      <4> QED
        BY <3>3, <3>5, <3>6, <4>1, <4>2 DEF Alternates
    <3> QED
      BY <3>9, <3>10
  <2>2. CASE AgentKill
    BY <2>2, AgreeFrame DEF AgentKill, Flight
  <2>3. CASE SyncConnect
    BY <2>3, AgreeFrame DEF SyncConnect, Flight
  <2>4. CASE SyncRead
    <3>1. /\ sync' = "update" /\ msg' = Head(inbox) /\ inbox' = Tail(inbox)
          /\ sync = "read" /\ inbox # <<>>
          /\ UNCHANGED <<bps, wanted, dropped>>
      BY <2>4 DEF SyncRead
    <3>2. inbox \in Seq(Messages)
      BY DEF TypeOK
    <3> HIDE DEF Messages
    <3>3. <<Head(inbox)>> \o Tail(inbox) = inbox
      BY <3>1, <3>2, ConcatSimplifications
    <3>4. Flight' = Flight
      BY <3>1, <3>3 DEF Flight
    <3> QED
      BY <3>1, <3>4, AgreeFrame
  <2>5. CASE SyncEnd \/ SyncCancelled
    BY <2>5, AgreeFrame DEF SyncEnd, SyncCancelled, Flight
  <2>6. CASE SyncUpdateKnown
    <3>1. /\ UpdateBreakpoints(LocationOf[msg.id])
          /\ sync = "update" /\ sync' = "read"
          /\ UNCHANGED <<inbox, wanted, msg>>
          /\ msg \in Messages
      BY <2>6 DEF SyncUpdateKnown, TypeOK
    <3> QED
      BY <3>1, UpdateBreakpointsApplies, AgreeApplied
  <2>7. CASE SyncUpdateUnknown
    BY <2>7, AgreeFrame DEF SyncUpdateUnknown, Flight
  <2>8. CASE SyncSearchMiss
    BY <2>8, AgreeFrame DEF SyncSearchMiss, Flight
  <2>9. ASSUME sync \in {"search", "insert"}, sync' = "read",
               dropped' = dropped \cup {msg.id}, UNCHANGED <<inbox, wanted, bps>>
        PROVE  MessagesAlternate'
    <3>1. \A id \in Ids : Listed(id)' <=> Listed(id)
      BY <2>9 DEF Listed, Existing
    <3> QED
      BY <2>9, <3>1, AgreeApplied
  <2>10. CASE SyncSearchNone
    BY <2>9, <2>10 DEF SyncSearchNone
  <2>11. CASE SyncSearchFound
    <3>1. CASE sync' = "insert"
      BY <2>11, <3>1, AgreeFrame DEF SyncSearchFound, Flight
    <3>2. CASE sync' = "read"
      BY <2>9, <2>11, <3>2 DEF SyncSearchFound
    <3> QED
      BY <2>11, <3>1, <3>2 DEF SyncSearchFound
  <2>12. CASE SyncInsert
    <3> DEFINE l == LocationOf[msg.id]
               e == [id |-> msg.id, activated |-> FALSE]
    <3>1. l \in Locations /\ l \notin known /\ bps[l] = <<>> /\ msg \in Messages
      BY <2>12 DEF SyncInsert, TypeOK, Messages, TableInv, UnknownIsFresh
    <3>2. sync = "insert" /\ sync' = "read" /\ UNCHANGED <<inbox, wanted>>
      BY <2>12 DEF SyncInsert
    <3>3. CASE dropped' = dropped \cup {msg.id} /\ UNCHANGED bps
      BY <2>9, <3>2, <3>3
    <3>4. CASE dropped' = dropped /\ bps' = [bps EXCEPT ![l] = <<e>>]
      <4>1. /\ bps'[l] = <<e>> /\ Len(<<e>>) = 1 /\ <<e>>[1].id = msg.id
            /\ \A k \in Locations \ {l} : bps'[k] = bps[k]
        BY <3>1, <3>4 DEF TypeOK
      <4>2. ASSUME NEW id \in Ids, id = msg.id PROVE Listed(id)' /\ ~Listed(id)
        BY <3>1, <4>1, <4>2 DEF Listed, Existing
      <4>3. ASSUME NEW id \in Ids, id # msg.id PROVE Listed(id)' <=> Listed(id)
        BY <3>1, <4>1, <4>3 DEF Listed, Existing
      <4> QED
        BY <3>2, <3>4, <4>2, <4>3, AgreeApplied
    <3> QED
      BY <2>12, <3>3, <3>4 DEF SyncInsert
  <2>13. CASE SyncReadsFreedStorage
    BY <2>13, AgreeFrame DEF SyncReadsFreedStorage, Flight
  <2>14. ASSUME NEW m \in Modules, LoadModule(m) PROVE MessagesAlternate'
    BY <2>14, AgreeFrame DEF LoadModule, Flight
  <2>15. ASSUME NEW l \in Locations, BreakpointHit(l) PROVE MessagesAlternate'
    BY <2>15, AgreeFrame DEF BreakpointHit, Flight
  <2>16. CASE EvaluateAndPrintBreakpoint
    BY <2>16, AgreeFrame DEF EvaluateAndPrintBreakpoint, Flight
  <2>17. CASE ReportNext
    BY <2>17, AgreeFrame DEF ReportNext, Flight
  <2>18. CASE Continue \/ HitUnresolved
    BY <2>18, AgreeFrame DEF Continue, HitUnresolved, Flight
  <2>19. CASE ExitProcess
    BY <2>19, AgreeFrame DEF ExitProcess, Flight
  <2>20. CASE UNCHANGED vars
    BY <2>20, AgreeFrame DEF vars, Flight
  <2> QED
    BY <2>1, <2>2, <2>3, <2>4, <2>5, <2>6, <2>7, <2>8, <2>10, <2>11, <2>12, <2>13,
       <2>14, <2>15, <2>16, <2>17, <2>18, <2>19, <2>20
    DEF Next, SyncThread, InspectDebuggee
<1> QED
  BY <1>1, <1>2, TypeCorrect, TableInvariant, PTL DEF Spec

\* When nothing about a breakpoint is in flight and none of its messages was
\* dropped, the debugger lists it exactly when the agent's BreakpointManager has
\* it, for any number of breakpoints and messages.
THEOREM AgentAndDebuggerAgreeHolds == Spec => []AgentAndDebuggerAgree
<1>1. TypeOK /\ MessagesAlternate => AgentAndDebuggerAgree
  <2> SUFFICES ASSUME TypeOK, MessagesAlternate, NEW id \in Ids \ dropped, ~InFlight(id)
               PROVE  Listed(id) <=> id \in wanted
    BY DEF AgentAndDebuggerAgree
  <2>1. \A i \in 1..Len(Flight) : Flight[i].id # id
    <3>1. CASE sync \in {"update", "search", "insert"}
      <4>1. inbox \in Seq(Messages) /\ msg \in Messages /\ Len(inbox) \in Nat
        BY <3>1 DEF TypeOK
      <4> HIDE DEF Messages
      <4>2. Flight = <<msg>> \o inbox
        BY <3>1 DEF Flight
      <4>3. /\ Len(Flight) = 1 + Len(inbox)
            /\ \A i \in 1..Len(Flight) : Flight[i] = IF i <= 1 THEN msg ELSE inbox[i - 1]
        BY <4>1, <4>2, ConcatProperties
      <4> QED
        BY <3>1, <4>1, <4>3 DEF InFlight
    <3>2. CASE sync \notin {"update", "search", "insert"}
      BY <3>2 DEF Flight, InFlight
    <3> QED
      BY <3>1, <3>2
  <2>2. Alternates(Flight, id, Listed(id), id \in wanted)
    BY DEF MessagesAlternate
  <2> QED
    BY <2>1, <2>2 DEF Alternates
<1> QED
  BY <1>1, TypeCorrect, AgreeInvariant, PTL
=============================================================================
