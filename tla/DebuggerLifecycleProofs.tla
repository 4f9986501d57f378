----------------------- MODULE DebuggerLifecycleProofs -----------------------
(***************************************************************************)
(* Proofs about DebuggerLifecycle, for every set of breakpoints and every  *)
(* set of application domains.                                             *)
(***************************************************************************)
EXTENDS DebuggerLifecycle, FiniteSetTheorems, TLAPS

\* ICorDebug takes three references.
LEMMA ThreeCallbacks == Cardinality(ManagedCallbacks) = 3
<1> DEFINE A == {"ICorDebugManagedCallback"}
           B == A \cup {"ICorDebugManagedCallback2"}
           C == B \cup {"ICorDebugManagedCallback3"}
<1>1. IsFiniteSet({}) /\ Cardinality({}) = 0
  BY FS_EmptySet
<1>2. IsFiniteSet(A) /\ Cardinality(A) = 1
  BY FS_Singleton
<1>3. IsFiniteSet(B) /\ Cardinality(B) = 2
  BY <1>2, FS_AddElement
<1>4. Cardinality(C) = 3
  BY <1>3, FS_AddElement
<1>5. C = ManagedCallbacks
  BY DEF ManagedCallbacks
<1> QED
  BY <1>4, <1>5

\* The CComPtrs that may refer to the callback, counted.
LEMMA HoldersCounted ==
    /\ Cardinality({}) = 0 /\ Cardinality({"main"}) = 1
    /\ Cardinality({"main", "collection"}) = 2
<1> DEFINE A == {"main"}
<1>1. Cardinality({}) = 0
  BY FS_EmptySet
<1>2. IsFiniteSet(A) /\ Cardinality(A) = 1
  BY FS_Singleton
<1>3. Cardinality(A \cup {"collection"}) = 2
  BY <1>2, FS_AddElement
<1>4. A \cup {"collection"} = {"main", "collection"}
  OBVIOUS
<1> QED
  BY <1>1, <1>2, <1>3, <1>4

\* A count that has wrapped around at most once is one of the CountModulus counts.
LEMMA WrappedType ==
    ASSUME NEW n \in Int, -5 <= n, n < CountModulus + 5
    PROVE  Wrapped(n) \in 0..CountModulus - 1
  BY CountAssumption DEF Wrapped

\* Wrapping around commutes with taking up to five references, ...
LEMMA AddWrapped ==
    ASSUME NEW first \in 0..CountModulus - 1, NEW held \in 0..5, NEW n \in 0..5 - held
    PROVE  Wrapped(Wrapped(first + held) + n) = Wrapped(first + held + n)
  BY CountAssumption DEF Wrapped

\* ... and with giving them back.
LEMMA ReleaseWrapped ==
    ASSUME NEW first \in 0..CountModulus - 1, NEW held \in 0..5, NEW n \in 0..held
    PROVE  Wrapped(Wrapped(first + held) - n) = Wrapped(first + (held - n))
  BY CountAssumption DEF Wrapped

\* There are at most five references.
LEMMA ReferencesType == References \in 0..5
  BY DEF References

\* Ordered is kept by a step that only changes the stop count.
LEMMA OrderedFrame ==
    ASSUME Ordered, stops' <= 1,
           UNCHANGED <<main, startup, proc_id, initialized, kill_proc, mode, active,
                       evaluation, debuggee>>
    PROVE  Ordered'
  BY DEF Ordered
-----------------------------------------------------------------------------
\* A step of any thread, of the application or of the agent keeps Inv.
LEMMA InvKept ==
    ASSUME Inv, [Next]_vars
    PROVE  Inv'
<1>1. ASSUME Options PROVE Inv'
  <2> USE <1>1 DEF Inv, Options, setting, object, references, process, Over
  <2>1. FlagsOK'
    BY DEF TypeOK, FlagsOK
  <2>2. TypeOK'
    BY <2>1 DEF TypeOK, Events, Dead, Ordered, Counted, Pid
  <2>3. Ordered'
    BY DEF TypeOK, Ordered, Events, Dead, Pid
  <2>4. Counted'
    BY DEF TypeOK, Ordered, Counted, References, Unlucky
  <2>5. Ending'
    BY DEF TypeOK, Ordered, Ending, Dead, Pid
  <2>6. HitsSeeOptions'
    BY DEF TypeOK, Ordered, HitsSeeOptions, Events
  <2>7. LeftActiveOnlyForItsFailure'
    BY DEF TypeOK, LeftActiveOnlyForItsFailure
  <2> QED
    BY <2>2, <2>3, <2>4, <2>5, <2>6, <2>7
<1>2. ASSUME Registered PROVE Inv'
  <2> USE <1>2 DEF Inv, Registered, setting, object, references, process, Over
  <2>1. FlagsOK'
    BY DEF TypeOK, FlagsOK
  <2>2. TypeOK'
    BY <2>1 DEF TypeOK, Events, Dead, Ordered, Counted, Pid
  <2>3. Ordered'
    BY DEF TypeOK, Ordered, Events, Dead, Pid
  <2>4. Counted'
    BY DEF TypeOK, Ordered, Counted, References, Unlucky
  <2>5. Ending'
    BY DEF TypeOK, Ordered, Ending, Dead, Pid
  <2>6. HitsSeeOptions'
    BY DEF TypeOK, Ordered, HitsSeeOptions, Events
  <2>7. LeftActiveOnlyForItsFailure'
    BY DEF TypeOK, LeftActiveOnlyForItsFailure
  <2> QED
    BY <2>2, <2>3, <2>4, <2>5, <2>6, <2>7
<1>3. ASSUME SetEvaluation PROVE Inv'
  <2> USE <1>3 DEF Inv, SetEvaluation, setting, object, references, process, Over
  <2>1. FlagsOK'
    BY DEF TypeOK, FlagsOK
  <2>2. TypeOK'
    BY <2>1 DEF TypeOK, Events, Dead, Ordered, Counted, Pid
  <2>3. Ordered'
    BY DEF TypeOK, Ordered, Events, Dead, Pid
  <2>4. Counted'
    BY DEF TypeOK, Ordered, Counted, References, Unlucky
  <2>5. Ending'
    BY DEF TypeOK, Ordered, Ending, Dead, Pid
  <2>6. HitsSeeOptions'
    BY DEF TypeOK, Ordered, HitsSeeOptions, Events
  <2>7. LeftActiveOnlyForItsFailure'
    BY DEF TypeOK, LeftActiveOnlyForItsFailure
  <2> QED
    BY <2>2, <2>3, <2>4, <2>5, <2>6, <2>7
<1>4. ASSUME ReleaseMembers PROVE Inv'
  <2> USE <1>4 DEF Inv, ReleaseMembers, Release, setting, object, references, process, Over
  <2>1. FlagsOK'
    BY DEF TypeOK, FlagsOK
  <2>2. TypeOK'
    <3>1. ref_count' \in 0..CountModulus - 1
      BY CountAssumption, WrappedType DEF TypeOK
    <3> QED
      BY <2>1, <3>1 DEF TypeOK, Events, Dead
  <2>3. Ordered'
    BY DEF TypeOK, Ordered, Events, Dead, Pid
  <2>4. Counted'
    <3>1. /\ main = "release" /\ main' \in Over /\ "main" \notin holders'
          /\ ("collection" \in holders' <=> "collection" \in holders)
          /\ UNCHANGED <<handler, startup, first_count>>
      OBVIOUS
    <3>2. CASE "main" \in holders
      <4>1. /\ References \in 1..5 /\ References' = References - 1
            /\ handler => References = 5
            /\ ~handler => References <= 2
        BY <3>1, <3>2 DEF Counted, References
      <4>2. ASSUME ~freed PROVE /\ ref_count' = Wrapped(first_count + (References - 1))
                                /\ freed' => Unlucky \/ ~handler
        <5>1. ref_count = Wrapped(first_count + References)
          BY <4>2 DEF Counted
        <5>2. ref_count' = Wrapped(ref_count - 1) /\ (freed' => ref_count = 1)
          <6>1. ref_count' = Wrapped(ref_count - 1) /\ (freed' <=> freed \/ ref_count \in 1..1)
            BY <3>2
          <6>2. ref_count \in 1..1 => ref_count = 1
            BY DEF TypeOK
          <6> QED
            BY <4>2, <6>1, <6>2
        <5>3. 1 \in 0..References /\ References \in 0..5
          BY <4>1
        <5>4. ref_count' = Wrapped(first_count + (References - 1))
          BY <5>1, <5>2, <5>3, ReleaseWrapped DEF TypeOK
        <5>5. ref_count = 1 /\ handler => Unlucky
          BY <4>1, <5>1, CountAssumption DEF Wrapped, Unlucky, TypeOK
        <5> QED
          BY <5>2, <5>4, <5>5
      <4>3. freed => freed' /\ Unlucky
        BY <3>1, <3>2 DEF Counted
      <4>4. main' = "crashed" => freed
        OBVIOUS
      <4> QED
        BY <3>1, <4>1, <4>2, <4>3, <4>4 DEF Counted, Unlucky
    <3>3. CASE "main" \notin holders
      <4>1. References' = References /\ ref_count' = ref_count /\ freed' = freed
        BY <3>1, <3>3 DEF References
      <4>2. "collection" \notin holders /\ ~handler
        BY <3>1, <3>3 DEF Counted
      <4> QED
        BY <3>1, <3>3, <4>1, <4>2 DEF Counted, Unlucky
    <3> QED
      BY <3>2, <3>3
  <2>5. Ending'
    BY DEF TypeOK, Ordered, Ending, Dead, Pid
  <2>6. HitsSeeOptions'
    BY DEF TypeOK, Ordered, HitsSeeOptions, Events
  <2>7. LeftActiveOnlyForItsFailure'
    BY DEF TypeOK, LeftActiveOnlyForItsFailure
  <2> QED
    BY <2>2, <2>3, <2>4, <2>5, <2>6, <2>7
<1>5. ASSUME NEW ok \in BOOLEAN, CreateProcessForLaunch(ok) PROVE Inv'
  <2> USE <1>5 DEF Inv, CreateProcessForLaunch, Call, setting, object, references, process, Over
  <2>1. FlagsOK'
    BY DEF TypeOK, FlagsOK
  <2>2. TypeOK'
    BY <2>1 DEF TypeOK, Events, Dead, Ordered, Counted, Pid
  <2>3. Ordered'
    BY DEF TypeOK, Ordered, Events, Dead, Pid
  <2>4. Counted'
    BY DEF TypeOK, Ordered, Counted, References, Unlucky
  <2>5. Ending'
    BY DEF TypeOK, Ordered, Ending, Dead, Pid
  <2>6. HitsSeeOptions'
    BY DEF TypeOK, Ordered, HitsSeeOptions, Events
  <2>7. LeftActiveOnlyForItsFailure'
    BY DEF TypeOK, LeftActiveOnlyForItsFailure
  <2> QED
    BY <2>2, <2>3, <2>4, <2>5, <2>6, <2>7
<1>6. ASSUME NEW ok \in BOOLEAN, InitializeCallback(ok) PROVE Inv'
  <2> USE <1>6 DEF Inv, InitializeCallback, Call, AddRef, setting, object, references, process, Over
  <2>1. FlagsOK'
    BY DEF TypeOK, FlagsOK
  <2>0. /\ \/ holders' = {} /\ Cardinality(holders') = 0
           \/ holders' = {"main"} /\ Cardinality(holders') = 1
           \/ holders' = {"main", "collection"} /\ Cardinality(holders') = 2
        /\ ok <=> "collection" \in holders'
    <3>1. CASE ok
      <4>1. holders' = {"main", "collection"}
        BY <3>1
      <4> QED
        BY <3>1, <4>1, HoldersCounted
    <3>2. CASE ~ok
      <4>1. holders' = {} \/ holders' = {"main"}
        BY <3>2
      <4> QED
        BY <3>2, <4>1, HoldersCounted
    <3> QED
      BY <3>1, <3>2
  <2>2. TypeOK'
    <3>1. ref_count' \in 0..CountModulus - 1
      BY <2>0, CountAssumption, WrappedType DEF TypeOK
    <3> QED
      BY <2>0, <2>1, <3>1 DEF TypeOK, Events, Dead
  <2>3. Ordered'
    BY DEF TypeOK, Ordered, Events, Dead, Pid
  <2>4. Counted'
    <3>1. /\ holders = {} /\ ~handler /\ ~handler' /\ References = 0
          /\ main = "callback" /\ startup = "none" /\ startup' = "none"
      BY DEF Counted, Ordered, References
    <3>2. References' = Cardinality(holders')
      BY <2>0, <3>1 DEF References
    <3>3. ~freed' => ref_count' = Wrapped(first_count' + References')
      <4>1. Cardinality(holders') \in 0..5
        BY <2>0
      <4>2. Wrapped(Wrapped(first_count + 0) + Cardinality(holders'))
                = Wrapped(first_count + 0 + Cardinality(holders'))
        BY <4>1, AddWrapped DEF TypeOK
      <4> QED
        BY <3>1, <3>2, <4>1, <4>2 DEF Counted, TypeOK
    <3>4. main' \in {"register", "stop"} /\ (main' = "register" <=> ok)
      OBVIOUS
    <3>5. "collection" \in holders' => "main" \in holders'
      BY <2>0
    <3> QED
      BY <2>0, <3>1, <3>3, <3>4, <3>5 DEF Counted, Unlucky
  <2>5. Ending'
    BY DEF TypeOK, Ordered, Ending, Dead, Pid
  <2>6. HitsSeeOptions'
    BY DEF TypeOK, Ordered, HitsSeeOptions, Events
  <2>7. LeftActiveOnlyForItsFailure'
    BY DEF TypeOK, LeftActiveOnlyForItsFailure
  <2> QED
    BY <2>2, <2>3, <2>4, <2>5, <2>6, <2>7
<1>7. ASSUME NEW ok \in BOOLEAN, RegisterForRuntimeStartup(ok) PROVE Inv'
  <2> USE <1>7 DEF Inv, RegisterForRuntimeStartup, Call, setting, object, references, process, Over
  <2>1. FlagsOK'
    BY DEF TypeOK, FlagsOK
  <2>2. TypeOK'
    BY <2>1 DEF TypeOK, Events, Dead, Ordered, Counted, Pid
  <2>3. Ordered'
    BY DEF TypeOK, Ordered, Events, Dead, Pid
  <2>4. Counted'
    BY DEF TypeOK, Ordered, Counted, References, Unlucky
  <2>5. Ending'
    BY DEF TypeOK, Ordered, Ending, Dead, Pid
  <2>6. HitsSeeOptions'
    BY DEF TypeOK, Ordered, HitsSeeOptions, Events
  <2>7. LeftActiveOnlyForItsFailure'
    BY DEF TypeOK, LeftActiveOnlyForItsFailure
  <2> QED
    BY <2>2, <2>3, <2>4, <2>5, <2>6, <2>7
<1>8. ASSUME NEW ok \in BOOLEAN, ResumeProcess(ok) PROVE Inv'
  <2> USE <1>8 DEF Inv, ResumeProcess, Call, setting, object, references, process, Over
  <2>1. FlagsOK'
    BY DEF TypeOK, FlagsOK
  <2>2. TypeOK'
    BY <2>1 DEF TypeOK, Events, Dead, Ordered, Counted, Pid
  <2>3. Ordered'
    BY DEF TypeOK, Ordered, Events, Dead, Pid
  <2>4. Counted'
    BY DEF TypeOK, Ordered, Counted, References, Unlucky
  <2>5. Ending'
    BY DEF TypeOK, Ordered, Ending, Dead, Pid
  <2>6. HitsSeeOptions'
    BY DEF TypeOK, Ordered, HitsSeeOptions, Events
  <2>7. LeftActiveOnlyForItsFailure'
    BY DEF TypeOK, LeftActiveOnlyForItsFailure
  <2> QED
    BY <2>2, <2>3, <2>4, <2>5, <2>6, <2>7
<1>9. ASSUME NEW ok \in BOOLEAN, CloseResumeHandle(ok) PROVE Inv'
  <2> USE <1>9 DEF Inv, CloseResumeHandle, Call, setting, object, references, process, Over
  <2>1. FlagsOK'
    BY DEF TypeOK, FlagsOK
  <2>2. TypeOK'
    BY <2>1 DEF TypeOK, Events, Dead, Ordered, Counted, Pid
  <2>3. Ordered'
    BY DEF TypeOK, Ordered, Events, Dead, Pid
  <2>4. Counted'
    BY DEF TypeOK, Ordered, Counted, References, Unlucky
  <2>5. Ending'
    BY DEF TypeOK, Ordered, Ending, Dead, Pid
  <2>6. HitsSeeOptions'
    BY DEF TypeOK, Ordered, HitsSeeOptions, Events
  <2>7. LeftActiveOnlyForItsFailure'
    BY DEF TypeOK, LeftActiveOnlyForItsFailure
  <2> QED
    BY <2>2, <2>3, <2>4, <2>5, <2>6, <2>7
<1>10. ASSUME NEW ok \in BOOLEAN, StopProcess(ok) PROVE Inv'
  <2> USE <1>10 DEF Inv, StopProcess, Call, setting, object, references, process, Over
  <2>1. FlagsOK'
    BY DEF TypeOK, FlagsOK
  <2>2. TypeOK'
    BY <2>1 DEF TypeOK, Events, Dead, Ordered, Counted, Pid
  <2>3. Ordered'
    BY DEF TypeOK, Ordered, Events, Dead, Pid
  <2>4. Counted'
    BY DEF TypeOK, Ordered, Counted, References, Unlucky
  <2>5. Ending'
    BY DEF TypeOK, Ordered, Ending, Dead, Pid
  <2>6. HitsSeeOptions'
    BY DEF TypeOK, Ordered, HitsSeeOptions, Events
  <2>7. LeftActiveOnlyForItsFailure'
    BY DEF TypeOK, LeftActiveOnlyForItsFailure
  <2> QED
    BY <2>2, <2>3, <2>4, <2>5, <2>6, <2>7
<1>11. ASSUME NEW ok \in BOOLEAN, Detach(ok) PROVE Inv'
  <2> USE <1>11 DEF Inv, Detach, Call, setting, object, references, process, Over
  <2>1. FlagsOK'
    BY DEF TypeOK, FlagsOK
  <2>2. TypeOK'
    BY <2>1 DEF TypeOK, Events, Dead, Ordered, Counted, Pid
  <2>3. Ordered'
    BY DEF TypeOK, Ordered, Events, Dead, Pid
  <2>4. Counted'
    BY DEF TypeOK, Ordered, Counted, References, Unlucky
  <2>5. Ending'
    BY DEF TypeOK, Ordered, Ending, Dead, Pid
  <2>6. HitsSeeOptions'
    BY DEF TypeOK, Ordered, HitsSeeOptions, Events
  <2>7. LeftActiveOnlyForItsFailure'
    BY DEF TypeOK, LeftActiveOnlyForItsFailure
  <2> QED
    BY <2>2, <2>3, <2>4, <2>5, <2>6, <2>7
<1>12. ASSUME NEW ok \in BOOLEAN, Terminate(ok) PROVE Inv'
  <2> USE <1>12 DEF Inv, Terminate, Call, Release, setting, object, references, process, Over
  <2>1. FlagsOK'
    BY DEF TypeOK, FlagsOK
  <2>2. TypeOK'
    <3>1. ref_count' \in 0..CountModulus - 1
      BY CountAssumption, ThreeCallbacks, WrappedType DEF TypeOK
    <3> QED
      BY <2>1, <3>1 DEF TypeOK, Events, Dead
  <2>3. Ordered'
    BY DEF TypeOK, Ordered, Events, Dead, Pid
  <2>4. Counted'
    <3>0. /\ main = "terminate" /\ main' \in {"kill", "crashed"}
          /\ main' = "crashed" => freed'
          /\ UNCHANGED <<holders, startup, first_count>>
      OBVIOUS
    <3>1. CASE ok /\ "cordebug" \in handles
      <4>1. handler /\ ~handler'
        BY <3>1
      <4>2. "collection" \in holders /\ "main" \in holders
        BY <3>0, <4>1 DEF Counted
      <4>3. References = 5 /\ References' = 2
        BY <3>0, <4>1, <4>2 DEF References
      <4>4. ref_count' = Wrapped(ref_count - 3) /\ (freed' <=> freed \/ ref_count \in 1..3)
        BY <3>1, ThreeCallbacks
      <4>5. ASSUME ~freed PROVE ref_count' = Wrapped(first_count + 2) /\ (freed' => Unlucky)
        <5>1. ref_count = Wrapped(first_count + 5)
          BY <4>3, <4>5 DEF Counted
        <5>2. ref_count' = Wrapped(first_count + (5 - 3))
          BY <4>4, <5>1, ReleaseWrapped DEF TypeOK
        <5>3. ref_count \in 1..3 => Unlucky
          BY <5>1, CountAssumption DEF Wrapped, Unlucky, TypeOK
        <5> QED
          BY <4>4, <4>5, <5>2, <5>3
      <4>6. freed => Unlucky /\ freed'
        BY <3>0, <4>4 DEF Counted
      <4> QED
        BY <3>0, <4>1, <4>2, <4>3, <4>5, <4>6 DEF Counted, Unlucky
    <3>2. CASE ~(ok /\ "cordebug" \in handles)
      <4>1. UNCHANGED <<ref_count, freed, handler>>
        BY <3>2
      <4>2. References' = References /\ main' = "kill"
        BY <3>0, <4>1 DEF References
      <4> QED
        BY <3>0, <4>1, <4>2 DEF Counted, Unlucky
    <3> QED
      BY <3>1, <3>2
  <2>5. Ending'
    BY DEF TypeOK, Ordered, Ending, Dead, Pid
  <2>6. HitsSeeOptions'
    BY DEF TypeOK, Ordered, HitsSeeOptions, Events
  <2>7. LeftActiveOnlyForItsFailure'
    BY ThreeCallbacks DEF TypeOK, LeftActiveOnlyForItsFailure
  <2> QED
    BY <2>2, <2>3, <2>4, <2>5, <2>6, <2>7
<1>13. ASSUME NEW kills \in BOOLEAN, NEW ok \in BOOLEAN, Kill(kills, ok) PROVE Inv'
  <2> USE <1>13 DEF Inv, Kill, Call, setting, object, references, process, Over
  <2>1. FlagsOK'
    BY DEF TypeOK, FlagsOK
  <2>2. TypeOK'
    BY <2>1 DEF TypeOK, Events, Dead, Ordered, Counted, Pid
  <2>3. Ordered'
    BY DEF TypeOK, Ordered, Events, Dead, Pid
  <2>4. Counted'
    BY DEF TypeOK, Ordered, Counted, References, Unlucky
  <2>5. Ending'
    BY DEF TypeOK, Ordered, Ending, Dead, Pid
  <2>6. HitsSeeOptions'
    BY DEF TypeOK, Ordered, HitsSeeOptions, Events
  <2>7. LeftActiveOnlyForItsFailure'
    BY DEF TypeOK, LeftActiveOnlyForItsFailure
  <2> QED
    BY <2>2, <2>3, <2>4, <2>5, <2>6, <2>7
<1>14. ASSUME NEW ok \in BOOLEAN, NEW domains \in SUBSET AppDomain, NEW failing \in SUBSET active,
              DeactivateBreakpoints(ok, domains, failing)
       PROVE  Inv'
  <2> USE <1>14 DEF Inv, DeactivateBreakpoints, setting, object, references, process, Over
  <2>1. FlagsOK'
    BY DEF TypeOK, FlagsOK
  <2>2. TypeOK'
    BY <2>1, DomainAssumption DEF TypeOK, Events, Dead, Ordered, Counted, Pid
  <2>3. Ordered'
    BY DEF TypeOK, Ordered, Events, Dead, Pid
  <2>4. Counted'
    BY DomainAssumption DEF TypeOK, Ordered, Counted, References, Unlucky
  <2>5. Ending'
    BY DEF TypeOK, Ordered, Ending, Dead, Pid
  <2>6. HitsSeeOptions'
    BY DEF TypeOK, Ordered, HitsSeeOptions, Events
  <2>7. LeftActiveOnlyForItsFailure'
    BY DomainAssumption DEF TypeOK, LeftActiveOnlyForItsFailure
  <2> QED
    BY <2>2, <2>3, <2>4, <2>5, <2>6, <2>7
<1>15. ASSUME NEW ok \in BOOLEAN, SyncReturns(ok) PROVE Inv'
  <2> USE <1>15 DEF Inv, SyncReturns, Call, setting, object, references, process, Over
  <2>1. FlagsOK'
    BY DEF TypeOK, FlagsOK
  <2>2. TypeOK'
    BY <2>1 DEF TypeOK, Events, Dead, Ordered, Counted, Pid
  <2>3. Ordered'
    BY DEF TypeOK, Ordered, Events, Dead, Pid
  <2>4. Counted'
    BY DEF TypeOK, Ordered, Counted, References, Unlucky
  <2>5. Ending'
    BY DEF TypeOK, Ordered, Ending, Dead, Pid
  <2>6. HitsSeeOptions'
    BY DEF TypeOK, Ordered, HitsSeeOptions, Events
  <2>7. LeftActiveOnlyForItsFailure'
    BY DEF TypeOK, LeftActiveOnlyForItsFailure
  <2> QED
    BY <2>2, <2>3, <2>4, <2>5, <2>6, <2>7
<1>16. ASSUME NEW ok \in BOOLEAN, RuntimeStarts(ok) PROVE Inv'
  <2> USE <1>16 DEF Inv, RuntimeStarts, Call, setting, object, references, process, Over
  <2>1. FlagsOK'
    BY DEF TypeOK, FlagsOK
  <2>2. TypeOK'
    BY <2>1 DEF TypeOK, Events, Dead, Ordered, Counted, Pid
  <2>3. Ordered'
    BY DEF TypeOK, Ordered, Events, Dead, Pid
  <2>4. Counted'
    BY DEF TypeOK, Ordered, Counted, References, Unlucky
  <2>5. Ending'
    BY DEF TypeOK, Ordered, Ending, Dead, Pid
  <2>6. HitsSeeOptions'
    BY DEF TypeOK, Ordered, HitsSeeOptions, Events
  <2>7. LeftActiveOnlyForItsFailure'
    BY DEF TypeOK, LeftActiveOnlyForItsFailure
  <2> QED
    BY <2>2, <2>3, <2>4, <2>5, <2>6, <2>7
<1>17. ASSUME NEW ok \in BOOLEAN, QueryICorDebug(ok) PROVE Inv'
  <2> USE <1>17 DEF Inv, QueryICorDebug, Call, setting, object, references, process, Over
  <2>1. FlagsOK'
    BY DEF TypeOK, FlagsOK
  <2>2. TypeOK'
    BY <2>1 DEF TypeOK, Events, Dead, Ordered, Counted, Pid
  <2>3. Ordered'
    BY DEF TypeOK, Ordered, Events, Dead, Pid
  <2>4. Counted'
    BY DEF TypeOK, Ordered, Counted, References, Unlucky
  <2>5. Ending'
    BY DEF TypeOK, Ordered, Ending, Dead, Pid
  <2>6. HitsSeeOptions'
    BY DEF TypeOK, Ordered, HitsSeeOptions, Events
  <2>7. LeftActiveOnlyForItsFailure'
    BY DEF TypeOK, LeftActiveOnlyForItsFailure
  <2> QED
    BY <2>2, <2>3, <2>4, <2>5, <2>6, <2>7
<1>18. ASSUME NEW ok \in BOOLEAN, SetManagedHandler(ok) PROVE Inv'
  <2> USE <1>18 DEF Inv, SetManagedHandler, Call, QueryInterface, AddRef, setting, object, references, process, Over
  <2>1. FlagsOK'
    BY DEF TypeOK, FlagsOK
  <2>2. TypeOK'
    <3>1. ref_count' \in 0..CountModulus - 1
      BY CountAssumption, ThreeCallbacks, WrappedType DEF TypeOK
    <3> QED
      BY <2>1, <3>1 DEF TypeOK, Events, Dead
  <2>3. Ordered'
    BY DEF TypeOK, Ordered, Events, Dead, Pid
  <2>4. Counted'
    <3>1. /\ main' = main /\ main \notin Over /\ startup = "initialize"
          /\ UNCHANGED <<holders, first_count, freed>>
      BY DEF Alive
    <3>2. ~handler /\ "collection" \in holders /\ "main" \in holders
      BY <3>1 DEF Counted
    <3>3. References = 2
      BY <3>2 DEF References
    <3>4. CASE ok
      <4>1. handler' /\ startup' = "attach" /\ References' = 5
        BY <3>1, <3>2, <3>4 DEF References
      <4>2. ref_count' = Wrapped(ref_count + 3)
        BY <3>4, ThreeCallbacks
      <4>3. ~freed => ref_count' = Wrapped(first_count + 5)
        <5>1. Wrapped(Wrapped(first_count + 2) + 3) = Wrapped(first_count + 2 + 3)
          BY AddWrapped DEF TypeOK
        <5> QED
          BY <3>3, <4>2, <5>1 DEF Counted, TypeOK
      <4> QED
        BY <3>1, <3>2, <4>1, <4>3 DEF Counted, Unlucky
    <3>5. CASE ~ok
      <4>1. ~handler' /\ startup' = "done" /\ ref_count' = ref_count
        BY <3>5
      <4>2. References' = References
        BY <3>1, <3>2, <4>1 DEF References
      <4> QED
        BY <3>1, <3>2, <4>1, <4>2 DEF Counted, Unlucky
    <3> QED
      BY <3>4, <3>5
  <2>5. Ending'
    BY DEF TypeOK, Ordered, Ending, Dead, Pid
  <2>6. HitsSeeOptions'
    BY DEF TypeOK, Ordered, HitsSeeOptions, Events
  <2>7. LeftActiveOnlyForItsFailure'
    BY ThreeCallbacks DEF TypeOK, LeftActiveOnlyForItsFailure
  <2> QED
    BY <2>2, <2>3, <2>4, <2>5, <2>6, <2>7
<1>19. ASSUME NEW ok \in BOOLEAN, DebugActiveProcess(ok) PROVE Inv'
  <2> USE <1>19 DEF Inv, DebugActiveProcess, Call, setting, object, references, process, Over
  <2>1. FlagsOK'
    BY DEF TypeOK, FlagsOK
  <2>2. TypeOK'
    BY <2>1 DEF TypeOK, Events, Dead, Ordered, Counted, Pid
  <2>3. Ordered'
    BY DEF TypeOK, Ordered, Events, Dead, Pid
  <2>4. Counted'
    BY DEF TypeOK, Ordered, Counted, References, Unlucky
  <2>5. Ending'
    BY DEF TypeOK, Ordered, Ending, Dead, Pid
  <2>6. HitsSeeOptions'
    BY DEF TypeOK, Ordered, HitsSeeOptions, Events
  <2>7. LeftActiveOnlyForItsFailure'
    BY DEF TypeOK, LeftActiveOnlyForItsFailure
  <2> QED
    BY <2>2, <2>3, <2>4, <2>5, <2>6, <2>7
<1>20. ASSUME StoreProcess PROVE Inv'
  <2> USE <1>20 DEF Inv, StoreProcess, setting, object, references, process, Over
  <2>1. FlagsOK'
    BY DEF TypeOK, FlagsOK
  <2>2. TypeOK'
    BY <2>1 DEF TypeOK, Events, Dead, Ordered, Counted, Pid
  <2>3. Ordered'
    BY DEF TypeOK, Ordered, Events, Dead, Pid
  <2>4. Counted'
    BY DEF TypeOK, Ordered, Counted, References, Unlucky
  <2>5. Ending'
    BY DEF TypeOK, Ordered, Ending, Dead, Pid
  <2>6. HitsSeeOptions'
    BY DEF TypeOK, Ordered, HitsSeeOptions, Events
  <2>7. LeftActiveOnlyForItsFailure'
    BY DEF TypeOK, LeftActiveOnlyForItsFailure
  <2> QED
    BY <2>2, <2>3, <2>4, <2>5, <2>6, <2>7
<1>21. ASSUME NEW ok \in BOOLEAN, ExitProcess(ok) PROVE Inv'
  <2> USE <1>21 DEF Inv, ExitProcess, Call, setting, object, references, process, Over
  <2>1. FlagsOK'
    BY DEF TypeOK, FlagsOK
  <2>2. TypeOK'
    BY <2>1 DEF TypeOK, Events, Dead, Ordered, Counted, Pid
  <2>3. Ordered'
    BY DEF TypeOK, Ordered, Events, Dead, Pid
  <2>4. Counted'
    BY DEF TypeOK, Ordered, Counted, References, Unlucky
  <2>5. Ending'
    BY DEF TypeOK, Ordered, Ending, Dead, Pid
  <2>6. HitsSeeOptions'
    BY DEF TypeOK, Ordered, HitsSeeOptions, Events
  <2>7. LeftActiveOnlyForItsFailure'
    BY DEF TypeOK, LeftActiveOnlyForItsFailure
  <2> QED
    BY <2>2, <2>3, <2>4, <2>5, <2>6, <2>7
<1>22. ASSUME NEW ok \in BOOLEAN, Continue(ok) PROVE Inv'
  <2> USE <1>22 DEF Inv, Continue, setting, object, references, process, Over
  <2>1. FlagsOK'
    BY DEF TypeOK, FlagsOK
  <2>2. TypeOK'
    BY <2>1 DEF TypeOK, Events, Dead, Ordered, Counted, Pid
  <2>3. Ordered'
    <3>1. stops' <= 1
      BY DEF TypeOK
    <3>2. UNCHANGED <<main, startup, proc_id, initialized, kill_proc, mode, active,
                      evaluation, debuggee>>
      OBVIOUS
    <3> QED
      BY <3>1, <3>2, OrderedFrame
  <2>4. Counted'
    BY DEF TypeOK, Ordered, Counted, References, Unlucky
  <2>5. Ending'
    BY DEF TypeOK, Ordered, Ending, Dead, Pid
  <2>6. HitsSeeOptions'
    BY DEF TypeOK, Ordered, HitsSeeOptions, Events
  <2>7. LeftActiveOnlyForItsFailure'
    BY DEF TypeOK, LeftActiveOnlyForItsFailure
  <2> QED
    BY <2>2, <2>3, <2>4, <2>5, <2>6, <2>7
<1>23. ASSUME NEW b \in Breakpoint, ActivateBreakpoint(b) PROVE Inv'
  <2> USE <1>23 DEF Inv, ActivateBreakpoint, setting, object, references, process, Over
  <2>1. FlagsOK'
    BY DEF TypeOK, FlagsOK
  <2>2. TypeOK'
    BY <2>1, DomainAssumption DEF TypeOK, Events, Dead, Ordered, Counted, Pid
  <2>3. Ordered'
    BY DEF TypeOK, Ordered, Events, Dead, Pid
  <2>4. Counted'
    BY DomainAssumption DEF TypeOK, Ordered, Counted, References, Unlucky
  <2>5. Ending'
    BY DEF TypeOK, Ordered, Ending, Dead, Pid
  <2>6. HitsSeeOptions'
    BY DEF TypeOK, Ordered, HitsSeeOptions, Events
  <2>7. LeftActiveOnlyForItsFailure'
    BY DomainAssumption DEF TypeOK, LeftActiveOnlyForItsFailure
  <2> QED
    BY <2>2, <2>3, <2>4, <2>5, <2>6, <2>7
<1>24. ASSUME NEW e \in Events, Dispatch(e) PROVE Inv'
  <2> USE <1>24 DEF Inv, Dispatch, setting, object, references, process, Over
  <2>1. FlagsOK'
    BY DEF TypeOK, FlagsOK
  <2>2. TypeOK'
    BY <2>1 DEF TypeOK, Events, Dead, Ordered, Counted, Pid
  <2>3. Ordered'
    <3>1. stops' <= 1
      OBVIOUS
    <3>2. UNCHANGED <<main, startup, proc_id, initialized, kill_proc, mode, active,
                      evaluation, debuggee>>
      OBVIOUS
    <3> QED
      BY <3>1, <3>2, OrderedFrame
  <2>4. Counted'
    BY DEF TypeOK, Ordered, Counted, References, Unlucky
  <2>5. Ending'
    BY DEF TypeOK, Ordered, Ending, Dead, Pid
  <2>6. HitsSeeOptions'
    BY DEF TypeOK, Ordered, HitsSeeOptions, Events
  <2>7. LeftActiveOnlyForItsFailure'
    BY DEF TypeOK, LeftActiveOnlyForItsFailure
  <2> QED
    BY <2>2, <2>3, <2>4, <2>5, <2>6, <2>7
<1>25. ASSUME DebuggeeExits PROVE Inv'
  <2> USE <1>25 DEF Inv, DebuggeeExits, setting, object, references, process, Over
  <2>1. FlagsOK'
    BY DEF TypeOK, FlagsOK
  <2>2. TypeOK'
    BY <2>1 DEF TypeOK, Events, Dead, Ordered, Counted, Pid
  <2>3. Ordered'
    BY DEF TypeOK, Ordered, Events, Dead, Pid
  <2>4. Counted'
    BY DEF TypeOK, Ordered, Counted, References, Unlucky
  <2>5. Ending'
    BY DEF TypeOK, Ordered, Ending, Dead, Pid
  <2>6. HitsSeeOptions'
    BY DEF TypeOK, Ordered, HitsSeeOptions, Events
  <2>7. LeftActiveOnlyForItsFailure'
    BY DEF TypeOK, LeftActiveOnlyForItsFailure
  <2> QED
    BY <2>2, <2>3, <2>4, <2>5, <2>6, <2>7
<1>26. ASSUME AgentClosesPipe PROVE Inv'
  <2> USE <1>26 DEF Inv, AgentClosesPipe, setting, object, references, process, Over
  <2>1. FlagsOK'
    BY DEF TypeOK, FlagsOK
  <2>2. TypeOK'
    BY <2>1 DEF TypeOK, Events, Dead, Ordered, Counted, Pid
  <2>3. Ordered'
    BY DEF TypeOK, Ordered, Events, Dead, Pid
  <2>4. Counted'
    BY DEF TypeOK, Ordered, Counted, References, Unlucky
  <2>5. Ending'
    BY DEF TypeOK, Ordered, Ending, Dead, Pid
  <2>6. HitsSeeOptions'
    BY DEF TypeOK, Ordered, HitsSeeOptions, Events
  <2>7. LeftActiveOnlyForItsFailure'
    BY DEF TypeOK, LeftActiveOnlyForItsFailure
  <2> QED
    BY <2>2, <2>3, <2>4, <2>5, <2>6, <2>7
<1>27. ASSUME UNCHANGED vars PROVE Inv'
  <2> USE <1>27 DEF Inv, vars, setting, object, references, process, Over
  <2>1. TypeOK'
    <3>1. FlagsOK'
      BY DEF TypeOK, FlagsOK
    <3> QED
      BY <3>1 DEF TypeOK, Events
  <2>2. Ordered'
    BY DEF Ordered
  <2>3. Counted' /\ Ending'
    BY DEF Counted, Ending, References, Unlucky
  <2>4. HitsSeeOptions' /\ LeftActiveOnlyForItsFailure'
    BY DEF HitsSeeOptions, LeftActiveOnlyForItsFailure
  <2> QED
    BY <2>1, <2>2, <2>3, <2>4
<1> QED
  BY <1>1, <1>2, <1>3, <1>4, <1>5, <1>6, <1>7, <1>8, <1>9, <1>10, <1>11, <1>12,
     <1>13, <1>14, <1>15, <1>16, <1>17, <1>18, <1>19, <1>20, <1>21, <1>22,
     <1>23, <1>24, <1>25, <1>26, <1>27
  DEF Next, MainStep, StartupStep, EventStep

\* Inv is an invariant.
LEMMA InvInvariant == Spec => []Inv
<1>1. Init => Inv
  <2> SUFFICES ASSUME Init PROVE Inv
    OBVIOUS
  <2>1. FlagsOK
    BY DEF Init, FlagsOK
  <2>2. TypeOK
    BY <2>1, CountAssumption DEF Init, TypeOK, Events, Dead, Over
  <2>3. References = 0
    BY DEF Init, References
  <2>4. ref_count = Wrapped(first_count + 0)
    BY CountAssumption DEF Init, Wrapped
  <2>5. Counted
    BY <2>3, <2>4 DEF Init, Counted, Over
  <2> QED
    BY <2>2, <2>5 DEF Init, Inv, Ordered, Ending, HitsSeeOptions, Dead, Pid,
                      LeftActiveOnlyForItsFailure
<1> QED
  BY <1>1, InvKept, PTL DEF Spec
-----------------------------------------------------------------------------
\* Every reachable state is well typed, whatever value the reference count of the
\* callback starts with; in particular the stop count stays within two.
THEOREM TypeCorrect == Spec => []TypeOK
  BY InvInvariant, PTL DEF Inv

\* CallbackFunction finds an initialised callback, the process id and the decision
\* on killing, though dbgshim may call it while main is still registering it.
THEOREM StartupSeesDebuggerHolds == Spec => []StartupSeesDebugger
<1>1. Inv => StartupSeesDebugger
  <2>1. BOOLEAN # {TRUE} /\ BOOLEAN # {FALSE}
    OBVIOUS
  <2> QED
    BY <2>1 DEF Inv, Ordered, StartupSeesDebugger
<1> QED
  BY <1>1, InvInvariant, PTL

\* No breakpoint is hit before the options on evaluation are set.
THEOREM HitsSeeOptionsHolds == Spec => []HitsSeeOptions
  BY InvInvariant, PTL DEF Inv

\* No method of the callback and no Release is called on a deleted object, wherever
\* the count started, but for the three values that are Unlucky.
THEOREM CallbackOutlivesEventsHolds == Spec => []CallbackOutlivesEvents
<1>1. Inv => CallbackOutlivesEvents
  BY DEF Inv, Counted, CallbackOutlivesEvents, Over
<1> QED
  BY <1>1, InvInvariant, PTL

\* One failing domain or breakpoint keeps no other breakpoint active.
THEOREM LeftActiveOnlyForItsFailureHolds == Spec => []LeftActiveOnlyForItsFailure
  BY InvInvariant, PTL DEF Inv

\* The application is killed in the end when, and only when, the debugger has
\* launched it, unless a call has failed.
THEOREM OnlyLaunchedIsKilledHolds == Spec => []OnlyLaunchedIsKilled
<1>1. Inv => OnlyLaunchedIsKilled
  BY DEF Inv, Ending, OnlyLaunchedIsKilled
<1> QED
  BY <1>1, InvInvariant, PTL
==============================================================================
