------------------------ MODULE BreakpointReportProofs ------------------------
(***************************************************************************)
(* Proofs about BreakpointReport.  TypeOK is inductive.  Each of the other *)
(* invariants follows from a strengthening of BreakpointReport of its own: *)
(* StaticsInv, QueueInv, LimitInv (with QueueInv), WalkInv and SizeInv     *)
(* (with WalkInv).  An action that adds to the report is described once,   *)
(* by a lemma about its effect, and all the invariants use that lemma.     *)
(***************************************************************************)
EXTENDS BreakpointReport, SequenceTheorems, FiniteSetTheorems,
        WellFoundedInduction, TLAPS

-----------------------------------------------------------------------------
(* The operators of the model.                                             *)

\* A set of natural numbers has a least element.
LEMMA LeastOf ==
    ASSUME NEW S, S \subseteq Nat, S # {}
    PROVE  \E i \in S : \A j \in S : i <= j
<1>1. PICK i \in S : \A j \in S : <<j, i>> \notin OpToRel(<, Nat)
  BY NatLessThanWellFounded, WFMin
<1>2. \A j \in S : j \in Nat /\ ~(j < i)
  BY <1>1 DEF OpToRel
<1> QED
  BY <1>2

\* bfs_queue.front() is in the queue.
LEMMA FrontInQueue ==
    ASSUME NEW m \in Nat, queue \in SUBSET (1..m), queue # {}
    PROVE  Front \in queue
<1>1. queue \subseteq Nat
  OBVIOUS
<1>2. \E i \in queue : \A j \in queue : i <= j
  BY <1>1, LeastOf
<1> QED
  BY <1>2 DEF Front

\* A finite set of numbers has a k-th one.
LEMMA NthOf ==
    ASSUME NEW m \in Nat, NEW S \in SUBSET (1..m), NEW k \in 1..Cardinality(S)
    PROVE  \E i \in S : Cardinality({j \in S : j <= i}) = k
<1> DEFINE Below(i) == {j \in S : j <= i}
           Has(c) == \E i \in S : Cardinality(Below(i)) = c
           N == Cardinality(S)
           Bad == {c \in 1..N : ~Has(c)}
<1>1. IsFiniteSet(S) /\ N \in Nat
  <2>1. IsFiniteSet(1..m)
    BY FS_Interval
  <2> QED
    BY <2>1, FS_Subset, FS_CardinalityType
<1>2. \A i : Below(i) \subseteq S /\ IsFiniteSet(Below(i)) /\ Cardinality(Below(i)) \in Nat
  <2>1. \A i : Below(i) \subseteq S
    OBVIOUS
  <2> HIDE DEF Below
  <2> QED
    BY <1>1, <2>1, FS_Subset, FS_CardinalityType
<1>3. SUFFICES ASSUME Bad # {} PROVE FALSE
  <2>1. Bad = {} => Has(k)
    OBVIOUS
  <2> QED
    BY <1>3, <2>1
<1>4. PICK c \in Bad : \A x \in Bad : c <= x
  <2>1. Bad \subseteq Nat
    BY <1>1
  <2> HIDE DEF Bad
  <2> QED
    BY <1>3, <2>1, LeastOf
<1>5. c \in 1..N /\ c \in Nat /\ ~Has(c)
  BY <1>1, <1>4
<1>6. \A i \in S : i \in Nat
  OBVIOUS
<1>7. CASE c = 1
  <2>1. S # {}
    <3>1. Cardinality({}) = 0
      BY FS_EmptySet
    <3>2. N # 0
      BY <1>1, <1>5
    <3> QED
      BY <3>1, <3>2
  <2>2. PICK i \in S : \A j \in S : i <= j
    BY <1>6, <2>1, LeastOf
  <2>3. Below(i) = {i}
    <3>1. \A j \in S : j <= i <=> j = i
      BY <1>6, <2>2
    <3> QED
      BY <3>1, Zenon
  <2>4. Cardinality(Below(i)) = 1
    <3>1. Cardinality({i}) = 1
      BY FS_Singleton
    <3> HIDE DEF Below
    <3> QED
      BY <2>3, <3>1
  <2> QED
    BY <1>5, <1>7, <2>4
<1>8. CASE c # 1
  <2>1. c - 1 \in 1..N /\ ~(c <= c - 1) /\ c - 1 \in Nat
    BY <1>1, <1>5, <1>8
  <2>2. Has(c - 1)
    BY <1>4, <2>1
  <2>3. PICK i \in S : Cardinality(Below(i)) = c - 1
    BY <2>2
  <2> DEFINE T == S \ Below(i)
  <2>4. T # {}
    <3>1. Below(i) # S
      <4> HIDE DEF Below
      <4> QED
        BY <1>1, <1>5, <2>1, <2>3
    <3> QED
      BY <1>2, <3>1
  <2>5. T \subseteq Nat
    BY <1>6
  <2>6. PICK h \in T : \A j \in T : h <= j
    <3> HIDE DEF T
    <3> QED
      BY <2>4, <2>5, LeastOf
  <2>7. h \in S /\ h \notin Below(i) /\ i < h
    BY <1>6, <2>6
  <2>8. Below(h) = Below(i) \cup {h}
    <3>1. \A j \in S : j <= h <=> j <= i \/ j = h
      BY <1>6, <2>6, <2>7
    <3> QED
      BY <1>6, <2>7, <3>1
  <2>9. Cardinality(Below(h)) = c
    <3> HIDE DEF Below
    <3>1. Cardinality(Below(i) \cup {h}) = Cardinality(Below(i)) + 1
      BY <1>2, <2>7, FS_AddElement
    <3> QED
      BY <1>5, <2>3, <2>8, <3>1
  <2> QED
    BY <1>5, <2>7, <2>9
<1> QED
  BY <1>7, <1>8

\* The slots in use are as many members.
LEMMA UsedType ==
    ASSUME NEW o \in Objects
    PROVE  /\ Used(o) \in Seq(Objects)
           /\ Len(Used(o)) \in 0..Len(Members[o])
           /\ \A i \in 1..Len(Used(o)) : \E j \in 1..Len(Members[o]) : Used(o)[i] = Members[o][j]
<1> DEFINE m == Len(Members[o])
           S == UsedSlots(o)
           N == Cardinality(S)
<1>1. Members[o] \in Seq(Objects) /\ m \in Nat /\ S \in SUBSET (1..m)
  BY ObjectsAssumption DEF UsedSlots
<1>2. N \in 0..m
  <2>1. IsFiniteSet(1..m) /\ Cardinality(1..m) = m
    BY <1>1, FS_Interval
  <2>2. IsFiniteSet(S) /\ N <= m /\ N \in Nat
    <3> HIDE DEF S, m
    <3> QED
      BY <1>1, <2>1, FS_Subset, FS_CardinalityType
  <2> QED
    BY <1>1, <2>2
<1>3. ASSUME NEW k \in 1..N PROVE NthUsedSlot(o, k) \in 1..m
  <2>1. \E i \in S : Cardinality({j \in S : j <= i}) = k
    <3> HIDE DEF S, m
    <3> QED
      BY <1>1, <1>3, NthOf
  <2>2. NthUsedSlot(o, k) \in S
    BY <2>1 DEF NthUsedSlot
  <2> QED
    BY <1>1, <2>2
<1>4. Used(o) = [k \in 1..N |-> Members[o][NthUsedSlot(o, k)]]
  BY DEF Used
<1> HIDE DEF m, S, N
<1>5. \A k \in 1..N : Members[o][NthUsedSlot(o, k)] \in Objects
  BY <1>1, <1>3 DEF m
<1>6. Used(o) \in Seq(Objects) /\ Len(Used(o)) = N
  BY <1>2, <1>4, <1>5, <1>1
<1>7. \A i \in 1..N : \E j \in 1..m : Used(o)[i] = Members[o][j]
  BY <1>3, <1>4
<1> QED
  BY <1>2, <1>6, <1>7 DEF m

\* The first k elements of a sequence, or all of them.
LEMMA FirstOfType ==
    ASSUME NEW S, NEW s \in Seq(S), NEW k \in Nat
    PROVE  /\ FirstOf(s, k) \in Seq(S)
           /\ Len(FirstOf(s, k)) = Smaller(Len(s), k)
           /\ \A i \in 1..Len(FirstOf(s, k)) : i \in 1..Len(s) /\ FirstOf(s, k)[i] = s[i]
<1> DEFINE m == Smaller(Len(s), k)
           t == SubSeq(s, 1, m)
<1>1. Len(s) \in Nat /\ m \in 0..Len(s)
  BY DEF Smaller
<1> HIDE DEF m
<1>2. /\ t \in Seq(S) /\ Len(t) = IF 1 <= m THEN m - 1 + 1 ELSE 0
      /\ \A i \in 1..(m - 1 + 1) : t[i] = s[1 + i - 1]
  <2>1. 1 \in Int /\ m \in Int /\ \A i \in 1..m : s[i] \in S
    BY <1>1
  <2> QED
    BY <2>1, SubSeqProperties
<1> HIDE DEF t
<1>3. Len(t) = m
  BY <1>1, <1>2
<1>4. ASSUME NEW i \in 1..m PROVE i \in 1..Len(s) /\ t[i] = s[i]
  <2>1. i \in 1..Len(s) /\ i \in 1..(m - 1 + 1) /\ 1 + i - 1 = i
    BY <1>1
  <2> QED
    BY <1>2, <2>1
<1>5. FirstOf(s, k) = t
  BY DEF FirstOf, t, m
<1> QED
  BY <1>2, <1>3, <1>4, <1>5 DEF m

\* The limit of a collection: at most that of an expression, and that of a frame
\* unless a larger one is remembered.
LEMMA CollectionLimitType ==
    ASSUME NEW o \in Objects, limit \in [Objects -> Nat]
    PROVE  /\ GetMaximumCollectionSize \in Nat \ {0} /\ CollectionLimit(o) \in Nat
           /\ current # 0 /\ CollectionLimit(o) > kMaximumCollectionSize =>
                 limit[o] > kMaximumCollectionSize
<1>1. limit[o] \in Nat /\ Count[o] \in Nat
  BY ObjectsAssumption
<1>2. /\ GetMaximumCollectionSize \in Nat \ {0} /\ kMaximumCollectionSize \in Nat
      /\ current # 0 => GetMaximumCollectionSize = kMaximumCollectionSize
  BY LimitsAssumption DEF GetMaximumCollectionSize
<1> QED
  BY <1>1, <1>2 DEF CollectionLimit

\* What is shown of a variable are members of it; of a collection in a frame no
\* more than the limit, unless a larger one is remembered.
LEMMA ExpansionType ==
    ASSUME NEW o \in Objects, limit \in [Objects -> Nat], Composite(o)
    PROVE  /\ Expansion(o) \in Seq(Objects)
           /\ Len(Expansion(o)) \in 0..Len(Members[o])
           /\ \A i \in 1..Len(Expansion(o)) :
                 \E j \in 1..Len(Members[o]) : Expansion(o)[i] = Members[o][j]
           /\ current # 0 /\ Kind[o] # "class"
              /\ Len(Expansion(o)) > kMaximumCollectionSize =>
                 limit[o] > kMaximumCollectionSize
<1> DEFINE m == Members[o]
           e == Expansion(o)
           g == GetMaximumCollectionSize
           c == CollectionLimit(o)
           kc == Smaller(Count[o], g)
<1>1. /\ m \in Seq(Objects) /\ Len(m) \in Nat /\ Count[o] \in Nat
      /\ kMaximumCollectionSize \in Nat /\ limit[o] \in Nat
  BY ObjectsAssumption, LimitsAssumption
<1>2. /\ g \in Nat \ {0} /\ c \in Nat
      /\ current # 0 /\ c > kMaximumCollectionSize => limit[o] > kMaximumCollectionSize
  BY CollectionLimitType
<1>3. kc \in Nat /\ kc <= g
  BY <1>1, <1>2 DEF Smaller
<1>4. CASE Kind[o] = "class"
  <2>1. e = m
    BY <1>4 DEF Expansion, ClassMembers
  <2> HIDE DEF e, m
  <2>2. /\ e \in Seq(Objects) /\ Len(e) \in 0..Len(m)
        /\ \A i \in 1..Len(e) : \E j \in 1..Len(m) : e[i] = m[j]
    BY <1>1, <2>1
  <2> QED
    BY <1>4, <2>2 DEF e, m
<1>5. CASE Kind[o] = "set"
  <2> DEFINE u == Used(o)
  <2>1. e = FirstOf(u, kc)
    BY <1>5 DEF Expansion
  <2>2. /\ u \in Seq(Objects) /\ Len(u) \in 0..Len(m)
        /\ \A i \in 1..Len(u) : \E j \in 1..Len(m) : u[i] = m[j]
    BY UsedType
  <2> HIDE DEF e, u, m, kc, g
  <2>3. /\ e \in Seq(Objects) /\ Len(e) = Smaller(Len(u), kc)
        /\ \A i \in 1..Len(e) : i \in 1..Len(u) /\ e[i] = u[i]
    BY <1>3, <2>1, <2>2, FirstOfType
  <2>4. Len(e) \in 0..Len(m) /\ Len(e) <= g
    BY <1>1, <1>2, <1>3, <2>2, <2>3 DEF Smaller
  <2>5. \A i \in 1..Len(e) : \E j \in 1..Len(m) : e[i] = m[j]
    BY <2>2, <2>3
  <2>6. current # 0 => g = kMaximumCollectionSize
    BY DEF g, GetMaximumCollectionSize
  <2>7. ~(current # 0 /\ Len(e) > kMaximumCollectionSize)
    BY <1>1, <2>3, <2>4, <2>6
  <2> QED
    BY <2>3, <2>4, <2>5, <2>7 DEF e, m
<1>6. CASE Kind[o] \in {"array", "list"}
  <2>1. e = FirstOf(m, c)
    BY <1>6 DEF Expansion
  <2> HIDE DEF e, m, c
  <2>2. /\ e \in Seq(Objects) /\ Len(e) = Smaller(Len(m), c)
        /\ \A i \in 1..Len(e) : i \in 1..Len(m) /\ e[i] = m[i]
    BY <1>1, <1>2, <2>1, FirstOfType
  <2>3. Len(e) \in 0..Len(m) /\ Len(e) <= c
    BY <1>1, <1>2, <2>2 DEF Smaller
  <2>4. \A i \in 1..Len(e) : \E j \in 1..Len(m) : e[i] = m[j]
    BY <2>2
  <2>5. current # 0 /\ Len(e) > kMaximumCollectionSize => limit[o] > kMaximumCollectionSize
    BY <1>1, <1>2, <2>2, <2>3
  <2> QED
    BY <2>2, <2>3, <2>4, <2>5 DEF e, m
<1> QED
  BY <1>4, <1>5, <1>6 DEF Composite

\* The frames of a stack.
LEMMA StackType ==
    ASSUME stack \in Stacks
    PROVE  /\ Len(stack.frames) \in Nat \ {0}
           /\ \A p \in 1..Len(stack.frames) :
                 /\ Frame(p).kind \in FrameKinds /\ Frame(p).async \in BOOLEAN
                 /\ Frame(p).vars \in Seq(Objects)
<1> DEFINE R == [kind : FrameKinds, async : BOOLEAN, vars : Seq(Objects)]
<1>1. stack.frames \in Seq(R) /\ Len(stack.frames) > 0
  BY StacksAssumption DEF StackRecords
<1>2. \A p \in 1..Len(stack.frames) : stack.frames[p] \in R
  <2> HIDE DEF R
  <2> QED
    BY <1>1
<1>3. ASSUME NEW p \in 1..Len(stack.frames)
      PROVE  /\ Frame(p).kind \in FrameKinds /\ Frame(p).async \in BOOLEAN
             /\ Frame(p).vars \in Seq(Objects)
  BY <1>2 DEF Frame
<1>4. Len(stack.frames) \in Nat \ {0}
  BY <1>1
<1> QED
  BY <1>3, <1>4

\* What PopulateDbgStackFrame makes of a frame of the stack.
LEMMA PopulateType ==
    ASSUME stack \in Stacks, NEW p \in 1..Len(stack.frames), NEW il \in BOOLEAN
    PROVE  /\ PopulateDbgStackFrame(p, il) \in DbgStackFrames
           /\ PopulateDbgStackFrame(p, il).at = p
           /\ PopulateDbgStackFrame(p, il).vars \in {<<>>, Frame(p).vars}
<1> DEFINE i == il /\ HasSequencePoint(p)
           f == PopulateDbgStackFrame(p, il)
<1>1. /\ p \in Nat /\ Frame(p).vars \in Seq(Objects) /\ Frame(p).async \in BOOLEAN
  BY StackType
<1>2. PICK a \in BOOLEAN : a <=> i
  BY Zenon
<1>3. PICK b \in BOOLEAN : b <=> Frame(p).kind = "native"
  BY Zenon
<1>4. PICK c \in BOOLEAN : c <=> i /\ InitializeSucceeds(p)
  BY Zenon
<1>5. PICK d \in BOOLEAN : d <=> i /\ InAsyncMethod(p)
  BY Zenon
<1> DEFINE v == IF i THEN Variables(p) ELSE <<>>
<1>6. v \in Seq(Objects) /\ v \in {<<>>, Frame(p).vars}
  BY <1>1 DEF Variables
<1>7. f = [at |-> p, empty |-> Frame(p).kind = "native", processed |-> i /\ InitializeSucceeds(p),
           async |-> i /\ InAsyncMethod(p), vars |-> v]
  BY DEF PopulateDbgStackFrame
<1> HIDE DEF v, f
<1>8. /\ f.at = p /\ f.vars = v
      /\ (Frame(p).kind = "native") \in BOOLEAN /\ (i /\ InitializeSucceeds(p)) \in BOOLEAN
      /\ (i /\ InAsyncMethod(p)) \in BOOLEAN
  BY <1>7
<1>9. f \in DbgStackFrames
  BY <1>1, <1>6, <1>7, <1>8 DEF DbgStackFrames
<1> QED
  BY <1>6, <1>8, <1>9 DEF f

\* A variable added to the report.
LEMMA VariableType ==
    ASSUME NEW o \in Objects, NEW level \in Nat, NEW status \in States,
           current' \in Nat, hit \in Nat, statics \in [Objects -> Nat]
    PROVE  /\ Variable(o, level, status) \in Items
           /\ Variable(o, level, status).obj = o
           /\ Variable(o, level, status).frame = current'
           /\ Variable(o, level, status).state = status
           /\ Variable(o, level, status).shown = 0
           /\ Variable(o, level, status).read \in {hit, statics[o]}
           /\ Variable(o, level, status).read = statics[o] => statics[o] # 0 \/ statics[o] = hit
<1> DEFINE r == IF Kind[o] = "static" /\ statics[o] # 0 THEN statics[o] ELSE hit
<1>1. r \in Nat /\ r \in {hit, statics[o]} /\ (r = statics[o] => statics[o] # 0 \/ statics[o] = hit)
  OBVIOUS
<1>2. Variable(o, level, status) =
        [obj |-> o, level |-> level, frame |-> current', state |-> status, shown |-> 0, read |-> r]
  BY DEF Variable
<1> HIDE DEF r
<1> QED
  BY <1>1, <1>2 DEF Items

\* The variables of a frame and the expressions of a breakpoint.
LEMMA RootsType ==
    ASSUME NEW objs \in Seq(Objects),
           current' \in Nat, hit \in Nat, statics \in [Objects -> Nat]
    PROVE  /\ Roots(objs) \in Seq(Items) /\ Len(Roots(objs)) = Len(objs)
           /\ \A i \in 1..Len(objs) :
                 /\ objs[i] \in Objects
                 /\ Roots(objs)[i] = Variable(objs[i], 1, "named")
<1>1. Len(objs) \in Nat /\ \A i \in 1..Len(objs) : objs[i] \in Objects
  OBVIOUS
<1>2. "named" \in States /\ 1 \in Nat
  BY DEF States
<1>3. \A i \in 1..Len(objs) : Variable(objs[i], 1, "named") \in Items
  BY <1>1, <1>2, VariableType
<1>4. Roots(objs) = [i \in 1..Len(objs) |-> Variable(objs[i], 1, "named")]
  BY DEF Roots
<1> QED
  BY <1>1, <1>3, <1>4

\* What is queued are variables that have just been added.
LEMMA QueuedType ==
    ASSUME NEW from \in Nat, NEW new \in Seq(Items)
    PROVE  /\ Queued(from, new) \in SUBSET ((from + 1)..(from + Len(new)))
           /\ \A i \in 1..Len(new) : ~EvaluateFails(new[i].obj) => from + i \in Queued(from, new)
<1>1. Len(new) \in Nat
  OBVIOUS
<1>2. \A i \in 1..Len(new) : from + i \in (from + 1)..(from + Len(new))
  BY <1>1
<1> QED
  BY <1>2 DEF Queued

\* The records of a batch.
LEMMA BatchType ==
    ASSUME batch \in Batches, NEW j \in 1..Len(batch)
    PROVE  Len(batch) \in Nat /\ batch[j].expressions \in Seq(Objects)
<1>1. batch \in Seq(BreakpointRecords)
  BY BatchesAssumption
<1>2. batch[j] \in BreakpointRecords
  BY <1>1
<1> QED
  BY <1>1, <1>2 DEF BreakpointRecords

\* A batch is a sequence.
LEMMA LengthOfBatch ==
    ASSUME batch \in Batches
    PROVE  Len(batch) \in Nat
<1>1. batch \in Seq(BreakpointRecords)
  BY BatchesAssumption
<1> QED
  BY <1>1

\* The first frame, once it is known.
LEMMA FirstStackType ==
    ASSUME stack \in Stacks, first \in DbgStackFrames \cup {None}, NEW f \in ProcessFirstStack
    PROVE  /\ f \in DbgStackFrames \cup {None}
           /\ f # None /\ first = None =>
                 f = PopulateDbgStackFrame(1, TRUE) /\ ~FailsAt(1, TRUE)
           /\ first # None => f = first
<1>1. 1 \in 1..Len(stack.frames)
  BY StackType
<1> DEFINE g == PopulateDbgStackFrame(1, TRUE)
<1>2. g \in DbgStackFrames
  BY <1>1, PopulateType
<1>3. CASE first # None
  BY <1>3 DEF ProcessFirstStack
<1>4. CASE first = None
  <2>1. f = None \/ (f = g /\ ~(Unreadable(1, TRUE) \/ (g.async /\ AsyncInfoFails(1))))
    BY <1>4 DEF ProcessFirstStack
  <2> QED
    BY <1>2, <1>4, <2>1 DEF FailsAt
<1> QED
  BY <1>3, <1>4

\* What a frame adds to the counters of the walk.
LEMMA IlFramesType ==
    ASSUME NEW f
    PROVE  IlFrames(f) \in 0..1 /\ Advance(f) \in {1, 3} /\ StackToSkip(f) = Advance(f)
BY DEF IlFrames, Advance, StackToSkip

-----------------------------------------------------------------------------
(* Turns of PerformBFS.                                                    *)

\* A variable after its members have been named.
Expanded(v, m) == [v EXCEPT !.state = "members", !.shown = m]

\* What a turn of PerformBFS adds to the report: the items it names.
LEMMA PopulateMembersEffect ==
    ASSUME TypeOK, PopulateMembers
    PROVE  \E i \in queue, shown \in Seq(Objects), new \in Seq(Items) :
             LET v == items[i]
             IN  /\ v \in Items /\ Expandable(v) /\ i \in 1..Len(items) /\ ~Exhausted
                 /\ shown = Expansion(v.obj) /\ Len(new) = Len(shown)
                 /\ \A k \in 1..Len(new) :
                       /\ shown[k] \in Objects
                       /\ new[k] = Variable(shown[k], v.level + 1,
                                     IF EvaluateFails(shown[k]) THEN "error" ELSE "named")
                 /\ items' = [items EXCEPT ![i] = Expanded(v, Len(shown))] \o new
                 /\ queue' = (queue \ {i}) \cup Queued(Len(items), new)
                 /\ \E bytes \in 1..(2 + Len(shown)) :
                       size' = size + bytes /\ frameSize' = frameSize + bytes
                 /\ limit' = IF Kind[v.obj] \in {"array", "list"}
                             THEN [limit EXCEPT ![v.obj] = CollectionLimit(v.obj)]
                             ELSE limit
                 /\ statics' = [o \in Objects |->
                                  IF statics[o] = 0 /\ Kind[o] = "static"
                                     /\ \E k \in 1..Len(shown) : shown[k] = o
                                  THEN hit ELSE statics[o]]
<1> DEFINE i == Front
           v == items[i]
           shown == Expansion(v.obj)
           N(k) == Variable(shown[k], v.level + 1,
                            IF EvaluateFails(shown[k]) THEN "error" ELSE "named")
           new == [k \in 1..Len(shown) |-> N(k)]
<1>1. /\ pc = "bfs" /\ queue # {} /\ ~Exhausted /\ current' = current /\ Expandable(v)
      /\ items' = [items EXCEPT ![i] = Expanded(v, Len(shown))] \o new
      /\ queue' = (queue \ {i}) \cup Queued(Len(items), new)
      /\ Grow(1 + Len(shown) + (IF Kind[v.obj] \in {"list", "set"} THEN 1 ELSE 0))
      /\ limit' = IF Kind[v.obj] \in {"array", "list"}
                  THEN [limit EXCEPT ![v.obj] = CollectionLimit(v.obj)]
                  ELSE limit
      /\ statics' = [o \in Objects |->
                       IF statics[o] = 0 /\ Kind[o] = "static"
                          /\ \E k \in 1..Len(shown) : shown[k] = o
                       THEN hit ELSE statics[o]]
  BY DEF PopulateMembers, Expanded
<1>2. /\ items \in Seq(Items) /\ Len(items) \in Nat /\ queue \in SUBSET (1..Len(items))
      /\ limit \in [Objects -> Nat] /\ statics \in [Objects -> Nat] /\ hit \in Nat
      /\ current \in Nat
  BY DEF TypeOK, ReportType, CacheType, TaskType, WalkType
<1>3. i \in queue /\ i \in 1..Len(items)
  BY <1>1, <1>2, FrontInQueue
<1> HIDE DEF i
<1>4. v \in Items /\ v.obj \in Objects /\ v.level \in Nat
  <2>1. v \in Items
    BY <1>2, <1>3
  <2> QED
    BY <2>1 DEF Items
<1>5. shown \in Seq(Objects) /\ Len(shown) \in Nat /\ \A k \in 1..Len(shown) : shown[k] \in Objects
  <2>1. Composite(v.obj)
    BY <1>1 DEF Expandable
  <2>2. shown \in Seq(Objects)
    BY <1>2, <1>4, <2>1, ExpansionType
  <2> HIDE DEF shown
  <2> QED
    BY <2>2
<1> HIDE DEF v, shown
<1>6. \A k \in 1..Len(shown) : N(k) \in Items
  <2>1. v.level + 1 \in Nat /\ \A k : (IF EvaluateFails(shown[k]) THEN "error" ELSE "named") \in States
    BY <1>4 DEF States
  <2> QED
    BY <1>1, <1>2, <1>5, <2>1, VariableType
<1> HIDE DEF N
<1>7. new \in Seq(Items) /\ Len(new) = Len(shown) /\ \A k \in 1..Len(new) : new[k] = N(k)
  BY <1>5, <1>6
<1> HIDE DEF new
<1>8. \E bytes \in 1..(2 + Len(shown)) : size' = size + bytes /\ frameSize' = frameSize + bytes
  <2> DEFINE b == 1 + Len(shown) + (IF Kind[v.obj] \in {"list", "set"} THEN 1 ELSE 0)
  <2>1. b \in 1..(2 + Len(shown))
    BY <1>5
  <2> HIDE DEF b
  <2>2. size' = size + b /\ frameSize' = frameSize + b
    BY <1>1 DEF Grow, b
  <2> QED
    BY <2>1, <2>2
<1>9. \A k \in 1..Len(new) :
          /\ shown[k] \in Objects
          /\ new[k] = Variable(shown[k], v.level + 1,
                               IF EvaluateFails(shown[k]) THEN "error" ELSE "named")
  BY <1>5, <1>7 DEF N
<1>10. shown = Expansion(items[i].obj)
  BY DEF shown, v
<1> QED
  BY <1>1, <1>3, <1>4, <1>5, <1>7, <1>8, <1>9, <1>10 DEF v

\* The variable whose turn it is gets a state; nothing else of it changes.
LEMMA StateChanged ==
    ASSUME NEW s \in Seq(Items), NEW i \in 1..Len(s), NEW st \in States
    PROVE  LET x == [s EXCEPT ![i].state = st]
           IN  /\ x \in Seq(Items) /\ Len(x) = Len(s)
               /\ \A k \in 1..Len(s) : k # i => x[k] = s[k]
               /\ x[i] \in Items
               /\ x[i].obj = s[i].obj /\ x[i].frame = s[i].frame /\ x[i].read = s[i].read
               /\ x[i].level = s[i].level /\ x[i].state = st /\ x[i].shown = s[i].shown
<1>1. s[i] \in Items /\ Len(s) \in Nat
  OBVIOUS
<1> DEFINE a == [s[i] EXCEPT !.state = st]
           x == [s EXCEPT ![i].state = st]
<1>2. /\ a \in Items /\ a.obj = s[i].obj /\ a.frame = s[i].frame /\ a.read = s[i].read
      /\ a.level = s[i].level /\ a.state = st /\ a.shown = s[i].shown
  BY <1>1 DEF Items
<1>3. x = [s EXCEPT ![i] = a]
  OBVIOUS
<1> HIDE DEF a, x
<1>4. x \in Seq(Items) /\ Len(x) = Len(s) /\ x[i] = a /\ \A k \in 1..Len(s) : k # i => x[k] = s[k]
  BY <1>2, <1>3
<1> QED
  BY <1>2, <1>4 DEF x

\* The variable whose members are named also gets their number.
LEMMA MembersNamed ==
    ASSUME NEW s \in Seq(Items), NEW i \in 1..Len(s), NEW m \in Nat
    PROVE  LET x == [s EXCEPT ![i] = Expanded(s[i], m)]
           IN  /\ x \in Seq(Items) /\ Len(x) = Len(s)
               /\ \A k \in 1..Len(s) : k # i => x[k] = s[k]
               /\ x[i].obj = s[i].obj /\ x[i].frame = s[i].frame /\ x[i].read = s[i].read
               /\ x[i].state = "members" /\ x[i].shown = m
<1>1. s[i] \in Items /\ Len(s) \in Nat
  OBVIOUS
<1> DEFINE b == Expanded(s[i], m)
           x == [s EXCEPT ![i] = b]
<1>2. /\ b \in Items /\ b.obj = s[i].obj /\ b.frame = s[i].frame /\ b.read = s[i].read
      /\ b.state = "members" /\ b.shown = m
  BY <1>1 DEF Items, States, Expanded
<1> HIDE DEF b
<1>3. x \in Seq(Items) /\ Len(x) = Len(s) /\ x[i] = b /\ \A k \in 1..Len(s) : k # i => x[k] = s[k]
  BY <1>2
<1> HIDE DEF x
<1>4. /\ x \in Seq(Items) /\ Len(x) = Len(s)
      /\ \A k \in 1..Len(s) : k # i => x[k] = s[k]
      /\ x[i].obj = s[i].obj /\ x[i].frame = s[i].frame /\ x[i].read = s[i].read
      /\ x[i].state = "members" /\ x[i].shown = m
  BY <1>2, <1>3
<1> QED
  BY <1>4 DEF x, b

\* What a turn of PerformBFS on a variable without members does.
LEMMA PopulateLeafEffect ==
    ASSUME TypeOK, PopulateLeaf
    PROVE  \E i \in queue, st \in States \ {"named"}, bytes \in 1..2 :
             /\ i \in 1..Len(items) /\ ~Exhausted
             /\ items' = [items EXCEPT ![i].state = st]
             /\ queue' = queue \ {i}
             /\ size' = size + bytes /\ frameSize' = frameSize + bytes
<1> DEFINE i == Front
           v == items[i]
<1>1. /\ pc = "bfs" /\ queue # {} /\ ~Exhausted
      /\ items' = [items EXCEPT ![i].state = Leaf(v).state]
      /\ Grow(Leaf(v).bytes)
      /\ queue' = queue \ {i}
  BY DEF PopulateLeaf
<1>2. items \in Seq(Items) /\ Len(items) \in Nat /\ queue \in SUBSET (1..Len(items))
  BY DEF TypeOK, ReportType
<1>3. i \in queue /\ i \in 1..Len(items)
  BY <1>1, <1>2, FrontInQueue
<1>4. Leaf(v).state \in States \ {"named"} /\ Leaf(v).bytes \in 1..2
  BY DEF Leaf, States
<1> QED
  BY <1>1, <1>3, <1>4 DEF Grow

\* Items are added behind those of the report.
LEMMA ItemsAdded ==
    ASSUME NEW s \in Seq(Items), NEW new \in Seq(Items)
    PROVE  /\ s \o new \in Seq(Items) /\ Len(s \o new) = Len(s) + Len(new)
           /\ Len(s) \in Nat /\ Len(new) \in Nat
           /\ \A k \in 1..Len(s) : (s \o new)[k] = s[k]
           /\ \A k \in 1..Len(new) : (s \o new)[Len(s) + k] = new[k]
<1> DEFINE t == s \o new
<1>1. /\ t \in Seq(Items) /\ Len(t) = Len(s) + Len(new) /\ Len(s) \in Nat /\ Len(new) \in Nat
      /\ \A i \in 1..(Len(s) + Len(new)) : t[i] = IF i <= Len(s) THEN s[i] ELSE new[i - Len(s)]
  BY ConcatProperties, LenProperties
<1> HIDE DEF t
<1>2. \A k \in 1..Len(s) : t[k] = s[k]
  BY <1>1
<1>3. ASSUME NEW k \in 1..Len(new) PROVE t[Len(s) + k] = new[k]
  <2>1. Len(s) + k \in 1..(Len(s) + Len(new)) /\ ~(Len(s) + k <= Len(s)) /\ (Len(s) + k) - Len(s) = k
    BY <1>1
  <2> QED
    BY <1>1, <2>1
<1> QED
  BY <1>1, <1>2, <1>3 DEF t

\* The report after a turn of PerformBFS that names the members of variable i.
LEMMA MembersEffect ==
    ASSUME TypeOK, PopulateMembers
    PROVE  \E i \in queue, shown \in Seq(Objects) :
             /\ i \in 1..Len(items) /\ items[i] \in Items /\ ~Exhausted
             /\ Expandable(items[i]) /\ shown = Expansion(items[i].obj)
             /\ Len(shown) \in Nat
             /\ items' \in Seq(Items) /\ Len(items') = Len(items) + Len(shown)
             /\ \A k \in 1..Len(items) : k # i => items'[k] = items[k]
             /\ items'[i].obj = items[i].obj /\ items'[i].frame = items[i].frame
             /\ items'[i].read = items[i].read /\ items'[i].state = "members"
             /\ items'[i].shown = Len(shown)
             /\ \A k \in 1..Len(shown) :
                   /\ shown[k] \in Objects
                   /\ items'[Len(items) + k] =
                         Variable(shown[k], items[i].level + 1,
                                  IF EvaluateFails(shown[k]) THEN "error" ELSE "named")
                   /\ ~EvaluateFails(shown[k]) => Len(items) + k \in queue'
             /\ \A k \in queue' :
                   \/ k \in queue
                   \/ k \in (Len(items) + 1)..(Len(items) + Len(shown))
             /\ \A k \in queue : k # i => k \in queue'
             /\ \E bytes \in 1..(2 + Len(shown)) :
                   size' = size + bytes /\ frameSize' = frameSize + bytes
             /\ limit' = IF Kind[items[i].obj] \in {"array", "list"}
                         THEN [limit EXCEPT ![items[i].obj] = CollectionLimit(items[i].obj)]
                         ELSE limit
             /\ statics' = [o \in Objects |->
                              IF statics[o] = 0 /\ Kind[o] = "static"
                                 /\ \E k \in 1..Len(shown) : shown[k] = o
                              THEN hit ELSE statics[o]]
<1>1. PICK i \in queue, shown \in Seq(Objects), new \in Seq(Items) :
        LET v == items[i]
        IN  /\ v \in Items /\ Expandable(v) /\ i \in 1..Len(items) /\ ~Exhausted
            /\ shown = Expansion(v.obj) /\ Len(new) = Len(shown)
            /\ \A k \in 1..Len(new) :
                  /\ shown[k] \in Objects
                  /\ new[k] = Variable(shown[k], v.level + 1,
                                IF EvaluateFails(shown[k]) THEN "error" ELSE "named")
            /\ items' = [items EXCEPT ![i] = Expanded(v, Len(shown))] \o new
            /\ queue' = (queue \ {i}) \cup Queued(Len(items), new)
            /\ \E bytes \in 1..(2 + Len(shown)) :
                  size' = size + bytes /\ frameSize' = frameSize + bytes
            /\ limit' = IF Kind[v.obj] \in {"array", "list"}
                        THEN [limit EXCEPT ![v.obj] = CollectionLimit(v.obj)]
                        ELSE limit
            /\ statics' = [o \in Objects |->
                             IF statics[o] = 0 /\ Kind[o] = "static"
                                /\ \E k \in 1..Len(shown) : shown[k] = o
                             THEN hit ELSE statics[o]]
  BY PopulateMembersEffect
<1> DEFINE x == [items EXCEPT ![i] = Expanded(items[i], Len(shown))]
           L == Len(items)
           N(k) == Variable(shown[k], items[i].level + 1,
                            IF EvaluateFails(shown[k]) THEN "error" ELSE "named")
<1>2. items \in Seq(Items) /\ L \in Nat /\ Len(shown) \in Nat /\ current' \in Nat
      /\ hit \in Nat /\ statics \in [Objects -> Nat] /\ items[i].level \in Nat
  <2>1. items \in Seq(Items) /\ current \in Nat /\ hit \in Nat /\ statics \in [Objects -> Nat]
    BY DEF TypeOK, ReportType, WalkType, TaskType, CacheType
  <2>2. current' = current
    BY DEF PopulateMembers
  <2>3. items[i].level \in Nat
    BY <1>1 DEF Items
  <2> QED
    BY <2>1, <2>2, <2>3
<1>3. /\ x \in Seq(Items) /\ Len(x) = L
      /\ \A k \in 1..L : k # i => x[k] = items[k]
      /\ x[i].obj = items[i].obj /\ x[i].frame = items[i].frame /\ x[i].read = items[i].read
      /\ x[i].state = "members" /\ x[i].shown = Len(shown)
  BY <1>1, <1>2, MembersNamed
<1>4. items' = x \o new
  BY <1>1
<1>5. \A k \in 1..Len(shown) : shown[k] \in Objects /\ new[k] = N(k)
  BY <1>1
<1> HIDE DEF x, N
<1>6. /\ items' \in Seq(Items) /\ Len(items') = L + Len(shown)
      /\ \A k \in 1..L : items'[k] = x[k]
      /\ \A k \in 1..Len(shown) : items'[L + k] = new[k]
  <2>1. /\ x \o new \in Seq(Items) /\ Len(x \o new) = Len(x) + Len(new)
        /\ \A k \in 1..Len(x) : (x \o new)[k] = x[k]
        /\ \A k \in 1..Len(new) : (x \o new)[Len(x) + k] = new[k]
    <3>1. x \in Seq(Items) /\ new \in Seq(Items)
      BY <1>3
    <3> QED
      BY ONLY <3>1, ItemsAdded
  <2>2. Len(x) = L /\ Len(new) = Len(shown)
    BY <1>1, <1>3
  <2> QED
    BY ONLY <1>4, <2>1, <2>2
<1>7. /\ Queued(L, new) \in SUBSET ((L + 1)..(L + Len(new)))
      /\ \A k \in 1..Len(new) : ~EvaluateFails(new[k].obj) => L + k \in Queued(L, new)
  BY <1>2, QueuedType
<1>8. \A k \in 1..Len(shown) : new[k].obj = shown[k]
  <2>1. items[i].level + 1 \in Nat /\ \A k : (IF EvaluateFails(shown[k]) THEN "error" ELSE "named") \in States
    BY <1>2 DEF States
  <2> QED
    BY <1>2, <1>5, <2>1, VariableType DEF N
<1>9. queue' = (queue \ {i}) \cup Queued(L, new) /\ Len(new) = Len(shown)
  BY <1>1
<1>10. \A k \in queue' : k \in queue \/ k \in (L + 1)..(L + Len(shown))
  BY <1>7, <1>9
<1>11. \A k \in 1..Len(shown) : ~EvaluateFails(shown[k]) => L + k \in queue'
  BY <1>7, <1>8, <1>9
<1>12. \A k \in queue : k # i => k \in queue'
  BY <1>9
<1>13. /\ \A k \in 1..L : k # i => items'[k] = items[k]
       /\ items'[i] = x[i]
  BY <1>1, <1>3, <1>6
<1>14. \A k \in 1..Len(shown) : items'[L + k] = N(k)
  BY <1>5, <1>6
<1>15. /\ items'[i].obj = items[i].obj /\ items'[i].frame = items[i].frame
       /\ items'[i].read = items[i].read /\ items'[i].state = "members"
       /\ items'[i].shown = Len(shown)
  BY <1>3, <1>13
<1>16. /\ i \in 1..Len(items) /\ items[i] \in Items /\ ~Exhausted
       /\ Expandable(items[i]) /\ shown = Expansion(items[i].obj)
       /\ \E bytes \in 1..(2 + Len(shown)) :
             size' = size + bytes /\ frameSize' = frameSize + bytes
       /\ limit' = IF Kind[items[i].obj] \in {"array", "list"}
                   THEN [limit EXCEPT ![items[i].obj] = CollectionLimit(items[i].obj)]
                   ELSE limit
       /\ statics' = [o \in Objects |->
                        IF statics[o] = 0 /\ Kind[o] = "static"
                           /\ \E k \in 1..Len(shown) : shown[k] = o
                        THEN hit ELSE statics[o]]
  BY <1>1
<1> WITNESS i \in queue, shown \in Seq(Objects)
<1> QED
  BY <1>2, <1>5, <1>6, <1>10, <1>11, <1>12, <1>13, <1>14, <1>15, <1>16 DEF N

\* The report after a turn of PerformBFS on a variable i without members.
LEMMA LeafEffect ==
    ASSUME TypeOK, PopulateLeaf
    PROVE  \E i \in queue, bytes \in 1..2 :
             /\ i \in 1..Len(items) /\ ~Exhausted
             /\ items' \in Seq(Items) /\ Len(items') = Len(items)
             /\ \A k \in 1..Len(items) : k # i => items'[k] = items[k]
             /\ items'[i].obj = items[i].obj /\ items'[i].frame = items[i].frame
             /\ items'[i].read = items[i].read /\ items'[i].state # "named"
             /\ items'[i].shown = items[i].shown
             /\ queue' = queue \ {i}
             /\ size' = size + bytes /\ frameSize' = frameSize + bytes
<1>1. PICK i \in queue, st \in States \ {"named"}, bytes \in 1..2 :
             /\ i \in 1..Len(items) /\ ~Exhausted
             /\ items' = [items EXCEPT ![i].state = st]
             /\ queue' = queue \ {i}
             /\ size' = size + bytes /\ frameSize' = frameSize + bytes
  BY PopulateLeafEffect
<1>2. items \in Seq(Items)
  BY DEF TypeOK, ReportType
<1> DEFINE x == [items EXCEPT ![i].state = st]
<1>3. /\ x \in Seq(Items) /\ Len(x) = Len(items)
      /\ \A k \in 1..Len(items) : k # i => x[k] = items[k]
      /\ x[i].obj = items[i].obj /\ x[i].frame = items[i].frame /\ x[i].read = items[i].read
      /\ x[i].state = st /\ x[i].shown = items[i].shown
  BY <1>1, <1>2, StateChanged
<1>4. items' = x
  BY <1>1
<1> HIDE DEF x
<1>5. /\ items' \in Seq(Items) /\ Len(items') = Len(items)
      /\ \A k \in 1..Len(items) : k # i => items'[k] = items[k]
      /\ items'[i].obj = items[i].obj /\ items'[i].frame = items[i].frame
      /\ items'[i].read = items[i].read /\ items'[i].state = st
      /\ items'[i].shown = items[i].shown
  BY <1>3, <1>4
<1> WITNESS i \in queue, bytes \in 1..2
<1> QED
  BY <1>1, <1>5

-----------------------------------------------------------------------------
(* Type correctness.                                                       *)

\* What a frame may fill, as an int.
LEMMA BudgetType ==
    ASSUME NEW bytes \in Nat
    PROVE  ToInt(Left(bytes) \div 2) \in Nat /\ ToInt(Left(bytes)) \in Int
<1> DEFINE a == Left(bytes)
           b == a \div 2
<1>1. a \in 0..(Word - 1) /\ Word \in Nat
  BY LimitsAssumption DEF Left
<1> HIDE DEF a
<1>2. b \in Nat /\ 2 * b <= a
  BY <1>1
<1>3. ToInt(a) \in Int
  BY <1>1 DEF ToInt
<1> HIDE DEF b
<1>4. ToInt(b) \in Nat
  BY <1>1, <1>2 DEF ToInt
<1> QED
  BY <1>3, <1>4 DEF a, b

\* The walk, the counters, the queue and the report keep their types, for every
\* stack, every heap and every limit: no index that the code computes leaves
\* what it points into.
LEMMA TypeStep == TypeOK /\ [Next]_vars => TypeOK'
<1> SUFFICES ASSUME TypeOK, [Next]_vars PROVE TypeOK'
  OBVIOUS
<1> USE DEF hitVars, walkVars, cacheVars, reportVars
<1>1. /\ TaskType /\ WalkType /\ CacheType /\ ReportType
      /\ stack \in Stacks /\ batch \in Batches
  BY DEF TypeOK, TaskType
<1>2. /\ Len(batch) \in Nat /\ n \in Nat /\ Len(stack.frames) \in Nat \ {0}
      /\ Len(frames) \in Nat /\ parsed \in Nat /\ ilParsed \in Nat /\ pos \in Nat
      /\ Len(items) \in Nat /\ current \in Nat
  BY <1>1, LengthOfBatch, StackType DEF TaskType, WalkType, ReportType
<1>3. UNCHANGED <<stack, batch, hit, n, pc, answered>> => TaskType'
  BY <1>1 DEF TaskType
<1>4. UNCHANGED <<frames, first, walked, pos, parsed, ilParsed>> => WalkType'
  BY <1>1 DEF WalkType
<1>5. UNCHANGED <<limit, statics>> => CacheType'
  BY <1>1 DEF CacheType
<1>6. UNCHANGED <<items, queue, current, budget, size, frameSize, spent>>
      /\ Len(frames') \in Nat /\ Len(frames') >= Len(frames) => ReportType'
  BY <1>1, <1>2 DEF ReportType
<1>7. UNCHANGED frames => Len(frames') \in Nat /\ Len(frames') >= Len(frames)
  BY <1>2
<1>8. CASE SkipCondition
  <2>1. TaskType'
    BY <1>1, <1>2, <1>8 DEF SkipCondition, TaskType
  <2> QED
    BY <1>4, <1>5, <1>6, <1>7, <1>8, <2>1 DEF SkipCondition, TypeOK
<1>9. CASE EvaluateBreakpointCondition
  <2>1. /\ pc = "condition" /\ n <= Len(batch) /\ first' \in ProcessFirstStack
        /\ UNCHANGED <<stack, batch, hit, frames, walked, pos, parsed, ilParsed, limit, statics,
                       items, queue, current, budget, size, frameSize, spent>>
        /\ \/ pc' \in {"expressions", "error"} /\ UNCHANGED <<n, answered>>
           \/ /\ answered' = [answered EXCEPT ![n] = "unmet"]
              /\ n' = n + 1 /\ pc' = "condition"
    BY <1>9 DEF EvaluateBreakpointCondition
  <2>2. TaskType'
    BY <1>1, <1>2, <2>1 DEF TaskType
  <2>3. first' \in DbgStackFrames \cup {None}
    BY <1>1, <2>1, FirstStackType DEF WalkType
  <2>4. WalkType'
    BY <1>1, <2>1, <2>3 DEF WalkType
  <2> QED
    BY <1>5, <1>6, <1>7, <2>1, <2>2, <2>4 DEF TypeOK
<1>10. CASE ProcessExpressions
  <2>1. /\ pc = "expressions" /\ pc' \in {"walk", "error"}
        /\ first' = first \/ first' \in ProcessFirstStack
        /\ UNCHANGED <<stack, batch, hit, n, answered, frames, walked, pos, parsed, ilParsed,
                       limit, statics, items, queue, current, budget, size, frameSize, spent>>
    BY <1>10 DEF ProcessExpressions
  <2>2. TaskType'
    BY <1>1, <1>2, <2>1 DEF TaskType
  <2>3. first' \in DbgStackFrames \cup {None}
    BY <1>1, <2>1, FirstStackType DEF WalkType
  <2>4. WalkType'
    BY <1>1, <2>1, <2>3 DEF WalkType
  <2> QED
    BY <1>5, <1>6, <1>7, <2>1, <2>2, <2>4 DEF TypeOK
<1>11. CASE WalkStack
  <2>1. /\ pc = "walk" /\ pc' \in {"frame", "error"} /\ walked' \in {walked, TRUE}
        /\ frames' = (IF first = None THEN frames ELSE Append(frames, first))
        /\ parsed' = (IF first = None THEN 0 ELSE 1)
        /\ ilParsed' = (IF first = None THEN 0 ELSE IlFrames(first))
        /\ pos' = (IF first = None THEN 1 ELSE 1 + StackToSkip(first))
        /\ UNCHANGED <<stack, batch, hit, n, answered, first, limit, statics,
                       items, queue, current, budget, size, frameSize, spent>>
    BY <1>11 DEF WalkStack
  <2>2. TaskType'
    BY <1>1, <1>2, <2>1 DEF TaskType
  <2>3. /\ frames' \in Seq(DbgStackFrames)
        /\ Len(frames') \in Nat /\ Len(frames') >= Len(frames)
    <3>1. frames \in Seq(DbgStackFrames) /\ first \in DbgStackFrames \cup {None}
      BY <1>1 DEF WalkType
    <3>2. CASE first = None
      BY <1>2, <2>1, <3>1, <3>2
    <3>3. CASE first # None
      BY <1>2, <2>1, <3>1, <3>3, AppendProperties
    <3> QED
      BY <3>2, <3>3
  <2>4. pos' \in Nat \ {0} /\ parsed' \in Nat /\ ilParsed' \in 0..parsed'
    BY <2>1, IlFramesType
  <2>5. WalkType'
    BY <1>1, <2>1, <2>3, <2>4 DEF WalkType
  <2> QED
    BY <1>5, <1>6, <2>1, <2>2, <2>3, <2>5 DEF TypeOK
<1>12. CASE AlreadyWalked \/ WalkUnavailable \/ WalkFails \/ WalkEnds
  <2>1. /\ pc \in {"walk", "frame"} /\ pc' \in {"populate", "error"} /\ walked' \in {walked, TRUE}
        /\ UNCHANGED <<stack, batch, hit, n, answered, frames, first, pos, parsed, ilParsed,
                       limit, statics, items, queue, current, budget, size, frameSize, spent>>
    BY <1>12 DEF AlreadyWalked, WalkUnavailable, WalkFails, WalkEnds, WalkGoesOn
  <2>2. TaskType'
    BY <1>1, <1>2, <2>1 DEF TaskType
  <2>3. WalkType'
    BY <1>1, <2>1 DEF WalkType
  <2> QED
    BY <1>5, <1>6, <1>7, <2>1, <2>2, <2>3 DEF TypeOK
<1>13. CASE WalkFrame
  <2>1. /\ pc = "frame" /\ pos <= Len(stack.frames)
        /\ pc' \in {pc, "error"} /\ walked' \in {walked, TRUE}
        /\ frames' = Append(frames, Walked)
        /\ parsed' = parsed + 1 /\ ilParsed' = ilParsed + IlFrames(Walked)
        /\ pos' = pos + Advance(Walked)
        /\ UNCHANGED <<stack, batch, hit, n, answered, first, limit, statics,
                       items, queue, current, budget, size, frameSize, spent>>
    BY <1>13 DEF WalkFrame, WalkGoesOn
  <2>2. TaskType'
    BY <1>1, <1>2, <2>1 DEF TaskType
  <2>3. Walked \in DbgStackFrames
    <3>1. pos \in 1..Len(stack.frames) /\ ProcessIlFrame \in BOOLEAN
      BY <1>1, <1>2, <2>1 DEF WalkType, ProcessIlFrame
    <3> QED
      BY <1>1, <3>1, PopulateType DEF Walked
  <2>4. /\ frames' \in Seq(DbgStackFrames)
        /\ Len(frames') \in Nat /\ Len(frames') >= Len(frames)
    BY <1>1, <1>2, <2>1, <2>3, AppendProperties DEF WalkType
  <2>5. pos' \in Nat \ {0} /\ parsed' \in Nat /\ ilParsed' \in 0..parsed'
    <3>1. IlFrames(Walked) \in 0..1 /\ Advance(Walked) \in {1, 3}
      BY IlFramesType
    <3> QED
      BY <1>1, <1>2, <2>1, <3>1 DEF WalkType
  <2>6. WalkType'
    BY <1>1, <2>1, <2>4, <2>5 DEF WalkType
  <2> QED
    BY <1>5, <1>6, <2>1, <2>2, <2>4, <2>6 DEF TypeOK
<1>14. CASE PopulateBreakpoint
  <2>1. /\ pc = "populate" /\ pc' = "bfs" /\ current' = 0
        /\ items' = Roots(batch[n].expressions) /\ queue' = Queued(0, items')
        /\ size' = 1 + 2 * Len(batch[n].expressions)
        /\ frameSize' = 0 /\ budget' = 0 /\ spent' = <<>>
        /\ UNCHANGED <<stack, batch, hit, n, answered, frames, first, walked, pos, parsed,
                       ilParsed, limit, statics>>
    BY <1>14 DEF PopulateBreakpoint
  <2>2. TaskType'
    BY <1>1, <1>2, <2>1 DEF TaskType
  <2>3. batch[n].expressions \in Seq(Objects)
    BY <1>1, <2>1, BatchType DEF TaskType
  <2>4. items' \in Seq(Items)
    BY <1>1, <2>1, <2>3, RootsType DEF TaskType, CacheType
  <2>5. queue' \in SUBSET (1..Len(items'))
    <3>1. Queued(0, items') \in SUBSET ((0 + 1)..(0 + Len(items')))
      BY <2>4, QueuedType
    <3>2. 0 + 1 = 1 /\ 0 + Len(items') = Len(items')
      BY <2>4
    <3> QED
      BY <2>1, <3>1, <3>2
  <2>6. size' \in Nat
    BY <2>1, <2>3
  <2>7. ReportType'
    BY <1>2, <2>1, <2>4, <2>5, <2>6 DEF ReportType
  <2> QED
    BY <1>4, <1>5, <2>1, <2>2, <2>7 DEF TypeOK
<1>15. CASE PopulateLeaf
  <2>1. UNCHANGED <<stack, batch, hit, n, pc, answered, frames, first, walked, pos, parsed,
                    ilParsed, limit, statics, current, budget, spent>>
    BY <1>15 DEF PopulateLeaf
  <2>2. PICK i \in queue, bytes \in 1..2 :
             /\ items' \in Seq(Items) /\ Len(items') = Len(items)
             /\ queue' = queue \ {i}
             /\ size' = size + bytes /\ frameSize' = frameSize + bytes
    BY <1>15, LeafEffect
  <2>3. ReportType'
    BY <1>1, <2>1, <2>2 DEF ReportType
  <2> QED
    BY <1>3, <1>4, <1>5, <2>1, <2>3 DEF TypeOK
<1>16. CASE PopulateMembers
  <2>1. UNCHANGED <<stack, batch, hit, n, pc, answered, frames, first, walked, pos, parsed,
                    ilParsed, current, budget, spent>>
    BY <1>16 DEF PopulateMembers
  <2>2. PICK i \in queue, shown \in Seq(Objects) :
             /\ items[i] \in Items /\ Len(shown) \in Nat
             /\ items' \in Seq(Items) /\ Len(items') = Len(items) + Len(shown)
             /\ \A k \in queue' :
                   \/ k \in queue
                   \/ k \in (Len(items) + 1)..(Len(items) + Len(shown))
             /\ \E bytes \in 1..(2 + Len(shown)) :
                   size' = size + bytes /\ frameSize' = frameSize + bytes
             /\ limit' = IF Kind[items[i].obj] \in {"array", "list"}
                         THEN [limit EXCEPT ![items[i].obj] = CollectionLimit(items[i].obj)]
                         ELSE limit
             /\ statics' = [o \in Objects |->
                              IF statics[o] = 0 /\ Kind[o] = "static"
                                 /\ \E k \in 1..Len(shown) : shown[k] = o
                              THEN hit ELSE statics[o]]
    BY <1>16, MembersEffect
  <2>3. size' \in Nat /\ frameSize' \in Nat
    BY <1>1, <2>2 DEF ReportType
  <2>4. queue' \in SUBSET (1..Len(items'))
    <3>1. \A k \in queue : k \in 1..Len(items)
      BY <1>1 DEF ReportType
    <3>2. \A k \in queue' : k \in 1..Len(items')
      BY <1>2, <2>2, <3>1
    <3> QED
      BY <3>2
  <2>5. ReportType'
    BY <1>1, <2>1, <2>2, <2>3, <2>4 DEF ReportType
  <2>6. CacheType'
    <3>1. items[i].obj \in Objects /\ limit \in [Objects -> Nat] /\ statics \in [Objects -> Nat]
          /\ hit \in Nat
      BY <1>1, <2>2 DEF Items, CacheType, TaskType
    <3>2. CollectionLimit(items[i].obj) \in Nat
      BY <3>1, CollectionLimitType
    <3>3. limit' \in [Objects -> Nat]
      BY <2>2, <3>1, <3>2
    <3>4. statics' \in [Objects -> Nat]
      BY <2>2, <3>1
    <3> QED
      BY <3>3, <3>4 DEF CacheType
  <2> QED
    BY <1>3, <1>4, <2>1, <2>5, <2>6 DEF TypeOK
<1>17. CASE BFSEnds
  <2>1. /\ pc = "bfs" /\ pc' \in {"write", "frames"} /\ queue' = {}
        /\ spent' = spent \/ spent' = Append(spent, [budget |-> budget, size |-> frameSize])
        /\ budget' = budget \/ budget' = ToInt(Left(size) \div 2)
        /\ UNCHANGED <<stack, batch, hit, n, answered, frames, first, walked, pos, parsed,
                       ilParsed, limit, statics, items, current, size, frameSize>>
    BY <1>17 DEF BFSEnds
  <2>2. TaskType'
    BY <1>1, <1>2, <2>1 DEF TaskType
  <2>3. budget' \in Int
    BY <1>1, <2>1, BudgetType DEF ReportType
  <2>4. spent' \in Seq([budget : Int, size : Nat])
    <3> DEFINE e == [budget |-> budget, size |-> frameSize]
               R == [budget : Int, size : Nat]
    <3>1. e \in R /\ spent \in Seq(R)
      BY <1>1 DEF ReportType
    <3> HIDE DEF e, R
    <3>2. Append(spent, e) \in Seq(R)
      BY <3>1, AppendProperties
    <3> QED
      BY <2>1, <3>1, <3>2 DEF e, R
  <2>5. ReportType'
    BY <1>1, <2>1, <2>3, <2>4 DEF ReportType
  <2> QED
    BY <1>4, <1>5, <2>1, <2>2, <2>5 DEF TypeOK
<1>18. CASE PopulateStackFrame
  <2> DEFINE f == frames[current']
             new == Roots(f.vars)
             e == [budget |-> budget', size |-> 1]
  <2>1. /\ pc = "frames" /\ current < Len(frames) /\ current' = current + 1
        /\ budget' = budget \/ budget' = ToInt(Left(size))
        /\ UNCHANGED <<stack, batch, hit, n, answered, frames, first, walked, pos, parsed,
                       ilParsed, limit, statics>>
        /\ \/ /\ size' = size + 1 /\ spent' = Append(spent, e)
              /\ UNCHANGED <<pc, items, queue, frameSize>>
           \/ /\ pc' = "bfs" /\ items' = items \o new
              /\ queue' = Queued(Len(items), new)
              /\ frameSize' = 1 + Len(f.vars) /\ size' = size + 1 + Len(f.vars)
              /\ UNCHANGED spent
    BY <1>18 DEF PopulateStackFrame
  <2>2. TaskType'
    BY <1>1, <1>2, <2>1 DEF TaskType
  <2>3. budget' \in Int
    BY <1>1, <2>1, BudgetType DEF ReportType
  <2>4. current' \in 0..Len(frames') /\ current' \in Nat /\ f \in DbgStackFrames
    BY <1>1, <1>2, <2>1 DEF WalkType
  <2>5. f.vars \in Seq(Objects)
    BY <2>4 DEF DbgStackFrames
  <2>6. CASE size' = size + 1 /\ spent' = Append(spent, e) /\ UNCHANGED <<pc, items, queue, frameSize>>
    <3> DEFINE R == [budget : Int, size : Nat]
    <3>1. e \in R /\ spent \in Seq(R)
      BY <1>1, <2>3 DEF ReportType
    <3> HIDE DEF e, R
    <3>2. Append(spent, e) \in Seq(R)
      BY <3>1, AppendProperties
    <3>3. spent' \in Seq([budget : Int, size : Nat])
      BY <2>6, <3>2 DEF R
    <3>4. ReportType'
      BY <1>1, <2>3, <2>4, <2>6, <3>3 DEF ReportType
    <3> QED
      BY <1>4, <1>5, <2>1, <2>2, <3>4 DEF TypeOK
  <2>7. CASE /\ pc' = "bfs" /\ items' = items \o new
             /\ queue' = Queued(Len(items), new)
             /\ frameSize' = 1 + Len(f.vars) /\ size' = size + 1 + Len(f.vars)
             /\ UNCHANGED spent
    <3>1. new \in Seq(Items) /\ items \in Seq(Items)
      BY <1>1, <2>4, <2>5, RootsType DEF TaskType, CacheType, ReportType
    <3>2. frameSize' \in Nat /\ size' \in Nat
      <4> DEFINE l == Len(f.vars)
      <4>1. l \in Nat /\ size \in Nat
        BY <1>1, <2>5 DEF ReportType
      <4>2. frameSize' = 1 + l /\ size' = size + 1 + l
        BY <2>7
      <4> HIDE DEF l
      <4> QED
        BY <4>1, <4>2
    <3> HIDE DEF new, f
    <3>3. items' \in Seq(Items) /\ Len(items') = Len(items) + Len(new) /\ Len(new) \in Nat
      BY <2>7, <3>1, ItemsAdded
    <3>4. queue' \in SUBSET (1..Len(items'))
      <4>1. queue' \in SUBSET ((Len(items) + 1)..(Len(items) + Len(new)))
        <5>1. Queued(Len(items), new) \in SUBSET ((Len(items) + 1)..(Len(items) + Len(new)))
          BY <1>2, <3>1, QueuedType
        <5> QED
          BY <2>7, <5>1
      <4>2. (Len(items) + 1)..(Len(items) + Len(new)) \subseteq 1..Len(items')
        BY <1>2, <3>3
      <4> QED
        BY <4>1, <4>2
    <3>5. ReportType'
      BY <1>1, <2>3, <2>4, <2>7, <3>2, <3>3, <3>4 DEF ReportType
    <3> QED
      BY <1>4, <1>5, <2>1, <2>2, <3>5 DEF TypeOK
  <2> QED
    BY <2>1, <2>6, <2>7
<1>19. CASE FramesEnd
  <2>1. TaskType'
    BY <1>1, <1>2, <1>19 DEF FramesEnd, TaskType
  <2> QED
    BY <1>4, <1>5, <1>6, <1>7, <1>19, <2>1 DEF FramesEnd, TypeOK
<1>20. CASE WriteBreakpoint
  <2>1. /\ pc \in {"write", "error"}
        /\ UNCHANGED <<stack, batch, hit, frames, first, walked, pos, parsed, ilParsed,
                       limit, statics, items, queue, current, budget, size, frameSize, spent>>
        /\ \E a \in {"report", "error", "lost"} : answered' = [answered EXCEPT ![n] = a]
        /\ \/ n' = n + 1 /\ pc' = "condition"
           \/ n' = n /\ pc' = "end"
    BY <1>20 DEF WriteBreakpoint
  <2>2. TaskType'
    BY <1>1, <1>2, <2>1 DEF TaskType
  <2> QED
    BY <1>4, <1>5, <1>6, <1>7, <2>1, <2>2 DEF TypeOK
<1>21. CASE TaskEnds
  <2>1. TaskType'
    BY <1>1, <1>2, <1>21 DEF TaskEnds, TaskType
  <2> QED
    BY <1>4, <1>5, <1>6, <1>7, <1>21, <2>1 DEF TaskEnds, TypeOK
<1>22. CASE NextHit
  <2>1. /\ stack' \in Stacks /\ batch' \in Batches /\ hit' = hit + 1
        /\ n' = 1 /\ pc' = "condition"
        /\ answered' = [i \in 1..Len(batch') |-> "pending"]
        /\ frames' = <<>> /\ first' = None /\ walked' = FALSE
        /\ pos' = 1 /\ parsed' = 0 /\ ilParsed' = 0
        /\ limit' = [o \in Objects |-> 0] /\ statics' = [o \in Objects |-> 0]
        /\ items' = <<>> /\ queue' = {} /\ current' = 0 /\ budget' = 0
        /\ size' = 0 /\ frameSize' = 0 /\ spent' = <<>>
    BY <1>22 DEF NextHit, NewTask
  <2>2. Len(batch') \in Nat
    BY <2>1, BatchesAssumption
  <2>3. TaskType'
    BY <1>1, <2>1, <2>2 DEF TaskType
  <2>4. WalkType'
    <3>1. frames' \in Seq(DbgStackFrames) /\ first' \in DbgStackFrames \cup {None}
      BY <2>1
    <3>2. pos' \in Nat \ {0} /\ parsed' \in Nat /\ ilParsed' \in 0..parsed'
      BY <2>1
    <3>3. walked' \in BOOLEAN
      BY <2>1
    <3> QED
      BY <3>1, <3>2, <3>3 DEF WalkType
  <2>5. CacheType'
    BY <2>1 DEF CacheType
  <2>6. ReportType'
    <3>1. 0 \in 0..Len(frames') /\ {} \in SUBSET (1..Len(items'))
      BY <2>1
    <3> QED
      BY <2>1, <3>1 DEF ReportType
  <2> QED
    BY <2>3, <2>4, <2>5, <2>6 DEF TypeOK
<1>23. CASE UNCHANGED vars
  BY <1>3, <1>4, <1>5, <1>6, <1>7, <1>23 DEF vars, TypeOK
<1> QED
  BY <1>8, <1>9, <1>10, <1>11, <1>12, <1>13, <1>14, <1>15, <1>16, <1>17, <1>18, <1>19,
     <1>20, <1>21, <1>22, <1>23 DEF Next, Process

\* Every variable of the task keeps to its type: the queue points into the
\* report, the current frame into stack_frames_, the breakpoint into the batch.
THEOREM TypeCorrect == Spec => []TypeOK
<1>1. Init => TypeOK
  <2> SUFFICES ASSUME Init PROVE TypeOK
    OBVIOUS
  <2>1. /\ stack \in Stacks /\ batch \in Batches /\ hit = 1 /\ n = 1 /\ pc = "condition"
        /\ answered = [i \in 1..Len(batch) |-> "pending"]
        /\ frames = <<>> /\ first = None /\ walked = FALSE
        /\ pos = 1 /\ parsed = 0 /\ ilParsed = 0
        /\ limit = [o \in Objects |-> 0] /\ statics = [o \in Objects |-> 0]
        /\ items = <<>> /\ queue = {} /\ current = 0 /\ budget = 0
        /\ size = 0 /\ frameSize = 0 /\ spent = <<>>
    BY DEF Init
  <2>2. TaskType
    BY <2>1, LengthOfBatch DEF TaskType
  <2>3. WalkType
    <3>1. walked \in BOOLEAN
      BY <2>1
    <3> QED
      BY <2>1, <3>1 DEF WalkType
  <2>4. CacheType
    BY <2>1 DEF CacheType
  <2>5. ReportType
    <3>1. 0 \in 0..Len(frames) /\ {} \in SUBSET (1..Len(items))
      BY <2>1
    <3> QED
      BY <2>1, <3>1 DEF ReportType
  <2> QED
    BY <2>2, <2>3, <2>4, <2>5 DEF TypeOK
<1> QED
  BY <1>1, TypeStep, PTL DEF Spec

-----------------------------------------------------------------------------
(* Steps that leave the report alone.                                      *)

Quiet ==
    \/ SkipCondition \/ EvaluateBreakpointCondition \/ ProcessExpressions
    \/ WalkStack \/ AlreadyWalked \/ WalkUnavailable
    \/ WalkFrame \/ WalkFails \/ WalkEnds
    \/ FramesEnd \/ WriteBreakpoint \/ TaskEnds

\* They only move on in the task, to the end of a report at most.
LEMMA QuietEffect ==
    ASSUME TypeOK, Quiet
    PROVE  /\ UNCHANGED <<stack, batch, hit, limit, statics, items, queue, current, budget,
                          size, frameSize, spent>>
           /\ n' \in {n, n + 1}
           /\ pc # "bfs" /\ pc' \notin {"bfs", "frames"}
           /\ pc' = "write" => pc = "frames" /\ current = Len(frames) /\ UNCHANGED frames
<1> USE DEF hitVars, walkVars, cacheVars, reportVars
<1>1. CASE SkipCondition \/ EvaluateBreakpointCondition \/ ProcessExpressions
  BY <1>1 DEF SkipCondition, EvaluateBreakpointCondition, ProcessExpressions
<1>2. CASE WalkStack \/ AlreadyWalked \/ WalkUnavailable
  BY <1>2 DEF WalkStack, AlreadyWalked, WalkUnavailable
<1>3. CASE WalkFrame \/ WalkFails \/ WalkEnds
  BY <1>3 DEF WalkFrame, WalkFails, WalkEnds, WalkGoesOn
<1>4. CASE FramesEnd \/ WriteBreakpoint \/ TaskEnds
  BY <1>4 DEF FramesEnd, WriteBreakpoint, TaskEnds
<1> QED
  BY <1>1, <1>2, <1>3, <1>4 DEF Quiet

\* The steps of the specification.
LEMMA Steps ==
    [Next]_vars <=> \/ Quiet \/ PopulateBreakpoint \/ PopulateLeaf \/ PopulateMembers
                    \/ BFSEnds \/ PopulateStackFrame \/ NextHit \/ UNCHANGED vars
BY DEF Next, Process, Quiet

\* The variables of a frame are named behind those of the report.
LEMMA StackFrameEffect ==
    ASSUME TypeOK, PopulateStackFrame
    PROVE  LET f == frames[current']
           IN  /\ pc = "frames" /\ current < Len(frames) /\ current' = current + 1
               /\ current' \in Nat /\ f \in DbgStackFrames /\ f.vars \in Seq(Objects)
               /\ budget' = budget
               /\ UNCHANGED <<stack, batch, hit, n, answered, frames, first, walked, pos,
                              parsed, ilParsed, limit, statics>>
               /\ \/ /\ size' = size + 1
                     /\ spent' = Append(spent, [budget |-> budget, size |-> 1])
                     /\ UNCHANGED <<pc, items, queue, frameSize>>
                  \/ /\ pc' = "bfs" /\ UNCHANGED spent
                     /\ frameSize' = 1 + Len(f.vars) /\ size' = size + frameSize'
                     /\ items' \in Seq(Items) /\ Len(items') = Len(items) + Len(f.vars)
                     /\ \A k \in 1..Len(items) : items'[k] = items[k]
                     /\ \A k \in 1..Len(f.vars) :
                           /\ f.vars[k] \in Objects
                           /\ items'[Len(items) + k] = Variable(f.vars[k], 1, "named")
                           /\ ~EvaluateFails(f.vars[k]) => Len(items) + k \in queue'
                     /\ queue' \in SUBSET ((Len(items) + 1)..(Len(items) + Len(f.vars)))
<1> USE DEF hitVars, walkVars, cacheVars, reportVars
<1> DEFINE f == frames[current']
           vs == f.vars
           L == Len(items)
           new == Roots(vs)
<1>1. /\ items \in Seq(Items) /\ L \in Nat /\ current \in Nat /\ hit \in Nat /\ size \in Nat
      /\ statics \in [Objects -> Nat] /\ Len(frames) \in Nat /\ frames \in Seq(DbgStackFrames)
  BY DEF TypeOK, TaskType, WalkType, CacheType, ReportType
<1>2. /\ pc = "frames" /\ current < Len(frames) /\ current' = current + 1
      /\ UNCHANGED <<stack, batch, hit, n, answered, frames, first, walked, pos,
                     parsed, ilParsed, limit, statics>>
      /\ budget' = IF ProcessedSoFar = NumberOfProcessedIlFrames - 1
                   THEN ToInt(Left(size)) ELSE budget
  BY DEF PopulateStackFrame
<1>3. \/ /\ size' = size + 1 /\ spent' = Append(spent, [budget |-> budget', size |-> 1])
         /\ UNCHANGED <<pc, items, queue, frameSize>>
      \/ /\ pc' = "bfs" /\ items' = items \o new /\ queue' = Queued(L, new)
         /\ frameSize' = 1 + Len(vs) /\ size' = size + 1 + Len(vs) /\ UNCHANGED spent
  BY DEF PopulateStackFrame
<1>4. ProcessedSoFar \in Nat
  <2> DEFINE P == {i \in 1..current : frames[i].processed}
  <2>1. 0 \in Int /\ 1 \in Int /\ current \in Int
    BY <1>1
  <2>2. IsFiniteSet(1..current)
    BY <2>1, FS_Interval
  <2>3. P \subseteq 1..current
    OBVIOUS
  <2> HIDE DEF P
  <2>4. IsFiniteSet(P)
    BY <2>2, <2>3, FS_Subset
  <2>5. Cardinality(P) \in Nat
    BY <2>4, FS_CardinalityType
  <2> QED
    BY <2>5 DEF ProcessedSoFar, P
<1>5. budget' = budget
  BY <1>2, <1>4 DEF NumberOfProcessedIlFrames
<1>6. current' \in Nat /\ f \in DbgStackFrames /\ vs \in Seq(Objects)
  <2>1. current' \in 1..Len(frames) /\ current' \in Nat
    BY <1>1, <1>2
  <2>2. f \in DbgStackFrames
    BY <1>1, <2>1
  <2> QED
    BY <2>1, <2>2 DEF DbgStackFrames
<1>7. /\ new \in Seq(Items) /\ Len(new) = Len(vs)
      /\ \A k \in 1..Len(vs) : vs[k] \in Objects /\ new[k] = Variable(vs[k], 1, "named")
  BY <1>1, <1>6, RootsType
<1> HIDE DEF vs, new
<1>8. \A k \in 1..Len(vs) : new[k].obj = vs[k]
  <2> SUFFICES ASSUME NEW k \in 1..Len(vs) PROVE new[k].obj = vs[k]
    OBVIOUS
  <2>1. /\ 1 \in Nat /\ "named" \in States /\ vs[k] \in Objects /\ current' \in Nat
        /\ hit \in Nat /\ statics \in [Objects -> Nat]
        /\ new[k] = Variable(vs[k], 1, "named")
    BY <1>1, <1>6, <1>7 DEF States
  <2>2. Variable(vs[k], 1, "named").obj = vs[k]
    BY ONLY <2>1, VariableType
  <2> QED
    BY ONLY <2>1, <2>2
<1>9. ASSUME pc' = "bfs", items' = items \o new, queue' = Queued(L, new),
             frameSize' = 1 + Len(vs), size' = size + 1 + Len(vs), UNCHANGED spent
      PROVE  /\ size' = size + frameSize'
             /\ items' \in Seq(Items) /\ Len(items') = L + Len(vs)
             /\ \A k \in 1..L : items'[k] = items[k]
             /\ \A k \in 1..Len(vs) :
                   /\ vs[k] \in Objects
                   /\ items'[L + k] = Variable(vs[k], 1, "named")
                   /\ ~EvaluateFails(vs[k]) => L + k \in queue'
             /\ queue' \in SUBSET ((L + 1)..(L + Len(vs)))
  <2>1. /\ items \o new \in Seq(Items) /\ Len(items \o new) = L + Len(new)
        /\ \A k \in 1..L : (items \o new)[k] = items[k]
        /\ \A k \in 1..Len(new) : (items \o new)[L + k] = new[k]
    BY <1>1, <1>7, ItemsAdded
  <2>2. /\ Queued(L, new) \in SUBSET ((L + 1)..(L + Len(new)))
        /\ \A k \in 1..Len(new) : ~EvaluateFails(new[k].obj) => L + k \in Queued(L, new)
    BY <1>1, <1>7, QueuedType
  <2>3. size' = size + frameSize'
    <3>1. Len(vs) \in Nat
      BY <1>6
    <3> QED
      BY <1>1, <1>9, <3>1
  <2>4. /\ items' \in Seq(Items) /\ Len(items') = L + Len(vs)
        /\ \A k \in 1..L : items'[k] = items[k]
        /\ \A k \in 1..Len(vs) : items'[L + k] = new[k]
    BY ONLY <1>7, <1>9, <2>1
  <2>5. /\ queue' \in SUBSET ((L + 1)..(L + Len(vs)))
        /\ \A k \in 1..Len(vs) : ~EvaluateFails(vs[k]) => L + k \in queue'
    BY ONLY <1>7, <1>8, <1>9, <2>2
  <2> QED
    BY <1>7, <2>3, <2>4, <2>5
<1> QED
  BY <1>2, <1>3, <1>5, <1>6, <1>9 DEF vs

\* The expressions of the breakpoint are named first.
LEMMA BreakpointEffect ==
    ASSUME TypeOK, PopulateBreakpoint
    PROVE  LET ex == batch[n].expressions
           IN  /\ pc = "populate" /\ pc' = "bfs" /\ current' = 0
               /\ n \in 1..Len(batch) /\ ex \in Seq(Objects) /\ Len(ex) \in Nat
               /\ items' \in Seq(Items) /\ Len(items') = Len(ex)
               /\ \A k \in 1..Len(ex) :
                     /\ ex[k] \in Objects /\ items'[k] = Variable(ex[k], 1, "named")
                     /\ ~EvaluateFails(ex[k]) => k \in queue'
               /\ queue' \in SUBSET (1..Len(ex))
               /\ size' = 1 + 2 * Len(ex) /\ frameSize' = 0 /\ budget' = 0 /\ spent' = <<>>
               /\ UNCHANGED <<stack, batch, hit, n, answered, frames, first, walked, pos,
                              parsed, ilParsed, limit, statics>>
<1> USE DEF hitVars, walkVars, cacheVars
<1> DEFINE ex == batch[n].expressions
<1>1. /\ pc = "populate" /\ pc' = "bfs" /\ current' = 0
      /\ items' = Roots(ex) /\ queue' = Queued(0, items')
      /\ size' = 1 + 2 * Len(ex) /\ frameSize' = 0 /\ budget' = 0 /\ spent' = <<>>
      /\ UNCHANGED <<stack, batch, hit, n, answered, frames, first, walked, pos,
                     parsed, ilParsed, limit, statics>>
  BY DEF PopulateBreakpoint
<1>2. n \in 1..Len(batch) /\ batch \in Batches /\ hit \in Nat /\ statics \in [Objects -> Nat]
  BY <1>1 DEF TypeOK, TaskType, CacheType
<1>3. ex \in Seq(Objects)
  BY <1>2, BatchType
<1>4. /\ items' \in Seq(Items) /\ Len(items') = Len(ex)
      /\ \A k \in 1..Len(ex) : ex[k] \in Objects /\ items'[k] = Variable(ex[k], 1, "named")
  BY <1>1, <1>2, <1>3, RootsType
<1> HIDE DEF ex
<1>5. \A k \in 1..Len(ex) : items'[k].obj = ex[k]
  <2>1. 1 \in Nat /\ "named" \in States
    BY DEF States
  <2> QED
    BY <1>1, <1>2, <1>4, <2>1, VariableType
<1>6. /\ queue' \in SUBSET ((0 + 1)..(0 + Len(items')))
      /\ \A k \in 1..Len(items') : ~EvaluateFails(items'[k].obj) => 0 + k \in queue'
  BY <1>1, <1>4, QueuedType
<1>7. Len(ex) \in Nat /\ 0 + 1 = 1 /\ 0 + Len(ex) = Len(ex) /\ \A k \in 1..Len(ex) : 0 + k = k
  BY <1>3
<1>8. /\ queue' \in SUBSET (1..Len(ex))
      /\ \A k \in 1..Len(ex) : ~EvaluateFails(ex[k]) => k \in queue'
  BY <1>4, <1>5, <1>6, <1>7
<1> QED
  BY <1>1, <1>2, <1>3, <1>4, <1>7, <1>8 DEF ex

-----------------------------------------------------------------------------
(* Static members.                                                         *)

\* The fields of a variable that is added to the report.
LEMMA NewVariable ==
    ASSUME TypeOK, current' \in Nat, NEW o \in Objects, NEW level \in Nat, NEW st \in States
    PROVE  /\ Variable(o, level, st).obj = o
           /\ Variable(o, level, st).frame = current'
           /\ Variable(o, level, st).state = st
           /\ Variable(o, level, st).shown = 0
           /\ statics[o] \in {0, hit} => Variable(o, level, st).read = hit
<1>1. hit \in Nat /\ statics \in [Objects -> Nat]
  BY DEF TypeOK, TaskType, CacheType
<1> QED
  BY <1>1, VariableType

\* A position in a sequence that was added to is an old or a new one.
LEMMA IndexSplit ==
    ASSUME NEW a \in Nat, NEW b \in Nat, NEW k \in 1..(a + b)
    PROVE  k \in 1..a \/ \E j \in 1..b : k = a + j
<1>1. CASE k <= a
  BY <1>1
<1>2. CASE ~(k <= a)
  <2>1. k - a \in 1..b /\ k = a + (k - a)
    BY <1>2
  <2> QED
    BY <2>1
<1> QED
  BY <1>1, <1>2

\* An action that adds a variable gives it a value that was read at this hit.
LEMMA StaticsStep == TypeOK /\ StaticsInv /\ [Next]_vars => StaticsInv'
<1> SUFFICES ASSUME TypeOK, StaticsInv, [Next]_vars PROVE StaticsInv'
  OBVIOUS
<1>1. /\ hit \in Nat /\ statics \in [Objects -> Nat] /\ items \in Seq(Items) /\ Len(items) \in Nat
      /\ current \in Nat
  BY DEF TypeOK, TaskType, CacheType, ReportType, WalkType
<1>2. /\ \A o \in Objects : statics[o] \in {0, hit}
      /\ \A i \in 1..Len(items) : items[i].read = hit
  BY DEF StaticsInv, StaticsAreOfThisHit
<1>3. ASSUME \A o \in Objects : statics'[o] \in {0, hit'},
             \A i \in 1..Len(items') : items'[i].read = hit'
      PROVE  StaticsInv'
  BY <1>3 DEF StaticsInv, StaticsAreOfThisHit
<1>4. CASE Quiet
  <2>1. UNCHANGED <<hit, statics, items>>
    BY <1>4, QuietEffect
  <2> QED
    BY <1>2, <1>3, <2>1
<1>5. CASE UNCHANGED vars \/ BFSEnds
  <2>1. UNCHANGED <<hit, statics, items>>
    BY <1>5 DEF vars, BFSEnds, hitVars, cacheVars, reportVars
  <2> QED
    BY <1>2, <1>3, <2>1
<1>6. CASE NextHit
  <2>1. Len(items') = 0 /\ statics' = [o \in Objects |-> 0]
    BY <1>6 DEF NextHit, NewTask
  <2> QED
    BY <1>3, <2>1
<1>7. CASE PopulateBreakpoint
  <2> DEFINE ex == batch[n].expressions
  <2>1. /\ current' = 0 /\ Len(items') = Len(ex) /\ hit' = hit /\ statics' = statics
        /\ \A k \in 1..Len(ex) :
              ex[k] \in Objects /\ items'[k] = Variable(ex[k], 1, "named")
    BY <1>7, BreakpointEffect
  <2> HIDE DEF ex
  <2>2. ASSUME NEW k \in 1..Len(items') PROVE items'[k].read = hit'
    <3>1. /\ ex[k] \in Objects /\ items'[k] = Variable(ex[k], 1, "named") /\ current' \in Nat
          /\ 1 \in Nat /\ "named" \in States /\ statics[ex[k]] \in {0, hit}
      BY <1>2, <2>1, <2>2 DEF States
    <3>2. Variable(ex[k], 1, "named").read = hit
      BY <3>1, NewVariable
    <3> QED
      BY <2>1, <3>1, <3>2
  <2> QED
    BY <1>2, <1>3, <2>1, <2>2
<1>8. CASE PopulateLeaf
  <2>1. PICK i \in queue :
          /\ Len(items') = Len(items) /\ \A k \in 1..Len(items) : k # i => items'[k] = items[k]
          /\ items'[i].read = items[i].read
    BY <1>8, LeafEffect
  <2>2. UNCHANGED <<hit, statics>>
    BY <1>8 DEF PopulateLeaf, hitVars, cacheVars
  <2> QED
    BY <1>2, <1>3, <2>1, <2>2
<1>9. CASE PopulateMembers
  <2>1. PICK i \in queue, shown \in Seq(Objects) :
          /\ i \in 1..Len(items) /\ items[i] \in Items
          /\ Len(shown) \in Nat /\ Len(items') = Len(items) + Len(shown)
          /\ \A k \in 1..Len(items) : k # i => items'[k] = items[k]
          /\ items'[i].read = items[i].read
          /\ \A k \in 1..Len(shown) :
                /\ shown[k] \in Objects
                /\ items'[Len(items) + k] =
                      Variable(shown[k], items[i].level + 1,
                               IF EvaluateFails(shown[k]) THEN "error" ELSE "named")
          /\ statics' = [o \in Objects |->
                           IF statics[o] = 0 /\ Kind[o] = "static"
                              /\ \E k \in 1..Len(shown) : shown[k] = o
                           THEN hit ELSE statics[o]]
    BY <1>9, MembersEffect
  <2>2. UNCHANGED <<hit, current>>
    BY <1>9 DEF PopulateMembers, hitVars
  <2>3. \A o \in Objects : statics'[o] \in {0, hit'}
    BY <1>2, <2>1, <2>2
  <2>4. ASSUME NEW k \in 1..Len(items') PROVE items'[k].read = hit'
    <3>1. CASE k \in 1..Len(items)
      BY <1>2, <2>1, <2>2, <3>1
    <3>2. CASE \E j \in 1..Len(shown) : k = Len(items) + j
      <4>1. PICK j \in 1..Len(shown) : k = Len(items) + j
        BY <3>2
      <4> DEFINE st == IF EvaluateFails(shown[j]) THEN "error" ELSE "named"
      <4>2. /\ shown[j] \in Objects /\ items'[k] = Variable(shown[j], items[i].level + 1, st)
        BY <2>1, <4>1
      <4>3. st \in States /\ items[i].level + 1 \in Nat /\ statics[shown[j]] \in {0, hit}
        BY <1>2, <2>1, <4>2 DEF States, Items
      <4> HIDE DEF st
      <4>4. Variable(shown[j], items[i].level + 1, st).read = hit
        BY <1>1, <2>2, <4>2, <4>3, NewVariable
      <4> QED
        BY <2>2, <4>2, <4>4
    <3>3. /\ Len(items) \in Nat /\ Len(shown) \in Nat
          /\ k \in 1..(Len(items) + Len(shown))
      BY <1>1, <2>1, <2>4
    <3>4. k \in 1..Len(items) \/ \E j \in 1..Len(shown) : k = Len(items) + j
      BY ONLY <3>3, IndexSplit
    <3> QED
      BY <3>1, <3>2, <3>4
  <2> QED
    BY <1>3, <2>3, <2>4
<1>10. CASE PopulateStackFrame
  <2> DEFINE vs == frames[current'].vars
  <2>1. /\ current' \in Nat /\ hit' = hit /\ statics' = statics /\ vs \in Seq(Objects)
        /\ \/ UNCHANGED items
           \/ /\ Len(items') = Len(items) + Len(vs)
              /\ \A k \in 1..Len(items) : items'[k] = items[k]
              /\ \A k \in 1..Len(vs) :
                    /\ vs[k] \in Objects
                    /\ items'[Len(items) + k] = Variable(vs[k], 1, "named")
    BY <1>10, StackFrameEffect
  <2> HIDE DEF vs
  <2>2. CASE UNCHANGED items
    BY <1>2, <1>3, <2>1, <2>2
  <2>3. CASE /\ Len(items') = Len(items) + Len(vs)
             /\ \A k \in 1..Len(items) : items'[k] = items[k]
             /\ \A k \in 1..Len(vs) :
                   /\ vs[k] \in Objects
                   /\ items'[Len(items) + k] = Variable(vs[k], 1, "named")
    <3>1. ASSUME NEW k \in 1..Len(items') PROVE items'[k].read = hit'
      <4>1. CASE k \in 1..Len(items)
        BY <1>2, <2>1, <2>3, <4>1
      <4>2. CASE \E j \in 1..Len(vs) : k = Len(items) + j
        <5>1. PICK j \in 1..Len(vs) : k = Len(items) + j
          BY <4>2
        <5>2. /\ vs[j] \in Objects /\ items'[k] = Variable(vs[j], 1, "named")
              /\ 1 \in Nat /\ "named" \in States /\ statics[vs[j]] \in {0, hit}
          BY <1>2, <2>3, <5>1 DEF States
        <5>3. Variable(vs[j], 1, "named").read = hit
          BY <2>1, <5>2, NewVariable
        <5> QED
          BY <2>1, <5>2, <5>3
      <4>3. Len(vs) \in Nat /\ k \in 1..(Len(items) + Len(vs))
        BY <2>1, <2>3, <3>1
      <4> QED
        BY <1>1, <4>1, <4>2, <4>3, IndexSplit
    <3> QED
      BY <1>2, <1>3, <2>1, <3>1
  <2> QED
    BY <2>1, <2>2, <2>3
<1> QED
  BY <1>4, <1>5, <1>6, <1>7, <1>8, <1>9, <1>10, Steps

\* static_class_members_ never yields a value that was read at an earlier hit.
THEOREM StaticsAreOfThisHitHolds == Spec => []StaticsAreOfThisHit
<1>1. Init => StaticsInv
  BY DEF Init, StaticsInv, StaticsAreOfThisHit
<1>2. StaticsInv => StaticsAreOfThisHit
  BY DEF StaticsInv
<1> QED
  BY <1>1, <1>2, StaticsStep, TypeCorrect, PTL DEF Spec

-----------------------------------------------------------------------------
(* What a report leaves out.                                               *)

\* A frame that has exceeded its size stays so.
LEMMA OutOfSizeStays ==
    ASSUME NEW v, NEW bytes \in Nat, NEW more \in Nat, bytes <= more,
           NEW sp \in Seq([budget : Int, size : Nat]), OutOfSize(v, bytes, sp)
    PROVE  /\ OutOfSize(v, more, sp)
           /\ \A r \in [budget : Int, size : Nat] : OutOfSize(v, more, Append(sp, r))
<1>1. kMaximumBreakpointSize \in Nat
  BY LimitsAssumption
<1>2. CASE v.frame = 0 /\ bytes > kMaximumBreakpointSize
  BY <1>1, <1>2 DEF OutOfSize
<1>3. CASE v.frame \in 1..Len(sp) /\ sp[v.frame].size > sp[v.frame].budget
  <2>1. ASSUME NEW r \in [budget : Int, size : Nat]
        PROVE  v.frame \in 1..Len(Append(sp, r)) /\ Append(sp, r)[v.frame] = sp[v.frame]
    BY <1>3
  <2> QED
    BY <1>3, <2>1 DEF OutOfSize
<1> QED
  BY <1>2, <1>3 DEF OutOfSize

\* Every action keeps QueueInv: the queue is left early only by BFSEnds, which
\* then records a frame that has exceeded its budget.
LEMMA QueueStep == TypeOK /\ QueueInv /\ [Next]_vars => QueueInv'
<1> SUFFICES ASSUME TypeOK, QueueInv, [Next]_vars PROVE QueueInv'
  OBVIOUS
<1>1. /\ items \in Seq(Items) /\ Len(items) \in Nat /\ queue \in SUBSET (1..Len(items))
      /\ current \in Nat /\ size \in Nat /\ frameSize \in Nat /\ budget \in Int
      /\ spent \in Seq([budget : Int, size : Nat]) /\ Len(spent) \in Nat
      /\ kMaximumBreakpointSize \in Nat
  BY LimitsAssumption DEF TypeOK, WalkType, ReportType
<1>2. /\ pc # "bfs" => queue = {}
      /\ \A i \in queue : items[i].frame = current
      /\ pc = "bfs" => IF current = 0 THEN spent = <<>> ELSE Len(spent) = current - 1
      /\ pc = "frames" => Len(spent) = current
      /\ pc = "write" => current = Len(frames) \/ size > kMaximumBreakpointSize
      /\ \A i \in 1..Len(items) :
            Unread(items[i]) => i \in queue \/ OutOfSize(items[i], size, spent)
  BY DEF QueueInv
<1>3. ASSUME pc' # "bfs" => queue' = {},
             \A i \in queue' : items'[i].frame = current',
             pc' = "bfs" => IF current' = 0 THEN spent' = <<>> ELSE Len(spent') = current' - 1,
             pc' = "frames" => Len(spent') = current',
             pc' = "write" => current' = Len(frames') \/ size' > kMaximumBreakpointSize,
             \A i \in 1..Len(items') :
                Unread(items'[i]) => i \in queue' \/ OutOfSize(items'[i], size', spent')
      PROVE  QueueInv'
  BY <1>3 DEF QueueInv, Unread, OutOfSize
<1>4. CASE Quiet
  <2>1. /\ UNCHANGED <<items, queue, current, size, spent>>
        /\ pc # "bfs" /\ pc' \notin {"bfs", "frames"}
        /\ pc' = "write" => pc = "frames" /\ current = Len(frames) /\ UNCHANGED frames
    BY <1>4, QuietEffect
  <2> QED
    BY <1>2, <1>3, <2>1
<1>5. CASE UNCHANGED vars
  <2>1. UNCHANGED <<items, queue, current, size, spent, pc, frames>>
    BY <1>5 DEF vars, reportVars, walkVars
  <2> QED
    BY <1>2, <1>3, <2>1
<1>6. CASE NextHit
  <2>1. items' = <<>> /\ queue' = {} /\ pc' = "condition"
    BY <1>6 DEF NextHit, NewTask
  <2> QED
    BY <1>3, <2>1
<1>7. CASE PopulateBreakpoint
  <2> DEFINE ex == batch[n].expressions
  <2>1. /\ current' = 0 /\ Len(items') = Len(ex) /\ pc' = "bfs" /\ spent' = <<>>
        /\ \A k \in 1..Len(ex) :
              /\ ex[k] \in Objects /\ items'[k] = Variable(ex[k], 1, "named")
              /\ ~EvaluateFails(ex[k]) => k \in queue'
        /\ queue' \in SUBSET (1..Len(ex))
    BY <1>7, BreakpointEffect
  <2> HIDE DEF ex
  <2>2. ASSUME NEW k \in 1..Len(items')
        PROVE  items'[k].frame = current' /\ (Unread(items'[k]) => k \in queue')
    <3>1. /\ ex[k] \in Objects /\ items'[k] = Variable(ex[k], 1, "named") /\ current' \in Nat
          /\ 1 \in Nat /\ "named" \in States
      BY <2>1, <2>2 DEF States
    <3>2. items'[k].frame = current' /\ items'[k].obj = ex[k]
      BY <3>1, NewVariable
    <3> QED
      BY <2>1, <2>2, <3>2 DEF Unread
  <2> QED
    BY <1>3, <2>1, <2>2
<1>8. CASE PopulateLeaf
  <2>1. PICK i \in queue, bytes \in 1..2 :
          /\ Len(items') = Len(items) /\ \A k \in 1..Len(items) : k # i => items'[k] = items[k]
          /\ items'[i].state # "named" /\ queue' = queue \ {i} /\ size' = size + bytes
    BY <1>8, LeafEffect
  <2>2. UNCHANGED <<current, spent, pc>> /\ pc = "bfs"
    BY <1>8 DEF PopulateLeaf
  <2>3. size' \in Nat /\ size <= size'
    BY <1>1, <2>1
  <2>4. \A k \in queue' : items'[k].frame = current'
    BY <1>1, <1>2, <2>1, <2>2
  <2>5. ASSUME NEW k \in 1..Len(items'), Unread(items'[k])
        PROVE  k \in queue' \/ OutOfSize(items'[k], size', spent')
    <3>1. k # i /\ items'[k] = items[k] /\ k \in 1..Len(items)
      BY <2>1, <2>5 DEF Unread
    <3>2. CASE k \in queue
      BY <2>1, <3>1, <3>2
    <3>3. CASE OutOfSize(items[k], size, spent)
      BY <1>1, <2>2, <2>3, <3>1, <3>3, OutOfSizeStays
    <3> QED
      BY <1>2, <2>5, <3>1, <3>2, <3>3
  <2> QED
    BY <1>2, <1>3, <2>2, <2>4, <2>5
<1>9. CASE PopulateMembers
  <2>1. PICK i \in queue, shown \in Seq(Objects) :
          /\ i \in 1..Len(items) /\ items[i] \in Items
          /\ Len(shown) \in Nat /\ Len(items') = Len(items) + Len(shown)
          /\ \A k \in 1..Len(items) : k # i => items'[k] = items[k]
          /\ items'[i].state = "members" /\ items'[i].frame = items[i].frame
          /\ \A k \in 1..Len(shown) :
                /\ shown[k] \in Objects
                /\ items'[Len(items) + k] =
                      Variable(shown[k], items[i].level + 1,
                               IF EvaluateFails(shown[k]) THEN "error" ELSE "named")
                /\ ~EvaluateFails(shown[k]) => Len(items) + k \in queue'
          /\ \A k \in queue' :
                \/ k \in queue
                \/ k \in (Len(items) + 1)..(Len(items) + Len(shown))
          /\ \A k \in queue : k # i => k \in queue'
          /\ \E bytes \in 1..(2 + Len(shown)) : size' = size + bytes
    BY <1>9, MembersEffect
  <2>2. UNCHANGED <<current, spent, pc>> /\ pc = "bfs"
    BY <1>9 DEF PopulateMembers
  <2>3. size' \in Nat /\ size <= size'
    BY <1>1, <2>1
  <2>4. ASSUME NEW j \in 1..Len(shown)
        PROVE  LET k == Len(items) + j
               IN  items'[k].frame = current' /\ (Unread(items'[k]) => k \in queue')
    <3> DEFINE st == IF EvaluateFails(shown[j]) THEN "error" ELSE "named"
               k == Len(items) + j
    <3>1. shown[j] \in Objects /\ items'[k] = Variable(shown[j], items[i].level + 1, st)
      BY <2>1, <2>4
    <3>2. st \in States /\ items[i].level + 1 \in Nat /\ current' \in Nat
      <4>1. st \in States
        BY DEF States
      <4>2. items[i].level \in Nat
        BY <2>1 DEF Items
      <4>3. current' \in Nat
        BY <1>1, <2>2
      <4> QED
        BY <4>1, <4>2, <4>3
    <3> HIDE DEF st
    <3>3. items'[k].frame = current' /\ items'[k].obj = shown[j]
      BY <3>1, <3>2, NewVariable
    <3>4. ~EvaluateFails(shown[j]) => k \in queue'
      BY <2>1, <2>4
    <3> HIDE DEF k
    <3>5. Unread(items'[k]) => k \in queue'
      BY <3>3, <3>4 DEF Unread
    <3> QED
      BY <3>3, <3>5 DEF k
  <2>5. ASSUME NEW k \in queue' PROVE items'[k].frame = current'
    <3>1. CASE k \in queue
      <4>1. k \in 1..Len(items) /\ items[k].frame = current
        BY <1>1, <1>2, <3>1
      <4> QED
        BY <2>1, <2>2, <4>1
    <3>2. CASE k \in (Len(items) + 1)..(Len(items) + Len(shown))
      <4>1. k - Len(items) \in 1..Len(shown) /\ Len(items) + (k - Len(items)) = k
        BY <1>1, <2>1, <3>2
      <4> QED
        BY <2>4, <4>1
    <3> QED
      BY <2>1, <2>5, <3>1, <3>2
  <2>6. ASSUME NEW k \in 1..Len(items'), Unread(items'[k])
        PROVE  k \in queue' \/ OutOfSize(items'[k], size', spent')
    <3>1. CASE k \in 1..Len(items)
      <4>1. k # i /\ items'[k] = items[k]
        BY <2>1, <2>6, <3>1 DEF Unread
      <4>2. CASE k \in queue
        BY <2>1, <4>1, <4>2
      <4>3. CASE OutOfSize(items[k], size, spent)
        BY <1>1, <2>2, <2>3, <4>1, <4>3, OutOfSizeStays
      <4> QED
        BY <1>2, <2>6, <3>1, <4>1, <4>2, <4>3
    <3>2. CASE \E j \in 1..Len(shown) : k = Len(items) + j
      BY <2>4, <2>6, <3>2
    <3>3. /\ Len(items) \in Nat /\ Len(shown) \in Nat
          /\ k \in 1..(Len(items) + Len(shown))
      BY <1>1, <2>1, <2>6
    <3>4. k \in 1..Len(items) \/ \E j \in 1..Len(shown) : k = Len(items) + j
      BY ONLY <3>3, IndexSplit
    <3> QED
      BY <3>1, <3>2, <3>4
  <2> QED
    BY <1>2, <1>3, <2>2, <2>5, <2>6
<1>10. CASE BFSEnds
  <2> DEFINE r == [budget |-> budget, size |-> frameSize]
  <2>1. /\ pc = "bfs" /\ (queue = {} \/ Exhausted) /\ queue' = {}
        /\ spent' = IF current = 0 THEN spent ELSE Append(spent, r)
        /\ pc' \in {"write", "frames"}
        /\ pc' = "write" => size > kMaximumBreakpointSize
        /\ UNCHANGED <<items, current, size, frames>>
    BY <1>10 DEF BFSEnds, walkVars
  <2>2. r \in [budget : Int, size : Nat] /\ r.budget = budget /\ r.size = frameSize
    BY <1>1
  <2> HIDE DEF r
  <2>3. Len(spent') = current'
    <3>1. CASE current = 0
      BY <1>2, <2>1, <3>1
    <3>2. CASE current # 0
      BY <1>1, <1>2, <2>1, <2>2, <3>2
    <3> QED
      BY <3>1, <3>2
  <2>4. ASSUME NEW k \in 1..Len(items'), Unread(items'[k])
        PROVE  OutOfSize(items'[k], size', spent')
    <3>1. CASE OutOfSize(items[k], size, spent)
      <4>1. size <= size
        BY <1>1
      <4>2. OutOfSize(items[k], size, spent) /\ OutOfSize(items[k], size, Append(spent, r))
        BY ONLY <1>1, <2>2, <3>1, <4>1, OutOfSizeStays
      <4> QED
        BY <2>1, <4>2
    <3>2. CASE k \in queue
      <4>1. Exhausted /\ items[k].frame = current /\ items'[k] = items[k]
        BY <1>2, <2>1, <3>2
      <4>2. CASE current = 0
        BY <2>1, <4>1, <4>2 DEF Exhausted, OutOfSize
      <4>3. CASE current # 0
        <5>1. frameSize > budget /\ Len(spent) = current - 1 /\ spent' = Append(spent, r)
          BY <1>2, <2>1, <4>1, <4>3 DEF Exhausted
        <5>2. current \in 1..Len(spent') /\ spent'[current] = r
          BY <1>1, <2>2, <4>3, <5>1
        <5> QED
          BY <2>2, <4>1, <5>1, <5>2 DEF OutOfSize
      <4> QED
        BY <4>2, <4>3
    <3> QED
      BY <1>2, <2>1, <2>4, <3>1, <3>2
  <2> QED
    BY <1>3, <2>1, <2>3, <2>4
<1>11. CASE PopulateStackFrame
  <2> DEFINE vs == frames[current'].vars
             r == [budget |-> budget, size |-> 1]
  <2>1. /\ current' \in Nat /\ current' = current + 1 /\ pc = "frames" /\ vs \in Seq(Objects)
        /\ \/ /\ size' = size + 1 /\ spent' = Append(spent, r)
              /\ UNCHANGED <<pc, items, queue>>
           \/ /\ pc' = "bfs" /\ UNCHANGED spent
              /\ frameSize' = 1 + Len(vs) /\ size' = size + frameSize'
              /\ Len(items') = Len(items) + Len(vs)
              /\ \A k \in 1..Len(items) : items'[k] = items[k]
              /\ \A k \in 1..Len(vs) :
                    /\ vs[k] \in Objects
                    /\ items'[Len(items) + k] = Variable(vs[k], 1, "named")
                    /\ ~EvaluateFails(vs[k]) => Len(items) + k \in queue'
              /\ queue' \in SUBSET ((Len(items) + 1)..(Len(items) + Len(vs)))
    BY <1>11, StackFrameEffect
  <2>2. r \in [budget : Int, size : Nat]
    BY <1>1
  <2> HIDE DEF vs, r
  <2>3. queue = {} /\ Len(spent) = current
    BY <1>2, <2>1
  <2>4. CASE /\ size' = size + 1 /\ spent' = Append(spent, r)
             /\ UNCHANGED <<pc, items, queue>>
    <3>1. Len(spent') = current'
      BY <1>1, <2>1, <2>2, <2>3, <2>4
    <3>2. size' \in Nat /\ size <= size'
      BY <1>1, <2>4
    <3>3. ASSUME NEW k \in 1..Len(items'), Unread(items'[k])
          PROVE  OutOfSize(items'[k], size', spent')
      <4>1. OutOfSize(items[k], size, spent) /\ items'[k] = items[k]
        BY <1>2, <2>3, <2>4, <3>3
      <4>2. OutOfSize(items[k], size', Append(spent, r))
        BY ONLY <1>1, <2>2, <3>2, <4>1, OutOfSizeStays
      <4> QED
        BY <2>4, <4>1, <4>2
    <3> QED
      BY <1>3, <2>1, <2>3, <2>4, <3>1, <3>3
  <2>5. CASE /\ pc' = "bfs" /\ UNCHANGED spent
             /\ frameSize' = 1 + Len(vs) /\ size' = size + frameSize'
             /\ Len(items') = Len(items) + Len(vs)
             /\ \A k \in 1..Len(items) : items'[k] = items[k]
             /\ \A k \in 1..Len(vs) :
                   /\ vs[k] \in Objects
                   /\ items'[Len(items) + k] = Variable(vs[k], 1, "named")
                   /\ ~EvaluateFails(vs[k]) => Len(items) + k \in queue'
             /\ queue' \in SUBSET ((Len(items) + 1)..(Len(items) + Len(vs)))
    <3>1. Len(vs) \in Nat
      BY <2>1
    <3>2. size' \in Nat /\ size <= size' /\ current' # 0 /\ Len(spent') = current' - 1
      BY <1>1, <2>1, <2>3, <2>5, <3>1
    <3>3. ASSUME NEW j \in 1..Len(vs)
          PROVE  LET k == Len(items) + j
                 IN  items'[k].frame = current' /\ (Unread(items'[k]) => k \in queue')
      <4>1. /\ vs[j] \in Objects /\ items'[Len(items) + j] = Variable(vs[j], 1, "named")
            /\ 1 \in Nat /\ "named" \in States
        BY <2>5, <3>3 DEF States
      <4>2. Variable(vs[j], 1, "named").frame = current' /\ Variable(vs[j], 1, "named").obj = vs[j]
        BY <2>1, <4>1, NewVariable
      <4> QED
        BY <2>5, <3>3, <4>1, <4>2 DEF Unread
    <3>4. ASSUME NEW k \in queue' PROVE items'[k].frame = current'
      <4>1. k - Len(items) \in 1..Len(vs) /\ Len(items) + (k - Len(items)) = k
        BY <1>1, <2>5, <3>1, <3>4
      <4> QED
        BY <3>3, <4>1
    <3>5. ASSUME NEW k \in 1..Len(items'), Unread(items'[k])
          PROVE  k \in queue' \/ OutOfSize(items'[k], size', spent')
      <4>1. CASE k \in 1..Len(items)
        <5>1. OutOfSize(items[k], size, spent) /\ items'[k] = items[k]
          BY <1>2, <2>3, <2>5, <3>5, <4>1
        <5> QED
          BY <1>1, <2>5, <3>2, <5>1, OutOfSizeStays
      <4>2. CASE \E j \in 1..Len(vs) : k = Len(items) + j
        BY <3>3, <3>5, <4>2
      <4>3. Len(items) \in Nat /\ Len(vs) \in Nat /\ k \in 1..(Len(items) + Len(vs))
        BY <1>1, <2>5, <3>1, <3>5
      <4>4. k \in 1..Len(items) \/ \E j \in 1..Len(vs) : k = Len(items) + j
        BY ONLY <4>3, IndexSplit
      <4> QED
        BY <4>1, <4>2, <4>4
    <3> QED
      BY <1>3, <2>5, <3>2, <3>4, <3>5
  <2> QED
    BY <2>1, <2>4, <2>5
<1> QED
  BY <1>4, <1>5, <1>6, <1>7, <1>8, <1>9, <1>10, <1>11, Steps

\* Nothing is reported at first.
LEMMA QueueInit == Init => QueueInv
<1> SUFFICES ASSUME Init PROVE QueueInv
  OBVIOUS
<1>1. items = <<>> /\ queue = {} /\ pc = "condition"
  BY DEF Init
<1> QED
  BY <1>1 DEF QueueInv

\* PerformBFS leaves nothing out but for size: for every batch, stack and object
\* graph, a value that is missing in a written report is missing because of
\* frame_max_size or kMaximumBreakpointSize.
THEOREM MissingOnlyForSizeHolds == Spec => []MissingOnlyForSize
<1>1. TypeOK /\ QueueInv => MissingOnlyForSize
  <2> SUFFICES ASSUME TypeOK, QueueInv, pc = "write"
               PROVE  /\ \A i \in 1..Len(items) :
                            Unread(items[i]) =>
                              IF items[i].frame = 0 THEN size > kMaximumBreakpointSize
                              ELSE spent[items[i].frame].size > spent[items[i].frame].budget
                      /\ current < Len(frames) => size > kMaximumBreakpointSize
    BY DEF MissingOnlyForSize, Unread
  <2>1. /\ queue = {} /\ (current = Len(frames) \/ size > kMaximumBreakpointSize)
        /\ \A i \in 1..Len(items) :
              Unread(items[i]) => i \in queue \/ OutOfSize(items[i], size, spent)
    BY DEF QueueInv
  <2>2. Len(frames) \in Nat /\ Len(spent) \in Nat
    BY DEF TypeOK, WalkType, ReportType
  <2> QED
    BY <2>1, <2>2 DEF OutOfSize
<1> QED
  BY <1>1, QueueInit, QueueStep, TypeCorrect, PTL DEF Spec

-----------------------------------------------------------------------------
(* The limit of collections.                                               *)

\* What the items and the limits have to satisfy for one closed set.
LimitsIn(S) ==
    /\ \A o \in Objects : limit[o] > kMaximumCollectionSize => o \in S
    /\ \A i \in 1..Len(items) :
          /\ items[i].frame = 0 /\ Composite(items[i].obj) => items[i].obj \in S
          /\ items[i].frame # 0 /\ Kind[items[i].obj] # "class"
             /\ items[i].shown > kMaximumCollectionSize => items[i].obj \in S

\* A breakpoint that comes later in the batch only adds expressions.
LEMMA ClosedBefore ==
    ASSUME TypeOK, UNCHANGED batch, n' \in {n, n + 1},
           NEW S \in SUBSET Objects, ClosedUnderExpressions(S)'
    PROVE  ClosedUnderExpressions(S)
<1>1. n \in Nat /\ 1..n \subseteq 1..n'
  <2>1. Len(batch) \in Nat
    BY LengthOfBatch DEF TypeOK, TaskType
  <2>2. n \in Nat
    BY <2>1 DEF TypeOK, TaskType
  <2> QED
    BY <2>2
<1> QED
  BY <1>1 DEF ClosedUnderExpressions

\* The members shown of an object are in a closed set, if they have members.
LEMMA MembersClosed ==
    ASSUME TypeOK, NEW S \in SUBSET Objects, ClosedUnderExpressions(S),
           NEW o \in S, Composite(o), NEW k \in 1..Len(Expansion(o)),
           Composite(Expansion(o)[k])
    PROVE  Expansion(o)[k] \in S
<1>1. limit \in [Objects -> Nat] /\ o \in Objects
  BY DEF TypeOK, CacheType
<1>2. PICK j \in 1..Len(Members[o]) : Expansion(o)[k] = Members[o][j]
  BY <1>1, ExpansionType
<1>3. Kind[o] = "class"
  BY <1>1, <1>2, ElementsAssumption DEF Composite
<1> QED
  BY <1>2, <1>3 DEF ClosedUnderExpressions

\* Every action keeps LimitInv: a limit is raised while the expressions are
\* reported, and what is reported then is reached from them.
LEMMA LimitStep == TypeOK /\ QueueInv /\ LimitInv /\ [Next]_vars => LimitInv'
<1> SUFFICES ASSUME TypeOK, QueueInv, LimitInv, [Next]_vars,
                    NEW S \in SUBSET Objects, ClosedUnderExpressions(S)'
             PROVE  LimitsIn(S)'
  BY DEF LimitInv, LimitsIn
<1>1. /\ items \in Seq(Items) /\ Len(items) \in Nat /\ queue \in SUBSET (1..Len(items))
      /\ current \in Nat /\ limit \in [Objects -> Nat] /\ kMaximumCollectionSize \in Nat
      /\ \A i \in queue : items[i].frame = current
  BY LimitsAssumption DEF TypeOK, CacheType, WalkType, ReportType, QueueInv
<1>2. ClosedUnderExpressions(S) => LimitsIn(S)
  BY DEF LimitInv, LimitsIn
<1>3. CASE Quiet \/ BFSEnds \/ UNCHANGED vars
  <2>1. UNCHANGED <<limit, items, batch>> /\ n' \in {n, n + 1}
    <3>1. CASE Quiet
      BY <3>1, QuietEffect
    <3>2. CASE BFSEnds
      BY <3>2 DEF BFSEnds, cacheVars, hitVars
    <3>3. CASE UNCHANGED vars
      BY <3>3 DEF vars, reportVars, cacheVars, hitVars
    <3> QED
      BY <1>3, <3>1, <3>2, <3>3
  <2>2. LimitsIn(S)
    BY <1>2, <2>1, ClosedBefore
  <2> QED
    BY <2>1, <2>2 DEF LimitsIn
<1>4. CASE NextHit
  <2>1. items' = <<>> /\ limit' = [o \in Objects |-> 0]
    BY <1>4 DEF NextHit, NewTask
  <2>2. ~(0 > kMaximumCollectionSize)
    BY <1>1
  <2> QED
    BY <2>1, <2>2 DEF LimitsIn
<1>5. CASE PopulateBreakpoint
  <2> DEFINE ex == batch[n].expressions
  <2>1. /\ current' = 0 /\ Len(items') = Len(ex) /\ UNCHANGED <<batch, n, limit>>
        /\ n \in 1..Len(batch)
        /\ \A k \in 1..Len(ex) :
              ex[k] \in Objects /\ items'[k] = Variable(ex[k], 1, "named")
    BY <1>5, BreakpointEffect
  <2>2. ClosedUnderExpressions(S)
    BY <2>1, ClosedBefore
  <2>3. n \in 1..n /\ n <= Len(batch)
    <3>1. Len(batch) \in Nat
      BY LengthOfBatch DEF TypeOK, TaskType
    <3> QED
      BY <2>1, <3>1
  <2>4. \A k \in 1..Len(ex) : ex[k] \in S
    BY <2>2, <2>3 DEF ClosedUnderExpressions
  <2> HIDE DEF ex
  <2>5. ASSUME NEW k \in 1..Len(items')
        PROVE  items'[k].frame = 0 /\ items'[k].obj \in S
    <3>1. /\ ex[k] \in Objects /\ items'[k] = Variable(ex[k], 1, "named") /\ current' \in Nat
          /\ 1 \in Nat /\ "named" \in States
      BY <2>1, <2>5 DEF States
    <3>2. items'[k].frame = current' /\ items'[k].obj = ex[k]
      BY <3>1, NewVariable
    <3> QED
      BY <2>1, <2>4, <2>5, <3>2
  <2> QED
    BY <1>2, <2>1, <2>2, <2>5 DEF LimitsIn
<1>6. CASE PopulateLeaf
  <2>1. PICK i \in queue :
          /\ Len(items') = Len(items) /\ \A k \in 1..Len(items) : k # i => items'[k] = items[k]
          /\ items'[i].obj = items[i].obj /\ items'[i].frame = items[i].frame
          /\ items'[i].shown = items[i].shown
    BY <1>6, LeafEffect
  <2>2. UNCHANGED <<n, batch, limit>>
    BY <1>6 DEF PopulateLeaf, hitVars, cacheVars
  <2>3. LimitsIn(S)
    BY <1>2, <2>2, ClosedBefore
  <2>4. \A k \in 1..Len(items') :
          /\ items'[k].obj = items[k].obj /\ items'[k].frame = items[k].frame
          /\ items'[k].shown = items[k].shown
    BY <2>1
  <2> QED
    BY <2>1, <2>2, <2>3, <2>4 DEF LimitsIn, Composite
<1>7. CASE PopulateMembers
  <2>1. PICK i \in queue, shown \in Seq(Objects) :
          /\ i \in 1..Len(items) /\ items[i] \in Items
          /\ Expandable(items[i]) /\ shown = Expansion(items[i].obj)
          /\ Len(shown) \in Nat /\ Len(items') = Len(items) + Len(shown)
          /\ \A k \in 1..Len(items) : k # i => items'[k] = items[k]
          /\ items'[i].obj = items[i].obj /\ items'[i].frame = items[i].frame
          /\ items'[i].shown = Len(shown)
          /\ \A k \in 1..Len(shown) :
                /\ shown[k] \in Objects
                /\ items'[Len(items) + k] =
                      Variable(shown[k], items[i].level + 1,
                               IF EvaluateFails(shown[k]) THEN "error" ELSE "named")
          /\ limit' = IF Kind[items[i].obj] \in {"array", "list"}
                      THEN [limit EXCEPT ![items[i].obj] = CollectionLimit(items[i].obj)]
                      ELSE limit
    BY <1>7, MembersEffect
  <2>2. UNCHANGED <<current, batch, n>>
    BY <1>7 DEF PopulateMembers, hitVars
  <2>3. ClosedUnderExpressions(S)
    BY <2>2, ClosedBefore
  <2> DEFINE o == items[i].obj
  <2>4. o \in Objects /\ Composite(o) /\ items[i].frame = current /\ items[i].level \in Nat
    BY <1>1, <2>1 DEF Expandable, Items
  <2>5. LimitsIn(S)
    BY <1>2, <2>3
  <2>6. current = 0 => o \in S
    BY <2>1, <2>4, <2>5 DEF LimitsIn
  <2>7. ASSUME NEW x \in Objects, limit'[x] > kMaximumCollectionSize PROVE x \in S
    <3>1. CASE x = o /\ current = 0
      BY <2>6, <3>1
    <3>2. CASE x = o /\ current # 0
      <4>1. limit'[o] \in {limit[o], CollectionLimit(o)}
        BY <1>1, <2>1, <2>4
      <4>2. CASE limit'[o] = CollectionLimit(o)
        <5>1. CollectionLimit(o) > kMaximumCollectionSize
          BY <2>7, <3>2, <4>2
        <5>2. limit[o] > kMaximumCollectionSize
          BY <1>1, <2>4, <3>2, <5>1, CollectionLimitType
        <5> QED
          BY <2>4, <2>5, <3>2, <5>2 DEF LimitsIn
      <4>3. CASE limit'[o] = limit[o]
        BY <2>4, <2>5, <2>7, <3>2, <4>3 DEF LimitsIn
      <4> QED
        BY <4>1, <4>2, <4>3
    <3>3. CASE x # o
      <4>1. limit'[x] = limit[x]
        BY <1>1, <2>1, <2>4, <3>3
      <4> QED
        BY <2>5, <2>7, <4>1 DEF LimitsIn
    <3> QED
      BY <3>1, <3>2, <3>3
  <2> DEFINE Within(v) == /\ v.frame = 0 /\ Composite(v.obj) => v.obj \in S
                          /\ v.frame # 0 /\ Kind[v.obj] # "class"
                             /\ v.shown > kMaximumCollectionSize => v.obj \in S
  <2>8. ASSUME NEW k \in 1..Len(items) PROVE Within(items'[k])
    <3>1. CASE k # i
      BY <2>1, <2>5, <2>8, <3>1 DEF LimitsIn
    <3>2. CASE k = i
      <4>1. items'[k].obj = o /\ items'[k].frame = current /\ items'[k].shown = Len(Expansion(o))
        BY <2>1, <2>4, <3>2
      <4>2. ASSUME current # 0, Kind[o] # "class", Len(Expansion(o)) > kMaximumCollectionSize
            PROVE  o \in S
        <5>1. limit[o] > kMaximumCollectionSize
          BY <1>1, <2>4, <4>2, ExpansionType
        <5> QED
          BY <2>4, <2>5, <5>1 DEF LimitsIn
      <4> HIDE DEF o
      <4> QED
        BY <2>6, <4>1, <4>2
    <3> QED
      BY <3>1, <3>2
  <2>9. ASSUME NEW j \in 1..Len(shown) PROVE Within(items'[Len(items) + j])
    <3> DEFINE st == IF EvaluateFails(shown[j]) THEN "error" ELSE "named"
               k == Len(items) + j
    <3>1. shown[j] \in Objects /\ items'[k] = Variable(shown[j], items[i].level + 1, st)
      BY <2>1, <2>9
    <3>2. st \in States
      BY DEF States
    <3>3. items[i].level + 1 \in Nat /\ current' \in Nat
      BY <1>1, <2>2, <2>4
    <3> HIDE DEF st, k
    <3>4. /\ items'[k].frame = current' /\ items'[k].obj = shown[j] /\ items'[k].shown = 0
      BY <3>1, <3>2, <3>3, NewVariable
    <3>5. ASSUME current = 0, Composite(shown[j]) PROVE shown[j] \in S
      BY <2>1, <2>3, <2>4, <2>6, <2>9, <3>5, MembersClosed
    <3>6. ~(0 > kMaximumCollectionSize)
      BY <1>1
    <3>7. Within(items'[k])
      BY <2>2, <3>4, <3>5, <3>6
    <3> QED
      BY <3>7 DEF k
  <2> HIDE DEF Within
  <2>10. ASSUME NEW k \in 1..Len(items') PROVE Within(items'[k])
    <3>1. /\ Len(items) \in Nat /\ Len(shown) \in Nat
          /\ k \in 1..(Len(items) + Len(shown))
      BY <1>1, <2>1, <2>10
    <3>2. k \in 1..Len(items) \/ \E j \in 1..Len(shown) : k = Len(items) + j
      BY ONLY <3>1, IndexSplit
    <3> QED
      BY <2>8, <2>9, <3>2
  <2> QED
    BY <2>7, <2>10 DEF LimitsIn, Within, Composite
<1>8. CASE PopulateStackFrame
  <2> DEFINE vs == frames[current'].vars
  <2>1. /\ current' \in Nat /\ current' = current + 1 /\ vs \in Seq(Objects)
        /\ UNCHANGED <<batch, n, limit>>
        /\ \/ UNCHANGED items
           \/ /\ Len(items') = Len(items) + Len(vs)
              /\ \A k \in 1..Len(items) : items'[k] = items[k]
              /\ \A k \in 1..Len(vs) :
                    /\ vs[k] \in Objects
                    /\ items'[Len(items) + k] = Variable(vs[k], 1, "named")
    BY <1>8, StackFrameEffect
  <2> HIDE DEF vs
  <2>2. LimitsIn(S)
    BY <1>2, <2>1, ClosedBefore
  <2>3. CASE UNCHANGED items
    BY <2>1, <2>2, <2>3 DEF LimitsIn
  <2>4. CASE /\ Len(items') = Len(items) + Len(vs)
             /\ \A k \in 1..Len(items) : items'[k] = items[k]
             /\ \A k \in 1..Len(vs) :
                   /\ vs[k] \in Objects
                   /\ items'[Len(items) + k] = Variable(vs[k], 1, "named")
    <3>1. ASSUME NEW j \in 1..Len(vs)
          PROVE  items'[Len(items) + j].frame # 0 /\ items'[Len(items) + j].shown = 0
      <4>1. /\ vs[j] \in Objects /\ items'[Len(items) + j] = Variable(vs[j], 1, "named")
            /\ 1 \in Nat /\ "named" \in States
        BY <2>4, <3>1 DEF States
      <4>2. Variable(vs[j], 1, "named").frame = current' /\ Variable(vs[j], 1, "named").shown = 0
        BY <2>1, <4>1, NewVariable
      <4>3. current' # 0
        BY <1>1, <2>1
      <4> QED
        BY <4>1, <4>2, <4>3
    <3>2. ASSUME NEW k \in 1..Len(items')
          PROVE  \/ k \in 1..Len(items) /\ items'[k] = items[k]
                 \/ items'[k].frame # 0 /\ items'[k].shown = 0
      <4>1. Len(items) \in Nat /\ Len(vs) \in Nat /\ k \in 1..(Len(items) + Len(vs))
        BY <1>1, <2>1, <2>4, <3>2
      <4>2. k \in 1..Len(items) \/ \E j \in 1..Len(vs) : k = Len(items) + j
        BY ONLY <4>1, IndexSplit
      <4> QED
        BY <2>4, <3>1, <4>2
    <3>3. ~(0 > kMaximumCollectionSize)
      BY <1>1
    <3> QED
      BY <2>1, <2>2, <3>2, <3>3 DEF LimitsIn, Composite
  <2> QED
    BY <2>1, <2>3, <2>4
<1> QED
  BY <1>3, <1>4, <1>5, <1>6, <1>7, <1>8, Steps

\* GetMaximumCollectionSize bounds what DbgArray shows outside expressions: the
\* larger limit that an array remembers was given to it by an expression, directly
\* or through a class that has it as a member.
THEOREM CollectionsWithinLimitHolds == Spec => []CollectionsWithinLimit
<1>1. Init => LimitInv
  <2> SUFFICES ASSUME Init PROVE LimitInv
    OBVIOUS
  <2>1. items = <<>> /\ limit = [o \in Objects |-> 0]
    BY DEF Init
  <2>2. ~(0 > kMaximumCollectionSize)
    BY LimitsAssumption
  <2> QED
    BY <2>1, <2>2 DEF LimitInv
<1>2. LimitInv => CollectionsWithinLimit
  BY DEF LimitInv, CollectionsWithinLimit, NamedByExpression
<1> QED
  BY <1>1, <1>2, QueueInit, QueueStep, LimitStep, TypeCorrect, PTL DEF Spec

-----------------------------------------------------------------------------
(* The stack walk.                                                         *)

\* The stack of the thread does not change during a hit, nor what is read of it.
LEMMA SameFrames ==
    ASSUME UNCHANGED stack
    PROVE  \A p, il : /\ PopulateDbgStackFrame(p, il)' = PopulateDbgStackFrame(p, il)
                      /\ FailsAt(p, il)' <=> FailsAt(p, il)
BY DEF PopulateDbgStackFrame, FailsAt, Unreadable, AsyncInfoFails, HasSequencePoint,
       InitializeSucceeds, Variables, InAsyncMethod, Frame

\* What a walk is depends on the stack and on the frames alone.
LEMMA SameWalk ==
    ASSUME UNCHANGED stack
    PROVE  \A fs, d, k : /\ IsWalk(fs, d, k)' <=> IsWalk(fs, d, k)
                         /\ Complete(fs, d, k)' <=> Complete(fs, d, k)
                         /\ WalkPosition(fs, d, k)' = WalkPosition(fs, d, k)
                         /\ IlCount(fs, d, k)' = IlCount(fs, d, k)
<1>1. \A fs, d, k : /\ WalkPosition(fs, d, k)' = WalkPosition(fs, d, k)
                    /\ IlCount(fs, d, k)' = IlCount(fs, d, k)
  BY DEF WalkPosition, IlCount, Advance
<1>2. \A fs, d, k : WithVariables(fs, d, k)' <=> WithVariables(fs, d, k)
  BY <1>1 DEF WithVariables
<1>3. \A fs, d, k : Complete(fs, d, k)' <=> Complete(fs, d, k)
  BY <1>1 DEF Complete
<1>4. \A fs, d, k : IsWalk(fs, d, k)' <=> IsWalk(fs, d, k)
  BY <1>1, <1>2, SameFrames DEF IsWalk
<1> QED
  BY <1>1, <1>3, <1>4

\* So does whether it can go on.
LEMMA SameBlocked ==
    ASSUME UNCHANGED stack
    PROVE  \A fs : Blocked(fs)' <=> Blocked(fs)
<1>1. \A fs, d, k : WithVariables(fs, d, k)' <=> WithVariables(fs, d, k)
  BY SameWalk DEF WithVariables
<1> QED
  BY <1>1, SameFrames, SameWalk DEF Blocked

\* A walk begins at the top of the stack and asks for variables.
LEMMA IlCountNone ==
    ASSUME NEW fs, NEW d
    PROVE  IlCount(fs, d, 0) = 0 /\ WithVariables(fs, d, 0) /\ WalkPosition(fs, d, 0) = 1
<1>1. {j \in 1..0 : fs[d + j].processed} = {}
  OBVIOUS
<1>2. Cardinality({}) = 0
  BY FS_EmptySet
<1>3. IlCount(fs, d, 0) = 0
  BY <1>1, <1>2 DEF IlCount
<1> QED
  BY <1>3, LimitsAssumption DEF WithVariables, WalkPosition

\* il_frame_parsed_so_far counts the processed frames.
LEMMA IlCountNext ==
    ASSUME NEW fs, NEW d, NEW k \in Nat
    PROVE  IlCount(fs, d, k + 1) = IlCount(fs, d, k) + IlFrames(fs[d + (k + 1)])
<1> DEFINE P(j) == fs[d + j].processed
           S == {j \in 1..k : P(j)}
           T == {j \in 1..(k + 1) : P(j)}
<1>1. IsFiniteSet(1..k)
  <2>1. 1 \in Int /\ k \in Int
    OBVIOUS
  <2> QED
    BY <2>1, FS_Interval
<1>2. IsFiniteSet(S) /\ Cardinality(S) \in Nat
  <2>1. S \subseteq 1..k
    OBVIOUS
  <2> HIDE DEF S
  <2>2. IsFiniteSet(S)
    BY <1>1, <2>1, FS_Subset
  <2> QED
    BY <2>2, FS_CardinalityType
<1>3. k + 1 \notin S /\ 1..(k + 1) = (1..k) \cup {k + 1}
  OBVIOUS
<1>4. CASE P(k + 1)
  <2>1. T = S \cup {k + 1}
    BY <1>3, <1>4
  <2> HIDE DEF S, T, P
  <2>2. Cardinality(S \cup {k + 1}) = Cardinality(S) + 1
    BY <1>2, <1>3, FS_AddElement
  <2>3. Cardinality(T) = Cardinality(S) + 1
    BY <2>1, <2>2
  <2> QED
    BY <1>4, <2>3 DEF IlCount, IlFrames, S, T, P
<1>5. CASE ~P(k + 1)
  <2>1. T = S
    BY <1>3, <1>5
  <2> HIDE DEF S, T, P
  <2>2. Cardinality(T) = Cardinality(S) + 0
    BY <1>2, <2>1
  <2> QED
    BY <1>5, <2>2 DEF IlCount, IlFrames, S, T, P
<1> QED
  BY <1>4, <1>5

\* Two walks have collected the same frames.
Agree(fs, d, gs, e, k) == \A j \in 1..k : fs[d + j] = gs[e + j]

\* They are at the same place then.
LEMMA SamePlace ==
    ASSUME NEW fs, NEW gs, NEW d \in Nat, NEW e \in Nat, NEW k \in Nat, Agree(fs, d, gs, e, k)
    PROVE  /\ WalkPosition(fs, d, k) = WalkPosition(gs, e, k)
           /\ IlCount(fs, d, k) = IlCount(gs, e, k)
           /\ WithVariables(fs, d, k) <=> WithVariables(gs, e, k)
<1>1. WalkPosition(fs, d, k) = WalkPosition(gs, e, k)
  <2>1. CASE k = 0
    BY <2>1 DEF WalkPosition
  <2>2. CASE k # 0
    <3>1. k \in 1..k
      BY <2>2
    <3>2. fs[d + k] = gs[e + k]
      BY <3>1 DEF Agree
    <3> QED
      BY <2>2, <3>2 DEF WalkPosition
  <2> QED
    BY <2>1, <2>2
<1>2. {j \in 1..k : fs[d + j].processed} = {j \in 1..k : gs[e + j].processed}
  BY Zenon DEF Agree
<1>3. IlCount(fs, d, k) = IlCount(gs, e, k)
  BY <1>2 DEF IlCount
<1> QED
  BY <1>1, <1>3 DEF WithVariables

\* Two walks of the same stack collect the same frames.
LEMMA WalksAgree ==
    ASSUME NEW fs, NEW gs, NEW d \in Nat, NEW e \in Nat, NEW k \in Nat, NEW m \in Nat,
           IsWalk(fs, d, k), IsWalk(gs, e, m)
    PROVE  \A h \in Nat : h <= k /\ h <= m => Agree(fs, d, gs, e, h)
<1> DEFINE Bad == {i \in 1..k : i <= m /\ fs[d + i] # gs[e + i]}
<1> SUFFICES ASSUME Bad # {} PROVE FALSE
  <2> SUFFICES ASSUME Bad = {}, NEW h \in Nat, h <= k, h <= m, NEW j \in 1..h
               PROVE  fs[d + j] = gs[e + j]
    BY DEF Agree
  <2>1. j \in 1..k /\ j <= m
    OBVIOUS
  <2> QED
    BY <2>1
<1>1. PICK i \in Bad : \A j \in Bad : i <= j
  <2>1. Bad \subseteq Nat
    OBVIOUS
  <2> HIDE DEF Bad
  <2> QED
    BY <2>1, LeastOf
<1>2. i \in 1..k /\ i \in 1..m /\ fs[d + i] # gs[e + i] /\ i - 1 \in Nat
  BY <1>1
<1>3. \A j \in 1..(i - 1) : fs[d + j] = gs[e + j]
  <2> SUFFICES ASSUME NEW j \in 1..(i - 1) PROVE fs[d + j] = gs[e + j]
    OBVIOUS
  <2>1. j \in 1..k /\ j <= m /\ ~(i <= j)
    BY <1>2
  <2> QED
    BY <1>1, <2>1
<1>4. /\ WalkPosition(fs, d, i - 1) = WalkPosition(gs, e, i - 1)
      /\ WithVariables(fs, d, i - 1) <=> WithVariables(gs, e, i - 1)
  <2>1. PICK h \in Nat : h = i - 1
    BY <1>2
  <2>2. Agree(fs, d, gs, e, h)
    BY <1>3, <2>1 DEF Agree
  <2>4. /\ WalkPosition(fs, d, h) = WalkPosition(gs, e, h)
        /\ WithVariables(fs, d, h) <=> WithVariables(gs, e, h)
    BY <2>2, SamePlace
  <2> QED
    BY <2>1, <2>4
<1>5. /\ fs[d + i] = PopulateDbgStackFrame(WalkPosition(fs, d, i - 1), WithVariables(fs, d, i - 1))
      /\ gs[e + i] = PopulateDbgStackFrame(WalkPosition(gs, e, i - 1), WithVariables(gs, e, i - 1))
  BY <1>2 DEF IsWalk
<1>6. \A p, a, b : (a <=> b) => PopulateDbgStackFrame(p, a) = PopulateDbgStackFrame(p, b)
  BY DEF PopulateDbgStackFrame
<1> QED
  BY <1>2, <1>4, <1>5, <1>6

\* Where one walk cannot go on, none can.
LEMMA NoWayAround ==
    ASSUME TypeOK, NEW fs \in Seq(DbgStackFrames), Blocked(fs),
           NEW gs \in Seq(DbgStackFrames), NEW e \in Nat, NEW m \in 0..Len(gs),
           IsWalk(gs, e, m)
    PROVE  ~Complete(gs, e, m)
<1> SUFFICES ASSUME Complete(gs, e, m) PROVE FALSE
  OBVIOUS
<1>1. PICK k \in 1..Len(fs) :
        /\ IsWalk(fs, 0, k) /\ ~Complete(fs, 0, k)
        /\ FailsAt(WalkPosition(fs, 0, k), WithVariables(fs, 0, k))
  BY DEF Blocked
<1>2. /\ k \in Nat /\ m \in Nat /\ 0 \in Nat /\ kMaximumStackFrames \in Nat
      /\ k <= kMaximumStackFrames /\ m <= kMaximumStackFrames
  BY <1>1, LimitsAssumption DEF IsWalk
<1>3. CASE m <= k
  <2>1. Agree(gs, e, fs, 0, m)
    <3>1. \A h \in Nat : h <= m /\ h <= k => Agree(gs, e, fs, 0, h)
      BY <1>1, <1>2, WalksAgree
    <3> QED
      BY <1>2, <1>3, <3>1
  <2>2. WalkPosition(gs, e, m) = WalkPosition(fs, 0, m)
    BY <1>2, <2>1, SamePlace
  <2>3. CASE m = kMaximumStackFrames
    BY <1>1, <1>2, <1>3, <2>3 DEF Complete
  <2>4. CASE WalkPosition(gs, e, m) > Len(stack.frames)
    <3>1. CASE m = k
      BY <1>1, <2>2, <2>4, <3>1 DEF Complete
    <3>2. CASE m < k
      <4>1. m + 1 \in 1..k /\ (m + 1) - 1 = m
        BY <1>2, <3>2
      <4>2. WalkPosition(fs, 0, m) <= Len(stack.frames)
        BY <1>1, <4>1 DEF IsWalk
      <4>3. WalkPosition(fs, 0, m) \in Int /\ Len(stack.frames) \in Int
        <5>1. Len(stack.frames) \in Nat
          BY StackType DEF TypeOK, TaskType
        <5>2. CASE m = 0
          BY <5>1, <5>2 DEF WalkPosition
        <5>3. CASE m # 0
          <6>1. 0 + m \in 1..Len(fs)
            BY <1>2, <3>2, <5>3
          <6>2. fs[0 + m] \in DbgStackFrames
            BY <6>1
          <6>3. fs[0 + m].at \in Nat
            BY <6>2 DEF DbgStackFrames
          <6>4. Advance(fs[0 + m]) \in Nat
            BY DEF Advance
          <6>5. WalkPosition(fs, 0, m) = fs[0 + m].at + Advance(fs[0 + m])
            BY <5>3 DEF WalkPosition
          <6> QED
            BY <5>1, <6>3, <6>4, <6>5
        <5> QED
          BY <5>2, <5>3
      <4> QED
        BY <2>2, <2>4, <4>2, <4>3
    <3> QED
      BY <1>2, <1>3, <3>1, <3>2
  <2> QED
    BY <2>3, <2>4 DEF Complete
<1>4. CASE m > k
  <2>1. Agree(gs, e, fs, 0, k)
    <3>1. \A h \in Nat : h <= m /\ h <= k => Agree(gs, e, fs, 0, h)
      BY <1>1, <1>2, WalksAgree
    <3> QED
      BY <1>2, <1>4, <3>1
  <2>2. /\ WalkPosition(gs, e, k) = WalkPosition(fs, 0, k)
        /\ WithVariables(gs, e, k) <=> WithVariables(fs, 0, k)
    BY <1>2, <2>1, SamePlace
  <2>3. k + 1 \in 1..m /\ (k + 1) - 1 = k
    BY <1>2, <1>4
  <2>4. ~FailsAt(WalkPosition(gs, e, k), WithVariables(gs, e, k))
    BY <2>3 DEF IsWalk
  <2>5. \A p, a, b : (a <=> b) => (FailsAt(p, a) <=> FailsAt(p, b))
    BY DEF FailsAt, PopulateDbgStackFrame, Unreadable
  <2> QED
    BY <1>1, <2>2, <2>4, <2>5
<1> QED
  BY <1>2, <1>3, <1>4

\* The flag process_il_frame counts by its value only.
LEMMA SameRead ==
    \A p, a, b : (a <=> b) => /\ PopulateDbgStackFrame(p, a) = PopulateDbgStackFrame(p, b)
                              /\ FailsAt(p, a) <=> FailsAt(p, b)
BY DEF FailsAt, PopulateDbgStackFrame, Unreadable

\* Walks that agree have agreed before.
LEMMA AgreeBelow ==
    ASSUME NEW fs, NEW gs, NEW d \in Nat, NEW e \in Nat, NEW k \in Nat, Agree(fs, d, gs, e, k),
           NEW h \in Nat, h <= k
    PROVE  Agree(fs, d, gs, e, h)
<1>1. \A j \in 1..h : j \in 1..k
  OBVIOUS
<1> QED
  BY <1>1 DEF Agree

\* The same frames at another place are a walk too.
LEMMA WalkCopied ==
    ASSUME NEW fs, NEW gs, NEW d \in Nat, NEW e \in Nat, NEW k \in Nat, Agree(fs, d, gs, e, k),
           IsWalk(fs, d, k)
    PROVE  IsWalk(gs, e, k)
<1> SUFFICES ASSUME NEW i \in 1..k
             PROVE  LET p == WalkPosition(gs, e, i - 1)
                        il == WithVariables(gs, e, i - 1)
                    IN  /\ p <= Len(stack.frames) /\ ~FailsAt(p, il)
                        /\ gs[e + i] = PopulateDbgStackFrame(p, il)
  BY DEF IsWalk
<1>1. PICK h \in Nat : h = i - 1 /\ h <= k
  OBVIOUS
<1>2. /\ WalkPosition(fs, d, h) = WalkPosition(gs, e, h)
      /\ WithVariables(fs, d, h) <=> WithVariables(gs, e, h)
  <2>1. Agree(fs, d, gs, e, h)
    BY <1>1, AgreeBelow
  <2> QED
    BY <2>1, SamePlace
<1>3. /\ WalkPosition(fs, d, h) <= Len(stack.frames)
      /\ ~FailsAt(WalkPosition(fs, d, h), WithVariables(fs, d, h))
      /\ fs[d + i] = PopulateDbgStackFrame(WalkPosition(fs, d, h), WithVariables(fs, d, h))
  BY <1>1 DEF IsWalk
<1>4. gs[e + i] = fs[d + i]
  BY DEF Agree
<1> QED
  BY <1>1, <1>2, <1>3, <1>4, SameRead

\* A frame that is added leaves those in front of it alone.
LEMMA AppendAgrees ==
    ASSUME NEW fs \in Seq(DbgStackFrames), NEW f \in DbgStackFrames,
           NEW d \in Nat, NEW k \in Nat, d + k <= Len(fs)
    PROVE  Agree(fs, d, Append(fs, f), d, k)
<1>1. \A j \in 1..k : d + j \in 1..Len(fs)
  OBVIOUS
<1>2. \A i \in 1..Len(fs) : Append(fs, f)[i] = fs[i]
  OBVIOUS
<1> QED
  BY <1>1, <1>2 DEF Agree

\* A turn of the loop goes on with the walk.
LEMMA WalkExtends ==
    ASSUME NEW fs \in Seq(DbgStackFrames), NEW d \in Nat, NEW k \in Nat, d + k = Len(fs),
           IsWalk(fs, d, k), k < kMaximumStackFrames,
           NEW f \in DbgStackFrames,
           f = PopulateDbgStackFrame(WalkPosition(fs, d, k), WithVariables(fs, d, k)),
           WalkPosition(fs, d, k) <= Len(stack.frames),
           ~FailsAt(WalkPosition(fs, d, k), WithVariables(fs, d, k))
    PROVE  /\ IsWalk(Append(fs, f), d, k + 1)
           /\ WalkPosition(Append(fs, f), d, k + 1) = WalkPosition(fs, d, k) + Advance(f)
           /\ IlCount(Append(fs, f), d, k + 1) = IlCount(fs, d, k) + IlFrames(f)
<1> DEFINE gs == Append(fs, f)
<1>1. /\ Agree(fs, d, gs, d, k) /\ gs[d + (k + 1)] = f
  <2>1. Agree(fs, d, gs, d, k)
    BY AppendAgrees
  <2>2. d + (k + 1) = Len(fs) + 1
    OBVIOUS
  <2>3. gs[Len(fs) + 1] = f
    OBVIOUS
  <2> HIDE DEF gs
  <2> QED
    BY <2>1, <2>2, <2>3
<1> HIDE DEF gs
<1>2. /\ WalkPosition(fs, d, k) = WalkPosition(gs, d, k)
      /\ IlCount(fs, d, k) = IlCount(gs, d, k)
      /\ WithVariables(fs, d, k) <=> WithVariables(gs, d, k)
  BY <1>1, SamePlace
<1>3. IsWalk(gs, d, k)
  BY <1>1, WalkCopied
<1>4. IsWalk(gs, d, k + 1)
  <2>1. k + 1 <= kMaximumStackFrames
    BY LimitsAssumption
  <2>2. ASSUME NEW i \in 1..(k + 1)
        PROVE  LET p == WalkPosition(gs, d, i - 1)
                   il == WithVariables(gs, d, i - 1)
               IN  /\ p <= Len(stack.frames) /\ ~FailsAt(p, il)
                   /\ gs[d + i] = PopulateDbgStackFrame(p, il)
    <3>1. CASE i \in 1..k
      BY <1>3, <3>1 DEF IsWalk
    <3>2. CASE i = k + 1
      <4>1. i - 1 = k
        BY <3>2
      <4>2. gs[d + i] = f
        BY <1>1, <3>2
      <4> QED
        BY <1>2, <4>1, <4>2, SameRead
    <3> QED
      BY <3>1, <3>2
  <2> QED
    BY <2>1, <2>2 DEF IsWalk
<1>5. WalkPosition(gs, d, k + 1) = WalkPosition(fs, d, k) + Advance(f)
  <2>1. f.at = WalkPosition(fs, d, k)
    BY DEF PopulateDbgStackFrame
  <2>2. k + 1 # 0
    OBVIOUS
  <2> QED
    BY <1>1, <2>1, <2>2 DEF WalkPosition
<1>6. IlCount(gs, d, k + 1) = IlCount(fs, d, k) + IlFrames(f)
  BY <1>1, <1>2, IlCountNext
<1> QED
  BY <1>4, <1>5, <1>6 DEF gs

\* What a failed walk has left stays in front of what is added.
LEMMA BlockedStays ==
    ASSUME NEW fs \in Seq(DbgStackFrames), NEW f \in DbgStackFrames, Blocked(fs)
    PROVE  Blocked(Append(fs, f))
<1> DEFINE gs == Append(fs, f)
<1>1. PICK k \in 1..Len(fs) :
        /\ IsWalk(fs, 0, k) /\ ~Complete(fs, 0, k)
        /\ FailsAt(WalkPosition(fs, 0, k), WithVariables(fs, 0, k))
  BY DEF Blocked
<1>2. k \in Nat /\ 0 \in Nat /\ 0 + k <= Len(fs) /\ k \in 1..Len(gs)
  BY <1>1
<1>3. Agree(fs, 0, gs, 0, k)
  BY <1>2, AppendAgrees
<1> HIDE DEF gs
<1>4. IsWalk(gs, 0, k)
  BY <1>1, <1>2, <1>3, WalkCopied
<1>5. /\ WalkPosition(fs, 0, k) = WalkPosition(gs, 0, k)
      /\ WithVariables(fs, 0, k) <=> WithVariables(gs, 0, k)
  BY <1>2, <1>3, SamePlace
<1>6. ~Complete(gs, 0, k)
  BY <1>1, <1>5 DEF Complete
<1>7. FailsAt(WalkPosition(gs, 0, k), WithVariables(gs, 0, k))
  BY <1>1, <1>5, SameRead
<1>8. Blocked(gs)
  BY <1>2, <1>4, <1>6, <1>7 DEF Blocked
<1> QED
  BY <1>8 DEF gs

\* The state of a walk does not change while the stack is not read.
LEMMA SameWalking ==
    ASSUME UNCHANGED stack
    PROVE  /\ \A fs : Finished(fs)' <=> Finished(fs)
           /\ \A fs, k, p, il : Walking(fs, k, p, il)' <=> Walking(fs, k, p, il)
<1>1. \A fs : Finished(fs)' <=> Finished(fs)
  BY SameWalk DEF Finished
<1>2. \A fs, k, p, il : Walking(fs, k, p, il)' <=> Walking(fs, k, p, il)
  BY SameWalk, SameBlocked DEF Walking
<1> QED
  BY <1>1, <1>2

\* A walk that has come to the end started with an empty collection.
LEMMA WalkFinishes ==
    ASSUME TypeOK, NEW fs \in Seq(DbgStackFrames), NEW k \in Nat, k <= Len(fs),
           IsWalk(fs, Len(fs) - k, k), Complete(fs, Len(fs) - k, k),
           Len(fs) - k > 0 => Blocked(fs)
    PROVE  Finished(fs)
<1>1. PICK d \in Nat : d = Len(fs) - k
  <2>1. Len(fs) \in Nat
    OBVIOUS
  <2>2. Len(fs) - k \in Nat
    BY <2>1
  <2> QED
    BY <2>2
<1>2. k \in 0..Len(fs)
  OBVIOUS
<1>3. d = 0
  <2> SUFFICES ASSUME d # 0 PROVE FALSE
    OBVIOUS
  <2>1. Blocked(fs) /\ IsWalk(fs, d, k) /\ Complete(fs, d, k)
    BY <1>1
  <2> QED
    BY <1>2, <2>1, NoWayAround
<1>4. k = Len(fs)
  BY <1>1, <1>3
<1>5. IsWalk(fs, 0, Len(fs)) /\ Complete(fs, 0, Len(fs))
  BY <1>1, <1>3, <1>4
<1>6. fs # <<>>
  <2> SUFFICES ASSUME fs = <<>> PROVE FALSE
    OBVIOUS
  <2>1. Len(fs) = 0
    OBVIOUS
  <2>2. Len(stack.frames) \in Nat \ {0}
    BY StackType DEF TypeOK, TaskType
  <2> QED
    BY <1>5, <2>1, <2>2, LimitsAssumption DEF Complete, WalkPosition
<1> QED
  BY <1>5, <1>6 DEF Finished

\* Where the loop puts a frame, whether or not Next then fails.
LEMMA WalkGoesFurther ==
    ASSUME TypeOK, NEW fs \in Seq(DbgStackFrames), NEW k \in Nat, NEW p, NEW il,
           Walking(fs, k, p, il), k < kMaximumStackFrames, p <= Len(stack.frames),
           NEW b, b <=> il < kMaximumStackFramesWithVariables, ~FailsAt(p, b),
           NEW f \in DbgStackFrames, f = PopulateDbgStackFrame(p, b)
    PROVE  /\ Walking(Append(fs, f), k + 1, p + Advance(f), il + IlFrames(f))
           /\ p + Advance(f) > Len(stack.frames) => Finished(Append(fs, f))
<1> DEFINE gs == Append(fs, f)
<1>1. Len(fs) \in Nat /\ gs \in Seq(DbgStackFrames) /\ Len(gs) = Len(fs) + 1
  OBVIOUS
<1>2. Len(fs) - k >= 0
  BY DEF Walking
<1>3. PICK d \in Nat : d = Len(fs) - k
  <2>1. Len(fs) - k \in Nat
    BY <1>1, <1>2
  <2> QED
    BY <2>1
<1>4. /\ IsWalk(fs, d, k) /\ p = WalkPosition(fs, d, k) /\ il = IlCount(fs, d, k)
      /\ d > 0 => Blocked(fs)
  BY <1>3 DEF Walking
<1>5. b <=> WithVariables(fs, d, k)
  BY <1>4 DEF WithVariables
<1>6. /\ f = PopulateDbgStackFrame(WalkPosition(fs, d, k), WithVariables(fs, d, k))
      /\ ~FailsAt(WalkPosition(fs, d, k), WithVariables(fs, d, k))
      /\ WalkPosition(fs, d, k) <= Len(stack.frames) /\ d + k = Len(fs)
  <2>1. d + k = Len(fs)
    BY <1>1, <1>3
  <2> QED
    BY <1>4, <1>5, <2>1, SameRead
<1>7. /\ IsWalk(gs, d, k + 1) /\ WalkPosition(gs, d, k + 1) = p + Advance(f)
      /\ IlCount(gs, d, k + 1) = il + IlFrames(f)
  BY <1>4, <1>6, WalkExtends
<1>8. d > 0 => Blocked(gs)
  BY <1>4, BlockedStays
<1> HIDE DEF gs
<1>9. Len(gs) - (k + 1) = d /\ d >= 0 /\ k + 1 \in Nat /\ k + 1 <= Len(gs)
  BY <1>1, <1>3
<1>10. Walking(gs, k + 1, p + Advance(f), il + IlFrames(f))
  BY <1>7, <1>8, <1>9 DEF Walking
<1>11. ASSUME p + Advance(f) > Len(stack.frames) PROVE Finished(gs)
  <2>1. Complete(gs, d, k + 1)
    BY <1>7, <1>11 DEF Complete
  <2> QED
    BY <1>1, <1>7, <1>8, <1>9, <2>1, WalkFinishes
<1> QED
  BY <1>10, <1>11 DEF gs

\* A walk that begins behind what failed ones have left.
LEMMA WalkBegins ==
    ASSUME NEW fs \in Seq(DbgStackFrames), fs # <<>> => Blocked(fs)
    PROVE  Walking(fs, 0, 1, 0)
<1>1. Len(fs) \in Nat /\ Len(fs) - 0 = Len(fs) /\ (Len(fs) > 0 => fs # <<>>)
  OBVIOUS
<1>2. IsWalk(fs, Len(fs), 0)
  BY LimitsAssumption DEF IsWalk
<1>3. WalkPosition(fs, Len(fs), 0) = 1 /\ IlCount(fs, Len(fs), 0) = 0
  BY IlCountNone
<1> QED
  BY <1>1, <1>2, <1>3 DEF Walking

\* A walk that cannot read its next frame leaves what it has collected.
LEMMA WalkBlocks ==
    ASSUME NEW fs \in Seq(DbgStackFrames), NEW k \in Nat, NEW p, NEW il,
           Walking(fs, k, p, il), k < kMaximumStackFrames, p <= Len(stack.frames),
           p \in Nat, Len(stack.frames) \in Nat,
           NEW b, b <=> il < kMaximumStackFramesWithVariables, FailsAt(p, b), fs # <<>>
    PROVE  Blocked(fs)
<1>1. CASE Len(fs) - k > 0
  BY <1>1 DEF Walking
<1>2. CASE ~(Len(fs) - k > 0)
  <2>1. Len(fs) \in Nat \ {0}
    OBVIOUS
  <2>2. Len(fs) - k >= 0
    BY DEF Walking
  <2>3. Len(fs) - k = 0 /\ k \in 1..Len(fs)
    BY <1>2, <2>1, <2>2
  <2>4. IsWalk(fs, 0, k) /\ p = WalkPosition(fs, 0, k) /\ il = IlCount(fs, 0, k)
    BY <2>3 DEF Walking
  <2>5. ~Complete(fs, 0, k)
    BY <2>4, LimitsAssumption DEF Complete
  <2>6. b <=> WithVariables(fs, 0, k)
    BY <2>4 DEF WithVariables
  <2>7. FailsAt(WalkPosition(fs, 0, k), WithVariables(fs, 0, k))
    BY <2>4, <2>6, SameRead
  <2> QED
    BY <2>3, <2>4, <2>5, <2>7 DEF Blocked
<1> QED
  BY <1>1, <1>2

\* Every action keeps WalkInv.  The case that needs it is a walk that fails and
\* leaves its frames to the next breakpoint: that walk fails at the same frame.
LEMMA WalkStep == TypeOK /\ WalkInv /\ [Next]_vars => WalkInv'
<1> SUFFICES ASSUME TypeOK, WalkInv, [Next]_vars PROVE WalkInv'
  OBVIOUS
<1>1. /\ stack \in Stacks /\ frames \in Seq(DbgStackFrames)
      /\ first \in DbgStackFrames \cup {None}
      /\ pos \in Nat /\ pos # 0 /\ parsed \in Nat /\ ilParsed \in Nat
      /\ Len(stack.frames) \in Nat \ {0} /\ kMaximumStackFrames \in Nat \ {0}
      /\ kMaximumStackFramesWithVariables \in Nat \ {0}
  <2>1. stack \in Stacks
    BY DEF TypeOK, TaskType
  <2> QED
    BY <2>1, StackType, LimitsAssumption DEF TypeOK, WalkType
<1>2. /\ first # None => first = PopulateDbgStackFrame(1, TRUE) /\ ~FailsAt(1, TRUE)
      /\ Reporting => walked
      /\ walked => pc # "frame" /\ Finished(frames)
      /\ ~walked /\ pc # "frame" /\ frames # <<>> => Blocked(frames)
      /\ pc = "frame" => Walking(frames, parsed, pos, ilParsed)
  BY DEF WalkInv
<1>3. ASSUME UNCHANGED stack,
             first' # None => first' = PopulateDbgStackFrame(1, TRUE) /\ ~FailsAt(1, TRUE),
             Reporting' => walked',
             walked' => pc' # "frame" /\ Finished(frames'),
             ~walked' /\ pc' # "frame" /\ frames' # <<>> => Blocked(frames'),
             pc' = "frame" => Walking(frames', parsed', pos', ilParsed')
      PROVE  WalkInv'
  BY <1>3, SameFrames, SameBlocked, SameWalking DEF WalkInv
<1>4. ASSUME UNCHANGED <<stack, frames, walked>>, pc # "frame", pc' # "frame",
             first' # None => first' = PopulateDbgStackFrame(1, TRUE) /\ ~FailsAt(1, TRUE),
             Reporting' => Reporting \/ walked
      PROVE  WalkInv'
  BY <1>2, <1>3, <1>4
<1>5. CASE SkipCondition \/ AlreadyWalked \/ WalkUnavailable
  BY <1>2, <1>4, <1>5 DEF SkipCondition, AlreadyWalked, WalkUnavailable, Reporting, hitVars, walkVars
<1>6. CASE FramesEnd \/ WriteBreakpoint \/ TaskEnds
  BY <1>2, <1>4, <1>6 DEF FramesEnd, WriteBreakpoint, TaskEnds, Reporting, hitVars, walkVars
<1>7. CASE PopulateBreakpoint \/ PopulateLeaf \/ PopulateMembers
  BY <1>2, <1>4, <1>7 DEF PopulateBreakpoint, PopulateLeaf, PopulateMembers, Reporting, hitVars,
                          walkVars
<1>8. CASE BFSEnds \/ PopulateStackFrame
  BY <1>2, <1>4, <1>8 DEF BFSEnds, PopulateStackFrame, Reporting, hitVars, walkVars
<1>9. CASE EvaluateBreakpointCondition \/ ProcessExpressions
  <2>1. /\ UNCHANGED <<stack, frames, walked>> /\ pc # "frame" /\ pc' # "frame"
        /\ first' = first \/ first' \in ProcessFirstStack
        /\ ~Reporting'
    BY <1>9 DEF EvaluateBreakpointCondition, ProcessExpressions, Reporting, hitVars
  <2>2. first' # None => first' = PopulateDbgStackFrame(1, TRUE) /\ ~FailsAt(1, TRUE)
    <3>1. CASE first' = first
      BY <1>2, <3>1
    <3>2. CASE first' \in ProcessFirstStack
      <4>1. /\ first' # None /\ first = None =>
                 first' = PopulateDbgStackFrame(1, TRUE) /\ ~FailsAt(1, TRUE)
            /\ first # None => first' = first
        BY <1>1, <3>2, FirstStackType
      <4> QED
        BY <1>2, <4>1
    <3> QED
      BY <2>1, <3>1, <3>2
  <2> QED
    BY <1>4, <2>1, <2>2
<1>10. CASE WalkStack
  <2>1. /\ pc = "walk" /\ ~walked /\ UNCHANGED <<stack, first>>
        /\ frames' = IF first = None THEN frames ELSE Append(frames, first)
        /\ parsed' = IF first = None THEN 0 ELSE 1
        /\ ilParsed' = IF first = None THEN 0 ELSE IlFrames(first)
        /\ pos' = IF first = None THEN 1 ELSE 1 + StackToSkip(first)
        /\ \/ first # None /\ NextFails(pos' - 1) /\ walked' = TRUE /\ pc' = "error"
           \/ walked' = walked /\ pc' = "frame"
    BY <1>10 DEF WalkStack, hitVars
  <2>2. Walking(frames, 0, 1, 0)
    BY <1>1, <1>2, <2>1, WalkBegins
  <2>3. CASE first = None
    <3>1. Walking(frames', parsed', pos', ilParsed') /\ pc' = "frame" /\ ~walked'
      BY <2>1, <2>2, <2>3
    <3> QED
      BY <1>2, <1>3, <2>1, <3>1 DEF Reporting
  <2>4. CASE first # None
    <3> DEFINE b == 0 < kMaximumStackFramesWithVariables
    <3>1. first \in DbgStackFrames /\ first = PopulateDbgStackFrame(1, TRUE) /\ ~FailsAt(1, TRUE)
      BY <1>1, <1>2, <2>4
    <3>2. 0 \in Nat /\ 0 < kMaximumStackFrames /\ 1 <= Len(stack.frames) /\ b
      BY <1>1
    <3>3. b <=> 0 < kMaximumStackFramesWithVariables
      OBVIOUS
    <3> HIDE DEF b
    <3>4. first = PopulateDbgStackFrame(1, b) /\ ~FailsAt(1, b)
      BY <3>1, <3>2, SameRead
    <3>5. /\ Walking(Append(frames, first), 0 + 1, 1 + Advance(first), 0 + IlFrames(first))
          /\ 1 + Advance(first) > Len(stack.frames) => Finished(Append(frames, first))
      BY <1>1, <2>2, <3>1, <3>2, <3>3, <3>4, WalkGoesFurther
    <3>6. IlFrames(first) \in Nat /\ StackToSkip(first) = Advance(first) /\ Advance(first) \in Nat
      BY IlFramesType
    <3>7. /\ frames' = Append(frames, first) /\ parsed' = 0 + 1 /\ pos' = 1 + Advance(first)
          /\ ilParsed' = 0 + IlFrames(first)
      BY <2>1, <2>4, <3>6
    <3>8. Walking(frames', parsed', pos', ilParsed')
      BY <3>5, <3>7
    <3>9. ASSUME NextFails(pos' - 1) PROVE Finished(frames')
      <4>1. pos' - 1 >= Len(stack.frames)
        BY <3>9 DEF NextFails
      <4>2. 1 + Advance(first) > Len(stack.frames)
        BY <1>1, <3>6, <3>7, <4>1
      <4> QED
        BY <3>5, <3>7, <4>2
    <3>10. \/ walked' /\ pc' = "error" /\ Finished(frames')
           \/ ~walked' /\ pc' = "frame"
      BY <2>1, <3>9
    <3> QED
      BY <1>2, <1>3, <2>1, <3>8, <3>10 DEF Reporting
  <2> QED
    BY <2>3, <2>4
<1>11. CASE WalkFrame
  <2> DEFINE b == ProcessIlFrame
             f == PopulateDbgStackFrame(pos, ProcessIlFrame)
  <2>1. /\ pc = "frame" /\ parsed < kMaximumStackFrames /\ pos <= Len(stack.frames)
        /\ ~FailsAt(pos, ProcessIlFrame) /\ UNCHANGED <<stack, first>>
        /\ frames' = Append(frames, f) /\ parsed' = parsed + 1
        /\ ilParsed' = ilParsed + IlFrames(f) /\ pos' = pos + Advance(f)
        /\ \/ NextFails(pos' - 1) /\ walked' = TRUE /\ pc' = "error"
           \/ UNCHANGED <<walked, pc>>
    BY <1>11 DEF WalkFrame, WalkGoesOn, Walked, FailsAt, hitVars
  <2>2. f \in DbgStackFrames
    <3>1. PICK a \in BOOLEAN : a <=> ProcessIlFrame
      BY Zenon
    <3>2. f = PopulateDbgStackFrame(pos, a) /\ pos \in 1..Len(stack.frames)
      BY <1>1, <2>1, <3>1, SameRead
    <3> QED
      BY <1>1, <3>2, PopulateType
  <2>3. /\ Walking(frames, parsed, pos, ilParsed) /\ ~walked
        /\ b <=> ilParsed < kMaximumStackFramesWithVariables
    BY <1>2, <2>1 DEF ProcessIlFrame
  <2> HIDE DEF b
  <2>4. f = PopulateDbgStackFrame(pos, b) /\ ~FailsAt(pos, b)
    BY <2>1 DEF b
  <2> HIDE DEF f
  <2>5. /\ Walking(Append(frames, f), parsed + 1, pos + Advance(f), ilParsed + IlFrames(f))
        /\ pos + Advance(f) > Len(stack.frames) => Finished(Append(frames, f))
    BY <1>1, <2>1, <2>2, <2>3, <2>4, WalkGoesFurther
  <2>6. Walking(frames', parsed', pos', ilParsed')
    BY <2>1, <2>5
  <2>7. ASSUME NextFails(pos' - 1) PROVE Finished(frames')
    <3>1. pos' - 1 >= Len(stack.frames)
      BY <2>7 DEF NextFails
    <3>2. Advance(f) \in Nat
      BY IlFramesType
    <3>3. pos + Advance(f) > Len(stack.frames)
      BY <1>1, <2>1, <3>1, <3>2
    <3> QED
      BY <2>1, <2>5, <3>3
  <2>8. \/ walked' /\ pc' = "error" /\ Finished(frames')
        \/ ~walked' /\ pc' = "frame"
    BY <2>1, <2>3, <2>7
  <2> QED
    BY <1>2, <1>3, <2>1, <2>6, <2>8 DEF Reporting
<1>12. CASE WalkFails
  <2> DEFINE b == ProcessIlFrame
  <2>1. /\ pc = "frame" /\ parsed < kMaximumStackFrames /\ pos <= Len(stack.frames)
        /\ FailsAt(pos, ProcessIlFrame) /\ UNCHANGED <<stack, first, frames, walked>>
        /\ pc' = "error"
    BY <1>12 DEF WalkFails, WalkGoesOn, Walked, FailsAt, hitVars, walkVars
  <2>2. /\ Walking(frames, parsed, pos, ilParsed) /\ ~walked
        /\ b <=> ilParsed < kMaximumStackFramesWithVariables
    BY <1>2, <2>1 DEF ProcessIlFrame
  <2>3. FailsAt(pos, b)
    BY <2>1
  <2> HIDE DEF b
  <2>4. frames # <<>> => Blocked(frames)
    BY <1>1, <2>1, <2>2, <2>3, WalkBlocks
  <2> QED
    BY <1>2, <1>3, <2>1, <2>2, <2>4 DEF Reporting
<1>13. CASE WalkEnds
  <2>1. /\ pc = "frame" /\ ~(parsed < kMaximumStackFrames /\ pos <= Len(stack.frames))
        /\ UNCHANGED <<stack, first, frames>> /\ walked' = TRUE /\ pc' = "populate"
    BY <1>13 DEF WalkEnds, WalkGoesOn, hitVars
  <2>2. Walking(frames, parsed, pos, ilParsed)
    BY <1>2, <2>1
  <2>3. /\ Len(frames) - parsed >= 0 /\ IsWalk(frames, Len(frames) - parsed, parsed)
        /\ pos = WalkPosition(frames, Len(frames) - parsed, parsed)
        /\ Len(frames) - parsed > 0 => Blocked(frames)
    BY <2>2 DEF Walking
  <2>4. parsed <= kMaximumStackFrames
    BY <2>3 DEF IsWalk
  <2>5. Complete(frames, Len(frames) - parsed, parsed)
    BY <1>1, <2>1, <2>3, <2>4 DEF Complete
  <2>6. parsed <= Len(frames)
    BY <1>1, <2>3
  <2>7. Finished(frames)
    BY <1>1, <2>3, <2>5, <2>6, WalkFinishes
  <2> QED
    BY <1>2, <1>3, <2>1, <2>7
<1>14. CASE NextHit
  <2>1. frames' = <<>> /\ first' = None /\ walked' = FALSE /\ pc' = "condition"
    BY <1>14 DEF NextHit, NewTask
  <2> QED
    BY <2>1 DEF WalkInv, Reporting
<1>15. CASE UNCHANGED vars
  <2>1. UNCHANGED <<stack, frames, first, walked, pc, parsed, pos, ilParsed>>
    BY <1>15 DEF vars, hitVars, walkVars
  <2> QED
    BY <1>2, <1>3, <2>1 DEF Reporting
<1> QED
  BY <1>5, <1>6, <1>7, <1>8, <1>9, <1>10, <1>11, <1>12, <1>13, <1>14, <1>15 DEF Next, Process

\* No frame has been collected at first.
LEMMA WalkInit == Init => WalkInv
BY DEF Init, WalkInv, Reporting

\* WalkStackAndProcessStackFrame collects the frames of the stack without gaps and
\* without repeating one, however many breakpoints of the hit share stack_frames_
\* and however often a walk has failed.
THEOREM FramesFollowStackHolds == Spec => []FramesFollowStack
<1>1. TypeOK /\ WalkInv => FramesFollowStack
  <2> SUFFICES ASSUME TypeOK, WalkInv, Reporting
               PROVE  /\ frames # <<>> /\ frames[1].at = 1
                      /\ \A i \in 1..(Len(frames) - 1) :
                             frames[i + 1].at = frames[i].at + Advance(frames[i])
                      /\ \/ Len(frames) = kMaximumStackFrames
                         \/ frames[Len(frames)].at + Advance(frames[Len(frames)])
                                > Len(stack.frames)
    BY DEF FramesFollowStack
  <2>1. /\ frames # <<>> /\ IsWalk(frames, 0, Len(frames))
        /\ Complete(frames, 0, Len(frames))
    BY DEF WalkInv, Finished
  <2>2. Len(frames) \in Nat \ {0}
    BY <2>1 DEF TypeOK, WalkType
  <2>3. ASSUME NEW i \in 1..Len(frames) PROVE frames[i].at = WalkPosition(frames, 0, i - 1)
    <3>1. /\ 0 + i = i
          /\ frames[0 + i] = PopulateDbgStackFrame(WalkPosition(frames, 0, i - 1),
                                                   WithVariables(frames, 0, i - 1))
      BY <2>1, <2>3 DEF IsWalk
    <3> QED
      BY <3>1 DEF PopulateDbgStackFrame
  <2>4. \A i \in 1..Len(frames) :
          WalkPosition(frames, 0, i) = frames[i].at + Advance(frames[i])
    BY DEF WalkPosition
  <2>5. frames[1].at = 1
    <3>1. 1 \in 1..Len(frames) /\ 1 - 1 = 0
      BY <2>2
    <3> QED
      BY <2>3, <3>1 DEF WalkPosition
  <2>6. ASSUME NEW i \in 1..(Len(frames) - 1)
        PROVE  frames[i + 1].at = frames[i].at + Advance(frames[i])
    <3>1. i \in 1..Len(frames) /\ i + 1 \in 1..Len(frames) /\ (i + 1) - 1 = i
      BY <2>2, <2>6
    <3> QED
      BY <2>3, <2>4, <3>1
  <2>7. Len(frames) \in 1..Len(frames)
    BY <2>2
  <2> QED
    BY <2>1, <2>4, <2>5, <2>6, <2>7 DEF Complete
<1> QED
  BY <1>1, WalkInit, WalkStep, TypeCorrect, PTL DEF Spec

-----------------------------------------------------------------------------
(* The size of a report.                                                   *)

\* Names and values are counted in numbers of bytes, and there is a frame.
LEMMA StepSizesType ==
    ASSUME NEW s \in Stacks, NEW b \in Batches
    PROVE  /\ StepSizes(s, b) \subseteq Nat /\ StepSizes(s, b) # {}
           /\ \A o \in Objects : 2 + Len(Members[o]) \in StepSizes(s, b)
           /\ \A i \in 1..Len(b) : 1 + 2 * Len(b[i].expressions) \in StepSizes(s, b)
           /\ \A p \in 1..Len(s.frames) : 1 + Len(s.frames[p].vars) \in StepSizes(s, b)
<1>1. \A o \in Objects : 2 + Len(Members[o]) \in Nat
  BY ObjectsAssumption
<1>2. \A p \in 1..Len(s.frames) : 1 + Len(s.frames[p].vars) \in Nat
  <2> SUFFICES ASSUME NEW p \in 1..Len(s.frames) PROVE 1 + Len(s.frames[p].vars) \in Nat
    OBVIOUS
  <2> DEFINE R == [kind : FrameKinds, async : BOOLEAN, vars : Seq(Objects)]
  <2>1. s.frames \in Seq(R)
    BY StacksAssumption DEF StackRecords
  <2>2. s.frames[p] \in R
    <3> HIDE DEF R
    <3> QED
      BY <2>1
  <2>3. s.frames[p].vars \in Seq(Objects)
    BY <2>2
  <2> QED
    BY <2>3
<1>3. \A i \in 1..Len(b) : 1 + 2 * Len(b[i].expressions) \in Nat
  <2> SUFFICES ASSUME NEW i \in 1..Len(b) PROVE 1 + 2 * Len(b[i].expressions) \in Nat
    OBVIOUS
  <2>1. b[i] \in BreakpointRecords
    BY BatchesAssumption
  <2>2. b[i].expressions \in Seq(Objects)
    BY <2>1 DEF BreakpointRecords
  <2> QED
    BY <2>2
<1>4. 1 \in 1..Len(s.frames)
  <2>1. s.frames \in Seq([kind : FrameKinds, async : BOOLEAN, vars : Seq(Objects)])
    BY StacksAssumption DEF StackRecords
  <2>2. Len(s.frames) \in Nat /\ Len(s.frames) > 0
    BY <2>1, StacksAssumption
  <2> QED
    BY <2>2
<1> QED
  BY <1>1, <1>2, <1>3, <1>4 DEF StepSizes

\* The sizes of the steps are those of the debuggee's values.
LEMMA SameSizes == \A s, b : StepSizes(s, b)' = StepSizes(s, b)
BY DEF StepSizes

\* What is left of a report that is not full; a report that exceeds its size by
\* one step has, in unsigned arithmetic, more than everything left.
LEMMA WhatIsLeft ==
    ASSUME NEW bytes \in Nat
    PROVE  /\ bytes <= kMaximumBreakpointSize =>
                 /\ ToInt(Left(bytes) \div 2) \in Nat
                 /\ bytes + ToInt(Left(bytes) \div 2) <= kMaximumBreakpointSize
           /\ \A more \in Nat :
                 /\ bytes > kMaximumBreakpointSize /\ bytes <= kMaximumBreakpointSize + more
                 /\ more + 2 * kMaximumBreakpointSize + 2 <= Word
                 => ToInt(Left(bytes) \div 2) > kMaximumBreakpointSize
<1> DEFINE K == kMaximumBreakpointSize
<1>1. K \in Nat /\ Word \in Nat /\ Word > 2 * K /\ Word > 0
  BY LimitsAssumption
<1>2. ASSUME bytes <= K
      PROVE  ToInt(Left(bytes) \div 2) \in Nat /\ bytes + ToInt(Left(bytes) \div 2) <= K
  <2>1. K - bytes \in 0..(Word - 1)
    BY <1>1, <1>2
  <2>2. Left(bytes) = K - bytes
    BY <1>1, <2>1 DEF Left
  <2>3. PICK u \in Nat : u = (K - bytes) \div 2 /\ 2 * u <= K - bytes
    BY <2>1, <1>1
  <2>4. ToInt(u) = u
    BY <1>1, <1>2, <2>3 DEF ToInt
  <2> QED
    BY <1>1, <1>2, <2>2, <2>3, <2>4
<1>3. ASSUME NEW more \in Nat, bytes > K, bytes <= K + more, more + 2 * K + 2 <= Word
      PROVE  ToInt(Left(bytes) \div 2) > K
  <2>1. (K - bytes) + Word \in 0..(Word - 1)
    BY <1>1, <1>3
  <2>2. Left(bytes) = (K - bytes) + Word
    BY <1>1, <2>1 DEF Left
  <2>3. (K - bytes) + Word >= 2 * K + 2
    BY <1>1, <1>3
  <2>4. PICK v \in Nat : v = (K - bytes) + Word
    BY <2>1
  <2>5. PICK u \in Nat : u = v \div 2 /\ 2 * u <= v /\ 2 * u >= v - 1
    BY <2>4
  <2>6. 2 * u < Word /\ u > K
    BY <1>1, <2>1, <2>3, <2>4, <2>5
  <2>7. ToInt(u) = u
    BY <1>1, <2>6 DEF ToInt
  <2> QED
    BY <2>2, <2>4, <2>5, <2>6, <2>7
<1> QED
  BY <1>2, <1>3

\* The frames that are reported, and what naming their variables takes.
LEMMA FramesOfStack ==
    ASSUME TypeOK, WalkInv, Reporting
    PROVE  /\ Len(frames) \in Nat /\ Len(frames) <= kMaximumStackFrames
           /\ \A i \in 1..Len(frames) :
                 \E bytes \in StepSizes(stack, batch) : 1 + Len(frames[i].vars) <= bytes
<1>1. frames \in Seq(DbgStackFrames) /\ Len(frames) \in Nat /\ stack \in Stacks /\ batch \in Batches
  BY DEF TypeOK, TaskType, WalkType
<1>2. IsWalk(frames, 0, Len(frames))
  BY DEF WalkInv, Finished
<1>3. Len(frames) <= kMaximumStackFrames
  BY <1>2 DEF IsWalk
<1>4. ASSUME NEW i \in 1..Len(frames)
      PROVE  \E bytes \in StepSizes(stack, batch) : 1 + Len(frames[i].vars) <= bytes
  <2> DEFINE p == WalkPosition(frames, 0, i - 1)
             il == WithVariables(frames, 0, i - 1)
  <2>1. 0 + i = i /\ p <= Len(stack.frames) /\ frames[0 + i] = PopulateDbgStackFrame(p, il)
    BY <1>1, <1>2, <1>4 DEF IsWalk
  <2>2. frames[i] \in DbgStackFrames
    BY <1>1, <1>4
  <2>3. p \in Nat \ {0}
    <3>1. CASE i = 1
      BY <3>1 DEF WalkPosition
    <3>2. CASE i # 1
      <4>1. i - 1 \in 1..Len(frames) /\ 0 + (i - 1) = i - 1 /\ i - 1 # 0
        BY <1>1, <1>4, <3>2
      <4>2. frames[i - 1] \in DbgStackFrames
        BY <1>1, <4>1
      <4>3. frames[i - 1].at \in Nat
        BY <4>2 DEF DbgStackFrames
      <4>4. p = frames[i - 1].at + Advance(frames[i - 1])
        BY <4>1 DEF WalkPosition
      <4> HIDE DEF p
      <4> QED
        BY <4>3, <4>4 DEF Advance
    <3> QED
      BY <3>1, <3>2
  <2>4. Len(stack.frames) \in Nat
    BY <1>1, StackType
  <2> HIDE DEF p
  <2>5. p \in 1..Len(stack.frames)
    BY <2>1, <2>3, <2>4
  <2>6. PICK a \in BOOLEAN : a <=> il
    BY Zenon
  <2> HIDE DEF il
  <2>7. frames[i] = PopulateDbgStackFrame(p, a)
    BY <2>1, <2>6, SameRead
  <2>8. frames[i].vars \in {<<>>, stack.frames[p].vars}
    BY <1>1, <2>5, <2>7, PopulateType DEF Frame
  <2>9. /\ 1 + Len(stack.frames[p].vars) \in StepSizes(stack, batch)
        /\ 1 + Len(stack.frames[p].vars) \in Nat
    BY <1>1, <2>5, StepSizesType
  <2>10. stack.frames[p].vars \in Seq(Objects)
    BY <1>1, <2>5, StackType DEF Frame
  <2>11. 1 + Len(frames[i].vars) <= 1 + Len(stack.frames[p].vars)
    <3>1. CASE frames[i].vars = <<>>
      BY <2>10, <3>1
    <3>2. CASE frames[i].vars = stack.frames[p].vars
      BY <2>10, <3>2
    <3> QED
      BY <2>8, <3>1, <3>2
  <2> QED
    BY <2>9, <2>11
<1> QED
  BY <1>1, <1>3, <1>4

\* What is spent is only added to.
LEMMA FitBefore ==
    ASSUME TypeOK, spent' = spent \/ \E r \in [budget : Int, size : Nat] : spent' = Append(spent, r),
           \A i \in 1..Len(spent') : spent'[i].budget <= kMaximumBreakpointSize
    PROVE  \A i \in 1..Len(spent) : spent[i].budget <= kMaximumBreakpointSize
<1>1. spent \in Seq([budget : Int, size : Nat])
  BY DEF TypeOK, ReportType
<1> DEFINE R == [budget : Int, size : Nat]
<1> HIDE DEF R
<1>2. CASE \E r \in R : spent' = Append(spent, r)
  <2>1. PICK r \in R : spent' = Append(spent, r)
    BY <1>2
  <2>2. spent \in Seq(R)
    BY <1>1 DEF R
  <2>3. \A i \in 1..Len(spent) : i \in 1..Len(spent') /\ spent'[i] = spent[i]
    BY <2>1, <2>2
  <2> QED
    BY <2>3
<1> QED
  BY <1>2 DEF R

\* Every action keeps SizeInv: what a frame may fill is half of what is left, and
\* a report that its expressions fill gives the next frame more than everything.
LEMMA SizeStep == TypeOK /\ WalkInv /\ SizeInv /\ [Next]_vars => SizeInv'
<1> SUFFICES ASSUME TypeOK, WalkInv, SizeInv, [Next]_vars PROVE SizeInv'
  OBVIOUS
<1> DEFINE K == kMaximumBreakpointSize
           M == kMaximumStackFrames
           S == StepSizes(stack, batch)
           Fit == BudgetsFit
<1>1. /\ budget \in Int /\ size \in Nat /\ frameSize \in Nat /\ current \in Nat
      /\ spent \in Seq([budget : Int, size : Nat]) /\ K \in Nat /\ M \in Nat
      /\ stack \in Stacks /\ batch \in Batches
  BY LimitsAssumption DEF TypeOK, TaskType, WalkType, ReportType
<1>2. /\ S \subseteq Nat /\ S # {} /\ \A o \in Objects : 2 + Len(Members[o]) \in S
      /\ \A i \in 1..Len(batch) : 1 + 2 * Len(batch[i].expressions) \in S
  BY <1>1, StepSizesType
<1>3. /\ budget >= 0 /\ frameSize <= size
      /\ pc = "bfs" /\ current = 0 => \E bytes \in S : size <= K + bytes
      /\ pc = "frames" /\ Fit => size + budget <= K + current
      /\ pc = "bfs" /\ current # 0 /\ Fit =>
            /\ (size - frameSize) + budget <= K + current
            /\ \E bytes \in S : frameSize <= budget + bytes
      /\ Fit => \E bytes \in S : size <= K + bytes + M
  BY DEF SizeInv, FramesWithinSize, BudgetsFit
<1>4. ASSUME NEW T, T = StepSizes(stack', batch'),
             budget' >= 0, frameSize' <= size',
             pc' = "bfs" /\ current' = 0 => \E bytes \in T : size' <= K + bytes,
             pc' = "frames" /\ Fit' => size' + budget' <= K + current',
             pc' = "bfs" /\ current' # 0 /\ Fit' =>
                /\ (size' - frameSize') + budget' <= K + current'
                /\ \E bytes \in T : frameSize' <= budget' + bytes,
             Fit' => \E bytes \in T : size' <= K + bytes + M
      PROVE  SizeInv'
  <2>1. StepSizes(stack, batch)' = T
    BY <1>4, SameSizes
  <2>2. Fit' <=> /\ \A i \in 1..Len(spent') : spent'[i].budget <= kMaximumBreakpointSize
                 /\ budget' <= kMaximumBreakpointSize
    BY DEF BudgetsFit
  <2> HIDE DEF Fit
  <2>3. FramesWithinSize'
    BY <1>4, <2>1, <2>2 DEF FramesWithinSize
  <2> QED
    BY <1>4, <2>1, <2>3 DEF SizeInv, Fit
<1>5. ASSUME spent' = spent \/ \E r \in [budget : Int, size : Nat] : spent' = Append(spent, r),
             Fit', budget' = budget
      PROVE  Fit
  BY <1>5, FitBefore DEF BudgetsFit
<1> HIDE DEF Fit, S
<1>6. UNCHANGED <<stack, batch>> => S = StepSizes(stack', batch')
  BY DEF S
<1>7. CASE Quiet \/ UNCHANGED vars
  <2>1. /\ UNCHANGED <<stack, batch, current, budget, size, frameSize, spent>>
        /\ pc' = pc \/ pc' \notin {"bfs", "frames"}
    <3>1. CASE Quiet
      BY <3>1, QuietEffect
    <3>2. CASE UNCHANGED vars
      BY <3>2 DEF vars, reportVars, hitVars
    <3> QED
      BY <1>7, <3>1, <3>2
  <2>2. Fit' <=> Fit
    BY <2>1 DEF Fit, BudgetsFit
  <2> QED
    BY <1>3, <1>4, <1>6, <2>1, <2>2
<1>8. CASE NextHit
  <2>1. /\ stack' \in Stacks /\ batch' \in Batches /\ pc' = "condition" /\ size' = 0
        /\ frameSize' = 0 /\ budget' = 0
    BY <1>8 DEF NextHit, NewTask
  <2>2. PICK bytes \in StepSizes(stack', batch') : bytes \in Nat
    BY <2>1, StepSizesType
  <2>3. size' <= K + bytes + M
    BY <1>1, <2>1, <2>2
  <2> QED
    BY <1>4, <2>1, <2>2, <2>3
<1>9. CASE PopulateBreakpoint
  <2> DEFINE bytes == 1 + 2 * Len(batch[n].expressions)
  <2>1. /\ pc' = "bfs" /\ current' = 0 /\ n \in 1..Len(batch) /\ size' = bytes
        /\ frameSize' = 0 /\ budget' = 0 /\ UNCHANGED <<stack, batch>>
    BY <1>9, BreakpointEffect
  <2>2. bytes \in S /\ bytes \in Nat
    BY <1>2, <2>1
  <2> HIDE DEF bytes
  <2>3. size' <= K + bytes /\ size' <= K + bytes + M /\ frameSize' <= size'
    BY <1>1, <2>1, <2>2
  <2> QED
    BY <1>4, <1>6, <2>1, <2>2, <2>3
<1>10. ASSUME pc = "bfs", pc' = "bfs", ~Exhausted,
              NEW o \in Objects, NEW bytes \in Nat, bytes <= 2 + Len(Members[o]),
              size' = size + bytes, frameSize' = frameSize + bytes,
              UNCHANGED <<stack, batch, current, budget, spent>>
       PROVE  SizeInv'
  <2> DEFINE most == 2 + Len(Members[o])
  <2>1. most \in S /\ most \in Nat /\ bytes <= most
    BY <1>2, <1>10
  <2> HIDE DEF most
  <2>2. Fit' <=> Fit
    BY <1>10 DEF Fit, BudgetsFit
  <2>3. CASE current = 0
    <3>1. size <= K
      BY <1>1, <1>10, <2>3 DEF Exhausted
    <3>2. size' <= K + most /\ size' <= K + most + M /\ frameSize' <= size' /\ budget' >= 0
      BY <1>1, <1>3, <1>10, <2>1, <3>1
    <3> QED
      BY <1>4, <1>6, <1>10, <2>1, <2>3, <3>2
  <2>4. CASE current # 0
    <3>1. frameSize <= budget
      BY <1>1, <1>10, <2>4 DEF Exhausted
    <3>2. current <= M
      <4>1. Reporting
        BY <1>10 DEF Reporting
      <4>2. Len(frames) \in Nat /\ Len(frames) <= M
        BY <4>1, FramesOfStack
      <4>3. current <= Len(frames)
        BY <4>2 DEF TypeOK, ReportType
      <4> QED
        BY <1>1, <4>2, <4>3
    <3>3. frameSize' <= size' /\ budget' >= 0 /\ frameSize' <= budget' + most
      BY <1>1, <1>3, <1>10, <2>1, <3>1
    <3>4. ASSUME Fit
          PROVE  (size' - frameSize') + budget' <= K + current' /\ size' <= K + most + M
      <4>1. (size - frameSize) + budget <= K + current
        BY <1>3, <1>10, <2>4, <3>4
      <4>2. size' - frameSize' = size - frameSize
        BY <1>1, <1>10
      <4> QED
        BY <1>1, <1>10, <2>1, <3>1, <3>2, <4>1, <4>2
    <3> QED
      BY <1>4, <1>6, <1>10, <2>1, <2>2, <2>4, <3>3, <3>4
  <2> QED
    BY <2>3, <2>4
<1>11. CASE PopulateLeaf
  <2>1. PICK i \in queue, bytes \in 1..2 :
          /\ i \in 1..Len(items) /\ ~Exhausted
          /\ size' = size + bytes /\ frameSize' = frameSize + bytes
    BY <1>11, LeafEffect
  <2>2. pc = "bfs" /\ pc' = "bfs" /\ UNCHANGED <<stack, batch, current, budget, spent>>
    BY <1>11 DEF PopulateLeaf, hitVars
  <2>3. items[i] \in Items
    BY <2>1 DEF TypeOK, ReportType
  <2>4. items[i].obj \in Objects
    BY <2>3 DEF Items
  <2>5. bytes \in Nat /\ bytes <= 2 + Len(Members[items[i].obj])
    BY <2>1, <2>4, ObjectsAssumption
  <2> QED
    BY <1>10, <2>1, <2>2, <2>4, <2>5
<1>12. CASE PopulateMembers
  <2>1. PICK i \in queue, shown \in Seq(Objects) :
          /\ i \in 1..Len(items) /\ items[i] \in Items /\ ~Exhausted
          /\ Expandable(items[i]) /\ shown = Expansion(items[i].obj)
          /\ Len(shown) \in Nat
          /\ \E bytes \in 1..(2 + Len(shown)) :
                size' = size + bytes /\ frameSize' = frameSize + bytes
    BY <1>12, MembersEffect
  <2>2. pc = "bfs" /\ pc' = "bfs" /\ UNCHANGED <<stack, batch, current, budget, spent>>
    BY <1>12 DEF PopulateMembers, hitVars
  <2>3. PICK bytes \in 1..(2 + Len(shown)) :
          size' = size + bytes /\ frameSize' = frameSize + bytes
    BY <2>1
  <2>4. items[i].obj \in Objects /\ Composite(items[i].obj) /\ limit \in [Objects -> Nat]
    BY <2>1 DEF Items, Expandable, TypeOK, CacheType
  <2>5. Len(shown) \in 0..Len(Members[items[i].obj])
    BY <2>1, <2>4, ExpansionType
  <2>6. bytes \in Nat /\ bytes <= 2 + Len(Members[items[i].obj])
    BY <2>1, <2>3, <2>4, <2>5, ObjectsAssumption
  <2> QED
    BY <1>10, <2>1, <2>2, <2>3, <2>4, <2>6
<1>13. CASE BFSEnds
  <2> DEFINE r == [budget |-> budget, size |-> frameSize]
             left == ToInt(Left(size) \div 2)
  <2>1. /\ pc = "bfs" /\ UNCHANGED <<stack, batch, current, size, frameSize>>
        /\ spent' = spent \/ spent' = Append(spent, r)
        /\ \/ pc' = "write" /\ budget' = budget
           \/ pc' = "frames" /\ budget' = left /\ ~(current # 0 /\ size > K)
    BY <1>13 DEF BFSEnds, hitVars
  <2>2. r \in [budget : Int, size : Nat]
    BY <1>1
  <2>3. left \in Nat
    BY <1>1, BudgetType
  <2> HIDE DEF r, left
  <2>4. CASE pc' = "write" /\ budget' = budget
    <3>1. Fit' => Fit
      BY <1>1, <1>5, <2>1, <2>2, <2>4
    <3> QED
      BY <1>3, <1>4, <1>6, <2>1, <2>4, <3>1
  <2>5. CASE pc' = "frames" /\ budget' = left /\ ~(current # 0 /\ size > K)
    <3>1. CASE size <= K
      <4>1. size + left <= K
        BY <1>1, <3>1, WhatIsLeft DEF left
      <4>2. PICK bytes \in S : bytes \in Nat
        BY <1>2
      <4>3. /\ budget' >= 0 /\ frameSize' <= size' /\ size' + budget' <= K + current'
            /\ size' <= K + bytes + M
        BY <1>1, <1>3, <2>1, <2>3, <2>5, <3>1, <4>1, <4>2
      <4> QED
        BY <1>4, <1>6, <2>1, <2>5, <4>2, <4>3
    <3>2. CASE ~(size <= K)
      <4>1. current = 0
        BY <1>1, <2>5, <3>2
      <4>2. PICK more \in S : size <= K + more
        BY <1>3, <2>1, <4>1
      <4>3. more \in Nat /\ more + 2 * K + 2 <= Word /\ size > K
        BY <1>1, <1>2, <3>2, <4>2, SizesAssumption DEF S
      <4>4. left > K
        BY <1>1, <4>2, <4>3, WhatIsLeft DEF left
      <4>5. ~Fit'
        BY <1>1, <2>3, <2>5, <4>4 DEF Fit, BudgetsFit
      <4>6. budget' >= 0 /\ frameSize' <= size'
        BY <1>3, <2>1, <2>3, <2>5
      <4> QED
        BY <1>4, <1>6, <2>1, <2>5, <4>5, <4>6
    <3> QED
      BY <3>1, <3>2
  <2> QED
    BY <2>1, <2>4, <2>5
<1>14. CASE PopulateStackFrame
  <2> DEFINE vs == frames[current'].vars
             r == [budget |-> budget, size |-> 1]
  <2>1. /\ current' \in Nat /\ current' = current + 1 /\ current < Len(frames) /\ pc = "frames"
        /\ vs \in Seq(Objects) /\ budget' = budget /\ UNCHANGED <<stack, batch>>
        /\ \/ /\ size' = size + 1 /\ spent' = Append(spent, r)
              /\ UNCHANGED <<pc, frameSize>>
           \/ /\ pc' = "bfs" /\ UNCHANGED spent
              /\ frameSize' = 1 + Len(vs) /\ size' = size + frameSize'
    BY <1>14, StackFrameEffect
  <2>2. r \in [budget : Int, size : Nat]
    BY <1>1
  <2>3. Reporting
    BY <2>1 DEF Reporting
  <2>4. /\ Len(frames) \in Nat /\ Len(frames) <= M
        /\ \A i \in 1..Len(frames) : \E bytes \in S : 1 + Len(frames[i].vars) <= bytes
    BY <2>3, FramesOfStack DEF S
  <2>5. current' \in 1..Len(frames) /\ current' <= M
    BY <1>1, <2>1, <2>4
  <2>6. PICK bytes \in S : 1 + Len(vs) <= bytes
    BY <2>4, <2>5
  <2>7. bytes \in Nat /\ Len(vs) \in Nat
    BY <1>2, <2>1
  <2> HIDE DEF vs, r
  <2>8. Fit' => Fit
    BY <1>1, <1>5, <2>1, <2>2
  <2>9. Fit' => size + budget <= K + current
    BY <1>3, <2>1, <2>8
  <2>10. CASE /\ size' = size + 1 /\ spent' = Append(spent, r)
              /\ UNCHANGED <<pc, frameSize>>
    <3>1. budget' >= 0 /\ frameSize' <= size'
      BY <1>1, <1>3, <2>1, <2>10
    <3>2. Fit' => size' + budget' <= K + current'
      BY <1>1, <2>1, <2>9, <2>10
    <3>3. Fit' => size' <= K + bytes + M
      BY <1>1, <1>3, <2>1, <2>5, <2>7, <2>9, <2>10
    <3> QED
      BY <1>4, <1>6, <2>1, <2>10, <3>1, <3>2, <3>3
  <2>11. CASE /\ pc' = "bfs" /\ UNCHANGED spent
              /\ frameSize' = 1 + Len(vs) /\ size' = size + frameSize'
    <3>1. budget' >= 0 /\ frameSize' <= size' /\ current' # 0 /\ frameSize' <= budget' + bytes
      BY <1>1, <1>3, <2>1, <2>6, <2>7, <2>11
    <3>2. Fit' => (size' - frameSize') + budget' <= K + current'
      BY <1>1, <2>1, <2>7, <2>9, <2>11
    <3>3. Fit' => size' <= K + bytes + M
      BY <1>1, <1>3, <2>1, <2>5, <2>6, <2>7, <2>9, <2>11
    <3> QED
      BY <1>4, <1>6, <2>1, <2>11, <3>1, <3>2, <3>3
  <2> QED
    BY <2>1, <2>10, <2>11
<1> QED
  BY <1>7, <1>8, <1>9, <1>11, <1>12, <1>13, <1>14, Steps

\* PopulateStackFrames keeps a report within kMaximumBreakpointSize, one step and
\* the names of the frames, for every stack and every object graph, unless the
\* expressions alone exceed it.
THEOREM FramesWithinSizeHolds == Spec => []FramesWithinSize
<1>1. Init => SizeInv
  <2> SUFFICES ASSUME Init PROVE SizeInv
    OBVIOUS
  <2>1. /\ stack \in Stacks /\ batch \in Batches /\ pc = "condition" /\ size = 0
        /\ frameSize = 0 /\ budget = 0
    BY DEF Init
  <2>2. PICK bytes \in StepSizes(stack, batch) : bytes \in Nat
    BY <2>1, StepSizesType
  <2>3. size <= kMaximumBreakpointSize + bytes + kMaximumStackFrames
    BY <2>1, <2>2, LimitsAssumption
  <2>4. FramesWithinSize
    BY <2>2, <2>3 DEF FramesWithinSize
  <2> QED
    BY <2>1, <2>4 DEF SizeInv
<1>2. SizeInv => FramesWithinSize
  BY DEF SizeInv
<1> QED
  BY <1>1, <1>2, SizeStep, WalkInit, WalkStep, TypeCorrect, PTL DEF Spec

=============================================================================
