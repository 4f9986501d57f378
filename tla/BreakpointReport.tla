--------------------------- MODULE BreakpointReport ---------------------------
(***************************************************************************)
(* What ProcessBreakpointsTask does with the breakpoints of a hit, on one  *)
(* thread and with the debuggee stopped: conditions and expressions, the   *)
(* stack walk that all the breakpoints of a hit share, and the report that *)
(* is filled breadth first until its size limit is reached                 *)
(* (stack_frame_collection.cc, dbg_breakpoint.cc, variable_wrapper.cc and  *)
(* the PopulateMembers of the object wrappers).                            *)
(*                                                                         *)
(* The debuggee's frames and values are constants.  An element of Objects  *)
(* is a DbgObject: a local variable or what is reached from it, so that a  *)
(* cyclic structure is one that is deeper than the evaluation depth.  A    *)
(* name, a type and a value have size 1.                                   *)
(***************************************************************************)
EXTENDS Integers, Sequences, FiniteSets

CONSTANTS
    Objects,                            \* DbgObjects
    Kind,                               \* Kind[o]: what o is
    Members,                            \* Members[o]: its members, elements or slots
    Count,                              \* Count[o]: the size of a collection
    Stacks,                             \* the stacks a hit may find
    Batches,                            \* the breakpoints of one location
    None,
    kMaximumStackFrames,
    kMaximumStackFramesWithVariables,
    kMaximumCollectionSize,
    Unlimited,                          \* INT32_MAX
    kDefaultObjectEvalDepth,
    kMaximumBreakpointSize,
    Word,                               \* 2^32
    MaxHits,                            \* bound on the hits of a behaviour
    Faults                              \* the calls that may fail

Kinds == {"primitive", "null", "untyped", "class", "static", "unevaluated",
          "array", "list", "set", "free"}

FrameKinds == {"il", "partial", "native", "plain", "unmapped", "bad"}

StackRecords ==
    [frames : Seq([kind : FrameKinds, async : BOOLEAN, vars : Seq(Objects)]),
     torn : BOOLEAN]

BreakpointRecords == [condition : BOOLEAN, expressions : Seq(Objects)]

ASSUME ObjectsAssumption ==
    /\ Kind \in [Objects -> Kinds]
    /\ Members \in [Objects -> Seq(Objects)]
    /\ Count \in [Objects -> Nat]

\* PopulateMembers creates the elements of an array anew every time, the
\* members of a class once: only elements that remember nothing are modelled.
ASSUME ElementsAssumption ==
    \A o \in Objects : Kind[o] \in {"array", "list", "set"} =>
        \A i \in 1..Len(Members[o]) :
            Kind[Members[o][i]] \notin {"class", "array", "list", "set"}

ASSUME StacksAssumption ==
    /\ Stacks \subseteq StackRecords
    /\ \A s \in Stacks : Len(s.frames) > 0

ASSUME BatchesAssumption ==
    /\ Batches \subseteq Seq(BreakpointRecords)

ASSUME LimitsAssumption ==
    /\ kMaximumStackFrames \in Nat \ {0}
    /\ kMaximumStackFramesWithVariables \in Nat \ {0}
    /\ kMaximumCollectionSize \in Nat \ {0}
    /\ Unlimited \in Nat \ {0}
    /\ kDefaultObjectEvalDepth \in Nat
    /\ kMaximumBreakpointSize \in Nat
    /\ Word \in Nat /\ Word > 2 * kMaximumBreakpointSize
    /\ MaxHits \in Nat

\* What the largest steps of a report add to its size: naming the members of a
\* variable, the variables of a frame, the expressions of a breakpoint.
StepSizes(s, b) ==
    {2 + Len(Members[o]) : o \in Objects}
    \cup {1 + Len(s.frames[p].vars) : p \in 1..Len(s.frames)}
    \cup {1 + 2 * Len(b[i].expressions) : i \in 1..Len(b)}

\* ByteSize() is an int and never close to overflowing.
ASSUME SizesAssumption ==
    \A s \in Stacks, b \in Batches : \A bytes \in StepSizes(s, b) :
        bytes + 2 * kMaximumBreakpointSize + 2 <= Word

VARIABLES
    stack,      \* the stack of the thread that was hit
    batch,      \* the breakpoints to process
    hit,        \* the number of the hit
    n,          \* the breakpoint being processed
    pc,         \* what the task does next
    answered,   \* what became of each breakpoint of the batch
    frames,     \* stack_frames_
    first,      \* first_stack_
    walked,     \* stack_walked_
    pos,        \* the frame the ICorDebugStackWalk is at
    parsed,     \* frame_parsed_so_far
    ilParsed,   \* il_frame_parsed_so_far
    limit,      \* limit[o]: max_items_to_retrieved_ of an array
    statics,    \* statics[o]: the hit at which a static member was read
    items,      \* the variables in the report
    queue,      \* bfs_queue, as positions in items: the front is the least one
    current,    \* the frame being reported, 0 for the expressions
    budget,     \* frame_max_size
    size,       \* ByteSize() of the report
    frameSize,  \* ByteSize() of the frame
    spent       \* spent[i]: budget and size of the i-th frame reported

hitVars == <<stack, batch, hit>>
walkVars == <<frames, first, walked, pos, parsed, ilParsed>>
cacheVars == <<limit, statics>>
reportVars == <<items, queue, current, budget, size, frameSize, spent>>
vars == <<hitVars, n, pc, answered, walkVars, cacheVars, reportVars>>

DbgStackFrames ==
    [at : Nat, empty : BOOLEAN, processed : BOOLEAN, async : BOOLEAN,
     vars : Seq(Objects)]

States == {"named", "value", "members", "null", "limit", "error"}

Items == [obj : Objects, level : Nat, frame : Nat, state : States,
          shown : Nat, read : Nat]

TaskType ==
    /\ stack \in Stacks /\ batch \in Batches /\ hit \in Nat
    /\ n \in 1..(Len(batch) + 1)
    /\ pc \in {"condition", "expressions", "walk", "frame", "error",
               "populate", "bfs", "frames", "write", "end"}
    /\ pc \notin {"condition", "end"} => n \in 1..Len(batch)
    /\ answered \in
         [1..Len(batch) -> {"pending", "unmet", "error", "report", "lost"}]

WalkType ==
    /\ frames \in Seq(DbgStackFrames)
    /\ first \in DbgStackFrames \cup {None}
    /\ walked \in BOOLEAN
    /\ pos \in Nat \ {0} /\ parsed \in Nat /\ ilParsed \in 0..parsed

CacheType ==
    /\ limit \in [Objects -> Nat]
    /\ statics \in [Objects -> Nat]

ReportType ==
    /\ items \in Seq(Items)
    /\ queue \in SUBSET (1..Len(items))
    /\ current \in 0..Len(frames)
    /\ budget \in Int /\ size \in Nat /\ frameSize \in Nat
    /\ spent \in Seq([budget : Int, size : Nat])

\* The variables have values of their types, and the queue and the counters
\* point into what they index.
TypeOK == TaskType /\ WalkType /\ CacheType /\ ReportType

Fails(call) == call \in Faults

Init ==
    /\ stack \in Stacks /\ batch \in Batches /\ hit = 1
    /\ n = 1 /\ pc = "condition"
    /\ answered = [i \in 1..Len(batch) |-> "pending"]
    /\ frames = <<>> /\ first = None /\ walked = FALSE
    /\ pos = 1 /\ parsed = 0 /\ ilParsed = 0
    /\ limit = [o \in Objects |-> 0] /\ statics = [o \in Objects |-> 0]
    /\ items = <<>> /\ queue = {} /\ current = 0 /\ budget = 0
    /\ size = 0 /\ frameSize = 0 /\ spent = <<>>

-----------------------------------------------------------------------------
(* Frames.                                                                 *)

Frame(p) == stack.frames[p]

\* PopulateDbgStackFrameHelper cannot tell what the frame is, or where in its
\* method.
Unreadable(p, process_il_frame) ==
    \/ Frame(p).kind = "bad"
    \/ process_il_frame /\ Frame(p).kind = "unmapped"

\* PopulateLocalVarsAndMethodArgs: symbols, a good mapping of the instruction
\* pointer and a visible sequence point at or before it.
HasSequencePoint(p) == Frame(p).kind \in {"il", "partial"}

\* DbgStackFrame::Initialize succeeds to its end; it keeps the variables it has
\* found when it does not.
InitializeSucceeds(p) == Frame(p).kind = "il"

\* ProcessLocalVariables, ProcessLocalConstants, ProcessMethodArguments.
Variables(p) == Frame(p).vars

\* ProcessAsyncMethod: the frame is in the MoveNext of a state machine.
InAsyncMethod(p) == Frame(p).async

\* PopulateDbgStackFrameHelper: native code gives an empty frame; without
\* process_il_frame, without symbols or outside IL only the names are known.
PopulateDbgStackFrame(p, process_il_frame) ==
    LET initialized == process_il_frame /\ HasSequencePoint(p)
    IN  [at |-> p,
         empty |-> Frame(p).kind = "native",
         processed |-> initialized /\ InitializeSucceeds(p),
         async |-> initialized /\ InAsyncMethod(p),
         vars |-> IF initialized THEN Variables(p) ELSE <<>>]

\* ICorDebugStackWalk::Next fails after the last frame of a torn stack.
NextFails(p) == stack.torn /\ p >= Len(stack.frames)

\* PopulateAsyncStackFrameInfo: the method is two frames further down.
AsyncInfoFails(p) ==
    p + 2 <= Len(stack.frames) => Unreadable(p + 2, FALSE)

\* How far the walk goes on from a frame.
Advance(f) == IF f.async THEN 3 ELSE 1

-----------------------------------------------------------------------------
(* Conditions and expressions.                                             *)

\* ProcessFirstStack: the frames it may return, None when it fails.
ProcessFirstStack ==
    IF first # None THEN {first}
    ELSE LET f == PopulateDbgStackFrame(1, TRUE)
         IN  {IF Unreadable(1, TRUE) \/ (f.async /\ AsyncInfoFails(1)) THEN None ELSE f}
             \cup (IF Fails("ActiveFrame") THEN {None} ELSE {})

\* Conditions and expressions are evaluated on a processed frame only.
Usable(f) == IF f = None THEN FALSE ELSE f.processed

\* A breakpoint without a condition.
SkipCondition ==
    /\ pc = "condition" /\ n <= Len(batch) /\ ~batch[n].condition
    /\ pc' = "expressions"
    /\ UNCHANGED <<hitVars, n, answered, walkVars, cacheVars, reportVars>>

\* EvaluateBreakpointCondition: the condition is met, is not met, or cannot be
\* evaluated, as on a frame that is not processed.
EvaluateBreakpointCondition ==
    /\ pc = "condition" /\ n <= Len(batch) /\ batch[n].condition
    /\ first' \in ProcessFirstStack
    /\ \/ /\ Usable(first')
          /\ pc' = "expressions"
          /\ UNCHANGED <<n, answered>>
       \/ /\ Usable(first')
          /\ answered' = [answered EXCEPT ![n] = "unmet"]
          /\ n' = n + 1
          /\ pc' = "condition"
       \/ /\ ~Usable(first') \/ Fails("Evaluate")
          /\ pc' = "error"
          /\ UNCHANGED <<n, answered>>
    /\ UNCHANGED <<hitVars, frames, walked, pos, parsed, ilParsed, cacheVars,
                   reportVars>>

\* EvaluateExpressions on a frame: an expression is the name of a local
\* variable, and its value is the DbgObject of that variable.
Evaluates(f) ==
    \A i \in 1..Len(batch[n].expressions) :
        \E j \in 1..Len(f.vars) : f.vars[j] = batch[n].expressions[i]

\* ProcessExpressions.
ProcessExpressions ==
    /\ pc = "expressions"
    /\ IF batch[n].expressions = <<>>
       THEN /\ pc' = "walk"
            /\ UNCHANGED first
       ELSE /\ first' \in ProcessFirstStack
            /\ \/ /\ Usable(first') /\ Evaluates(first')
                  /\ pc' = "walk"
               \/ /\ Usable(first') => ~Evaluates(first') \/ Fails("Evaluate")
                  /\ pc' = "error"
    /\ UNCHANGED <<hitVars, n, answered, frames, walked, pos, parsed, ilParsed,
                   cacheVars, reportVars>>

-----------------------------------------------------------------------------
(* WalkStackAndProcessStackFrame.                                          *)

\* Faulty variant: an asynchronous first frame is skipped like any other.
SkipOne(f) == 1

\* What is skipped of the stack when the first frame is known.
StackToSkip(f) == IF f.async THEN 3 ELSE 1

\* What a frame adds to il_frame_parsed_so_far.
IlFrames(f) == IF f.processed THEN 1 ELSE 0

\* The stack is walked once; a first frame that is already known is taken over
\* and skipped.
WalkStack ==
    /\ pc = "walk" /\ ~walked
    /\ frames' = IF first = None THEN frames ELSE Append(frames, first)
    /\ parsed' = IF first = None THEN 0 ELSE 1
    /\ ilParsed' = IF first = None THEN 0 ELSE IlFrames(first)
    /\ pos' = IF first = None THEN 1 ELSE 1 + StackToSkip(first)
    /\ IF first # None /\ NextFails(pos' - 1)
       THEN walked' = TRUE /\ pc' = "error"
       ELSE walked' = walked /\ pc' = "frame"
    /\ UNCHANGED <<hitVars, n, answered, first, cacheVars, reportVars>>

AlreadyWalked ==
    /\ pc = "walk" /\ walked
    /\ pc' = "populate"
    /\ UNCHANGED <<hitVars, n, answered, walkVars, cacheVars, reportVars>>

\* CreateStackWalk fails.
WalkUnavailable ==
    /\ pc = "walk" /\ ~walked /\ Fails("StackWalk")
    /\ pc' = "error"
    /\ UNCHANGED <<hitVars, n, answered, walkVars, cacheVars, reportVars>>

WalkGoesOn == pc = "frame" /\ parsed < kMaximumStackFrames
              /\ pos <= Len(stack.frames)

ProcessIlFrame == ilParsed < kMaximumStackFramesWithVariables

Walked == PopulateDbgStackFrame(pos, ProcessIlFrame)

\* One turn of the loop.  When Next fails the walk counts as done.
WalkFrame ==
    /\ WalkGoesOn
    /\ ~Unreadable(pos, ProcessIlFrame)
    /\ Walked.async => ~AsyncInfoFails(pos)
    /\ frames' = Append(frames, Walked)
    /\ parsed' = parsed + 1
    /\ ilParsed' = ilParsed + IlFrames(Walked)
    /\ pos' = pos + Advance(Walked)
    /\ IF NextFails(pos' - 1)
       THEN walked' = TRUE /\ pc' = "error"
       ELSE UNCHANGED <<walked, pc>>
    /\ UNCHANGED <<hitVars, n, answered, first, cacheVars, reportVars>>

\* The loop returns on a frame it cannot read.  What it has collected stays.
WalkFails ==
    /\ WalkGoesOn
    /\ Unreadable(pos, ProcessIlFrame) \/ (Walked.async /\ AsyncInfoFails(pos))
    /\ pc' = "error"
    /\ UNCHANGED <<hitVars, n, answered, walkVars, cacheVars, reportVars>>

\* Enough frames, or no more of them.
WalkEnds ==
    /\ pc = "frame" /\ ~WalkGoesOn
    /\ walked' = TRUE
    /\ pc' = "populate"
    /\ UNCHANGED <<hitVars, n, answered, frames, first, pos, parsed, ilParsed,
                   cacheVars, reportVars>>

-----------------------------------------------------------------------------
(* VariableWrapper::PerformBFS and the PopulateMembers of the wrappers.    *)

\* A variable added to the report.  A static member is read once and then
\* taken from static_class_members_.
Variable(o, level, status) ==
    [obj |-> o, level |-> level, frame |-> current', state |-> status,
     shown |-> 0,
     read |-> IF Kind[o] = "static" /\ statics[o] # 0 THEN statics[o] ELSE hit]

\* The DbgObject could not be created, or IDbgClassMember::Evaluate fails.
EvaluateFails(o) == Kind[o] = "unevaluated"

\* Variables without a DbgObject are named and not queued.
Roots(objs) == [i \in 1..Len(objs) |-> Variable(objs[i], 1, "named")]

Queued(from, new) ==
    {from + i : i \in {k \in 1..Len(new) : ~EvaluateFails(new[k].obj)}}

\* bfs_queue.front(): variables are queued in the order in which they are added
\* to the report.
Front == CHOOSE i \in queue : \A j \in queue : i <= j

\* Faulty variant: the larger limit for all of a breakpoint with expressions.
MaximumOfBreakpoint ==
    IF batch[n].expressions # <<>> THEN Unlimited ELSE kMaximumCollectionSize

GetMaximumCollectionSize == IF current = 0 THEN Unlimited ELSE kMaximumCollectionSize

\* DbgArray keeps the limit it is first given.  A list gives its array its own
\* size as the limit when that is smaller, and a limit of 0 counts as none.
CollectionLimit(o) ==
    IF limit[o] # 0 THEN limit[o]
    ELSE IF Kind[o] = "list" /\ Count[o] \in 1..(GetMaximumCollectionSize - 1)
    THEN Count[o]
    ELSE GetMaximumCollectionSize

Smaller(a, b) == IF a < b THEN a ELSE b

FirstOf(s, k) == SubSeq(s, 1, Smaller(Len(s), k))

\* ProcessFields and ProcessProperties.
ClassMembers(o) == Members[o]

UsedSlots(o) == {i \in 1..Len(Members[o]) : Kind[Members[o][i]] # "free"}

NthUsedSlot(o, k) ==
    CHOOSE i \in UsedSlots(o) : Cardinality({j \in UsedSlots(o) : j <= i}) = k

\* What is in the slots in use, in their order.
Used(o) ==
    [k \in 1..Cardinality(UsedSlots(o)) |-> Members[o][NthUsedSlot(o, k)]]

\* The members that are shown.  A hash set or a dictionary passes over the slots
\* it does not use and asks for the limit every time.
Expansion(o) ==
    CASE Kind[o] = "class" -> ClassMembers(o)
      [] Kind[o] = "set" ->
            FirstOf(Used(o), Smaller(Count[o], GetMaximumCollectionSize))
      [] OTHER -> FirstOf(Members[o], CollectionLimit(o))

Composite(o) == Kind[o] \in {"class", "array", "list", "set"}

\* Faulty variant: a frame is measured by the size of the whole report.
ExhaustedByReport == IF current = 0 THEN size > kMaximumBreakpointSize
                                    ELSE size > budget

\* The report or the frame has reached its limit: terminate_condition.
Exhausted == IF current = 0 THEN size > kMaximumBreakpointSize
                            ELSE frameSize > budget

Grow(bytes) == size' = size + bytes /\ frameSize' = frameSize + bytes

\* What becomes of a variable without members, and what is written for it.  An
\* untyped one is a variable whose type or members cannot be got.
Leaf(v) ==
    IF Kind[v.obj] = "untyped" THEN [state |-> "error", bytes |-> 1]
    ELSE IF v.level >= kDefaultObjectEvalDepth
    THEN [state |-> "limit", bytes |-> 2]
    ELSE IF Kind[v.obj] = "null" THEN [state |-> "null", bytes |-> 1]
    ELSE [state |-> "value", bytes |-> 2]

Expandable(v) == Composite(v.obj) /\ v.level < kDefaultObjectEvalDepth

\* Faulty variant: the variable whose type is unknown stays in the queue.
PopulateLeafKept ==
    /\ pc = "bfs" /\ queue # {} /\ ~Exhausted
    /\ LET i == Front
           v == items[i]
       IN  /\ ~Expandable(v)
           /\ items' = [items EXCEPT ![i].state = Leaf(v).state]
           /\ Grow(Leaf(v).bytes - (IF Leaf(v).state = "error" THEN 1 ELSE 0))
           /\ queue' = IF Leaf(v).state = "error" THEN queue ELSE queue \ {i}
    /\ UNCHANGED <<hitVars, n, pc, answered, walkVars, cacheVars, current, budget,
                   spent>>

\* One turn of PerformBFS that puts nothing into the queue.
PopulateLeaf ==
    /\ pc = "bfs" /\ queue # {} /\ ~Exhausted
    /\ LET i == Front
           v == items[i]
       IN  /\ ~Expandable(v)
           /\ items' = [items EXCEPT ![i].state = Leaf(v).state]
           /\ Grow(Leaf(v).bytes)
           /\ queue' = queue \ {i}
    /\ UNCHANGED <<hitVars, n, pc, answered, walkVars, cacheVars, current, budget,
                   spent>>

\* One turn of PerformBFS that names the members of a variable and queues
\* those that could be evaluated.  A collection also gets a Count.
PopulateMembers ==
    /\ pc = "bfs" /\ queue # {} /\ ~Exhausted
    /\ current' = current
    /\ LET i == Front
           v == items[i]
           shown == Expansion(v.obj)
           new == [k \in 1..Len(shown) |->
                     Variable(shown[k], v.level + 1,
                              IF EvaluateFails(shown[k]) THEN "error" ELSE "named")]
       IN  /\ Expandable(v)
           /\ items' = [items EXCEPT ![i] = [@ EXCEPT !.state = "members",
                                                      !.shown = Len(shown)]] \o new
           /\ queue' = (queue \ {i}) \cup Queued(Len(items), new)
           /\ Grow(1 + Len(shown) + (IF Kind[v.obj] \in {"list", "set"} THEN 1 ELSE 0))
           /\ limit' = IF Kind[v.obj] \in {"array", "list"}
                       THEN [limit EXCEPT ![v.obj] = CollectionLimit(v.obj)]
                       ELSE limit
           /\ statics' = [o \in Objects |->
                            IF statics[o] = 0 /\ Kind[o] = "static"
                               /\ \E k \in 1..Len(shown) : shown[k] = o
                            THEN hit ELSE statics[o]]
    /\ UNCHANGED <<hitVars, n, pc, answered, walkVars, budget, spent>>

-----------------------------------------------------------------------------
(* PopulateBreakpoint and PopulateStackFrames.                             *)

\* An int gets the value of an unsigned 32-bit expression.
ToInt(u) == IF 2 * u >= Word THEN u - Word ELSE u

Left(bytes) == (kMaximumBreakpointSize - bytes) % Word

\* PopulateBreakpoint lists the expressions, and PopulateExpression names each
\* of them again for its value.
PopulateBreakpoint ==
    /\ pc = "populate"
    /\ current' = 0
    /\ items' = Roots(batch[n].expressions)
    /\ queue' = Queued(0, items')
    /\ size' = 1 + 2 * Len(batch[n].expressions)
    /\ frameSize' = 0 /\ budget' = 0 /\ spent' = <<>>
    /\ pc' = "bfs"
    /\ UNCHANGED <<hitVars, n, answered, walkVars, cacheVars>>

\* Faulty variant: every frame may fill what is left.
BFSEndsWithAll ==
    /\ pc = "bfs" /\ (queue = {} \/ Exhausted)
    /\ queue' = {}
    /\ spent' = IF current = 0 THEN spent
                ELSE Append(spent, [budget |-> budget, size |-> frameSize])
    /\ IF current # 0 /\ size > kMaximumBreakpointSize
       THEN pc' = "write" /\ UNCHANGED budget
       ELSE pc' = "frames" /\ budget' = kMaximumBreakpointSize
    /\ UNCHANGED <<hitVars, n, answered, walkVars, cacheVars, items, current,
                   size, frameSize>>

\* PerformBFS returns.  The frames end when the report is full; otherwise the
\* next one may fill half of what is left.
BFSEnds ==
    /\ pc = "bfs" /\ (queue = {} \/ Exhausted)
    /\ queue' = {}
    /\ spent' = IF current = 0 THEN spent
                ELSE Append(spent, [budget |-> budget, size |-> frameSize])
    /\ IF current # 0 /\ size > kMaximumBreakpointSize
       THEN pc' = "write" /\ UNCHANGED budget
       ELSE pc' = "frames" /\ budget' = ToInt(Left(size) \div 2)
    /\ UNCHANGED <<hitVars, n, answered, walkVars, cacheVars, items, current,
                   size, frameSize>>

\* number_of_processed_il_frames_ is never assigned.
NumberOfProcessedIlFrames == 0

ProcessedSoFar == Cardinality({i \in 1..current : frames[i].processed})

\* PopulateStackFrames, the next frame: an empty one is only named; the
\* variables of another one are named and queued.
PopulateStackFrame ==
    /\ pc = "frames" /\ current < Len(frames)
    /\ current' = current + 1
    /\ budget' = IF ProcessedSoFar = NumberOfProcessedIlFrames - 1
                 THEN ToInt(Left(size)) ELSE budget
    /\ LET f == frames[current']
           new == Roots(f.vars)
       IN  IF f.empty
           THEN /\ size' = size + 1
                /\ spent' = Append(spent, [budget |-> budget', size |-> 1])
                /\ UNCHANGED <<pc, items, queue, frameSize>>
           ELSE /\ pc' = "bfs"
                /\ items' = items \o new
                /\ queue' = Queued(Len(items), new)
                /\ frameSize' = 1 + Len(f.vars)
                /\ size' = size + 1 + Len(f.vars)
                /\ UNCHANGED spent
    /\ UNCHANGED <<hitVars, n, answered, walkVars, cacheVars>>

FramesEnd ==
    /\ pc = "frames" /\ current = Len(frames)
    /\ pc' = "write"
    /\ UNCHANGED <<hitVars, n, answered, walkVars, cacheVars, reportVars>>

-----------------------------------------------------------------------------
(* ProcessBreakpointsTask.                                                 *)

\* The report, or the breakpoint with an error, is written to the agent.  The
\* loop ends when that fails.
WriteBreakpoint ==
    /\ pc \in {"write", "error"}
    /\ \/ /\ answered' = [answered EXCEPT
                            ![n] = IF pc = "write" THEN "report" ELSE "error"]
          /\ n' = n + 1
          /\ pc' = "condition"
       \/ /\ Fails("Write")
          /\ answered' = [answered EXCEPT ![n] = "lost"]
          /\ pc' = "end"
          /\ UNCHANGED n
    /\ UNCHANGED <<hitVars, walkVars, cacheVars, reportVars>>

TaskEnds ==
    /\ pc = "condition" /\ n > Len(batch)
    /\ pc' = "end"
    /\ UNCHANGED <<hitVars, n, answered, walkVars, cacheVars, reportVars>>

\* A task of its own, with a StackFrameCollection of its own, for every hit.
NewTask ==
    /\ pc = "end" /\ hit < MaxHits
    /\ stack' \in Stacks /\ batch' \in Batches /\ hit' = hit + 1
    /\ n' = 1 /\ pc' = "condition"
    /\ answered' = [i \in 1..Len(batch') |-> "pending"]
    /\ frames' = <<>> /\ first' = None /\ walked' = FALSE
    /\ pos' = 1 /\ parsed' = 0 /\ ilParsed' = 0
    /\ limit' = [o \in Objects |-> 0]
    /\ items' = <<>> /\ queue' = {} /\ current' = 0 /\ budget' = 0
    /\ size' = 0 /\ frameSize' = 0 /\ spent' = <<>>

\* Faulty variant: static_class_members_ is not cleared.
NextHitKeepsStatics == NewTask /\ UNCHANGED statics

\* SignalFinishedPrintingVariable has cleared static_class_members_ by the time
\* of the next hit.
NextHit == NewTask /\ statics' = [o \in Objects |-> 0]

Process ==
    \/ SkipCondition \/ EvaluateBreakpointCondition \/ ProcessExpressions
    \/ WalkStack \/ AlreadyWalked \/ WalkUnavailable
    \/ WalkFrame \/ WalkFails \/ WalkEnds
    \/ PopulateBreakpoint \/ PopulateLeaf \/ PopulateMembers \/ BFSEnds
    \/ PopulateStackFrame \/ FramesEnd
    \/ WriteBreakpoint \/ TaskEnds

Next == Process \/ NextHit

Spec == Init /\ [][Next]_vars

\* The task runs on a thread of its own and waits for nothing outside the
\* evaluations, which EvalCoordinator is about.
FairSpec == Spec /\ WF_vars(Process)

-----------------------------------------------------------------------------
(* Properties.                                                             *)

Reporting == pc \in {"populate", "bfs", "frames", "write"}

\* The stack of a report is the stack of the thread, from its top to its end or
\* to kMaximumStackFrames: no frame twice and none left out but the two below
\* an asynchronous method, whichever breakpoint of the hit took the first frame
\* and whichever one walked the rest.
FramesFollowStack ==
    Reporting =>
        /\ frames # <<>> /\ frames[1].at = 1
        /\ \A i \in 1..(Len(frames) - 1) :
               frames[i + 1].at = frames[i].at + Advance(frames[i])
        /\ \/ Len(frames) = kMaximumStackFrames
           \/ LET last == frames[Len(frames)]
              IN  last.at + Advance(last) > Len(stack.frames)

\* What is missing in a report is missing because of a size limit: a variable
\* that is named without a value stands in a frame that has exceeded its share
\* of the size, or among expressions that exceed the size of a report, and a
\* frame is left out only of a report that is full.
MissingOnlyForSize ==
    pc = "write" =>
        /\ \A i \in 1..Len(items) :
               LET v == items[i]
               IN  v.state = "named" /\ ~EvaluateFails(v.obj) =>
                       IF v.frame = 0 THEN size > kMaximumBreakpointSize
                       ELSE spent[v.frame].size > spent[v.frame].budget
        /\ current < Len(frames) => size > kMaximumBreakpointSize

\* kMaximumBreakpointSize, "Breakpoint proto's size should not contain more
\* bytes of information than this number": a report exceeds it by no more than
\* one step of the search and the names of the frames in native code, provided
\* that its expressions fit into it, so that no frame was given more.
FramesWithinSize ==
    (\A i \in 1..Len(spent) : spent[i].budget <= kMaximumBreakpointSize)
    /\ budget <= kMaximumBreakpointSize
        => \E bytes \in StepSizes(stack, batch) :
               size <= kMaximumBreakpointSize + bytes + kMaximumStackFrames

\* The value reported for a static member was read during this hit: the cache
\* shared by all classes never outlives the stop it was filled in.
StaticsAreOfThisHit ==
    \A i \in 1..Len(items) : items[i].read = hit

\* S contains what the expressions of this breakpoint and of the earlier ones of
\* the hit have named, and with a class its members, which a DbgClass creates
\* once.
ClosedUnderExpressions(S) ==
    /\ \A j \in 1..n : j <= Len(batch) =>
           \A k \in 1..Len(batch[j].expressions) : batch[j].expressions[k] \in S
    /\ \A o \in S : Kind[o] = "class" =>
           \A k \in 1..Len(Members[o]) : Members[o][k] \in S

\* Named by an expression, or reached from such an object through classes.
NamedByExpression(o) ==
    \A S \in SUBSET Objects : ClosedUnderExpressions(S) => o \in S

\* kMaximumCollectionSize, "Maximum amount of items returned in a collection
\* when not evaluating an expression": a collection among the variables of a
\* frame shows more items than that only when an expression of this breakpoint,
\* or of an earlier one of the hit, has named the very same object or one that
\* has it as a member.
CollectionsWithinLimit ==
    \A i \in 1..Len(items) :
        (/\ items[i].frame # 0 /\ Kind[items[i].obj] # "class"
         /\ items[i].shown > kMaximumCollectionSize)
        => NamedByExpression(items[i].obj)

\* The task ends, whatever the debuggee's values look like, and has by then
\* answered every breakpoint, up to the one that could not be written.
EveryBreakpointIsAnswered ==
    (pc = "condition" /\ n = 1) ~>
        /\ pc = "end"
        /\ \A i \in 1..Len(batch) :
               answered[i] = "pending" =>
                   \E j \in 1..(i - 1) : answered[j] = "lost"

-----------------------------------------------------------------------------
(* The inductive strengthenings.                                           *)

\* In what follows a walk is the k frames of fs after position d.

\* Where the walk is, and whether it still asks for variables.
WalkPosition(fs, d, k) == IF k = 0 THEN 1 ELSE fs[d + k].at + Advance(fs[d + k])

IlCount(fs, d, k) == Cardinality({j \in 1..k : fs[d + j].processed})

WithVariables(fs, d, k) == IlCount(fs, d, k) < kMaximumStackFramesWithVariables

\* The walk returns at frame p.
FailsAt(p, process_il_frame) ==
    \/ Unreadable(p, process_il_frame)
    \/ PopulateDbgStackFrame(p, process_il_frame).async /\ AsyncInfoFails(p)

\* The k frames are what a walk collects from the top of the stack.
IsWalk(fs, d, k) ==
    /\ k <= kMaximumStackFrames
    /\ \A i \in 1..k :
          LET p == WalkPosition(fs, d, i - 1)
              il == WithVariables(fs, d, i - 1)
          IN  /\ p <= Len(stack.frames) /\ ~FailsAt(p, il)
              /\ fs[d + i] = PopulateDbgStackFrame(p, il)

Complete(fs, d, k) ==
    k = kMaximumStackFrames \/ WalkPosition(fs, d, k) > Len(stack.frames)

\* fs begins with the frames of a walk that could not go on: no walk of this
\* stack is ever complete.
Blocked(fs) ==
    \E k \in 1..Len(fs) :
        /\ IsWalk(fs, 0, k) /\ ~Complete(fs, 0, k)
        /\ FailsAt(WalkPosition(fs, 0, k), WithVariables(fs, 0, k))

\* fs is what a walk collects that comes to its end.
Finished(fs) ==
    fs # <<>> /\ IsWalk(fs, 0, Len(fs)) /\ Complete(fs, 0, Len(fs))

\* The last k frames of fs are those of a walk that is at frame p and has met il
\* frames with variables; what is in front of them a walk that failed has left.
Walking(fs, k, p, il) ==
    LET d == Len(fs) - k
    IN  /\ d >= 0 /\ IsWalk(fs, d, k)
        /\ p = WalkPosition(fs, d, k) /\ il = IlCount(fs, d, k)
        /\ d > 0 => Blocked(fs)

\* What a walk that has failed left in stack_frames_ is in front of what the
\* next one collects, and that one fails too.
WalkInv ==
    /\ first # None =>
          first = PopulateDbgStackFrame(1, TRUE) /\ ~FailsAt(1, TRUE)
    /\ Reporting => walked
    /\ walked => pc # "frame" /\ Finished(frames)
    /\ ~walked /\ pc # "frame" /\ frames # <<>> => Blocked(frames)
    /\ pc = "frame" => Walking(frames, parsed, pos, ilParsed)

\* The static members in the cache were read during this hit.
StaticsInv ==
    /\ \A o \in Objects : statics[o] \in {0, hit}
    /\ StaticsAreOfThisHit

\* The variable is only named, though it has a value.
Unread(v) == v.state = "named" /\ ~EvaluateFails(v.obj)

\* The expressions or the frame of v have exceeded their size, in a report of
\* that many bytes that has spent sp.
OutOfSize(v, bytes, sp) ==
    \/ v.frame = 0 /\ bytes > kMaximumBreakpointSize
    \/ v.frame \in 1..Len(sp) /\ sp[v.frame].size > sp[v.frame].budget

\* A variable that has only been named is in the queue, or its frame has ended
\* for its size.
QueueInv ==
    /\ pc # "bfs" => queue = {}
    /\ \A i \in queue : items[i].frame = current
    /\ pc = "bfs" => IF current = 0 THEN spent = <<>> ELSE Len(spent) = current - 1
    /\ pc = "frames" => Len(spent) = current
    /\ pc = "write" => current = Len(frames) \/ size > kMaximumBreakpointSize
    /\ \A i \in 1..Len(items) :
          Unread(items[i]) => i \in queue \/ OutOfSize(items[i], size, spent)

\* No frame was given more than the size of a report.
BudgetsFit ==
    /\ \A i \in 1..Len(spent) : spent[i].budget <= kMaximumBreakpointSize
    /\ budget <= kMaximumBreakpointSize

\* What a frame may fill is at most what the frames before it have left, not
\* counting those that are only named.
SizeInv ==
    /\ budget >= 0 /\ frameSize <= size
    /\ pc = "bfs" /\ current = 0 =>
          \E bytes \in StepSizes(stack, batch) : size <= kMaximumBreakpointSize + bytes
    /\ pc = "frames" /\ BudgetsFit =>
          size + budget <= kMaximumBreakpointSize + current
    /\ pc = "bfs" /\ current # 0 /\ BudgetsFit =>
          /\ (size - frameSize) + budget <= kMaximumBreakpointSize + current
          /\ \E bytes \in StepSizes(stack, batch) : frameSize <= budget + bytes
    /\ FramesWithinSize

\* A larger limit than that of a frame was given by an expression.
LimitInv ==
    \A S \in SUBSET Objects : ClosedUnderExpressions(S) =>
        /\ \A o \in Objects : limit[o] > kMaximumCollectionSize => o \in S
        /\ \A i \in 1..Len(items) :
              LET v == items[i]
              IN  /\ v.frame = 0 /\ Composite(v.obj) => v.obj \in S
                  /\ v.frame # 0 /\ Kind[v.obj] # "class"
                     /\ v.shown > kMaximumCollectionSize => v.obj \in S

=============================================================================
