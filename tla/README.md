# A TLA+ model of the .NET debugger agent

The repository holds a debugger for .NET programs that takes snapshots at
breakpoints "without stopping or slowing down your applications". Two processes
work together:

* the **agent** (C#, `src/Google.Cloud.Diagnostics.Debug`) registers the
  debuggee with the debugger service, polls it for breakpoints, starts the
  debugger, sends it breakpoints and reports hits to the service;
* the **debugger** (C++, `src/google_cloud_debugger`) attaches to the debuggee
  through ICorDebug, sets and removes breakpoints, and inspects the stopped
  debuggee at a hit.

They are joined by two named pipes, one per direction. This directory models
the parts of both in which steps of several threads and processes meet, and the
algorithms of the debugger that are hard to test (symbol files, metadata
signatures, name lookup, values), checks them with TLC and proves with TLAPS the
main safety properties of the concurrent parts, of the report of a hit, of the
caches of a stack frame and of the reader of symbol files.

Paths below are relative to the repository; `lib` is
`src/google_cloud_debugger/google_cloud_debugger_lib` and `agent` is
`src/Google.Cloud.Diagnostics.Debug/Google.Cloud.Diagnostics.Debug`.

## 1. Inventory

| Component | State | Operations | Meets |
|---|---|---|---|
| Breakpoint collection (`lib/breakpoint_collection`, `lib/breakpoint_location_collection`) | `location_to_breakpoints_`, per location the list of breakpoints and one native breakpoint, two pipe clients | `SyncBreakpoints`, `UpdateBreakpoint`, `EvaluateAndPrintBreakpoint`, `CancelSyncBreakpoints` | main thread and callback thread share it under a mutex, except for the search of the PDB files |
| Debugger callback (`lib/debugger_callback`) | `portable_pdbs_` | `LoadModule`, `Breakpoint`, `Exception`, `EvalComplete`, `EvalException`, `ExitProcess` | called by ICorDebug, one at a time; the debuggee is stopped until `Continue` |
| Evaluation coordinator (`lib/eval_coordinator`) | four flags, the active thread, two condition variables, the tasks | `ProcessBreakpoints`, `WaitForEval`, `SignalFinishedEval`, `SignalFinishedPrintingVariable`, `HandleException` | callback thread and inspection tasks |
| Breakpoint pipe (`lib/breakpoint_client`, `lib/named_pipe_client_*`, `agent/BreakpointServer`, `agent/NamedPipe`) | bytes in the pipe, the bytes left over from the last read | `WriteBreakpoint`, `ReadBreakpoint` | the two processes |
| Agent (`agent/Agent`, `agent/Breakpoint{Action,Read,Write}Server`) | `_cts`, `_tcs`, the wait of each loop | `StartAndBlock`, two action loops, `Dispose` | three threads |
| Breakpoint manager, debugger client (`agent/BreakpointManager`, `agent/DebuggerClient`) | the dictionary of breakpoints; the registered debuggee and a lock | `UpdateBreakpoints`; `Register`, `ListBreakpoints`, `UpdateBreakpoint` | both loops, and the service |
| Debugger life cycle (`lib/debugger`, `consoledebugger.cc`) | `kill_proc_`, `proc_id_`, the token, the ICorDebug objects, the reference count of the callback | `main`, `StartDebugging`, `CallbackFunction`, `DeactivateBreakpoints`, the destructor | main, a thread of dbgshim and the event thread of ICorDebug share one object without a lock |
| Breakpoint resolution (`lib/dbg_breakpoint`) | none | `TrySetBreakpoint` | PDB reader |
| Portable PDB reader (`lib/portable_pdb_file`, `metadata_*`, `custom_binary_reader`, `document_index`) | headers, five tables, one index per document; a stream with a position and a limit | `ParsePdbFile` and what it calls | main thread and tasks, on the same object |
| Stack walk and size budget (`lib/stack_frame_collection`, `variable_wrapper`) | a snapshot under construction, the walk that breakpoints of a hit share | walk, breadth-first expansion | an inspection task |
| Stack frame, ICorDebug helper (`lib/dbg_stack_frame`, `method_info`, `cor_debug_helper`, `i_cor_debug_helper`) | two caches per frame: types of the module, loaded assemblies | lookup of variables, members, classes, methods; metadata signatures | an inspection task, the metadata of several modules |
| Debuggee objects (`lib/dbg_object_factory`, `dbg_class*`, `dbg_enum`, `dbg_array`, `dbg_string`, ...) | copies of values and handles; static members per hit; constants of enumerations for ever | creation from a value or a constant, `PopulateMembers`, `PopulateValue` | an inspection task; evaluating a property lets the debuggee run |
| Compiler helpers (`lib/compiler_helpers`, `type_signature`) | none | kinds of types, numeric promotion, base classes | evaluators |
| Expression evaluator (`third_party/cloud-debug-java`) | the compiled tree | `Compile`, `Evaluate` | a stack frame |
| Logging client, conversions, options, stream wrapper | none | substitution, conversion, parsing | read loop |

What is hard here: the search of PDB files outside the lock; messages as the
only thing that keeps the agent's and the debugger's tables equal; failing
ICorDebug calls in the middle of an update; a callback thread that has to let
the debuggee run while a task waits for it; timeouts and unpredicated waits;
messages cut anywhere; RPC failures and registrations in the middle of a call;
three threads of the debugger that start and end without a lock; shutting down
three threads and two processes; symbol files that are read while they are being
written; caches that outlive the call, the frame or the hit that filled them;
metadata calls of which any may fail. `PROJECT.json` lists each of
these hazards at its line with the properties that cover it.

## 2. Modules

**BreakpointCollection** models the main thread (`SyncBreakpoints`), the
callback thread (`LoadModule`, `Breakpoint`, `ExitProcess`), the pipe from the
agent as a queue, and the native breakpoints. A section under the mutex is one
step; the search of the PDB files is one step per file. A failing external call
is an alternative of the action that makes it, enabled by the constant `Faults`.
Undefined behaviour, reading a vector that `LoadModule` has reallocated, is the
action `SyncReadsFreedStorage`, with a crash as one outcome and an intact old
storage as the other. The inspection at a hit is reduced to its reports.

**EvalCoordinator** opens that inspection up: the callback thread, the tasks,
the evaluations in the debuggee, and ICorDebug's rule that callbacks come one
at a time and the debuggee runs only after `Continue`. What `WaitForEval` does
between two waits is one step, since it holds the mutex. Four rare events
(timeout, spurious wake-up, an exception of the program's own, a failed
allocation) are enabled by the constant `Allowed`. `disturbed` is a history
variable: what befell the wait for an evaluation besides its end. The debugger's
crash when the result of an evaluation cannot be made an object is in
`DebuggeeObjects`; here it ends a behaviour.

**Inspection** is the abstract specification: a hit stops the debuggee and
starts one inspection, which reads a stopped debuggee and lets it run for its
evaluations only. `EvalCoordinator!ImplementsInspection` states the refinement;
the debuggee maps to `proc`, the inspection is derived from the tasks' control
points.

**Agent** models the agent's main, write and read threads with the lock of
`DebuggerClient`, `_cts`, `_tcs`, `BreakpointManager` and the back-off. The
service and the debugger process are external actions. A crash of the process
by an exception nobody catches is the variable `crashed`.

**BreakpointPipe** models one direction of the pipe: markers, pieces and the end
of the stream, with the reading code of the debugger on Unix, on Windows, or of
the agent (chosen in the initial state). A marker is two tokens so that a piece
can end within it.

**BreakpointReport** models what an inspection task computes while the debuggee
is stopped: conditions and expressions on the first frame, the stack walk that
the breakpoints of a hit share, and the report, filled breadth first until the
frame has used its share of the size. Frames and values are constants: a frame
has a kind (processed to the end, processed in part, native, without symbols,
unreadable), a value has a kind and members, and a name, a type and a value have
size 1. The state that outlives a breakpoint is what the properties are about:
`stack_frames_`, `first_stack_`, `stack_walked_`, the cached limit of a
collection and the cache of static members. The difference of sizes is taken
modulo `Word`, as the unsigned 32-bit expression of the code is. The queue of
`PerformBFS` is the set of the positions in the report that are in it: variables
are queued in the order in which they are added, so its front is the least one.
An array's elements are created anew whenever they are shown; elements that have
state of their own, that is arrays of arrays or of classes, are left out
(`ElementsAssumption`). An expression is the name of a local variable of the
first frame, which gives the very `DbgObject` of the frame.

**DebuggerLifecycle** models the debugger's process from `main` to the destructor
of `Debugger`: main, the thread of dbgshim that runs `CallbackFunction` at any
time after the registration, even before `RegisterForRuntimeStartup` returns, and
the event thread of ICorDebug. Every call may fail and does so in an alternative
of its own; `failed` remembers which. `kill_proc_` is the set of values it may
have: both, until it is assigned. `ref_count_` of the callback has no initialiser
and the project is built as C++11 and C++14: it starts with any value
(`first_count`) and wraps around; `holders` are the CComPtrs that refer to the
object. A `Release` on what has been deleted may crash the debugger (`Over`).
What `SyncBreakpoints` and a hit do
is left to the first two modules; the end of `SyncBreakpoints` depends on the
operating system (variable `os`) as `BreakpointPipe` has it.

**PdbStream** has the operators of `CustomBinaryStream` on real bytes: reading,
seeking, limits, compressed integers, strings. **PortablePdb** is `ParsePdbFile`
over them, one step per part of the file (headers, streams, tables, `#Pdb`, one
document each), called again and again until a call succeeds. The file may be cut
off at a byte, and the next call sees more of it. The reference is an encoder in
`MCPortablePdb`, which writes files from descriptions of documents, so that what
is read is compared with what was described. Loops are recursive functions
(`Repeat`), so that the theorems can speak of them.

**TypeSignatures**, **ClassLookup**, **NameLookup** and **Expressions** are what
happens between the text of an expression and its type: signatures of the
metadata, numeric promotion and kinds of types; the lookup of a class with the
two caches of a frame and in other modules; that of a name in a frame, in base
classes and among methods; and `Compile` of every evaluator. The first three are
modules of operators, with the caches passed along; in the fourth a frame compiles
one expression after the other. One call of
ICorDebug or the metadata may fail per expression, and the caches keep what the
failure left. `decl`, the declaration that a signature was encoded from, is there
for the properties only.

**FrameCache** is the abstract specification of `Expressions`: of a frame there is
only its module, and an expression, whatever it is, leaves each cache as it was or
fills it once, with one call failing. `Expressions!ImplementsFrameCache` states
the refinement, with the frame mapped to its module. **FrameClasses** is what the
two share: the frame, its caches, and what is promised about the classes that are
found. Since `FrameCache` uses only the operators of `ClassLookup`, none of which
is `RECURSIVE`, the promises can be proved of it.

**DebuggeeObjects** is the creation and the display of values: dereferencing and
unboxing, strings, classes with fields, properties, statics and base classes,
enumerations, and the constants of a method. 64-bit numbers are sets of bits. A
state is a report under construction; a member of a class that is not a value
type is read when it is shown, through a handle, as in the code. Static fields,
static properties and the constants of enumerations go through
`static_members`, under the key of `GetStaticCacheKey` (`Key`): the module, for
enumerations not yet known, the simple name of the class, and the member. What
is first put there stays for the hit, with the type it was made for. What a
creation adds to this cache and to `enum_values_dict` is its log, an object's
creation being an operator and not an action. A member whose metadata could not
be read is in the object all the same, not static or without a name as the two
calls of `GetFieldProps` leave it; `unread` remembers which enumerations were put
into the dictionary so. A null pointer that is followed sets `crashed` and ends
the behaviour. Items of arrays and collections are in `BreakpointReport`.

The modules `MC*` instantiate them for TLC, `*Proofs` hold the theorems.
Operators introduced as "Faulty variant" are plausible mistakes in the
definition that follows them. They are used by no specification; each shows that
a property can fail: substituted for that definition, it makes TLC find a
violation of the property `PROJECT.json` names ("mutants").

## 3. Runs

| Run | Shows |
|---|---|
| BreakpointCollection | `ListedIsActive`: additions, removals and failing calls never silence a breakpoint that is still listed. `NoDuplicates`: no breakpoint is listed twice. `AgentAndDebuggerAgree`: with nothing in flight or dropped, the debugger has what the agent's manager says. `EventuallyAgree`: the two ends converge. |
| EvalHandover | Until an evaluation times out, with all four rare events enabled: tasks read only a stopped debuggee (`InspectsStopped`) and one at a time (`OneInspection`), and what is reported of an evaluation happened during it (`OutcomeIsTrue`): an exception, only if the function threw or an exception was delivered during the wait; a value, only if none was, and the function returned or its result was taken on an early wake-up. Exceptions before and between evaluations change nothing. |
| EvalPromises | With exceptions of the program's own: the refinement of `Inspection` and `DebuggeeResumes`. The other rare events are left out: with any of the three the debuggee may stay stopped, see EvalHangTimeout and section 5; the refinement is proved for all but timeouts. |
| EvalHangTimeout (violated) | An evaluation that ends after its task gave up leaves the callback thread, and the debuggee, waiting for ever. |
| Agent | `ManagerMatchesPipe`: the dictionary is what the debugger was sent plus what is still to be sent. `DebuggerFollowsService`, `ReportGetsThrough`: progress in spite of failures, new registrations and the lock held during a long poll. |
| BreakpointPipe | `DeliveredInOrder`, `AllDelivered` at all three reading ends. |
| BreakpointReport | `FramesFollowStack`: the frames are those of the stack, whichever breakpoint of the hit evaluated on the first and walked the rest. `MissingOnlyForSize`: a variable without a value, or a frame left out, is due to a size limit. `FramesWithinSize`: when the expressions fit, a report exceeds the size limit by one step of the search and the names of the frames at most. `StaticsAreOfThisHit`: no static value of an earlier stop. `CollectionsWithinLimit`: only a collection that an expression of the hit has named, or that is a member of a class it has named, is shown beyond the limit. `EveryBreakpointIsAnswered`: the expansion ends and each breakpoint is answered, up to a failed write. |
| PortablePdb | `IndicesAreExact`: every document that any call has indexed, a failed one included, has the methods, points, scopes and variables that were written. `ParsedHasAllDocuments`: when the file counts as parsed, all its documents are there. `CompleteFileIsParsed`: a complete file is not refused. `NoLimitIsLeft`: no limit on the stream outlives the part it was set for. |
| Expressions | `KnownClassIsFound`: a class that the module defines or refers to is found, after enumerations that failed half way too, as long as none passed over a failure. `ClassKeepsMeaning`: whatever failed before and fails now, a class name is found as the class it has with empty caches, or not at all. `ImplementsFrameCache`: compiling does to the caches what `FrameCache` says and no more. `FailureKeepsType`: a failing call, now or for an earlier expression, makes a name fail, never mean something else. `DeclaredType`: what is read of a signature is what was declared. `PromotionIsLeast`: C#'s numeric promotion. |
| ExpressionTypes (violated) | "true + 8" is said to be refused by `Compile`; the promotion refuses only two operands that are both no numbers. |
| DebuggerLifecycle | `CallbackOutlivesEvents`: no event and no `Release` on a deleted callback, wherever its uninitialised count starts, but for three values just below the wrap-around. `OnlyLaunchedIsKilled`: at the end, an application that was launched is dead and one that was attached to was not killed. `AttachedIsReleased`, `SuspendedIsResumed`: nothing stays stopped or suspended, unless the call that would have helped failed. `ExitEndsDebugger`: the debugger ends when the agent asks for it and, on Windows, when the application exits. |
| DebuggeeObjects | `ShownIsTrue`: what is shown for a path is what the debuggee has there, whatever ran or failed in between, but that a static member may be that of a class of the same module and simple name. `ReportIsComplete`: whatever call fails, every variable has an entry and every class that is shown has one per field; without a failing call no error is shown without a cause, no constant is missing and nothing crashes. `ConstantIsExact`: constants have their declared values. `EnumIsExplained`: the names of a value are constants with different bits of it, and if all constants of its class could be read, the ones that explain it. `TypeOK`: what the caches hold and that a variable is reported once. |

**Bounds.** BreakpointCollection: three breakpoints, two of them at one location,
two locations with the same method token and offset in different modules, four
messages: enough to add, remove and add again at a shared location while a second
location is searched for. EvalCoordinator: two debuggee threads, two tasks and
three evaluations, so that a task evaluates twice and a second hit meets a
running evaluation. Agent: a snapshot point and a log point, two changes of the
service's list, three RPC failures (one past the cap of the back-off, which is
3 here) and one report. BreakpointPipe: an empty message, one of one byte and
one of three, with pieces of up to four bytes written and up to six read, and
two zero bytes of padding. BreakpointReport: batches of one and two breakpoints
out of seven, twelve stacks of up to six frames (limits: 4 frames, 2 of them with
variables, so that both are exceeded), depth 3 and a cyclic value that reaches
it, collections of 3 with a limit of 2, one of them a member of a class, a
report of size 16 that one frame or one breakpoint's expressions can fill, and
two hits for the static cache. DebuggerLifecycle: one breakpoint in one
application domain (what more of them change is proved, see section 4), six
reference counts, of which three are those of the property, every other value is
finite in the code. PortablePdb: a
file with two documents and methods of all kinds, cut at every byte, one with
wide heap indices and one without code, and two calls, so that a failed one is
followed by one that sees more; strings longer than the buffer of 4; `kUInt32` is
the largest number TLC computes with, above every offset of these files, so that
an offset wraps around in the proofs only.
Expressions: three modules, two of which define the same class, one with two
classes of one simple name and a class that it both defines and refers to, frames
that are static, instance and generic, portions of two types per enumeration, so
that a portion can fail in the middle. DebuggeeObjects: two hits, one failing
call per hit of 41 that may (those that lead to a crash or leave an enumeration
without a constant among them), references of up to the limit of 3, a class that
refers to itself, two nested classes of one simple name of which one has a static
field and the other a static property of one name, and two instantiations of a
generic class with a static field.

**Fairness.** Threads of the operating system are weakly fair; the messages of
the agent, hits, module loads and failures are not assumed to happen. An
evaluation ends at some time (possibly later than the timeout). In `Agent` the
lock of `DebuggerClient` is strongly fair for the read thread: the write thread
takes it again after releasing it for moments, and the .NET monitor does not
starve a waiter for ever; without this `ReportGetsThrough` cannot be expected. A
long poll is answered because the request asks for `SuccessOnTimeout`. In
`BreakpointReport` the task's own steps are weakly fair; that its evaluations
come back is what `EvalCoordinator` is about. In `DebuggerLifecycle` main and the
event thread are weakly fair; dbgshim may never call back, and a read that fails
for a reason of its own is not assumed.

**Deadlock** is checked only for the expressions, which go on for ever. The
debugger and the agent may stop: when the debuggee has exited, when the agent has
sent its kill breakpoint, when the last task or the destructor has ended; and
models stop when their bounds are used up.

## 4. Proofs

TLAPS proves for every value of the constants, given the named assumptions of
the modules. Most of these give constants their types, among them
`ModulesAssumption` of `ClassLookup` (rows are numbered from 1 and have names) and
`FilesAssumption` of `PortablePdb` (a file is any sequence of bytes, and may be
cut off anywhere). Three say more:
`BodiesAssumption` of `BreakpointPipe` (a message is what it is serialised to, so
at most one is empty), and of `BreakpointReport` `ElementsAssumption` (see
section 2) and `SizesAssumption` (what one step of the search adds is far from
wrapping 32 bits, `Word` in the model).

* `BreakpointCollectionProofs`: `TypeCorrect`, `ListedIsActiveHolds`,
  `NoDuplicatesHolds`, `AgentAndDebuggerAgreeHolds`. `ListedIsActive` is not
  inductive: a removal deactivates the native breakpoint when no listed
  breakpoint has `Activated()`, and only because at most one listed breakpoint
  lacks it (`OneNotActivated`) is that one the breakpoint being removed. A
  location enters the map with a native breakpoint activated outside the lock,
  hence `UnknownIsFresh`. `TableInv` is the conjunction; lemmas say what
  `Erase`, `Append` and the helper do to it. That the two ends agree follows
  from `MessagesAlternate`: of the messages about one breakpoint, from the one
  being applied to the last in the pipe, the first is what the debugger's list
  calls for, each next one undoes the one before it, and the last is what the
  agent wants. An update that fails, or finds no PDB file, takes its breakpoint
  out of the claim (`dropped`).
* `EvalCoordinatorProofs`: `TypeCorrect`, `InspectsStoppedHolds`,
  `OneInspectionHolds` from `HandoverInv`: a task that is not waiting holds the
  callback thread in, or on its way to, a wait whose flag is not set (`Held`),
  and so does one whose evaluation is over (`TasksHold`); a task is started only
  when no other is live (`StartsAlone`). `CoordinatorImplementsInspection`
  (assuming no timeout) uses the same invariant. `OutcomeIsTrueHolds`
  assumes nothing about the rare events. It adds `OutcomeInv`: an evaluation that
  runs has a task that waits for it (`EvalsAreAwaited`), and while a task waits
  the flag says how its evaluation ended or that an exception was delivered
  (`FlagTellsOutcome`). Inductive is this only with what an early wake-up leaves
  behind: the callback of the evaluation before sets the flag during the next
  wait, but it has let nobody continue the debuggee, so that this wait has no
  outcome.
* `AgentProofs`: `ManagerMatchesPipeHolds` and `NothingSentTwiceHolds` (the write
  thread activates and deactivates a breakpoint in turn) from `PipeInv`: outside
  of `MainAction`'s writes nothing is left to write. `TypeCorrect`: the read
  thread has a breakpoint whenever it reports one, and the wait of a loop stays
  within its cap.
* `BreakpointPipeProofs`: `TypeCorrect` and `DeliveredInOrderHolds`, for messages
  and buffers of any size and all three reading ends. `StreamInv`: the bytes that
  are left over, being looked at, in the pipe and still to be written are the
  frames of exactly the messages sent and not yet returned, wherever they are
  cut, until the stream has ended (`AtEnd`). `IsStream` says this with the
  positions where the frames end as witness, in place of a recursion over the
  messages. The lemma that carries the proof: the first end marker in such a
  stream is that of its first frame.
* `BreakpointReportProofs`: `TypeCorrect` and all five invariants of the run, for
  every heap, stack, batch of breakpoints and limit.
  `FramesFollowStackHolds` rests on `WalkInv`: a walk in progress has collected
  what a walk of the stack collects up to its position, and a finished one is
  complete. A walk that fails leaves its frames in `stack_frames_`, in front of
  what the next breakpoint's walk collects; they are never reported because that
  walk meets the same obstacle (`WalksAgree`, `NoWayAround`).
  `MissingOnlyForSizeHolds` rests on `QueueInv`: a variable that has only been
  named is in the queue, or its frame has exceeded its size.
  `FramesWithinSizeHolds` uses `SizeInv`: what a frame may still fill is at most
  what the frames before it have left, and with `WalkInv` a frame's variables are
  those of a frame of the stack, so that one step adds no more than
  `SizesAssumption` is about.
  `StaticsAreOfThisHitHolds` uses `StaticsInv`, that the cache is emptied at each
  hit. `CollectionsWithinLimitHolds` uses `LimitInv`: a limit above that of a
  frame was given by an expression. An attempt to prove the property without the
  members of named classes failed, with reason: a class named by an expression
  hands the limit of expressions on to the arrays among its members, which keep
  it when they are shown in a frame. The property now says so, and the instance
  has such a class (`box`).
* `DebuggerLifecycleProofs`: six invariants from one, `Inv`. `Ordered` says what
  main has done before it is where it is; this is all that orders it with the
  other threads, and gives `StartupSeesDebuggerHolds` and `HitsSeeOptionsHolds`.
  `Counted` says who holds references to the callback (main and the collection
  from `Initialize` on, ICorDebug three while it has the handler) and that the
  count differs from them by the value it started with, modulo 2^32 and for every
  such value; `CallbackOutlivesEventsHolds` follows. That the count starts at 0 is
  assumed nowhere.
  `Ending` carries what was launched from the failure or the end of the reading
  to `kill`, for `OnlyLaunchedIsKilledHolds`. `LeftActiveOnlyForItsFailureHolds`
  is inductive by itself. The proof has one step per action and one per conjunct.
* `FrameCacheProofs`: `TypeCorrect`, `KnownClassIsAlwaysFound` and
  `ClassAlwaysKeepsMeaning`, for every list of modules and every set of failing
  calls. None of the three is inductive: what is found depends on rows that were
  cached any number of expressions ago. `CacheInv` says that each cached token is
  a row with the name it is cached under (`DictsAreRows`), that the assemblies are
  cached all or not at all (`AllOrNone`), and that caches flagged as filled are
  complete unless a failure was passed over (`FilledIsComplete`). One lemma per
  enumeration says what it leaves behind when it fails; `FoundClass` and
  `ClassIsFound` say what `GetClassTokenAndModule` returns with such caches. Of
  `ClassAlwaysKeepsMeaning` the unrestricted form is false, for the reason given
  in section 5: it is about names that are not ambiguous (`Unambiguous`).
* `PortablePdbProofs`: `TypeCorrect` and `NoLimitIsEverLeft`, for every file of
  bytes, well formed or not, cut off anywhere. `PdbInv` adds to the two where the
  call is (`turn`), that the rows of the tables are made of numbers, and that the
  heaps were found before anything looks into them. The work is in one lemma per
  operator of the reader, from `ReadBytes` to `InitializeDocument`: whether it
  succeeds or not, it keeps the bytes, and leaves the limit where it was (`Kept`)
  or at the end of the file. A loop is a recursive function, and the prover has
  no induction over one. Each loop lemma therefore first shows that the function
  exists for every number of turns and then that every turn keeps the stream,
  both by `LastTurn`, which takes the turns as a set of numbers and rests on the
  least number outside of it.

The type invariants of these modules, and the four statements of this section
that no run lists, are theorems instead of invariants of a run. The
strengthenings were checked with TLC on the instances of the runs before they were
proved.

Model-checked only:

* everything temporal beyond invariants and the refinement of `Inspection`:
  liveness is out of the prover's reach;
* `IndicesAreExact`, `ParsedHasAllDocuments` and `CompleteFileIsParsed` of
  `PortablePdb`: that decoding undoes the encoder of `MCPortablePdb` is a
  statement about what recursions compute, for which the prover has no induction
  over data;
* `FailureKeepsType`, `DeclaredType`, `PromotionIsLeast` and
  `ImplementsFrameCache` of `Expressions`: `Compile` and the parser of signatures
  recur over trees and are `RECURSIVE` operators, in whose modules the prover does
  not work. What `Expressions` promises about classes is thus proved of
  `FrameCache` and carried over by a refinement that TLC checks;
* `DebuggeeObjects`, for the same reason: the creation of an object recurs over
  the types and values of the debuggee.

## 5. Observations without a run

Following the model by hand shows more places where code and comments part:

* `lib/breakpoint_collection.cc:197`: a deactivation for a location that is not
  in the map is searched for, activated and inserted like an activation, where
  `breakpoint_collection.h:47` says "simply don't do anything". It takes an
  activation that found no PDB file, a module load, and the deactivation.
* `lib/breakpoint_collection.cc:232`: a breakpoint no PDB file has is dropped
  without a report (`BreakpointWriteActionServer.cs:44`: "returned with an
  error").
* `lib/breakpoint_collection.cc:129`: two requested lines that resolve to one
  sequence point are two groups, of which a hit takes the first; and the module
  is not compared.
* `lib/eval_coordinator.cc:102`: with a spurious wake-up between the end of an
  evaluation and `SignalFinishedEval`, the hang of `EvalHangTimeout` occurs
  without a timeout. Before `HandleException` it also has the exception object of
  a function that threw reported as its value.
* `lib/breakpoint_location_collection.cc:108`: the native breakpoint is updated
  before the removed breakpoint leaves the list. When that breakpoint is itself
  `Activated()` it prevents the deactivation, and an empty location keeps an
  active native breakpoint, against `breakpoint_location_collection.h:46`.
* `lib/debugger_callback.cc:164`: an exception of any debuggee thread during an
  evaluation, handled or not, is reported as one of the evaluated function; so
  is one that the function itself throws and catches.
* `agent/BreakpointReadActionServer.cs:72`: a report whose RPC fails is not
  repeated; the loop goes on with the next one.
* `lib/stack_frame_collection.cc:112`: `number_of_processed_il_frames_` is never
  assigned, so that no frame "just gets the rest of the size available".
* `lib/stack_frame_collection.cc:465`: after a failing `Next` the walk counts as
  finished. The breakpoint that walked is answered with an error, the next one
  with the truncated stack. After a failing frame it does not count as
  finished and its frames stay: should the same walk then succeed for the next
  breakpoint, its report would show them twice. In the model a frame that cannot
  be read stays unreadable.
* `lib/stack_frame_collection.cc:291`: the result of `Initialize` is not looked
  at. A frame that fails half way shows variables without counting as one of the
  four frames that may.
* `lib/dbg_builtin_collection.cc:73`: a list without items sets a limit of 0,
  which `DbgArray` takes for none; up to ten unused slots are shown.
* `agent/Agent.cs:75`: a debuggee that is disabled before its first hit leaves
  the main thread waiting for the read server.
* `lib/breakpoint_collection.cc:281`: when the debuggee exits before a first
  report has created the write client, it is dereferenced all the same, and the
  agent is not told ("signal the agent to shutdown as well").
* `agent/BreakpointReadActionServer.cs:60`: the kill breakpoint ends both loops;
  the main thread stays in `_tcs.Task.Wait()` (`Agent.cs:78`).
* `lib/named_pipe_client_unix.cc:92`: a connection that is cut, by the agent or
  by `CancelSyncBreakpoints`, makes the Unix reader spin on empty pieces, where
  `breakpoint_collection.h:55` and `consoledebugger.cc:161` count on its end.
* `lib/stack_frame_collection.cc:106`: with expressions beyond the size limit the
  share of the first frame wraps around (`dbg_breakpoint.h:191`).
* `lib/dbg_array.cc:172`: a collection named by an expression, or a member of a
  class named by one, keeps the limit of expressions and is shown whole among
  the frame's variables (`dbg_breakpoint.h:279`).

Symbol files:

* `lib/portable_pdb_file.cc:348`: a file with 49 documents or more is refused, by
  a loop that ends at the number of documents and not of tables.
* `ParsePdbFile` is called without a lock by the main thread
  (`breakpoint_collection.cc:215`) and by a task (`eval_coordinator.cc:249`).
* The document of a method is read with the width of a blob index; a failed call
  keeps `stream_headers_` and `document_indices_`; a scope whose constants cannot
  be read is kept; a document-change record becomes the last point that is not
  hidden; a document name without parts is undefined behaviour (`pop_back`).

Names and expressions:

* `lib/dbg_stack_frame.cc:630`: an unreadable name ends the enumeration of types,
  which counts as complete all the same, as does a failing `Next`
  (`i_cor_debug_helper.h:280`).
* `lib/dbg_stack_frame.cc:639`: classes are cached under the names that
  `GetTypeDefProps` gives, which for nested classes are the simple ones. Of two
  classes of one simple name the later row is found; after an enumeration that
  ended early it is the earlier one. A class that is both defined and referred to
  may, after such an end, be found in another module.
* `TypeSignature::compare` ignores the rank of arrays (`type_signature.h:58`);
  `method_info.cc:191` tests an HRESULT as a Boolean; the return type adds up over
  overloads; an explicit `this` is subtracted twice; `IsBaseClass` looks at the
  first class only.
* `CompileRelational` promotes its first operand with itself; a shift of operands
  that are no integers returns `false`, which is S_OK; `U2` is missing from the
  types promoted to int; `System.Char` maps to BOOLEAN and `System.Boolean`,
  `System.Single` and `System.Double` to nothing.

Life cycle:

* `kill_proc_` is read without a value when `main` returns before
  `StartDebugging`, or when the callback cannot be initialised.
* `ref_count_` of the callback (`debugger_callback.h:216`) is never initialised
  and counts from what its memory held: 2^32-4 to 2^32-2 delete the object under
  its references, 2^32-1 with the one of main, and any other value never: also
  from 0 the collection of the callback holds a reference to the callback
  (`breakpoint_collection.cc:44`), so that nobody gives the last one back.
* `unregister_token_` may be read before it is stored; the destructor may run
  while `CallbackFunction` is running; when the start-up fails main still waits in
  `SyncBreakpoints`; an exit before `SyncBreakpoints` has no effect on it.

Values:

* `lib/dbg_enum.cc:132`: the type of an enumeration is the first byte of a field's
  signature, which is 6 always; bits that no constant names are dropped from the
  list of flags, and a constant 0 is added to it.
* `lib/dbg_enum.h:84`: the constants of enumerations are kept by class name alone
  and for ever. A constant whose `GetFieldProps` failed (`dbg_class_field.cc:63`)
  is left out of them (`dbg_enum.cc:168`), or is there without a name, and values
  of the enumeration are shown without it, and with no error, from then on.
* `lib/dbg_class.h:149`: static members are kept by module, simple class name and
  member name. Nested classes of one simple name, and the instantiations of one
  generic class, show the static members of whichever was met first.
* `lib/dbg_object_factory.cc:407`: when the result of a getter cannot be made an
  object its error is asked of a null pointer, and the debugger crashes. It takes
  a failing call or a result of a type the factory does not know, such as a
  pointer.
* `lib/dbg_class.cc:248`: a property whose first `GetPropertyProps` failed has a
  null signature, which `IsStatic` (`dbg_class_property.h:75`) reads.
* A boxed primitive ends as a value type; a `char` reads two bytes into one;
  constants of type `char` and null strings are lost; a type reference is resolved
  without its scope; properties of value types always fail; exactly
  `kReferenceDepth` references fail; members that are populated again after a
  failure are there twice.

## 6. Not modelled, and the plan

| Next | What |
|---|---|
| Breakpoint resolution | `TrySetBreakpoint`: the best match among the documents, methods and points that `PortablePdb` produces, against a reference definition. |
| Evaluation of expressions | `Evaluate` of the evaluators: values, overflow, division, short circuits. `Expressions` ends at types. |
| Two writers | `WriteBreakpoint` of two tasks, after a timeout of `EvalCoordinator`, into one `BreakpointPipe`. |
| Log messages | `SubstituteLogMessageFormat` against a reference definition. |
| Proofs | `PromotionIsLeast`, with the tables of the promotion in a module without `RECURSIVE` operators; what `DebuggeeObjects` keeps from one report to the next, as an abstract specification of its caches like `FrameCache`. |

Of the modelled parts these are left out: parsing a file in two threads at once
(undefined behaviour with no outcomes to enumerate), asynchronous state machines
beyond their kind of frame, multi-dimensional arrays, the items of sets and
dictionaries beyond their number, getters with results of types the factory does
not know (they crash the debugger without a failing call), members of static
members (`StaticsAssumption`), and the parser of expressions.

Left out altogether: generated protocol buffer code, the ANTLR runtime and
generated parser, the option parser, option and environment parsing in the agent,
the conversion of character widths, the wrappers that only pass calls on to
ICorDebug, the file generator under `tools`, tests.
