----------------------------- MODULE FrameClasses -----------------------------
(***************************************************************************)
(* The state of a stack frame that the lookup of classes depends on, and   *)
(* what it promises about the classes that are found.  Module FrameCache   *)
(* says how the state changes at most, module Expressions how it does.     *)
(***************************************************************************)
EXTENDS ClassLookup

CONSTANT Failures       \* calls that may fail

VARIABLES
    frame,              \* the frame the debugger evaluates in, with its module
    cache,              \* its caches
    unread              \* history: a name or a portion of this frame was not read

NoFrame == [module |-> 0]

HasFrame == frame # NoFrame

Attempts == Failures \cup {NoFailure}

\* A failure that an enumeration passes over.
PassedOver(bad) == bad[1] \in {"GetTypeDefProps", "GetTypeRefProps", "Next"}

-----------------------------------------------------------------------------
(* Properties *)

\* The classes that the frame's module defines, and those it refers to.
Own == {Modules[frame.module].types[k].name : k \in DOMAIN Modules[frame.module].types}

Referred == Range(Modules[frame.module].refs)

\* A failing enumeration leaves dictionaries that are filled in part, and the
\* next expression starts over: as long as every name and every portion that
\* was asked for could be read, each class the module defines or refers to can
\* be found by GetClassTokenAndModule, in the module itself first.
KnownClassIsFound ==
    HasFrame /\ ~unread =>
        LET others == {name \in Referred : \E m \in DOMAIN Modules : TypesNamed(m, name) # {}}
        IN \A name \in Own \cup others :
               \E class \in {GetClassTokenAndModule(frame, cache, NoFailure, name)} :
                   /\ class.hr = "S_OK"
                   /\ ClassOf(class.v).name = name
                   /\ name \in Own => class.v.module = frame.module

\* One definition at most has the name, and no reference if there is one.  Nested
\* classes are enumerated by their simple names, which several may have.
Unambiguous(name) ==
    /\ \A j, k \in TypesNamed(frame.module, name) : j = k
    /\ name \notin Own \cap Referred

\* Whatever call fails now, and whatever has failed for earlier expressions of
\* the frame, GetClassTokenAndModule finds no class under a name, or the one it
\* finds with empty caches when nothing fails: a cache filled in part, or without
\* the rows that could not be read, never makes a name mean another class.
ClassKeepsMeaning ==
    HasFrame =>
        \A name \in Own \cup Referred : Unambiguous(name) =>
            \E clean \in {GetClassTokenAndModule(frame, NoCache, NoFailure, name)} :
                \A bad \in Attempts :
                    \E class \in {GetClassTokenAndModule(frame, cache, bad, name)} :
                        class.hr = "S_OK" => clean.hr = "S_OK" /\ clean.v = class.v
=============================================================================
