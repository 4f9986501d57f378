------------------------------ MODULE FrameCache ------------------------------
(***************************************************************************)
(* What the expressions of a breakpoint do to the caches of a stack frame, *)
(* whatever they are: the abstract specification of module Expressions.    *)
(*                                                                         *)
(* An expression looks up any number of classes, and one call may fail     *)
(* while it does.  To fill a cache again after the same failure changes    *)
(* nothing, so that an expression leaves each cache as it was or fills it  *)
(* once.                                                                   *)
(***************************************************************************)
EXTENDS FrameClasses

vars == <<frame, cache, unread>>

Init ==
    /\ frame = NoFrame
    /\ cache = NoCache
    /\ unread = FALSE

\* The debugger comes to a frame of module m, whose object is new.
Initialize(m) ==
    /\ frame' = [module |-> m]
    /\ cache' = NoCache
    /\ unread' = FALSE

\* An expression is compiled while the call bad fails.
LookUp(bad) ==
    /\ HasFrame
    /\ \E types \in {cache, PopulateTypeDict(frame, cache, bad).c} :
           cache' \in {types, PopulateDebugAssemblies(types, bad).c}
    /\ unread' = (unread \/ PassedOver(bad))
    /\ UNCHANGED frame

Next ==
    \/ \E m \in DOMAIN Modules : Initialize(m)
    \/ \E bad \in Attempts : LookUp(bad)

Spec == Init /\ [][Next]_vars

-----------------------------------------------------------------------------
(* Properties *)

AllAssemblies == [m \in DOMAIN Modules |-> m]

\* Every cached token is a row of the frame's module, and assemblies are cached
\* only when they were asked for (type_def_dict_, type_ref_dict_,
\* debug_assemblies_).
TypeOK ==
    /\ unread \in BOOLEAN
    /\ HasFrame =>
        /\ frame.module \in DOMAIN Modules
        /\ \A name \in DOMAIN cache.type_def_dict :
               cache.type_def_dict[name] \in DOMAIN Modules[frame.module].types
        /\ \A name \in DOMAIN cache.type_ref_dict :
               cache.type_ref_dict[name] \in DOMAIN Modules[frame.module].refs
        /\ cache.debug_assemblies # <<>> => cache.debug_assemblies_populated

-----------------------------------------------------------------------------
(* The inductive invariant *)

\* A token in the caches c is a row with the name it is cached under, but for a
\* reference that had no name when it was cached.
DictsAreRows(c) ==
    LET m == Modules[frame.module]
    IN /\ \A name \in DOMAIN c.type_def_dict :
              /\ c.type_def_dict[name] \in DOMAIN m.types
              /\ m.types[c.type_def_dict[name]].name = name
       /\ \A name \in DOMAIN c.type_ref_dict :
              /\ c.type_ref_dict[name] \in DOMAIN m.refs
              /\ name # NoName => m.refs[c.type_ref_dict[name]] = name

\* The enumeration of the assemblies gives all of them or, after a failure that
\* it passes over, none.
AllOrNone(c) ==
    \/ c.debug_assemblies = <<>>
    \/ c.debug_assemblies = AllAssemblies /\ c.debug_assemblies_populated

\* What counts as filled is complete, if no failure was passed over.
FilledIsComplete(c) ==
    /\ c.type_dict_populated =>
          /\ Own \subseteq DOMAIN c.type_def_dict
          /\ Referred \subseteq DOMAIN c.type_ref_dict
    /\ c.debug_assemblies_populated => c.debug_assemblies = AllAssemblies

Sound(c) ==
    /\ DOMAIN c = DOMAIN NoCache /\ c = [field \in DOMAIN c |-> c[field]]
    /\ DictsAreRows(c)
    /\ AllOrNone(c)

CacheInv ==
    /\ unread \in BOOLEAN
    /\ HasFrame =>
        /\ frame \in [module : DOMAIN Modules]
        /\ Sound(cache)
        /\ ~unread => FilledIsComplete(cache)
=============================================================================
