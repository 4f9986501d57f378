------------------------- MODULE MCDebuggerLifecycle -------------------------
(* One breakpoint in one application domain: each may fail to be deactivated, *)
(* and what the others do then is proved.  A count of six values has the three *)
(* that are Unlucky and three that are not.                                   *)
EXTENDS DebuggerLifecycle, TLC

CONSTANTS b1, d1

MCDomainOf == b1 :> d1
=============================================================================
