----------------------- MODULE MCBreakpointCollection -----------------------
(* Instances of BreakpointCollection for TLC.                              *)
EXTENDS BreakpointCollection

CONSTANTS b1, b2, b3, L1, L2, m1, m2, p1

\* b1 and b2 share a location, b3 is at another one.
MCLocationOf == [id \in Ids |-> IF id = b3 THEN L2 ELSE L1]

\* L1 is in the first module, L2 in the second, at the same method token and
\* IL offset.
MCResolve ==
    [l \in Locations |->
        [m \in Modules |->
            IF (l = L1 /\ m = m1) \/ (l = L2 /\ m = m2) THEN p1 ELSE None]]

AllFaults == {"Connect", "Write", "IsActive", "Activate", "EnumMethods",
              "CreateBreakpoint", "GetFunction"}
=============================================================================
