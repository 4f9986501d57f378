------------------------------ MODULE MCAgent ------------------------------
(* Agent for TLC: a snapshot point s1 and a log point g1.                   *)
EXTENDS Agent

CONSTANTS s1, g1
=============================================================================
