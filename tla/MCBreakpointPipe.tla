-------------------------- MODULE MCBreakpointPipe --------------------------
(* BreakpointPipe for TLC: an empty, a short and a longer message.          *)
EXTENDS BreakpointPipe

MCBodyLen == <<1, 0, 3>>
=============================================================================
