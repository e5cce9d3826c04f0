---------------------------- MODULE MCCrossWindow ----------------------------
(***************************************************************************)
(* A fan-in topology for TLC: a judge that reads two makers.               *)
(***************************************************************************)
EXTENDS CrossWindow, TLC

CONSTANTS maker1, maker2, judge

FanIn == <<maker1, maker2, judge>>
FanInReads == maker1 :> {} @@ maker2 :> {} @@ judge :> {maker1, maker2}
=============================================================================
