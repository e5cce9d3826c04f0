----------------------------- MODULE GateDecide -----------------------------
(***************************************************************************)
(* gate/core.py: decide(), the verdict on one tool call, as a function of  *)
(* the call, the policy of the role it was attributed to and the mode.     *)
(*                                                                         *)
(* A call is [tool, kind, reach, search, control]: reach is the set of     *)
(* resources it names (the path, the root of a glob that leaves it, the    *)
(* command), empty when it names none; search marks a search tool, control *)
(* a call of the gate's own controls.  A policy is [denied, tools, reads,  *)
(* writes, commands], tools being AnyTool when nothing was listed.         *)
(***************************************************************************)
CONSTANTS AnyTool, NoPolicy

Modes == {"enforce", "observe", "off"}

(* The checks of decide() that end in a refusal, each behind the earlier.   *)
ToolRefused(call, p) ==
  call.tool \in p.denied \/ (p.tools # AnyTool /\ call.tool \notin p.tools)

ReachUnknown(call) == call.kind = "file_read" /\ call.reach = {} /\ call.search

Granted(call, p) ==
  CASE call.kind \in {"file_read", "opaque"} -> p.reads
    [] call.kind = "file_write" -> p.writes
    [] call.kind = "shell" -> p.commands
    [] OTHER -> call.reach

OutOfScope(call, p) ==
  ToolRefused(call, p) \/ ReachUnknown(call) \/ ~(call.reach \subseteq Granted(call, p))

(* A file tool that names nothing the gate recognises is not evaluated.     *)
Unevaluated(call) == call.kind \in {"file_read", "file_write"} /\ call.reach = {} /\ ~call.search

Answers(v, r) == [verdict |-> v, reason |-> r]

MaybeDeny(mode) == Answers(IF mode = "enforce" THEN "deny" ELSE "observe_only", "out_of_scope")

DecideOpen(mode, attributed, call, p) ==     \* mutant: the gate's own controls are tools like any other
  IF mode = "off" THEN Answers("observe_only", "mode_off")
  ELSE IF ~attributed THEN Answers("observe_only", "unattributed")
  ELSE IF p = NoPolicy THEN Answers("observe_only", "no_policy")
  ELSE IF OutOfScope(call, p) THEN MaybeDeny(mode)
  ELSE Answers("allow", "in_scope")

Decide(mode, attributed, call, p) ==
  IF mode = "off" THEN Answers("observe_only", "mode_off")
  ELSE IF ~attributed THEN Answers("observe_only", "unattributed")
  ELSE IF call.control THEN Answers("deny", "gate_control_denied")
  ELSE IF p = NoPolicy THEN Answers("observe_only", "no_policy")
  ELSE IF ToolRefused(call, p) THEN MaybeDeny(mode)
  ELSE IF Unevaluated(call) THEN Answers("fail_open", "gate_error")
  ELSE IF OutOfScope(call, p) THEN MaybeDeny(mode)
  ELSE Answers("allow", "in_scope")
=============================================================================
