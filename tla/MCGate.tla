------------------------------- MODULE MCGate -------------------------------
(***************************************************************************)
(* Instances of the gate for TLC: two hook processes, two roles carried by *)
(* actors of one kind, one of them to be told by the marker in its         *)
(* transcript, and a third actor of the kind that was given no role.       *)
(***************************************************************************)
EXTENDS GateHook, TLC

CONSTANTS h1, h2, a1, a2, a3, r1, r2, k, f1, f2, ReadTool, SetTool

Role == [a \in Actors |-> CASE a = a1 -> r1 [] a = a2 -> r2 [] OTHER -> None]
Kind == [a \in Actors |-> k]
Evidence == [a \in Actors |-> IF a = a1 THEN "marker" ELSE "nothing"]

Reading(f) == [tool |-> ReadTool, kind |-> "file_read", reach |-> {f}, search |-> FALSE, control |-> FALSE]
Unnamed == [tool |-> ReadTool, kind |-> "file_read", reach |-> {}, search |-> FALSE, control |-> FALSE]
SettingMode == [tool |-> SetTool, kind |-> "opaque", reach |-> {}, search |-> FALSE, control |-> TRUE]

GateCalls == {Reading(f1), Unnamed, SettingMode}

Reads(fs) == [denied |-> {}, tools |-> AnyTool, reads |-> fs, writes |-> {}, commands |-> {}]

GatePolicies == {Reads({f2})}

(* Dispatches and actors on their way, no calls yet; or one of the roles    *)
(* dispatched, a policy for each, and calls to come.                        *)
Placed ==
  /\ pending = {r1} /\ bound = [a \in Actors |-> None]
  /\ lock = None
  /\ hook = [h \in Hooks |-> Idle]
  /\ dispatched = {r1} /\ told = [a \in Actors |-> {}]
  /\ clean = TRUE /\ overlapped = FALSE /\ strange = {}
  /\ modes = [s \in Scopes |-> IF s = "default" THEN "observe" ELSE None]
  /\ policies = [s \in Scopes |-> [r \in Roles |-> IF s = "default" THEN Reads({f1}) ELSE NoPolicy]]
  /\ making = [h \in Hooks |-> NoCall]
  /\ passed = {} /\ journal = {}
  /\ silent = FALSE /\ begun = 0

(* The host changes its mind once about the mode, which is "observe", and   *)
(* once about the policy of the first role.                                 *)
HostActs ==
  \/ modes["session"] = None /\ \E m \in {"off", "enforce"} : SetMode("session", m)
  \/ policies["session"][r1] = NoPolicy /\ \E p \in Policies : DeclarePolicy("session", r1, p)

CallsScenario == modes["default"] # None

Calling(h) ==
  \/ \E a \in Actors, c \in Calls : BeginCall(h, a, c)
  \/ making[h] # NoCall /\ (FinishCall(h) \/ HookDies(h) \/ HookRaises(h))
  \/ \E r \in Roles : BeginDispatch(h, r) /\ UNCHANGED <<modes, policies, making, passed, journal, silent, begun>>

GateScenario ==
  \/ \E h \in Hooks : \/ WorkOnFile(h)
                      \/ ~CallsScenario /\ (Lifecycle(h) \/ HookDies(h) \/ HookRaises(h))
                      \/ CallsScenario /\ Calling(h)
  \/ CallsScenario /\ begun < MaxCalls /\ HostActs

(* What is said of attribution is said of a file that nothing was lost from *)
(* and of calls that do not overlap, and the mode asks for neither: once    *)
(* the file is damaged a behaviour is not followed further, nor once calls  *)
(* overlap in the first scenario.                                           *)
WhileUndisturbed == clean /\ (CallsScenario \/ ~overlapped) /\ GateScenario

GateStart == GateInit \/ Placed

GateCallsSpec == GateStart /\ [][GateScenario]_gateVars

HookSymmetry == Permutations(Hooks)
=============================================================================
