------------------------------ MODULE GateHook ------------------------------
(***************************************************************************)
(* gate/adapters/claude_code.py run(): one hook process from payload to    *)
(* answer.  It reads the mode, has the call attributed (GateAttribution),  *)
(* reads the role's policy, decides (GateDecide) and appends a record;     *)
(* the host then makes the call unless it was denied.  A hook that dies or *)
(* raises denies nothing, not even a call of the gate's own controls.      *)
(* containment() of gate_view.py says afterwards, from the journal alone,  *)
(* what the run may claim.                                                 *)
(***************************************************************************)
EXTENDS GateAttribution, GateDecide, Naturals

CONSTANTS
  Calls,      \* the calls actors make
  Policies,   \* the policies a host declares
  MaxCalls    \* bounds the calls of the run

VARIABLES
  modes,      \* the mode stored for the session and for no session
  policies,   \* the policies stored for the session and for no session
  making,     \* the call a hook is about, and the mode it read
  passed,     \* calls the host went on to make
  journal,    \* what the journal tells of calls
  silent,     \* some hook died, or left no record of its call
  begun       \* calls begun

gateVars == <<attributionVars, modes, policies, making, passed, journal, silent, begun>>

Scopes == {"session", "default"}

(* get_mode, get: the session's own word, else what was stored before there *)
(* was a session, else the default.                                         *)
ModeNow ==
  CHOOSE m \in Modes :
    IF modes["session"] # None THEN m = modes["session"]
    ELSE IF modes["default"] # None THEN m = modes["default"] ELSE m = "observe"

PolicyOf(r) ==
  IF r = None THEN NoPolicy
  ELSE IF policies["session"][r] # NoPolicy THEN policies["session"][r] ELSE policies["default"][r]

NoCall == [call |-> None, mode |-> None]

GateInit ==
  /\ AttributionInit
  /\ modes = [s \in Scopes |-> None]
  /\ policies = [s \in Scopes |-> [r \in Roles |-> NoPolicy]]
  /\ making = [h \in Hooks |-> NoCall]
  /\ passed = {} /\ journal = {}
  /\ silent = FALSE /\ begun = 0

(* set_mode, declare.                                                       *)
SetMode(s, m) ==
  /\ modes' = [modes EXCEPT ![s] = m]
  /\ UNCHANGED <<attributionVars, policies, making, passed, journal, silent, begun>>

DeclarePolicy(s, r, p) ==
  /\ policies' = [policies EXCEPT ![s][r] = p]
  /\ UNCHANGED <<attributionVars, modes, making, passed, journal, silent, begun>>

BeginCall(h, a, c) ==
  /\ begun < MaxCalls /\ begun' = begun + 1
  /\ Look(h, a, FALSE)
  /\ making' = [making EXCEPT ![h] = [call |-> c, mode |-> ModeNow]]
  /\ UNCHANGED <<modes, policies, passed, journal, silent>>

(* _loop_is_running: an actor nobody can place is residue once a role was   *)
(* dispatched, and ambient activity before.  resolve() asks this as it      *)
(* fails to place the actor; here it is asked as the hook ends.             *)
LoopIsRunning == pending # {} \/ \E a \in Actors : bound[a] # None

Outcome(h) ==
  LET role == hook[h].role
      d == Decide(making[h].mode, role # None, making[h].call, PolicyOf(role))
  IN IF d.reason = "unattributed" /\ ~LoopIsRunning
     THEN Answers(d.verdict, "ambient_actor") ELSE d

(* The host makes the call, which was to be judged by the policy of its     *)
(* actor's own role; a call of the gate's controls sets the mode.           *)
Made(h) ==
  LET call == making[h].call
      p == PolicyOf(RoleOf[hook[h].actor])
  IN  /\ passed' = passed \union {[off |-> making[h].mode = "off",
                                  inScope |-> p # NoPolicy => ~OutOfScope(call, p)]}
      /\ modes' \in IF call.control THEN {[modes EXCEPT !["session"] = m] : m \in Modes} ELSE {modes}

(* emit(): the record is kept, or it is not and a second record says so, or *)
(* that is lost as well.                                                    *)
Recorded(o) ==
  \E kept \in {"kept", "error", "none"} :
    /\ journal' = journal \union (CASE kept = "kept" -> {o}
                                    [] kept = "error" -> {Answers("error", "gate_error")}
                                    [] OTHER -> {})
    /\ silent' = (silent \/ kept = "none")

(* The rest of run(): decide, record, answer.                               *)
FinishCall(h) ==
  LET o == Outcome(h) IN
  /\ making[h] # NoCall
  /\ Answer(h)
  /\ Recorded(o)
  /\ IF o.verdict = "deny" THEN UNCHANGED <<passed, modes>> ELSE Made(h)
  /\ making' = [making EXCEPT ![h] = NoCall]
  /\ UNCHANGED <<policies, begun>>

(* The other payloads: an actor starts or stops, a role is dispatched.      *)
Lifecycle(h) ==
  /\ making[h] = NoCall
  /\ \/ Answer(h)
     \/ \E a \in Actors, start \in BOOLEAN : Look(h, a, start)
     \/ \E r \in Roles : BeginDispatch(h, r)
  /\ UNCHANGED <<modes, policies, making, passed, journal, silent, begun>>

WorkOnFile(h) ==
  /\ Match(h) \/ \E f \in BOOLEAN : ReadFile(h, f) \/ WriteDispatch(h, f) \/ Bind(h, f)
  /\ UNCHANGED <<modes, policies, making, passed, journal, silent, begun>>

(* A hook that goes no further, with or without the record of its call: the *)
(* host hears no refusal, and makes it.                                     *)
Abandoned(h) ==
  /\ Die(h)
  /\ IF making[h] = NoCall THEN UNCHANGED <<passed, modes>> ELSE Made(h)
  /\ making' = [making EXCEPT ![h] = NoCall]
  /\ UNCHANGED <<policies, begun>>

LastRecords(h) == IF making[h] # NoCall /\ hook[h].pc = "resolved" THEN SUBSET {Outcome(h)} ELSE {{}}

HookDies(h) ==
  /\ Abandoned(h)
  /\ \E last \in LastRecords(h) : journal' = journal \union last
  /\ silent' = (silent \/ making[h] # NoCall)

FailOpen == Answers("fail_open", "gate_exception")

(* main: run() raised, and _fail_open says so unless that fails as well.    *)
HookRaises(h) ==
  /\ Abandoned(h)
  /\ \E last \in LastRecords(h), kept \in BOOLEAN :
       /\ journal' = journal \union last \union {o \in {FailOpen} : kept}
       /\ silent' = (silent \/ (~kept /\ making[h] # NoCall))

GateNext ==
  \/ \E h \in Hooks : \/ Lifecycle(h) \/ WorkOnFile(h) \/ FinishCall(h)
                      \/ HookDies(h) \/ HookRaises(h)
                      \/ \E a \in Actors, c \in Calls : BeginCall(h, a, c)
  \/ \E s \in Scopes : \/ \E m \in Modes : SetMode(s, m)
                       \/ \E r \in Roles, p \in Policies : DeclarePolicy(s, r, p)

GateSpec == GateInit /\ [][GateNext]_gateVars

-----------------------------------------------------------------------------
(* containment(): evaluated, residue, violations.                           *)
Evaluated == \E o \in journal : o.verdict \in {"allow", "deny"}

ResidueOfErrors ==     \* mutant: a call nobody could place is not residue
  \E o \in journal : o.verdict \in {"fail_open", "error"}

Residue == \E o \in journal : o.verdict \in {"fail_open", "error"} \/ o.reason = "unattributed"
Violations == \E o \in journal : o.verdict # "deny" /\ o.reason = "out_of_scope"

Claimable == Evaluated /\ ~Residue
Held == ~Violations

Undisturbed == ~silent /\ clean /\ ~overlapped /\ strange = {}

(* What a run may claim is true of the calls it made with the gate on: when *)
(* the journal says that the gate held and leaves nothing open, each of     *)
(* them stayed within the policy of its actor's own role, if that has one,  *)
(* as long as no hook vanished, the attribution was undisturbed and no      *)
(* subagent without a role was taken for one (containment, run).  Calls     *)
(* whose hook found the gate off are left out, and have to be: containment  *)
(* counts their records neither as residue nor as violations, so that a run *)
(* switched off halfway can be claimed, with the note that every            *)
(* intercepted call was attributed and evaluated.                           *)
ClaimsAreTrue ==
  Claimable /\ Held /\ Undisturbed => \A c \in passed : c.off \/ c.inScope

(* A call that was attributed changes the gate's mode only if the gate was  *)
(* off when its hook began (decide, the control plane), or if the hook      *)
(* failed before it could answer; what is left then is a record that it did *)
(* or, where none was written, no more than its silence (main, _fail_open). *)
OnlyTheUnplacedSetModes ==
  [][\A h \in Hooks : making[h] # NoCall /\ making'[h] = NoCall
        /\ hook[h].role # None /\ modes' # modes
        => \/ making[h].mode = "off"
           \/ Abandoned(h) /\ (silent' \/ FailOpen \in journal')]_gateVars
=============================================================================
