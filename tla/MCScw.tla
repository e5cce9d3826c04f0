------------------------------- MODULE MCScw -------------------------------
(***************************************************************************)
(* Instances of the context window for TLC.  Each scenario is a            *)
(* specification built from the actions of ScwWindow that concern one      *)
(* question, started in the empty window or in one a host has set up; its  *)
(* .cfg gives the constants the sets defined here.                         *)
(***************************************************************************)
EXTENDS ScwProperties, TLC

CONSTANTS r1, r2, r3, r4, l1, l2, l3, h1, h2, c1, v1, v2

(* The presets of model.py as far as the model tells them apart.            *)
Durable   == [readonly |-> FALSE, bridgeable |-> TRUE,  purge |-> FALSE, reset |-> FALSE]
Working   == [readonly |-> FALSE, bridgeable |-> FALSE, purge |-> FALSE, reset |-> FALSE]
Reference == [readonly |-> TRUE,  bridgeable |-> TRUE,  purge |-> FALSE, reset |-> FALSE]
Scratch   == [readonly |-> FALSE, bridgeable |-> FALSE, purge |-> TRUE,  reset |-> TRUE]

Binding(root, descend, max, harness, objective, exposes, c, up) ==
  [root |-> root, descend |-> descend, max |-> max, harness |-> harness,
   objective |-> objective, exposes |-> exposes, criterion |-> c, up |-> up]

Grant(from, to, mode, ttl) == [from |-> from, to |-> to, mode |-> mode, ttl |-> ttl]

Plain(root, descend, max, up) == Binding(root, descend, max, None, FALSE, {}, None, up)

NoProfiles == [h \in {} |-> None]

NoGrants == {}

(* A window the host has set up: the regions of up are open, nested and     *)
(* governed as given, those of full hold content, the criteria of pin are   *)
(* pinned to their regions, and the window is sealed or not.                *)
SetUp(up, pol, full, pin, sealed) ==
  /\ life = [r \in Regions |-> IF r \in DOMAIN up THEN "open" ELSE "absent"]
  /\ parent = [r \in Regions |-> IF r \in DOMAIN up THEN up[r] ELSE None]
  /\ policy = [r \in Regions |-> IF r \in DOMAIN up THEN pol[r] ELSE AnyPolicy]
  /\ bytes = [r \in Regions |-> IF r \in full THEN CHOOSE v \in Contents : v # Empty ELSE Empty]
  /\ loop = [l \in Loops |-> NoLoop]
  /\ bridge = [b \in Bridges |-> NoBridge]
  /\ ceiling = [r \in Regions |-> None]
  /\ criterion = [c \in Criteria |->
                    IF c \in DOMAIN pin
                    THEN [status |-> "pinned", region |-> pin[c],
                          signature |-> Signature(pin[c]), drifted |-> FALSE]
                    ELSE NoCriterion]
  /\ evidence = [e \in Evidence |-> NoEvidence]
  /\ spent = [h \in Harnesses |-> 0]
  /\ tick = 0
  /\ strict = sealed

NoPins == [c \in {} |-> None]

-----------------------------------------------------------------------------
(* Lifecycle: regions created and closed around one loop and one grant,     *)
(* from the empty window.                                                   *)
LifePolicies == {Durable, Scratch}
LifeLoopSpecs == {Plain(r, d, 1, None) : r \in {r1, r2}, d \in BOOLEAN}
LifeGrantSpecs == {Grant(f, t, m, None) : f \in {r1, r2}, t \in {r2, r3}, m \in {"read", "write"}}

(* The scenario has so many loops (whichever, so that loops stay symmetric). *)
OneOf(n, l) == Cardinality({m \in Loops : loop[m].status # "none"} \union {l}) <= n

LifeNext ==
  \/ \E a \in Actors :
       \/ \E r \in {r1, r2, r3}, p \in LifePolicies, up \in Regions \union {None} :
            CreateScw(a, r, p, up)
       \/ \E r \in Regions, cascade \in BOOLEAN : CloseScw(a, r, cascade)
       \/ \E g \in LifeGrantSpecs : OpenBridge(a, g)
       \/ \E b \in Bridges : CloseBridge(a, b)
  \/ \E l \in Loops :
       /\ OneOf(1, l)
       /\ \/ \E s \in LifeLoopSpecs : BindScope(l, s)
          \/ UnbindScope(l, None)
          \/ LoopTick(l, FALSE, None, None)
  \/ Seal

LifeSpecification == Init /\ [][LifeNext]_vars

-----------------------------------------------------------------------------
(* Grants: r4 stands apart from the chain r1 > r2 > r3, whose last region   *)
(* is walled; two loops bind, tick and leave, two grants come, expire and   *)
(* go, and anyone closes what it may.                                       *)
GrantPolicies == {Durable, Working}
GrantLoopSpecs == {Plain(r4, TRUE, 2, None), Plain(r2, TRUE, 1, None)}
GrantGrantSpecs ==
  {Grant(r4, r1, "read", 2), Grant(r4, r3, "read", None), Grant(r2, r4, "read_write", 0)}

GrantInit == SetUp(r1 :> None @@ r2 :> r1 @@ r3 :> r2 @@ r4 :> None,
                   r1 :> Durable @@ r2 :> Durable @@ r3 :> Working @@ r4 :> Durable, {}, NoPins, FALSE)

GrantNext ==
  \/ \E a \in Actors : BridgeStep(a) \/ \E r \in Regions, c \in BOOLEAN : CloseScw(a, r, c)
  \/ \E l \in Loops : \/ \E s \in LoopSpecs : BindScope(l, s)
                      \/ UnbindScope(l, None)
                      \/ LoopTick(l, FALSE, None, None)

GrantSpecification == GrantInit /\ [][GrantNext]_vars

-----------------------------------------------------------------------------
(* Content: what two loops, a scratchpad, a read-only yardstick and the     *)
(* grants between them let anyone change once the window is sealed.         *)
ContentPolicies == {Durable, Reference, Scratch}
ContentLoopSpecs == {Plain(r1, TRUE, None, None), Plain(r4, FALSE, None, None)}
ContentGrantSpecs ==
  {Grant(r4, r2, "read", None), Grant(r4, r1, "write", None), Grant(r1, r4, "read", None)}

ContentInit ==
  SetUp(r1 :> None @@ r2 :> r1 @@ r4 :> None,
        r1 :> Durable @@ r2 :> Reference @@ r4 :> Durable, {r1, r2}, c1 :> r2, TRUE)

ContentNext ==
  \/ \E a \in Actors : \/ ContentStep(a)
                       \/ \E up \in Regions \union {None} : CreateScw(a, r3, Scratch, up)
                       \/ \E r \in Regions : CloseScw(a, r, FALSE)
                       \/ \E g \in ContentGrantSpecs : OpenBridge(a, g)
  \/ \E l \in Loops :
       /\ OneOf(2, l)
       /\ \/ \E s \in ContentLoopSpecs : BindScope(l, s)
          \/ UnbindScope(l, None)
          \/ LoopTick(l, FALSE, None, None)

-----------------------------------------------------------------------------
(* Verdicts: in the open window, a maker in r1 under a disjointness proof,  *)
(* its judge in r3, and the criterion it is graded against in r2.  In the   *)
(* sealed one, evidence: checks of r1, which its loop writes and rewrites,  *)
(* are gathered and cited by either loop.                                   *)
VerdictPolicies == {Durable, Reference}
VerdictProfile ==
  h1 :> [verification |-> "disjoint", evidence |-> "none", budget |-> 1]
    @@ h2 :> [verification |-> "attributed", evidence |-> "all", budget |-> None]
Judging == Plain(r3, TRUE, None, None)
Made(x) == Binding(r1, TRUE, 2, h1, FALSE, x, c1, None)
Checked == Binding(r1, TRUE, 2, h2, TRUE, {}, None, None)
VerdictLoopSpecs == {Made({}), Made({r1}), Made({r3}), Checked, Judging}
VerdictGrantSpecs == {Grant(r3, r1, "read", 1)}

VerdictInit ==
  \E sealed \in BOOLEAN :
    SetUp(r1 :> None @@ r2 :> None @@ r3 :> None,
          r1 :> Durable @@ r2 :> Reference @@ r3 :> Durable, {r1, r2}, NoPins, sealed)

LoopLife(l, specs) ==
  \/ \E s \in specs : BindScope(l, s)
  \/ UnbindScope(l, None)
  \/ TickStep(l)

JudgeNext ==
  \/ \E v \in Contents : Write(Host, r2, v)
  \/ \E g \in GrantSpecs : OpenBridge(Host, g)
  \/ \E l \in Loops : LoopLife(l, LoopSpecs \ {Checked})
  \/ \E c \in Criteria : PinCriterion(c, r2) \/ RepinCriterion(c) \/ UnpinCriterion(c)

EvidenceNext ==
  \/ \E l \in Loops, v \in Contents : Write(l, r1, v)
  \/ \E l \in Loops : LoopLife(l, {Checked, Judging}) \/ EvidenceStep(l)

VerdictNext == (strict /\ EvidenceNext) \/ (~strict /\ JudgeNext)

VerdictSpecification == VerdictInit /\ [][VerdictNext]_vars

-----------------------------------------------------------------------------
(* Nesting: three loops bound, released and bound again under one another.  *)
NestingPolicies == {Durable}
NestingLoopSpecs == {Plain(r1, TRUE, 1, None)} \union {Plain(r1, TRUE, None, u) : u \in Loops \union {None}}

NestingInit == SetUp(r1 :> None, r1 :> Durable, {}, NoPins, FALSE)

NestingNext ==
  \E l \in Loops : \/ \E s \in NestingLoopSpecs : BindScope(l, s)
                   \/ \E t \in {None, "success"} : UnbindScope(l, t)
                   \/ \E verified \in BOOLEAN : LoopTick(l, verified, None, None)


(* Sub-loops: one bound across a grant into r3 beneath a parent in r1 that  *)
(* is released and bound again, there or in r2.                             *)
SubLoopSpecs ==
  {Plain(r, TRUE, None, None) : r \in {r1, r2}}
    \union {Plain(r3, TRUE, None, u) : u \in Loops}
SubLoopGrantSpecs == {Grant(r1, r3, "read", None)}

SubLoopInit ==
  SetUp(r1 :> None @@ r2 :> None @@ r3 :> None,
        r1 :> Durable @@ r2 :> Durable @@ r3 :> Durable, {}, NoPins, FALSE)

SubLoopNext ==
  \/ \E g \in GrantSpecs : OpenBridge(Host, g)
  \/ \E l \in Loops : \E s \in LoopSpecs : BindScope(l, s) \/ UnbindScope(l, None)

SubLoopSpecification == SubLoopInit /\ [][SubLoopNext]_vars

-----------------------------------------------------------------------------
LoopSymmetry == Permutations(Loops)
=============================================================================
