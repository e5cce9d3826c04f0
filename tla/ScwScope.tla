------------------------------ MODULE ScwScope ------------------------------
(***************************************************************************)
(* The state of one structured context window and the pure questions the   *)
(* runtime asks of it: who may touch which region, and which regions a     *)
(* bound loop can read or write (scw_runtime isolation.py, partition.py    *)
(* and the lookups of window.py).  ScwWindow adds the operations.          *)
(*                                                                         *)
(* Content is abstract: bytes[r] stands for the rendered entries of region *)
(* r itself, Empty for a region with none.  What entries, budgets and      *)
(* eviction do to them is the subject of RegionLog.                        *)
(***************************************************************************)
EXTENDS Integers, FiniteSets, Trees

CONSTANTS
  Regions,      \* the region ids that can ever be created
  Loops,        \* the loop ids that can be bound
  Harnesses,    \* harness ids, declared before the run
  Criteria,     \* criterion ids that can be pinned
  Bridges,      \* bridge ids "br1", "br2", ... as 1..n
  Evidence,     \* evidence ids "ev1", "ev2", ... as 1..n
  Contents,     \* what the entries of a region can render to
  Empty,        \* the content of a region without entries
  Policies,     \* the region policies in use
  Profile,      \* the harness profile of every harness
  Host,         \* the unbound caller: loop_id None
  None          \* an absent id or limit

Policy == [readonly: BOOLEAN, bridgeable: BOOLEAN, purge: BOOLEAN, reset: BOOLEAN]

Limits == (Nat \ {0}) \union {None}

HarnessProfile == [verification: {"declared", "attributed", "disjoint"},
                   evidence: {"none", "objective", "all"},
                   budget: Limits]

ASSUME NoneAssumption == /\ None \notin Regions \union Loops \union Harnesses \union Criteria
                         /\ None \notin Nat
                         /\ \A S \in SUBSET Regions : S # None
ASSUME HostAssumption == Host \notin Loops
ASSUME IdAssumption == Bridges \subseteq Nat \ {0} /\ Evidence \subseteq Nat \ {0}
ASSUME ContentAssumption == Empty \in Contents
ASSUME PolicyAssumption == Policies # {} /\ Policies \subseteq Policy
ASSUME ProfileAssumption == Profile \in [Harnesses -> HarnessProfile]

VARIABLES
  life,       \* lifecycle of every region; "absent" before create_scw
  parent,     \* parent_id
  policy,     \* the policy resolved at creation
  bytes,      \* content
  loop,       \* the Loop record of every loop id; status "none" before the first bind
  bridge,     \* the Bridge record of every bridge id; status "none" before it is minted
  ceiling,    \* exposure_ceiling: None, or the set of regions last declared
  criterion,  \* pinned criteria
  evidence,   \* attestations
  spent,      \* iterations_run of every harness
  tick,       \* the window's tick; total_iterations always equals it
  strict      \* strict_scope

regionVars == <<life, parent, policy, bytes>>
vars == <<life, parent, policy, bytes, loop, bridge, ceiling, criterion,
          evidence, spent, tick, strict>>

Actors == Loops \union {Host}

-----------------------------------------------------------------------------
(* The region tree.                                                         *)

Children == [r \in Regions |-> {c \in Regions : parent[c] = r}]

Descendants(r) == Beneath(Children, r)

Subtree(r) == {r} \union Descendants(r)

(* The fingerprint of a region is taken over its rendered subtree; region   *)
(* ids are part of the rendering, so distinct regions never share one.      *)
Signature(r) == [x \in Subtree(r) |-> bytes[x]]

-----------------------------------------------------------------------------
(* The control-flow tree of loops, upwards by parent_loop_id and downwards  *)
(* by child_loop_ids: the code keeps both and they can disagree.            *)

LoopParents == [l \in Loops |-> {p \in Loops : loop[l].up = p}]

LoopAncestors(l) == Beneath(LoopParents, l)

LoopKids == [l \in Loops |-> loop[l].kids]

LoopDescendants(l) == Beneath(LoopKids, l)

Bound(l) == l \in Loops /\ loop[l].status = "bound"

-----------------------------------------------------------------------------
(* What a loop may reach.                                                   *)

OwnReachable(l) ==
  IF Bound(l)
  THEN {loop[l].root} \union (IF loop[l].descend THEN Descendants(loop[l].root) ELSE {})
  ELSE {}

Grants(b, op) == bridge[b].status = "open" /\ bridge[b].mode \in {op, "read_write"}

HeldGrants(l, op) == {b \in Bridges : Grants(b, op) /\ bridge[b].from \in OwnReachable(l)}

(* Descent through a grant stops at a region that is not bridgeable.        *)
GrantVisibleUnpruned(r) == Subtree(r)     \* mutant: descent never stops

GrantVisible(r) ==
  {r} \union Beneath([x \in Regions |-> {c \in Children[x] : policy[c].bridgeable}], r)

ReadClosure(l) ==
  OwnReachable(l)
    \union UNION {GrantVisible(bridge[b].to) : b \in HeldGrants(l, "read")}

Writable(r) == life[r] = "open" /\ ~policy[r].readonly

WriteClosure(l) ==
  {r \in OwnReachable(l) \union {bridge[b].to : b \in HeldGrants(l, "write")} : Writable(r)}

(* Scope.check: the host passes unless the window is strict; a loop needs   *)
(* its own scope or a grant to exactly this region.                         *)
ViaScope(a, r) == r \in OwnReachable(a)

ViaAnyGrant(a, op, r) ==     \* mutant: the mode of a grant is not looked at
  \E b \in Bridges : bridge[b].status = "open" /\ bridge[b].from \in OwnReachable(a) /\ bridge[b].to = r

ViaGrant(a, op, r) == \E b \in HeldGrants(a, op) : bridge[b].to = r

Authorized(a, op, r) ==
  IF a = Host THEN ~strict ELSE ViaScope(a, r) \/ ViaGrant(a, op, r)

(* The regions whose bytes a call of read(r, loop_id = a, include_children) *)
(* returns: the whole subtree, pruned only when the access is a grant's.    *)
DeliveredWhole(a, r, includeChildren) ==     \* mutant: a grant is not pruned
  IF includeChildren THEN Subtree(r) ELSE {r}

Delivered(a, r, includeChildren) ==
  IF ~includeChildren THEN {r}
  ELSE IF a = Host \/ ViaScope(a, r) THEN Subtree(r)
  ELSE GrantVisible(r)

(* Who keeps a region from being closed.                                    *)
OccupantsAtRoot(r) == {l \in Loops : Bound(l) /\ loop[l].root = r}     \* mutant

OccupantsAbove(r) ==     \* mutant: a loop bound to the region itself is missed
  {l \in Loops : Bound(l) /\ loop[l].descend /\ r \in Descendants(loop[l].root)}

Occupants(r) ==
  {l \in Loops : Bound(l) /\ (loop[l].root = r \/ (loop[l].descend /\ r \in Descendants(loop[l].root)))}

-----------------------------------------------------------------------------
(* disjointness(maker, judge): may this judge grade this maker?             *)

Identified(maker, judge) == judge # maker /\ Bound(judge)

OutsideControlFlow(maker, judge) ==
  judge \notin LoopDescendants(maker) /\ maker \notin LoopDescendants(judge)

DistinctRoot(maker, judge) == loop[judge].root # loop[maker].root

ExposedOnly(maker, judge) ==
  (ReadClosure(judge) \intersect WriteClosure(maker)) \subseteq loop[maker].exposes

CriterionOutOfReach(maker) ==
  \A c \in Criteria :
    loop[maker].criterion = c => criterion[c].region \notin WriteClosure(maker)

Disjoint(maker, judge) ==
  /\ Identified(maker, judge)
  /\ OutsideControlFlow(maker, judge)
  /\ DistinctRoot(maker, judge)
  /\ ExposedOnly(maker, judge)
  /\ CriterionOutOfReach(maker)
=============================================================================
