-------------------------- MODULE ScwWindowProofs --------------------------
(***************************************************************************)
(* Theorems about the context window, for every set of regions, loops,     *)
(* bridges, policies and limits.  The inductive invariant IInv ties the    *)
(* three parts an operation can pull apart: the tree of regions, the loops *)
(* bound to it and the grants across it.                                   *)
(***************************************************************************)
EXTENDS ScwProperties, TreeLemmas

(* A criterion that was ever pinned names a region: needed for the types of *)
(* the signatures repin_criterion takes.                                    *)
CriteriaPlaced ==
  \A c \in Criteria : criterion[c].status # "none" => criterion[c].region \in Regions

IInv ==
  /\ TypeOK
  /\ BridgesJoinOpenRegions
  /\ BoundLoopsOnOpenRegions
  /\ NothingOpenUnderClosed
  /\ CriteriaPlaced

-----------------------------------------------------------------------------
(* The region tree.                                                         *)

LEMMA ChildrenType == Children \in [Regions -> SUBSET Regions]
BY DEF Children

(* The subtree of a region of a subtree is part of it.                      *)
LEMMA SubtreeInSubtree ==
  ASSUME NEW r \in Regions, NEW x \in Subtree(r)
  PROVE  Subtree(x) \subseteq Subtree(r)
<1>1. x \in Regions /\ Descendants(r) \subseteq Regions
  BY ChildrenType, BeneathType DEF Subtree, Descendants
<1>2. \A z \in Children[x] : z \in Descendants(r)
  BY ChildrenType, BeneathClosed DEF Subtree, Descendants
<1>3. \A y \in Descendants(r) : Children[y] \subseteq Descendants(r)
  BY ChildrenType, BeneathClosed DEF Descendants
<1>4. Descendants(x) \subseteq Descendants(r)
  BY <1>1, <1>2, <1>3, ChildrenType, BeneathLeast DEF Descendants
<1> QED BY <1>4 DEF Subtree

LEMMA SignatureType ==
  ASSUME TypeOK, NEW r \in Regions
  PROVE  Signature(r) \in Signatures
<1>1. Subtree(r) \in SUBSET Regions
  BY ChildrenType, BeneathType DEF Subtree, Descendants
<1>2. Signature(r) \in [Subtree(r) -> Contents]
  BY <1>1 DEF Signature, TypeOK
<1> QED BY <1>1, <1>2 DEF Signatures

-----------------------------------------------------------------------------
(* Types.                                                                   *)

LEMMA AnyPolicyType == AnyPolicy \in Policies
BY PolicyAssumption DEF AnyPolicy

LEMMA InitTypeOK == Init => TypeOK
<1> SUFFICES ASSUME Init PROVE TypeOK
  OBVIOUS
<1>1. loop \in [Loops -> LoopRecord]
  BY DEF Init, NoLoop, LoopRecord, TerminalStates, Limits
<1>2. bridge \in [Bridges -> BridgeRecord]
  BY DEF Init, NoBridge, BridgeRecord, Actors
<1>3. NoSignature \in Signatures
  <2>1. NoSignature \in [{} -> Contents]
    BY DEF NoSignature
  <2> QED BY <2>1 DEF Signatures
<1>4. criterion \in [Criteria -> CriterionRecord]
  BY <1>3 DEF Init, NoCriterion, CriterionRecord
<1>5. evidence \in [Evidence -> EvidenceRecord]
  BY <1>3 DEF Init, NoEvidence, EvidenceRecord
<1>6. bytes \in [Regions -> Contents]
  BY ContentAssumption DEF Init
<1> QED BY <1>1, <1>2, <1>4, <1>5, <1>6, AnyPolicyType DEF Init, TypeOK

(* A changed field keeps the type of its record.                            *)
LEMMA BridgeStatusType ==
  ASSUME NEW br \in BridgeRecord, NEW st \in {"none", "open", "closed", "expired"}
  PROVE  [br EXCEPT !.status = st] \in BridgeRecord
BY DEF BridgeRecord

LEMMA UnboundType ==
  ASSUME NEW lp \in LoopRecord, NEW t \in TerminalStates
  PROVE  [lp EXCEPT !.status = "unbound", !.terminal = t] \in LoopRecord
BY DEF LoopRecord

LEMMA TickedType ==
  ASSUME NEW lp \in LoopRecord, NEW i \in Nat, NEW acc \in BOOLEAN,
         NEW st \in {"none", "bound", "exhausted", "unbound"}
  PROVE  [lp EXCEPT !.iteration = i, !.accepted = acc, !.status = st] \in LoopRecord
BY DEF LoopRecord

LEMMA UsedType ==
  ASSUME NEW ev \in EvidenceRecord, NEW t \in Nat
  PROVE  [ev EXCEPT !.usedAt = t] \in EvidenceRecord
BY DEF EvidenceRecord

LEMMA RevokedForType ==
  ASSUME TypeOK, NEW T
  PROVE  RevokedFor(T) \in [Bridges -> BridgeRecord]
BY DEF TypeOK, RevokedFor, BridgeRecord

LEMMA ExpiredAtType ==
  ASSUME TypeOK, NEW l, NEW now
  PROVE  ExpiredAt(l, now) \in [Bridges -> BridgeRecord]
BY DEF TypeOK, ExpiredAt, BridgeRecord

LEMMA RegionStepType ==
  ASSUME TypeOK, NEW a \in Actors, RegionStep(a)
  PROVE  TypeOK'
<1>1. CASE \E r \in Regions, p \in Policies, up \in Regions \union {None} : CreateScw(a, r, p, up)
  BY <1>1 DEF CreateScw, TypeOK
<1>2. ASSUME NEW r \in Regions, NEW cascade \in BOOLEAN, CloseScw(a, r, cascade)
      PROVE  TypeOK'
  <2>1. bridge' \in [Bridges -> BridgeRecord]
    BY <1>2, RevokedForType DEF CloseScw
  <2>2. bytes' \in [Regions -> Contents] /\ life' \in [Regions -> {"absent", "open", "sealed", "purged"}]
    BY <1>2, ContentAssumption DEF CloseScw, TypeOK
  <2> QED BY <1>2, <2>1, <2>2 DEF CloseScw, TypeOK
<1> QED BY <1>1, <1>2 DEF RegionStep

LEMMA ContentStepType ==
  ASSUME TypeOK, NEW a \in Actors, ContentStep(a)
  PROVE  TypeOK'
<1>1. CASE \E r \in Regions, v \in Contents : Write(a, r, v)
  BY <1>1 DEF Write, TypeOK
<1>2. CASE \E from, to \in Regions, mode \in {"move", "copy"}, v, rest \in Contents :
             Promote(a, from, to, mode, v, rest)
  BY <1>2 DEF Promote, TypeOK
<1> QED BY <1>1, <1>2 DEF ContentStep

LEMMA BridgeStepType ==
  ASSUME TypeOK, NEW a \in Actors, BridgeStep(a)
  PROVE  TypeOK'
<1>1. ASSUME NEW g \in GrantSpecs, OpenBridge(a, g)
      PROVE  TypeOK'
  <2>1. g \in GrantSpec
    BY SpecsAssumption
  <2>2. (IF g.ttl = None THEN None ELSE tick + g.ttl) \in Int \union {None}
    BY <2>1 DEF TypeOK, GrantSpec
  <2>3. [status |-> "open", from |-> g.from, to |-> g.to, mode |-> g.mode,
         expires |-> IF g.ttl = None THEN None ELSE tick + g.ttl, owner |-> a] \in BridgeRecord
    BY <2>1, <2>2 DEF GrantSpec, BridgeRecord
  <2>4. bridge' \in [Bridges -> BridgeRecord]
    BY <1>1, <2>3 DEF OpenBridge, TypeOK
  <2> QED BY <1>1, <2>4 DEF OpenBridge, TypeOK
<1>2. ASSUME NEW b \in Bridges, CloseBridge(a, b)
      PROVE  TypeOK'
  <2>1. bridge' = [bridge EXCEPT ![b] = [bridge[b] EXCEPT !.status = "closed"]]
    BY <1>2 DEF CloseBridge
  <2>2. bridge' \in [Bridges -> BridgeRecord]
    BY <2>1, BridgeStatusType DEF TypeOK
  <2> QED BY <1>2, <2>2 DEF CloseBridge, TypeOK
<1> QED BY <1>1, <1>2 DEF BridgeStep

LEMMA BindStepType ==
  ASSUME TypeOK, NEW l \in Loops, BindStep(l)
  PROVE  TypeOK'
<1>1. ASSUME NEW s \in LoopSpecs, BindScope(l, s)
      PROVE  TypeOK'
  <2>1. s \in LoopSpec
    BY SpecsAssumption
  <2>2. (IF s.up = None THEN 0 ELSE loop[s.up].depth + 1) \in Nat
    BY <2>1 DEF TypeOK, LoopSpec, LoopRecord
  <2>3. [status |-> "bound", root |-> s.root, descend |-> s.descend,
         iteration |-> 0, max |-> s.max, harness |-> s.harness,
         objective |-> s.objective, exposes |-> s.exposes,
         criterion |-> s.criterion, up |-> s.up, kids |-> {},
         depth |-> IF s.up = None THEN 0 ELSE loop[s.up].depth + 1,
         accepted |-> FALSE, terminal |-> None] \in LoopRecord
    BY <2>1, <2>2 DEF LoopSpec, LoopRecord, TerminalStates
  <2>4. \A m \in Loops : [loop[m] EXCEPT !.kids = @ \union {l}] \in LoopRecord
    BY DEF TypeOK, LoopRecord
  <2>5. loop' \in [Loops -> LoopRecord]
    BY <1>1, <2>3, <2>4 DEF BindScope, TypeOK
  <2>6. ceiling' \in [Regions -> {None} \union SUBSET Regions]
    BY <1>1, <2>1 DEF BindScope, TypeOK, LoopSpec
  <2> QED BY <1>1, <2>5, <2>6 DEF BindScope, TypeOK
<1>2. ASSUME NEW terminal \in TerminalStates, UnbindScope(l, terminal)
      PROVE  TypeOK'
  <2>1. loop' = [loop EXCEPT ![l] = [loop[l] EXCEPT !.status = "unbound", !.terminal = terminal]]
    BY <1>2 DEF UnbindScope
  <2>2. loop' \in [Loops -> LoopRecord]
    BY <2>1, UnboundType DEF TypeOK
  <2> QED BY <1>2, <2>2 DEF UnbindScope, TypeOK
<1> QED BY <1>1, <1>2 DEF BindStep

LEMMA CriterionStepType ==
  ASSUME TypeOK, CriteriaPlaced, CriterionStep
  PROVE  TypeOK'
<1>1. ASSUME NEW c \in Criteria, NEW r \in Regions, PinCriterion(c, r)
      PROVE  TypeOK'
  <2>1. criterion' \in [Criteria -> CriterionRecord]
    BY <1>1, SignatureType DEF PinCriterion, TypeOK, CriterionRecord
  <2> QED BY <1>1, <2>1 DEF PinCriterion, TypeOK
<1>2. ASSUME NEW c \in Criteria, RepinCriterion(c)
      PROVE  TypeOK'
  <2>1. Signature(criterion[c].region) \in Signatures
    BY <1>2, SignatureType DEF RepinCriterion, CriteriaPlaced
  <2>2. criterion' \in [Criteria -> CriterionRecord]
    BY <1>2, <2>1 DEF RepinCriterion, TypeOK, CriterionRecord
  <2> QED BY <1>2, <2>2 DEF RepinCriterion, TypeOK
<1>3. ASSUME NEW c \in Criteria, UnpinCriterion(c)
      PROVE  TypeOK'
  <2>1. criterion' \in [Criteria -> CriterionRecord]
    BY <1>3 DEF UnpinCriterion, TypeOK, CriterionRecord
  <2> QED BY <1>3, <2>1 DEF UnpinCriterion, TypeOK
<1> QED BY <1>1, <1>2, <1>3 DEF CriterionStep

LEMMA EvidenceStepType ==
  ASSUME TypeOK, BoundLoopsOnOpenRegions, NEW l \in Loops, EvidenceStep(l)
  PROVE  TypeOK'
<1>1. PICK passes \in BOOLEAN : AttestEvidence(l, passes)
  BY DEF EvidenceStep
<1>2. Signature(loop[l].root) \in Signatures
  BY <1>1, SignatureType DEF AttestEvidence, BoundLoopsOnOpenRegions
<1>3. evidence' \in [Evidence -> EvidenceRecord]
  BY <1>1, <1>2 DEF AttestEvidence, TypeOK, EvidenceRecord
<1> QED BY <1>1, <1>3 DEF AttestEvidence, TypeOK

LEMMA TickStepType ==
  ASSUME TypeOK, NEW l \in Loops, TickStep(l)
  PROVE  TypeOK'
<1>1. ASSUME NEW verified \in BOOLEAN, NEW judge \in Loops \union {None},
             NEW e \in Evidence \union {None}, LoopTick(l, verified, judge, e)
      PROVE  TypeOK'
  <2>1. tick' \in Nat /\ spent' \in [Harnesses -> Nat]
    BY <1>1 DEF LoopTick, TypeOK
  <2>2. bytes' \in [Regions -> Contents]
    BY <1>1, ContentAssumption DEF LoopTick, TypeOK
  <2>3. bridge' \in [Bridges -> BridgeRecord]
    BY <1>1, ExpiredAtType DEF LoopTick
  <2>4. loop' \in [Loops -> LoopRecord]
    <3> DEFINE st == IF loop[l].max # None /\ loop[l].iteration + 1 >= loop[l].max
                     THEN "exhausted" ELSE loop[l].status
               acc == loop[l].accepted \/ verified
               lp == [loop[l] EXCEPT !.iteration = loop[l].iteration + 1,
                                     !.accepted = acc, !.status = st]
    <3>1. loop[l] \in LoopRecord
      BY DEF TypeOK
    <3>2. /\ loop[l].iteration + 1 \in Nat /\ acc \in BOOLEAN
          /\ st \in {"none", "bound", "exhausted", "unbound"}
      BY <3>1 DEF LoopRecord
    <3>3. lp \in LoopRecord
      <4> HIDE DEF st, acc
      <4> QED BY <3>1, <3>2, TickedType
    <3>4. loop' = [loop EXCEPT ![l] = lp]
      BY <1>1 DEF LoopTick
    <3> HIDE DEF lp
    <3> QED BY <3>3, <3>4 DEF TypeOK
  <2>5. evidence' \in [Evidence -> EvidenceRecord]
    <3>1. CASE evidence' = evidence
      BY <3>1 DEF TypeOK
    <3>2. CASE evidence' = [evidence EXCEPT ![e].usedAt = tick + 1]
      <4>1. evidence' = [evidence EXCEPT ![e] = [evidence[e] EXCEPT !.usedAt = tick + 1]]
        BY <3>2
      <4>2. CASE e \in Evidence
        <5>1. evidence[e] \in EvidenceRecord /\ tick + 1 \in Nat
          BY <4>2 DEF TypeOK
        <5>2. [evidence[e] EXCEPT !.usedAt = tick + 1] \in EvidenceRecord
          BY <5>1, UsedType
        <5> QED BY <4>1, <4>2, <5>2 DEF TypeOK
      <4>3. CASE e \notin Evidence
        BY <4>1, <4>3 DEF TypeOK
      <4> QED BY <4>2, <4>3
    <3> QED BY <1>1, <3>1, <3>2 DEF LoopTick
  <2> QED BY <1>1, <2>1, <2>2, <2>3, <2>4, <2>5 DEF LoopTick, TypeOK
<1>2. ASSUME RefuseDriftedTick(l)
      PROVE  TypeOK'
  <2>1. criterion' \in [Criteria -> CriterionRecord]
    BY <1>2 DEF RefuseDriftedTick, TypeOK, CriterionRecord
  <2> QED BY <1>2, <2>1 DEF RefuseDriftedTick, TypeOK
<1> QED BY <1>1, <1>2 DEF TickStep

-----------------------------------------------------------------------------
(* The inductive invariant.                                                 *)

LEMMA InitIInv == Init => IInv
BY InitTypeOK DEF Init, IInv, BridgesJoinOpenRegions, BoundLoopsOnOpenRegions, Bound,
   NothingOpenUnderClosed, CriteriaPlaced, NoBridge, NoLoop, NoCriterion

(* What is closed is open regions closed under open children.               *)
LEMMA CloseTargetsType ==
  ASSUME NEW r \in Regions, NEW cascade
  PROVE  r \in CloseTargets(r, cascade) /\ CloseTargets(r, cascade) \subseteq Regions
<1> DEFINE kids == [x \in Regions |-> OpenChildren(x)]
<1>1. kids \in [Regions -> SUBSET Regions]
  BY DEF OpenChildren, Children
<1>2. Beneath(kids, r) \subseteq Regions
  <2> HIDE DEF kids
  <2> QED BY <1>1, BeneathType
<1> QED BY <1>2 DEF CloseTargets

LEMMA CloseTargetsClosed ==
  ASSUME NEW r \in Regions, NEW cascade, cascade \/ OpenChildren(r) = {},
         NEW x \in CloseTargets(r, cascade), NEW c \in OpenChildren(x)
  PROVE  c \in CloseTargets(r, cascade)
<1> DEFINE kids == [y \in Regions |-> OpenChildren(y)]
<1>1. kids \in [Regions -> SUBSET Regions]
  BY DEF OpenChildren, Children
<1>2. x \in Regions
  BY CloseTargetsType
<1>3. CASE cascade
  <2>1. x \in {r} \union Beneath(kids, r)
    BY <1>3 DEF CloseTargets
  <2>2. c \in kids[x]
    BY <1>2
  <2>3. c \in Beneath(kids, r)
    <3> HIDE DEF kids
    <3> QED BY <1>1, <2>1, <2>2, BeneathClosed
  <2> QED BY <1>3, <2>3 DEF CloseTargets
<1>4. CASE ~cascade
  BY <1>4 DEF CloseTargets
<1> QED BY <1>3, <1>4

LEMMA CreateKeepsIInv ==
  ASSUME IInv, NEW a \in Actors, NEW r \in Regions, NEW p \in Policies,
         NEW up \in Regions \union {None}, CreateScw(a, r, p, up)
  PROVE  IInv'
<1>1. TypeOK'
  BY RegionStepType DEF IInv, RegionStep
<1>2. BridgesJoinOpenRegions'
  BY DEF IInv, BridgesJoinOpenRegions, CreateScw, TypeOK
<1>3. BoundLoopsOnOpenRegions'
  BY DEF IInv, BoundLoopsOnOpenRegions, Bound, CreateScw, TypeOK
<1>4. NothingOpenUnderClosed'
  BY DEF IInv, NothingOpenUnderClosed, CreateScw, TypeOK
<1>5. CriteriaPlaced'
  BY DEF IInv, CriteriaPlaced, CreateScw
<1> QED BY <1>1, <1>2, <1>3, <1>4, <1>5 DEF IInv

(* The one step that pulls the three parts apart: a closing region takes    *)
(* its open subtree and every grant through it along, and is refused when   *)
(* a loop occupies any of it.                                               *)
LEMMA CloseKeepsIInv ==
  ASSUME IInv, NEW a \in Actors, NEW r \in Regions, NEW cascade \in BOOLEAN,
         CloseScw(a, r, cascade)
  PROVE  IInv'
<1> DEFINE T == CloseTargets(r, cascade)
<1>1. TypeOK'
  BY RegionStepType DEF IInv, RegionStep
<1>2. \A x \in Regions : IF x \in T THEN life'[x] # "open" ELSE life'[x] = life[x]
  BY DEF CloseScw
<1>3. BridgesJoinOpenRegions'
  <2> SUFFICES ASSUME NEW b \in Bridges, bridge'[b].status = "open"
               PROVE  LET from == bridge'[b].from  to == bridge'[b].to
                      IN  /\ from \in Regions /\ to \in Regions /\ from # to
                          /\ life'[from] = "open" /\ life'[to] = "open"
                          /\ policy'[to].bridgeable
                          /\ bridge'[b].mode # "read" => ~policy'[to].readonly
    BY DEF BridgesJoinOpenRegions
  <2>1. bridge[b] \in BridgeRecord
    BY DEF IInv, TypeOK
  <2>2. bridge'[b] = bridge[b] /\ {bridge[b].from, bridge[b].to} \intersect T = {}
    BY <2>1 DEF CloseScw, RevokedFor, BridgeRecord
  <2> QED BY <1>2, <2>2 DEF IInv, BridgesJoinOpenRegions, CloseScw
<1>4. BoundLoopsOnOpenRegions'
  <2> SUFFICES ASSUME NEW l \in Loops, Bound(l)'
               PROVE  loop[l].root \in Regions /\ life'[loop[l].root] = "open"
    BY DEF BoundLoopsOnOpenRegions, CloseScw
  <2>1. Bound(l)
    BY DEF Bound, CloseScw
  <2>2. loop[l].root \in Regions /\ life[loop[l].root] = "open"
    BY <2>1 DEF IInv, BoundLoopsOnOpenRegions
  <2>3. loop[l].root \notin T
    BY <2>1 DEF CloseScw, Occupants
  <2> QED BY <1>2, <2>2, <2>3
<1>5. NothingOpenUnderClosed'
  <2> SUFFICES ASSUME NEW x \in Regions, life'[x] = "open", parent[x] # None
               PROVE  life'[parent[x]] = "open"
    BY DEF NothingOpenUnderClosed, CloseScw
  <2>1. x \notin T /\ life[x] = "open" /\ parent[x] \in Regions
    BY <1>2 DEF IInv, TypeOK
  <2>2. life[parent[x]] = "open"
    BY <2>1 DEF IInv, NothingOpenUnderClosed
  <2>3. parent[x] \notin T
    <3>1. x \in OpenChildren(parent[x])
      BY <2>1 DEF OpenChildren, Children
    <3>2. cascade \/ OpenChildren(r) = {}
      BY DEF CloseScw
    <3> QED BY <2>1, <3>1, <3>2, CloseTargetsClosed
  <2> QED BY <1>2, <2>1, <2>2, <2>3
<1>6. CriteriaPlaced'
  BY DEF IInv, CriteriaPlaced, CloseScw
<1> QED BY <1>1, <1>3, <1>4, <1>5, <1>6 DEF IInv

LEMMA BridgeStepKeepsIInv ==
  ASSUME IInv, NEW a \in Actors, BridgeStep(a)
  PROVE  IInv'
<1>1. TypeOK'
  BY BridgeStepType DEF IInv
<1>2. BridgesJoinOpenRegions'
  <2>1. ASSUME NEW g \in GrantSpecs, OpenBridge(a, g)
        PROVE  BridgesJoinOpenRegions'
    <3>1. g.from \in Regions /\ g.to \in Regions
      BY SpecsAssumption DEF GrantSpec
    <3> QED BY <2>1, <3>1 DEF IInv, BridgesJoinOpenRegions, OpenBridge, TypeOK
  <2>2. ASSUME NEW b \in Bridges, CloseBridge(a, b)
        PROVE  BridgesJoinOpenRegions'
    <3>1. \A d \in Bridges : bridge'[d].status = "open" => bridge'[d] = bridge[d]
      <4>1. bridge' = [bridge EXCEPT ![b] = [bridge[b] EXCEPT !.status = "closed"]]
        BY <2>2 DEF CloseBridge
      <4>2. [bridge[b] EXCEPT !.status = "closed"].status = "closed"
        BY DEF IInv, TypeOK, BridgeRecord
      <4> QED BY <4>1, <4>2 DEF IInv, TypeOK
    <3> QED BY <2>2, <3>1 DEF IInv, BridgesJoinOpenRegions, CloseBridge
  <2> QED BY <2>1, <2>2 DEF BridgeStep
<1>3. UNCHANGED <<life, parent, loop, criterion>>
  BY DEF BridgeStep, OpenBridge, CloseBridge
<1> QED BY <1>1, <1>2, <1>3
        DEF IInv, BoundLoopsOnOpenRegions, Bound, NothingOpenUnderClosed, CriteriaPlaced

LEMMA BindStepKeepsIInv ==
  ASSUME IInv, NEW l \in Loops, BindStep(l)
  PROVE  IInv'
<1>1. TypeOK'
  BY BindStepType DEF IInv
<1>2. BoundLoopsOnOpenRegions'
  <2>1. ASSUME NEW s \in LoopSpecs, BindScope(l, s)
        PROVE  BoundLoopsOnOpenRegions'
    <3>1. s.root \in Regions /\ life[s.root] = "open"
      BY <2>1, SpecsAssumption DEF LoopSpec, BindScope
    <3>2. \A m \in Loops : IF m = l THEN loop'[m].root = s.root
                            ELSE loop'[m].root = loop[m].root /\ loop'[m].status = loop[m].status
      BY <2>1 DEF BindScope, IInv, TypeOK, LoopRecord
    <3> QED BY <2>1, <3>1, <3>2 DEF BindScope, IInv, BoundLoopsOnOpenRegions, Bound
  <2>2. ASSUME NEW t \in TerminalStates, UnbindScope(l, t)
        PROVE  BoundLoopsOnOpenRegions'
    <3>1. loop' = [loop EXCEPT ![l] = [loop[l] EXCEPT !.status = "unbound", !.terminal = t]]
      BY <2>2 DEF UnbindScope
    <3>2. [loop[l] EXCEPT !.status = "unbound", !.terminal = t].status = "unbound"
      BY DEF IInv, TypeOK, LoopRecord
    <3> QED BY <2>2, <3>1, <3>2 DEF UnbindScope, IInv, TypeOK, BoundLoopsOnOpenRegions, Bound
  <2> QED BY <2>1, <2>2 DEF BindStep
<1>3. UNCHANGED <<life, parent, policy, bridge, criterion>>
  BY DEF BindStep, BindScope, UnbindScope
<1> QED BY <1>1, <1>2, <1>3
        DEF IInv, BridgesJoinOpenRegions, NothingOpenUnderClosed, CriteriaPlaced

LEMMA TickStepKeepsIInv ==
  ASSUME IInv, NEW l \in Loops, TickStep(l)
  PROVE  IInv'
<1>1. TypeOK'
  BY TickStepType DEF IInv
<1>2. ASSUME NEW verified \in BOOLEAN, NEW judge \in Loops \union {None},
             NEW e \in Evidence \union {None}, LoopTick(l, verified, judge, e)
      PROVE  IInv'
  <2>1. \A b \in Bridges : bridge'[b].status = "open" => bridge'[b] = bridge[b]
    BY <1>2 DEF LoopTick, ExpiredAt, IInv, TypeOK, BridgeRecord
  <2>2. BridgesJoinOpenRegions'
    BY <1>2, <2>1 DEF LoopTick, IInv, BridgesJoinOpenRegions
  <2>3. \A m \in Loops : loop'[m].root = loop[m].root /\ (Bound(m)' => Bound(m))
    BY <1>2 DEF LoopTick, WithinCeilings, IInv, TypeOK, LoopRecord, Bound
  <2>4. BoundLoopsOnOpenRegions'
    BY <1>2, <2>3 DEF LoopTick, IInv, BoundLoopsOnOpenRegions
  <2> QED BY <1>1, <1>2, <2>2, <2>4 DEF LoopTick, IInv, NothingOpenUnderClosed, CriteriaPlaced
<1>3. ASSUME RefuseDriftedTick(l)
      PROVE  IInv'
  <2>1. \A c \in Criteria : /\ criterion'[c].status = criterion[c].status
                            /\ criterion'[c].region = criterion[c].region
    BY <1>3 DEF RefuseDriftedTick, IInv, TypeOK, CriterionRecord
  <2>2. CriteriaPlaced'
    BY <2>1 DEF IInv, CriteriaPlaced
  <2> QED BY <1>1, <1>3, <2>2 DEF RefuseDriftedTick, IInv, BridgesJoinOpenRegions,
             BoundLoopsOnOpenRegions, Bound, NothingOpenUnderClosed
<1> QED BY <1>2, <1>3 DEF TickStep

LEMMA CriterionStepKeepsIInv ==
  ASSUME IInv, CriterionStep
  PROVE  IInv'
<1>1. TypeOK'
  BY CriterionStepType DEF IInv
<1>2. CriteriaPlaced'
  <2>1. ASSUME NEW c \in Criteria, NEW r \in Regions, PinCriterion(c, r)
        PROVE  CriteriaPlaced'
    BY <2>1 DEF PinCriterion, IInv, TypeOK, CriterionRecord, CriteriaPlaced
  <2>2. ASSUME NEW c \in Criteria, RepinCriterion(c) \/ UnpinCriterion(c)
        PROVE  CriteriaPlaced'
    <3>1. \A d \in Criteria : /\ criterion'[d].region = criterion[d].region
                              /\ d # c => criterion'[d].status = criterion[d].status
      BY <2>2 DEF RepinCriterion, UnpinCriterion, IInv, TypeOK, CriterionRecord
    <3>2. criterion[c].status # "none"
      BY <2>2 DEF RepinCriterion, UnpinCriterion
    <3> QED BY <3>1, <3>2 DEF IInv, CriteriaPlaced
  <2> QED BY <2>1, <2>2 DEF CriterionStep
<1>3. UNCHANGED <<life, parent, policy, bridge, loop>>
  BY DEF CriterionStep, PinCriterion, RepinCriterion, UnpinCriterion
<1> QED BY <1>1, <1>2, <1>3 DEF IInv, BridgesJoinOpenRegions, BoundLoopsOnOpenRegions, Bound,
             NothingOpenUnderClosed

(* The other steps touch nothing IInv speaks of but types.                  *)
LEMMA FrameKeepsIInv ==
  ASSUME IInv, TypeOK', UNCHANGED <<life, parent, policy, bridge, loop, criterion>>
  PROVE  IInv'
BY DEF IInv, BridgesJoinOpenRegions, BoundLoopsOnOpenRegions, Bound, NothingOpenUnderClosed,
   CriteriaPlaced

LEMMA StepIInv == IInv /\ [Next]_vars => IInv'
<1> SUFFICES ASSUME IInv, [Next]_vars PROVE IInv'
  OBVIOUS
<1>1. ASSUME NEW a \in Actors, RegionStep(a) PROVE IInv'
  BY <1>1, CreateKeepsIInv, CloseKeepsIInv DEF RegionStep
<1>2. ASSUME NEW a \in Actors, ContentStep(a) PROVE IInv'
  <2>1. TypeOK'
    BY <1>2, ContentStepType DEF IInv
  <2>2. UNCHANGED <<life, parent, policy, bridge, loop, criterion>>
    BY <1>2 DEF ContentStep, Write, Promote
  <2> QED BY <2>1, <2>2, FrameKeepsIInv
<1>3. ASSUME NEW a \in Actors, BridgeStep(a) PROVE IInv'
  BY <1>3, BridgeStepKeepsIInv
<1>4. ASSUME NEW l \in Loops, BindStep(l) PROVE IInv'
  BY <1>4, BindStepKeepsIInv
<1>5. ASSUME NEW l \in Loops, TickStep(l) PROVE IInv'
  BY <1>5, TickStepKeepsIInv
<1>6. ASSUME NEW l \in Loops, EvidenceStep(l) PROVE IInv'
  <2>1. TypeOK'
    BY <1>6, EvidenceStepType DEF IInv
  <2>2. UNCHANGED <<life, parent, policy, bridge, loop, criterion>>
    BY <1>6 DEF EvidenceStep, AttestEvidence
  <2> QED BY <2>1, <2>2, FrameKeepsIInv
<1>7. CASE CriterionStep
  BY <1>7, CriterionStepKeepsIInv
<1>8. CASE Seal
  <2>1. TypeOK'
    BY <1>8 DEF Seal, IInv, TypeOK
  <2> QED BY <1>8, <2>1, FrameKeepsIInv DEF Seal
<1>9. CASE UNCHANGED vars
  <2>1. TypeOK'
    BY <1>9 DEF vars, IInv, TypeOK
  <2> QED BY <1>9, <2>1, FrameKeepsIInv DEF vars
<1> QED BY <1>1, <1>2, <1>3, <1>4, <1>5, <1>6, <1>7, <1>8, <1>9 DEF Next

(* The invariant holds in every reachable state of every window.            *)
THEOREM InvariantHolds == Spec => []IInv
BY InitIInv, StepIInv, PTL DEF Spec

(* Types are kept.                                                          *)
THEOREM TypeCorrect == Spec => []TypeOK
<1>1. IInv => TypeOK
  BY DEF IInv
<1> QED BY <1>1, InvariantHolds, PTL

(* No grant outlives either of the regions it joins, whatever is created,   *)
(* closed in cascade, granted, bound or ticked in any order.                *)
THEOREM GrantsOutliveNoRegion == Spec => []BridgesJoinOpenRegions
<1>1. IInv => BridgesJoinOpenRegions
  BY DEF IInv
<1> QED BY <1>1, InvariantHolds, PTL

(* No loop outlives the region it is bound to.                              *)
THEOREM LoopsOutliveNoRegion == Spec => []BoundLoopsOnOpenRegions
<1>1. IInv => BoundLoopsOnOpenRegions
  BY DEF IInv
<1> QED BY <1>1, InvariantHolds, PTL

(* A sealed or purged region has nothing open beneath it, at any depth.     *)
THEOREM SealsAreOfSubtrees == Spec => []NothingOpenUnderClosed
<1>1. IInv => NothingOpenUnderClosed
  BY DEF IInv
<1> QED BY <1>1, InvariantHolds, PTL

-----------------------------------------------------------------------------
(* The partition.                                                           *)

LEMMA BridgeableKids ==
  [x \in Regions |-> {c \in Children[x] : policy[c].bridgeable}] \in [Regions -> SUBSET Regions]
BY ChildrenType

(* Descent through a grant reaches bridgeable regions only.                 *)
LEMMA GrantVisibleBridgeable ==
  ASSUME NEW r \in Regions, policy[r].bridgeable
  PROVE  GrantVisible(r) \subseteq {x \in Regions : policy[x].bridgeable}
<1> DEFINE kids == [x \in Regions |-> {c \in Children[x] : policy[c].bridgeable}]
           S == {x \in Regions : policy[x].bridgeable}
<1>1. kids \in [Regions -> SUBSET Regions]
  BY BridgeableKids
<1>2. \A x \in Regions : kids[x] \subseteq S
  BY ChildrenType
<1>3. Beneath(kids, r) \subseteq S
  <2>1. S \in SUBSET Regions /\ kids[r] \subseteq S /\ \A z \in S : kids[z] \subseteq S
    BY <1>2
  <2> HIDE DEF kids, S
  <2> QED BY <1>1, <2>1, BeneathLeast
<1> QED BY <1>3 DEF GrantVisible

(* What a bound loop reaches on its own lies in the subtree of its root.    *)
LEMMA OwnReachableInSubtree ==
  ASSUME BoundLoopsOnOpenRegions, NEW l \in Loops, NEW r \in OwnReachable(l)
  PROVE  /\ Bound(l) /\ loop[l].root \in Regions
         /\ r \in Subtree(loop[l].root)
BY DEF OwnReachable, BoundLoopsOnOpenRegions, Subtree

(* What a grant a loop holds leads to accepts grants.                       *)
LEMMA GrantedBridgeable ==
  ASSUME BridgesJoinOpenRegions, NEW l, NEW op, NEW b \in HeldGrants(l, op)
  PROVE  bridge[b].to \in Regions /\ policy[bridge[b].to].bridgeable
BY DEF HeldGrants, Grants, BridgesJoinOpenRegions

(* A region that refuses grants is never read from outside its loop's own   *)
(* subtree, by any grant to anything above it.                              *)
THEOREM WallsHoldAlways == Spec => []WallsHold
<1>1. IInv => WallsHold
  <2> SUFFICES ASSUME IInv, NEW l \in Loops, Bound(l)
               PROVE  LET inside == Subtree(loop[l].root)
                          walled == {r \in Regions : ~policy[r].bridgeable}
                      IN  /\ ReadClosure(l) \intersect walled \subseteq inside
                          /\ \A r \in Regions : Authorized(l, "read", r) =>
                               Delivered(l, r, TRUE) \intersect walled \subseteq inside
    BY DEF WallsHold
  <2> DEFINE inside == Subtree(loop[l].root)
             walled == {r \in Regions : ~policy[r].bridgeable}
  <2>1. \A b \in HeldGrants(l, "read") : GrantVisible(bridge[b].to) \intersect walled = {}
    BY GrantedBridgeable, GrantVisibleBridgeable DEF IInv
  <2>2. OwnReachable(l) \subseteq inside
    BY OwnReachableInSubtree DEF IInv
  <2>3. ReadClosure(l) \intersect walled \subseteq inside
    BY <2>1, <2>2 DEF ReadClosure
  <2>4. ASSUME NEW r \in Regions, Authorized(l, "read", r)
        PROVE  Delivered(l, r, TRUE) \intersect walled \subseteq inside
    <3>1. l # Host
      BY HostAssumption
    <3>2. CASE ViaScope(l, r)
      <4>1. Subtree(r) \subseteq inside
        BY <3>2, <2>2, OwnReachableInSubtree, SubtreeInSubtree DEF IInv, ViaScope
      <4> QED BY <3>2, <4>1 DEF Delivered
    <3>3. CASE ~ViaScope(l, r)
      <4>1. PICK b \in HeldGrants(l, "read") : bridge[b].to = r
        BY <2>4, <3>1, <3>3 DEF Authorized, ViaGrant
      <4> QED BY <2>1, <3>1, <3>3, <4>1 DEF Delivered
    <3> QED BY <3>2, <3>3
  <2> QED BY <2>3, <2>4
<1> QED BY <1>1, InvariantHolds, PTL

(* For a loop bound with descend, the closure the disjointness proof is     *)
(* computed from covers all that reads return.                              *)
THEOREM DescendingReadsCovered == Spec => []DescendingReadsWithinClosure
<1>1. IInv => DescendingReadsWithinClosure
  <2> SUFFICES ASSUME IInv, NEW l \in Loops, NEW r \in Regions, Bound(l), loop[l].descend,
                      Authorized(l, "read", r)
               PROVE  Delivered(l, r, TRUE) \subseteq ReadClosure(l)
    BY DEF DescendingReadsWithinClosure
  <2>1. l # Host
    BY HostAssumption
  <2>2. CASE ViaScope(l, r)
    <3>1. Subtree(r) \subseteq Subtree(loop[l].root)
      BY <2>2, OwnReachableInSubtree, SubtreeInSubtree DEF IInv, ViaScope
    <3>2. Subtree(loop[l].root) = OwnReachable(l)
      BY DEF OwnReachable, Subtree
    <3> QED BY <2>2, <3>1, <3>2 DEF Delivered, ReadClosure
  <2>3. CASE ~ViaScope(l, r)
    <3>1. PICK b \in HeldGrants(l, "read") : bridge[b].to = r
      BY <2>1, <2>3 DEF Authorized, ViaGrant
    <3> QED BY <2>1, <2>3, <3>1 DEF Delivered, ReadClosure
  <2> QED BY <2>2, <2>3
<1> QED BY <1>1, InvariantHolds, PTL

(* A region in the partition of a bound loop never closes.                  *)
THEOREM OccupiedStaysOpen == Spec => NoOccupiedRegionCloses
<1> DEFINE Kept == \A r \in Regions : life[r] = "open" /\ life'[r] # "open" =>
                     \A l \in Loops : r \notin OwnReachable(l)
<1>1. IInv /\ [Next]_vars => Kept
  <2> SUFFICES ASSUME IInv, [Next]_vars, NEW r \in Regions, life[r] = "open", life'[r] # "open",
                      NEW l \in Loops
               PROVE  r \notin OwnReachable(l)
    OBVIOUS
  <2>1. PICK a \in Actors, x \in Regions, cascade \in BOOLEAN : CloseScw(a, x, cascade)
    <3>1. life' # life
      OBVIOUS
    <3>2. PICK a \in Actors : RegionStep(a)
      <4>1. ASSUME NEW a \in Actors, ContentStep(a) \/ BridgeStep(a) PROVE FALSE
        BY <3>1, <4>1 DEF ContentStep, Write, Promote, BridgeStep, OpenBridge, CloseBridge
      <4>2. ASSUME NEW m \in Loops, BindStep(m) \/ TickStep(m) \/ EvidenceStep(m) PROVE FALSE
        BY <3>1, <4>2 DEF BindStep, BindScope, UnbindScope, TickStep, LoopTick,
             RefuseDriftedTick, EvidenceStep, AttestEvidence
      <4>3. ASSUME CriterionStep \/ Seal \/ UNCHANGED vars PROVE FALSE
        BY <3>1, <4>3 DEF CriterionStep, PinCriterion, RepinCriterion, UnpinCriterion, Seal, vars
      <4> QED BY <4>1, <4>2, <4>3 DEF Next
    <3>3. ASSUME NEW x \in Regions, NEW p \in Policies, NEW up \in Regions \union {None},
                 CreateScw(a, x, p, up)
          PROVE  FALSE
      BY <3>3 DEF CreateScw, IInv, TypeOK
    <3> QED BY <3>2, <3>3 DEF RegionStep
  <2>2. r \in CloseTargets(x, cascade)
    BY <2>1 DEF CloseScw
  <2>3. l \notin Occupants(r)
    BY <2>1, <2>2 DEF CloseScw
  <2> QED BY <2>3 DEF Occupants, OwnReachable
<1> QED BY <1>1, InvariantHolds, PTL DEF Spec, NoOccupiedRegionCloses

-----------------------------------------------------------------------------
(* What changes in a sealed window.                                         *)

(* Whoever may write an open region in a sealed window is a loop, and the   *)
(* region is in its write closure.                                          *)
LEMMA SealedWriter ==
  ASSUME strict, NEW a \in Actors, NEW r \in Regions, Authorized(a, "write", r),
         life[r] = "open", ~policy[r].readonly
  PROVE  a \in Loops /\ r \in WriteClosure(a)
<1>1. a # Host /\ a \in Loops
  BY DEF Authorized, Actors
<1>2. r \in OwnReachable(a) \/ \E b \in HeldGrants(a, "write") : bridge[b].to = r
  BY <1>1 DEF Authorized, ViaScope, ViaGrant
<1> QED BY <1>1, <1>2 DEF WriteClosure, Writable

(* A loop cannot close what it reaches by itself, for it occupies it: what  *)
(* is closed in a sealed window is closed through a grant, and no grant     *)
(* lets anyone write into a read-only region.                               *)
LEMMA ClosedThroughGrant ==
  ASSUME IInv, strict, NEW a \in Actors, NEW r \in Regions, NEW cascade \in BOOLEAN,
         CloseScw(a, r, cascade), NEW t \in CloseTargets(r, cascade)
  PROVE  t \in Regions /\ life[t] = "open" /\ ~policy[t].readonly /\ Authorized(a, "write", t)
<1>1. Authorized(a, "write", t) /\ Occupants(t) = {}
  BY DEF CloseScw
<1>2. a # Host /\ a \in Loops
  BY <1>1 DEF Authorized, Actors
<1>3. ~ViaScope(a, t)
  BY <1>1, <1>2 DEF ViaScope, OwnReachable, Occupants
<1>4. PICK b \in HeldGrants(a, "write") : bridge[b].to = t
  BY <1>1, <1>2, <1>3 DEF Authorized, ViaGrant
<1>5. b \in Bridges /\ bridge[b].status = "open" /\ bridge[b].mode # "read"
  BY DEF HeldGrants, Grants
<1> QED BY <1>1, <1>4, <1>5 DEF IInv, BridgesJoinOpenRegions

(* Nobody nests a region anywhere in a sealed window but a loop, beneath a  *)
(* region it may write.                                                     *)
LEMMA NestedByLoop ==
  ASSUME strict, NEW a \in Actors, NEW r \in Regions, NEW p \in Policies,
         NEW up \in Regions \union {None}, CreateScw(a, r, p, up)
  PROVE  up \in Regions /\ ~policy[up].readonly /\ a \in Loops /\ up \in WriteClosure(a)
<1>1. up \in Regions /\ life[up] = "open" /\ Authorized(a, "write", up) /\ MayChange(a, up)
  BY DEF CreateScw
<1>2. ~policy[up].readonly
  BY <1>1 DEF MayChange, Authorized
<1> QED BY <1>1, <1>2, SealedWriter

(* The steps that change neither contents nor the tree.                     *)
LEMMA ContentsLeftAlone ==
  ASSUME [Next]_vars,
         ~\E a \in Actors : RegionStep(a) \/ ContentStep(a),
         ~\E l \in Loops, verified \in BOOLEAN, judge \in Loops \union {None},
             e \in Evidence \union {None} : LoopTick(l, verified, judge, e)
  PROVE  UNCHANGED <<life, parent, policy, bytes>>
<1>1. ASSUME NEW a \in Actors, BridgeStep(a) PROVE UNCHANGED <<life, parent, policy, bytes>>
  BY <1>1 DEF BridgeStep, OpenBridge, CloseBridge
<1>2. ASSUME NEW l \in Loops, BindStep(l) \/ EvidenceStep(l) \/ RefuseDriftedTick(l)
      PROVE  UNCHANGED <<life, parent, policy, bytes>>
  BY <1>2 DEF BindStep, BindScope, UnbindScope, EvidenceStep, AttestEvidence, RefuseDriftedTick
<1>3. ASSUME CriterionStep \/ Seal \/ UNCHANGED vars
      PROVE  UNCHANGED <<life, parent, policy, bytes>>
  BY <1>3 DEF CriterionStep, PinCriterion, RepinCriterion, UnpinCriterion, Seal, vars
<1> QED BY <1>1, <1>2, <1>3 DEF Next, TickStep

(* The contents a write, a promotion or a close changes in a sealed window. *)
LEMMA WrittenByLoop ==
  ASSUME TypeOK, strict, NEW a \in Actors, ContentStep(a), NEW r \in Regions, bytes'[r] # bytes[r]
  PROVE  ~policy[r].readonly /\ a \in Loops /\ r \in WriteClosure(a)
<1>1. ASSUME NEW x \in Regions, NEW v \in Contents, Write(a, x, v)
      PROVE  ~policy[r].readonly /\ a \in Loops /\ r \in WriteClosure(a)
  <2>1. r = x
    BY <1>1 DEF Write, TypeOK
  <2>2. life[r] = "open" /\ Authorized(a, "write", r) /\ ~policy[r].readonly
    BY <1>1, <2>1 DEF Write, MayChange, Authorized
  <2> QED BY <2>2, SealedWriter
<1>2. ASSUME NEW from \in Regions, NEW to \in Regions, NEW mode \in {"move", "copy"},
             NEW v \in Contents, NEW rest \in Contents, Promote(a, from, to, mode, v, rest)
      PROVE  ~policy[r].readonly /\ a \in Loops /\ r \in WriteClosure(a)
  <2>1. r = to \/ (r = from /\ mode = "move")
    BY <1>2 DEF Promote, TypeOK
  <2>2. life[r] = "open" /\ Authorized(a, "write", r) /\ ~policy[r].readonly
    BY <1>2, <2>1 DEF Promote, MayChange, Authorized
  <2> QED BY <2>2, SealedWriter
<1> QED BY <1>1, <1>2 DEF ContentStep

(* Whatever changes in a sealed window lies in some bound loop's write      *)
(* closure or is the reset of a loop's own region.                          *)
THEOREM SealedWritesCovered == Spec => WritesWithinClosure
<1> DEFINE A == strict => \A r \in Regions :
       /\ bytes'[r] # bytes[r] =>
            \E l \in Loops : \/ r \in WriteClosure(l)
                             \/ policy[r].reset /\ r \in OwnReachable(l) /\ bytes'[r] = Empty
       /\ life'[r] # life[r] =>
            \E l \in Loops : IF life[r] = "absent" THEN parent'[r] \in WriteClosure(l)
                             ELSE r \in WriteClosure(l)
<1>1. IInv /\ [Next]_vars => A
  <2> SUFFICES ASSUME IInv, [Next]_vars, strict, NEW r \in Regions
               PROVE  /\ bytes'[r] # bytes[r] =>
                           \E l \in Loops : \/ r \in WriteClosure(l)
                                            \/ policy[r].reset /\ r \in OwnReachable(l) /\ bytes'[r] = Empty
                      /\ life'[r] # life[r] =>
                           \E l \in Loops : IF life[r] = "absent" THEN parent'[r] \in WriteClosure(l)
                                            ELSE r \in WriteClosure(l)
    OBVIOUS
  <2>0. TypeOK
    BY DEF IInv
  <2>1. ASSUME NEW a \in Actors, NEW x \in Regions, NEW p \in Policies,
               NEW up \in Regions \union {None}, CreateScw(a, x, p, up)
        PROVE  /\ bytes' = bytes
               /\ life'[r] # life[r] =>
                    life[r] = "absent" /\ \E l \in Loops : parent'[r] \in WriteClosure(l)
    BY <2>0, <2>1, NestedByLoop DEF CreateScw, TypeOK
  <2>2. ASSUME NEW a \in Actors, NEW x \in Regions, NEW cascade \in BOOLEAN, CloseScw(a, x, cascade)
        PROVE  bytes'[r] # bytes[r] \/ life'[r] # life[r] =>
                 life[r] # "absent" /\ \E l \in Loops : r \in WriteClosure(l)
    <3>1. bytes'[r] # bytes[r] \/ life'[r] # life[r] => r \in CloseTargets(x, cascade)
      BY <2>2 DEF CloseScw
    <3>2. r \in CloseTargets(x, cascade) =>
            life[r] = "open" /\ ~policy[r].readonly /\ Authorized(a, "write", r)
      BY <2>2, ClosedThroughGrant
    <3> QED BY <3>1, <3>2, SealedWriter
  <2>3. ASSUME NEW a \in Actors, ContentStep(a)
        PROVE  life' = life /\ (bytes'[r] # bytes[r] => \E l \in Loops : r \in WriteClosure(l))
    BY <2>0, <2>3, WrittenByLoop DEF ContentStep, Write, Promote
  <2>4. ASSUME NEW l \in Loops, NEW verified \in BOOLEAN, NEW judge \in Loops \union {None},
               NEW e \in Evidence \union {None}, LoopTick(l, verified, judge, e)
        PROVE  /\ life' = life
               /\ bytes'[r] # bytes[r] => policy[r].reset /\ r \in OwnReachable(l) /\ bytes'[r] = Empty
    BY <2>4 DEF LoopTick
  <2>5. CASE UNCHANGED <<life, parent, policy, bytes>>
    BY <2>5
  <2>6. CASE \E a \in Actors : RegionStep(a)
    BY <2>1, <2>2, <2>6 DEF RegionStep
  <2> QED BY <2>3, <2>4, <2>5, <2>6, ContentsLeftAlone
<1> QED BY <1>1, InvariantHolds, PTL DEF Spec, WritesWithinClosure

-----------------------------------------------------------------------------
(* The yardstick.                                                           *)

(* A region has no place in the tree before it is created.                  *)
AbsentUnplaced == \A r \in Regions : life[r] = "absent" => parent[r] = None

LEMMA AbsentUnplacedHolds == Spec => []AbsentUnplaced
<1>1. Init => AbsentUnplaced
  BY DEF Init, AbsentUnplaced
<1>2. IInv /\ AbsentUnplaced /\ [Next]_vars => AbsentUnplaced'
  <2> SUFFICES ASSUME IInv, AbsentUnplaced, [Next]_vars PROVE AbsentUnplaced'
    OBVIOUS
  <2>1. ASSUME NEW a \in Actors, NEW x \in Regions, NEW p \in Policies,
               NEW up \in Regions \union {None}, CreateScw(a, x, p, up)
        PROVE  AbsentUnplaced'
    BY <2>1 DEF CreateScw, AbsentUnplaced, IInv, TypeOK
  <2>2. ASSUME NEW a \in Actors, NEW x \in Regions, NEW cascade \in BOOLEAN, CloseScw(a, x, cascade)
        PROVE  AbsentUnplaced'
    BY <2>2 DEF CloseScw, AbsentUnplaced
  <2>3. ASSUME NEW a \in Actors, ContentStep(a)
        PROVE  UNCHANGED <<life, parent>>
    BY <2>3 DEF ContentStep, Write, Promote
  <2>4. ASSUME NEW l \in Loops, NEW verified \in BOOLEAN, NEW judge \in Loops \union {None},
               NEW e \in Evidence \union {None}, LoopTick(l, verified, judge, e)
        PROVE  UNCHANGED <<life, parent>>
    BY <2>4 DEF LoopTick
  <2>5. CASE UNCHANGED <<life, parent>>
    BY <2>5 DEF AbsentUnplaced
  <2>6. CASE \E a \in Actors : RegionStep(a)
    BY <2>1, <2>2, <2>6 DEF RegionStep
  <2> QED BY <2>3, <2>4, <2>5, <2>6, ContentsLeftAlone
<1> QED BY <1>1, <1>2, InvariantHolds, PTL DEF Spec

(* A new region changes the children of its parent and of nothing else.     *)
LEMMA NestedElsewhere ==
  ASSUME TypeOK, AbsentUnplaced, NEW a, NEW x \in Regions, NEW p, NEW up \in Regions \union {None},
         CreateScw(a, x, p, up), NEW r \in Regions, up \notin Subtree(r)
  PROVE  Subtree(r)' = Subtree(r)
<1>1. \A y \in {r} \union Beneath(Children, r) : Children'[y] = Children[y]
  <2> SUFFICES ASSUME NEW y \in Subtree(r) PROVE Children'[y] = Children[y]
    BY DEF Subtree, Descendants
  <2>1. y \in Regions /\ y # up /\ parent[x] = None
    BY ChildrenType, BeneathType DEF Subtree, Descendants, CreateScw, AbsentUnplaced
  <2> QED BY <2>1, NoneAssumption DEF Children, CreateScw, TypeOK
<1>2. Children' \in [Regions -> SUBSET Regions]
  BY DEF Children
<1> HIDE DEF Children
<1>3. Beneath(Children', r) = Beneath(Children, r)
  BY <1>1, <1>2, ChildrenType, BeneathFrame
<1> QED BY <1>3 DEF Subtree, Descendants

(* In a sealed window a pinned region that is read-only all the way down,   *)
(* and not reset, renders the same bytes forever after.                     *)
THEOREM YardstickStands == Spec => YardstickFrozen
<1> DEFINE A == \A r \in Regions :
       /\ strict
       /\ \E c \in Criteria : criterion[c].status = "pinned" /\ criterion[c].region = r
       /\ \A x \in Subtree(r) : policy[x].readonly /\ ~policy[x].reset
       => Signature(r)' = Signature(r)
<1>1. IInv /\ AbsentUnplaced /\ [Next]_vars => A
  <2> SUFFICES ASSUME IInv, AbsentUnplaced, [Next]_vars, NEW r \in Regions, strict,
                      \A x \in Subtree(r) : policy[x].readonly /\ ~policy[x].reset
               PROVE  Signature(r)' = Signature(r)
    OBVIOUS
  <2>1. TypeOK /\ Subtree(r) \subseteq Regions
    BY ChildrenType, BeneathType DEF IInv, Subtree, Descendants
  <2>2. SUFFICES /\ Subtree(r)' = Subtree(r)
                 /\ \A x \in Subtree(r) : bytes'[x] = bytes[x]
    BY <2>2 DEF Signature
  <2>3. parent' = parent => Subtree(r)' = Subtree(r)
    BY DEF Subtree, Descendants, Children
  <2>4. ASSUME NEW a \in Actors, NEW x \in Regions, NEW p \in Policies,
               NEW up \in Regions \union {None}, CreateScw(a, x, p, up)
        PROVE  Subtree(r)' = Subtree(r) /\ bytes' = bytes
    <3>1. up \notin Subtree(r)
      BY <2>4, NestedByLoop
    <3> QED BY <2>1, <2>4, <3>1, NestedElsewhere DEF CreateScw
  <2>5. ASSUME NEW a \in Actors, NEW x \in Regions, NEW cascade \in BOOLEAN, CloseScw(a, x, cascade)
        PROVE  parent' = parent /\ \A y \in Subtree(r) : bytes'[y] = bytes[y]
    BY <2>1, <2>5, ClosedThroughGrant DEF CloseScw
  <2>6. ASSUME NEW a \in Actors, ContentStep(a)
        PROVE  parent' = parent /\ \A y \in Subtree(r) : bytes'[y] = bytes[y]
    BY <2>1, <2>6, WrittenByLoop DEF ContentStep, Write, Promote
  <2>7. ASSUME NEW l \in Loops, NEW verified \in BOOLEAN, NEW judge \in Loops \union {None},
               NEW e \in Evidence \union {None}, LoopTick(l, verified, judge, e)
        PROVE  parent' = parent /\ \A y \in Subtree(r) : bytes'[y] = bytes[y]
    BY <2>1, <2>7 DEF LoopTick
  <2>8. CASE \E a \in Actors : RegionStep(a)
    BY <2>3, <2>4, <2>5, <2>8 DEF RegionStep
  <2> QED BY <2>3, <2>6, <2>7, <2>8, ContentsLeftAlone
<1> QED BY <1>1, InvariantHolds, AbsentUnplacedHolds, PTL DEF Spec, YardstickFrozen
-----------------------------------------------------------------------------
(* What loops do in the window: their ceilings, the grants that expire under *)
(* them, the evidence their verdicts spend, what they expose, how they nest. *)

(* The steps that change no loop.                                           *)
LEMMA LoopsLeftAlone ==
  ASSUME [Next]_vars,
         ~\E l \in Loops : BindStep(l),
         ~\E l \in Loops, verified \in BOOLEAN, judge \in Loops \union {None},
             e \in Evidence \union {None} : LoopTick(l, verified, judge, e)
  PROVE  UNCHANGED <<loop, ceiling, spent, tick>>
<1>1. ASSUME NEW a \in Actors, RegionStep(a) \/ ContentStep(a) \/ BridgeStep(a)
      PROVE  UNCHANGED <<loop, ceiling, spent, tick>>
  BY <1>1 DEF RegionStep, CreateScw, CloseScw, ContentStep, Write, Promote, BridgeStep,
     OpenBridge, CloseBridge
<1>2. ASSUME NEW l \in Loops, RefuseDriftedTick(l) \/ EvidenceStep(l)
      PROVE  UNCHANGED <<loop, ceiling, spent, tick>>
  BY <1>2 DEF RefuseDriftedTick, EvidenceStep, AttestEvidence
<1>3. ASSUME CriterionStep \/ Seal \/ UNCHANGED vars
      PROVE  UNCHANGED <<loop, ceiling, spent, tick>>
  BY <1>3 DEF CriterionStep, PinCriterion, RepinCriterion, UnpinCriterion, Seal, vars
<1> QED BY <1>1, <1>2, <1>3 DEF Next, TickStep

(* The steps that change no evidence.                                       *)
LEMMA EvidenceLeftAlone ==
  ASSUME [Next]_vars,
         ~\E l \in Loops : EvidenceStep(l),
         ~\E l \in Loops, verified \in BOOLEAN, judge \in Loops \union {None},
             e \in Evidence \union {None} : LoopTick(l, verified, judge, e)
  PROVE  evidence' = evidence
<1>1. ASSUME NEW a \in Actors, RegionStep(a) \/ ContentStep(a) \/ BridgeStep(a)
      PROVE  evidence' = evidence
  BY <1>1 DEF RegionStep, CreateScw, CloseScw, ContentStep, Write, Promote, BridgeStep,
     OpenBridge, CloseBridge
<1>2. ASSUME NEW l \in Loops, RefuseDriftedTick(l) \/ BindStep(l)
      PROVE  evidence' = evidence
  BY <1>2 DEF RefuseDriftedTick, BindStep, BindScope, UnbindScope
<1>3. ASSUME CriterionStep \/ Seal \/ UNCHANGED vars
      PROVE  evidence' = evidence
  BY <1>3 DEF CriterionStep, PinCriterion, RepinCriterion, UnpinCriterion, Seal, vars
<1> QED BY <1>1, <1>2, <1>3 DEF Next, TickStep

(* What a binding leaves in the record of the loop, and in the others.      *)
LEMMA BoundLoop ==
  ASSUME NEW l \in Loops, NEW s, BindScope(l, s)
  PROVE  /\ ~Bound(l)
         /\ loop'[l].status = "bound" /\ loop'[l].root = s.root
         /\ loop'[l].harness = s.harness /\ loop'[l].exposes = s.exposes
         /\ loop'[l].up = s.up /\ loop'[l].kids = {} /\ loop'[l].accepted = FALSE
BY DEF BindScope

LEMMA OtherLoop ==
  ASSUME TypeOK, NEW l \in Loops, NEW s, BindScope(l, s), NEW m \in Loops, m # l
  PROVE  /\ loop'[m].status = loop[m].status /\ loop'[m].root = loop[m].root
         /\ loop'[m].harness = loop[m].harness /\ loop'[m].exposes = loop[m].exposes
         /\ loop'[m].objective = loop[m].objective
         /\ loop'[m].accepted = loop[m].accepted /\ loop'[m].up = loop[m].up
         /\ loop'[m].kids = IF m = s.up THEN loop[m].kids \union {l} ELSE loop[m].kids
<1>1. loop'[m] = IF m = s.up THEN [loop[m] EXCEPT !.kids = @ \union {l}] ELSE loop[m]
  BY DEF BindScope
<1>2. loop[m] \in LoopRecord
  BY DEF TypeOK
<1> QED BY <1>1, <1>2 DEF LoopRecord

(* What leaving a loop changes in its record.                               *)
LEMMA UnboundLoop ==
  ASSUME TypeOK, NEW l \in Loops, NEW t \in TerminalStates, UnbindScope(l, t), NEW m \in Loops
  PROVE  /\ loop'[m].status = IF m = l THEN "unbound" ELSE loop[m].status
         /\ loop'[m].exposes = loop[m].exposes /\ loop'[m].harness = loop[m].harness
         /\ loop'[m].objective = loop[m].objective /\ loop'[m].accepted = loop[m].accepted
         /\ loop'[m].up = loop[m].up /\ loop'[m].kids = loop[m].kids
         /\ loop'[m].root = loop[m].root
BY DEF UnbindScope, TypeOK, LoopRecord

-----------------------------------------------------------------------------
(* Ceilings and expiry.                                                     *)

LEMMA TickedLoop ==
  ASSUME TypeOK, NEW l \in Loops, NEW verified, NEW judge, NEW e, LoopTick(l, verified, judge, e),
         NEW m \in Loops
  PROVE  /\ loop'[m].max = loop[m].max
         /\ m # l => loop'[m] = loop[m]
         /\ m = l => /\ loop'[m].iteration = loop[m].iteration + 1
                     /\ loop'[m].status = IF loop[m].max # None /\ loop[m].iteration + 1 >= loop[m].max
                                          THEN "exhausted" ELSE "bound"
BY DEF LoopTick, WithinCeilings, Bound, TypeOK, LoopRecord

(* No iteration is counted past the ceiling of its loop, of the harness it  *)
(* shares or of the window.                                                 *)
THEOREM CeilingsHoldAlways == Spec => []CeilingsHold
<1>1. Init => CeilingsHold
  BY LimitAssumption, ProfileAssumption
     DEF Init, CeilingsHold, NoLoop, Limits, HarnessProfile, Bound
<1>2. IInv /\ CeilingsHold /\ [Next]_vars => CeilingsHold'
  <2> SUFFICES ASSUME IInv, CeilingsHold, [Next]_vars PROVE CeilingsHold'
    OBVIOUS
  <2>1. TypeOK
    BY DEF IInv
  <2>2. CASE UNCHANGED <<loop, spent, tick>>
    BY <2>2 DEF CeilingsHold, Bound
  <2>3. ASSUME NEW l \in Loops, NEW s \in LoopSpecs, BindScope(l, s) PROVE CeilingsHold'
    <3>1. s.max \in Limits
      BY SpecsAssumption DEF LoopSpec
    <3>2. \A m \in Loops :
             IF m = l THEN loop'[m].iteration = 0 /\ loop'[m].max = s.max
             ELSE /\ loop'[m].iteration = loop[m].iteration /\ loop'[m].max = loop[m].max
                  /\ loop'[m].status = loop[m].status
      BY <2>1, <2>3 DEF BindScope, TypeOK, LoopRecord
    <3>3. UNCHANGED <<spent, tick>>
      BY <2>3 DEF BindScope
    <3> QED BY <3>1, <3>2, <3>3 DEF CeilingsHold, Bound, Limits
  <2>4. ASSUME NEW l \in Loops, NEW t \in TerminalStates, UnbindScope(l, t) PROVE CeilingsHold'
    <3>1. \A m \in Loops : /\ loop'[m].iteration = loop[m].iteration
                           /\ loop'[m].max = loop[m].max
                           /\ loop'[m].status = "bound" => loop[m].status = "bound"
      BY <2>1, <2>4 DEF UnbindScope, TypeOK, LoopRecord
    <3>2. spent' = spent /\ tick' = tick
      BY <2>4 DEF UnbindScope
    <3> QED BY <3>1, <3>2 DEF CeilingsHold, Bound
  <2>5. ASSUME NEW l \in Loops, NEW verified \in BOOLEAN, NEW judge \in Loops \union {None},
               NEW e \in Evidence \union {None}, LoopTick(l, verified, judge, e)
        PROVE  CeilingsHold'
    <3>1. WithinCeilings(l)
      BY <2>5 DEF LoopTick
    <3>2. MaxTotalIterations # None => tick' <= MaxTotalIterations
      BY <2>1, <2>5, <3>1, LimitAssumption DEF LoopTick, WithinCeilings, TypeOK, Limits
    <3>3. ASSUME NEW h \in Harnesses, Profile[h].budget # None
          PROVE  spent'[h] <= Profile[h].budget
      <4>1. Profile[h].budget \in Nat /\ spent[h] \in Nat
        BY <2>1, <3>3, ProfileAssumption DEF HarnessProfile, Limits, TypeOK
      <4>2. CASE h = loop[l].harness
        <5>1. h # None
          BY NoneAssumption
        <5>2. spent[h] < Profile[h].budget
          BY <3>1, <3>3, <4>2, <5>1 DEF WithinCeilings
        <5> QED BY <2>5, <4>1, <4>2, <5>2 DEF LoopTick
      <4>3. CASE h # loop[l].harness
        BY <2>5, <3>3, <4>3 DEF LoopTick, CeilingsHold
      <4> QED BY <4>2, <4>3
    <3>4. ASSUME NEW m \in Loops, loop'[m].max # None
          PROVE  /\ loop'[m].iteration <= loop'[m].max
                 /\ Bound(m)' => loop'[m].iteration < loop'[m].max
      <4>1. loop[m].max \in Nat /\ loop[m].iteration \in Nat /\ loop'[m].max = loop[m].max
        BY <2>1, <2>5, <3>4, TickedLoop DEF TypeOK, LoopRecord, Limits
      <4>2. CASE m = l
        BY <2>1, <2>5, <3>1, <3>4, <4>1, <4>2, TickedLoop DEF WithinCeilings, Bound
      <4>3. CASE m # l
        BY <2>1, <2>5, <3>4, <4>1, <4>3, TickedLoop DEF CeilingsHold, Bound
      <4> QED BY <4>2, <4>3
    <3> QED BY <3>2, <3>3, <3>4 DEF CeilingsHold
  <2>6. ASSUME NEW a \in Actors, RegionStep(a) \/ ContentStep(a) \/ BridgeStep(a)
        PROVE  UNCHANGED <<loop, spent, tick>>
    BY <2>6 DEF RegionStep, CreateScw, CloseScw, ContentStep, Write, Promote, BridgeStep,
       OpenBridge, CloseBridge
  <2>7. ASSUME NEW l \in Loops, RefuseDriftedTick(l) \/ EvidenceStep(l)
        PROVE  UNCHANGED <<loop, spent, tick>>
    BY <2>7 DEF RefuseDriftedTick, EvidenceStep, AttestEvidence
  <2>8. ASSUME CriterionStep \/ Seal \/ UNCHANGED vars
        PROVE  UNCHANGED <<loop, spent, tick>>
    BY <2>8 DEF CriterionStep, PinCriterion, RepinCriterion, UnpinCriterion, Seal, vars
  <2> QED BY <2>2, <2>3, <2>4, <2>5, <2>6, <2>7, <2>8 DEF Next, BindStep, TickStep
<1> QED BY <1>1, <1>2, InvariantHolds, PTL DEF Spec

(* The tick that reaches the expiry of the host's grant closes it; only a   *)
(* grant minted with no time to live is overdue, and until the next tick.   *)
THEOREM HostGrantsExpireAlways == Spec => HostGrantsExpire
<1> DEFINE A == \A b \in Bridges :
                  Overdue(b)' => tick' = tick /\ (Overdue(b) \/ bridge[b].status = "none")
<1>1. IInv /\ [Next]_vars => A
  <2> SUFFICES ASSUME IInv, [Next]_vars, NEW b \in Bridges, Overdue(b)'
               PROVE  tick' = tick /\ (Overdue(b) \/ bridge[b].status = "none")
    OBVIOUS
  <2>1. TypeOK
    BY DEF IInv
  <2>2. CASE tick' = tick /\ bridge'[b] = bridge[b]
    BY <2>2 DEF Overdue
  <2>3. ASSUME NEW a \in Actors, NEW g \in GrantSpecs, OpenBridge(a, g)
        PROVE  tick' = tick /\ (bridge'[b] = bridge[b] \/ bridge[b].status = "none")
    BY <2>1, <2>3 DEF OpenBridge, FreshBridge, TypeOK
  <2>4. ASSUME NEW a \in Actors, NEW d \in Bridges, CloseBridge(a, d)
        PROVE  tick' = tick /\ bridge'[b] = bridge[b]
    BY <2>1, <2>4 DEF CloseBridge, TypeOK, BridgeRecord, Overdue
  <2>5. ASSUME NEW a \in Actors, RegionStep(a)
        PROVE  tick' = tick /\ bridge'[b] = bridge[b]
    BY <2>1, <2>5 DEF RegionStep, CreateScw, CloseScw, RevokedFor, TypeOK, BridgeRecord, Overdue
  <2>6. ASSUME NEW l \in Loops, NEW verified \in BOOLEAN, NEW judge \in Loops \union {None},
               NEW e \in Evidence \union {None}, LoopTick(l, verified, judge, e)
        PROVE  FALSE
    <3>1. tick' = tick + 1 /\ bridge' = ExpiredAt(l, tick + 1)
      BY <2>6 DEF LoopTick
    <3>2. bridge'[b] = bridge[b] /\ ~(tick + 1 >= bridge[b].expires)
      BY <2>1, <3>1 DEF ExpiredAt, TypeOK, BridgeRecord, Overdue
    <3> QED BY <3>1, <3>2 DEF Overdue
  <2>7. ASSUME NEW a \in Actors, ContentStep(a) PROVE tick' = tick /\ bridge'[b] = bridge[b]
    BY <2>7 DEF ContentStep, Write, Promote
  <2>8. ASSUME NEW l \in Loops, BindStep(l) \/ RefuseDriftedTick(l) \/ EvidenceStep(l)
        PROVE  tick' = tick /\ bridge'[b] = bridge[b]
    BY <2>8 DEF BindStep, BindScope, UnbindScope, RefuseDriftedTick, EvidenceStep, AttestEvidence
  <2>9. ASSUME CriterionStep \/ Seal \/ UNCHANGED vars
        PROVE  tick' = tick /\ bridge'[b] = bridge[b]
    BY <2>9 DEF CriterionStep, PinCriterion, RepinCriterion, UnpinCriterion, Seal, vars
  <2>10. CASE \E a \in Actors : RegionStep(a) \/ ContentStep(a) \/ BridgeStep(a)
    BY <2>2, <2>3, <2>4, <2>5, <2>7, <2>10 DEF BridgeStep
  <2>11. CASE \E l \in Loops : BindStep(l) \/ TickStep(l) \/ EvidenceStep(l)
    BY <2>2, <2>6, <2>8, <2>11 DEF TickStep
  <2> QED BY <2>2, <2>9, <2>10, <2>11 DEF Next
<1> HIDE DEF A
<1>2. Spec => [][A]_vars
  BY <1>1, InvariantHolds, PTL DEF Spec
<1> QED BY <1>2 DEF HostGrantsExpire, A

-----------------------------------------------------------------------------
(* Exposure.                                                                *)

(* What a loop, or a region under a disjointness proof, hands over never    *)
(* widens from one binding to the next, and never starts over.              *)
THEOREM ExposureOnlyNarrows == Spec => ExposureNeverWidens
<1> DEFINE A ==
      /\ \A r \in Regions : ceiling[r] # None =>
           ceiling'[r] # None /\ ceiling'[r] \subseteq ceiling[r]
      /\ \A l \in Loops : loop[l].status # "none" => loop'[l].exposes \subseteq loop[l].exposes
      /\ \A l \in Loops : /\ ~Bound(l) /\ Bound(l)'
                          /\ Verification(l)' = "disjoint"
                          => loop'[l].exposes \subseteq ceiling'[loop'[l].root]
<1>1. IInv /\ [Next]_vars => A
  <2> SUFFICES ASSUME IInv, [Next]_vars PROVE A
    OBVIOUS
  <2>1. TypeOK
    BY DEF IInv
  <2>2. ASSUME NEW l \in Loops, NEW s \in LoopSpecs, BindScope(l, s) PROVE A
    <3>1. s \in LoopSpec /\ ExposureAllowed(l, s)
      BY <2>2, SpecsAssumption DEF BindScope
    <3>2. s.root \in Regions /\ s.exposes \in SUBSET Regions
      BY <3>1 DEF LoopSpec
    <3>3. ceiling' = IF GovernsExposure(s) THEN [ceiling EXCEPT ![s.root] = s.exposes] ELSE ceiling
      BY <2>2 DEF BindScope
    <3>4. \A r \in Regions : ceiling[r] # None =>
            ceiling'[r] # None /\ ceiling'[r] \subseteq ceiling[r]
      BY <2>1, <3>1, <3>2, <3>3, NoneAssumption DEF ExposureAllowed, TypeOK
    <3>5. ASSUME NEW m \in Loops, loop[m].status # "none"
          PROVE  loop'[m].exposes \subseteq loop[m].exposes
      <4>1. CASE m = l
        BY <2>2, <3>1, <3>5, <4>1, BoundLoop DEF ExposureAllowed
      <4>2. CASE m # l
        BY <2>1, <2>2, <4>2, OtherLoop
      <4> QED BY <4>1, <4>2
    <3>6. ASSUME NEW m \in Loops, ~Bound(m), Bound(m)', Verification(m)' = "disjoint"
          PROVE  loop'[m].exposes \subseteq ceiling'[loop'[m].root]
      <4>1. m = l
        BY <2>1, <2>2, <3>6, OtherLoop DEF Bound
      <4>2. loop'[m].harness = s.harness /\ loop'[m].exposes = s.exposes /\ loop'[m].root = s.root
        BY <2>2, <4>1, BoundLoop
      <4>3. GovernsExposure(s)
        BY <3>6, <4>2 DEF Verification, GovernsExposure
      <4> QED BY <2>1, <3>2, <3>3, <4>2, <4>3 DEF TypeOK
    <3> QED BY <3>4, <3>5, <3>6
  <2>3. ASSUME NEW l \in Loops, NEW t \in TerminalStates, UnbindScope(l, t) PROVE A
    <3>1. ceiling' = ceiling
      BY <2>3 DEF UnbindScope
    <3>2. \A m \in Loops : loop'[m].exposes = loop[m].exposes /\ (Bound(m)' => Bound(m))
      BY <2>1, <2>3, UnboundLoop DEF Bound
    <3> QED BY <3>1, <3>2
  <2>4. ASSUME NEW l \in Loops, NEW verified \in BOOLEAN, NEW judge \in Loops \union {None},
               NEW e \in Evidence \union {None}, LoopTick(l, verified, judge, e)
        PROVE  A
    <3>1. ceiling' = ceiling /\ Bound(l)
      BY <2>4 DEF LoopTick, WithinCeilings
    <3>2. \A m \in Loops : loop'[m].exposes = loop[m].exposes /\ (m # l => loop'[m] = loop[m])
      BY <2>1, <2>4 DEF LoopTick, TypeOK, LoopRecord
    <3> QED BY <3>1, <3>2 DEF Bound
  <2>5. CASE UNCHANGED <<loop, ceiling>>
    BY <2>5 DEF Bound
  <2> QED BY <2>2, <2>3, <2>4, <2>5, LoopsLeftAlone DEF BindStep
<1> QED BY <1>1, InvariantHolds, PTL DEF Spec, ExposureNeverWidens

-----------------------------------------------------------------------------
(* Evidence.                                                                *)

(* Evidence nobody has gathered has not been used either.                   *)
FreshUnused == \A e \in Evidence : evidence[e].by = None => evidence[e].usedAt = None

(* What gathering a check leaves alone.                                     *)
LEMMA GatheredEvidence ==
  ASSUME TypeOK, NEW l \in Loops, NEW passes, AttestEvidence(l, passes), NEW f \in Evidence
  PROVE  /\ evidence[f].by # None => evidence'[f] = evidence[f]
         /\ evidence'[f] # evidence[f] => evidence[f].by = None /\ evidence'[f].by = l
                                        /\ evidence'[f].usedAt = None
BY DEF AttestEvidence, FreshEvidence, TypeOK

(* What a tick does to evidence: the piece a passing verdict cites is used. *)
LEMMA CitedEvidence ==
  ASSUME TypeOK, NEW l \in Loops, NEW verified, NEW judge, NEW e, LoopTick(l, verified, judge, e),
         NEW f \in Evidence
  PROVE  /\ evidence'[f].by = evidence[f].by
         /\ ~(verified /\ NeedsEvidence(l) /\ f = e) => evidence'[f] = evidence[f]
         /\ verified /\ NeedsEvidence(l) /\ f = e => evidence'[f].usedAt = tick + 1
<1>1. evidence[f] \in EvidenceRecord
  BY DEF TypeOK
<1>2. CASE verified /\ NeedsEvidence(l)
  <2>1. evidence' = [evidence EXCEPT ![e] = [evidence[e] EXCEPT !.usedAt = tick + 1]]
    BY <1>2 DEF LoopTick
  <2>2. CASE f = e
    <3>1. evidence'[f] = [evidence[f] EXCEPT !.usedAt = tick + 1]
      BY <2>1, <2>2 DEF TypeOK
    <3> QED BY <1>1, <1>2, <2>2, <3>1 DEF EvidenceRecord
  <2>3. CASE f # e
    BY <2>1, <2>3 DEF TypeOK
  <2> QED BY <2>2, <2>3
<1>3. CASE ~(verified /\ NeedsEvidence(l))
  BY <1>3 DEF LoopTick
<1> QED BY <1>2, <1>3

(* A verdict that needs evidence cites a check of its loop's own, unused,   *)
(* passing and of what the loop's region still renders.                     *)
LEMMA CitedIsCitable ==
  ASSUME NEW l \in Loops, NEW verified, NEW judge, NEW e, LoopTick(l, verified, judge, e),
         verified, NeedsEvidence(l)
  PROVE  Citable(l, e)
BY DEF LoopTick, VerdictStands

LEMMA FreshUnusedHolds == Spec => []FreshUnused
<1>1. Init => FreshUnused
  BY DEF Init, FreshUnused, NoEvidence
<1>2. IInv /\ FreshUnused /\ [Next]_vars => FreshUnused'
  <2> SUFFICES ASSUME IInv, FreshUnused, [Next]_vars, NEW f \in Evidence, evidence'[f].by = None
               PROVE  evidence'[f].usedAt = None
    BY DEF FreshUnused
  <2>1. TypeOK
    BY DEF IInv
  <2>2. CASE evidence'[f] = evidence[f]
    BY <2>2 DEF FreshUnused
  <2>3. ASSUME NEW l \in Loops, EvidenceStep(l)
        PROVE  evidence'[f].usedAt = None \/ evidence'[f] = evidence[f]
    BY <2>1, <2>3, GatheredEvidence DEF EvidenceStep
  <2>4. ASSUME NEW l \in Loops, NEW verified \in BOOLEAN, NEW judge \in Loops \union {None},
               NEW e \in Evidence \union {None}, LoopTick(l, verified, judge, e)
        PROVE  evidence'[f] = evidence[f]
    <3>1. evidence[f].by = None
      BY <2>1, <2>4, CitedEvidence
    <3>2. l # None
      BY NoneAssumption
    <3>3. ~(verified /\ NeedsEvidence(l) /\ f = e)
      BY <2>4, <3>1, <3>2, CitedIsCitable DEF Citable
    <3> QED BY <2>1, <2>4, <3>3, CitedEvidence
  <2> QED BY <2>2, <2>3, <2>4, EvidenceLeftAlone
<1> QED BY <1>1, <1>2, InvariantHolds, PTL DEF Spec

(* One check, one iteration: evidence is consumed once, by an iteration of  *)
(* the loop that gathered it, while its region renders what the check saw.  *)
THEOREM EvidenceIsSpentOnce == Spec => EvidenceSpentOnce
<1> DEFINE A == \A e \in Evidence :
       LET l == evidence[e].by
       IN  /\ l # None => evidence'[e].by = l
           /\ evidence'[e].usedAt # evidence[e].usedAt =>
                /\ l # None /\ evidence[e].usedAt = None /\ evidence[e].passes
                /\ loop'[l].iteration = loop[l].iteration + 1
                /\ \E r \in Regions : loop[l].root = r /\ evidence[e].signature = Signature(r)
                /\ \A f \in Evidence \ {e} : evidence'[f] = evidence[f]
<1>1. IInv /\ FreshUnused /\ [Next]_vars => A
  <2> SUFFICES ASSUME IInv, FreshUnused, [Next]_vars, NEW e \in Evidence
               PROVE  /\ evidence[e].by # None => evidence'[e].by = evidence[e].by
                      /\ evidence'[e].usedAt # evidence[e].usedAt =>
                           /\ evidence[e].by # None
                           /\ evidence[e].usedAt = None /\ evidence[e].passes
                           /\ loop'[evidence[e].by].iteration = loop[evidence[e].by].iteration + 1
                           /\ \E r \in Regions : /\ loop[evidence[e].by].root = r
                                                /\ evidence[e].signature = Signature(r)
                           /\ \A f \in Evidence \ {e} : evidence'[f] = evidence[f]
    OBVIOUS
  <2>1. TypeOK
    BY DEF IInv
  <2>2. ASSUME NEW l \in Loops, EvidenceStep(l)
        PROVE  /\ evidence[e].by # None => evidence'[e].by = evidence[e].by
               /\ evidence'[e].usedAt = evidence[e].usedAt
    BY <2>1, <2>2, GatheredEvidence DEF EvidenceStep, FreshUnused
  <2>3. ASSUME NEW l \in Loops, NEW verified \in BOOLEAN, NEW judge \in Loops \union {None},
               NEW c \in Evidence \union {None}, LoopTick(l, verified, judge, c),
               evidence'[e].usedAt # evidence[e].usedAt
        PROVE  /\ evidence[e].by # None
               /\ evidence[e].usedAt = None /\ evidence[e].passes
               /\ loop'[evidence[e].by].iteration = loop[evidence[e].by].iteration + 1
               /\ \E r \in Regions : /\ loop[evidence[e].by].root = r
                                    /\ evidence[e].signature = Signature(r)
               /\ \A f \in Evidence \ {e} : evidence'[f] = evidence[f]
    <3>1. verified /\ NeedsEvidence(l) /\ e = c
      BY <2>1, <2>3, CitedEvidence
    <3>2. Citable(l, e)
      BY <2>3, <3>1, CitedIsCitable
    <3>3. l # None
      BY NoneAssumption
    <3>4. evidence[e].by = l /\ evidence[e].usedAt = None /\ evidence[e].passes
          /\ evidence[e].signature = Signature(loop[l].root)
      BY <3>2 DEF Citable
    <3>5. loop'[l].iteration = loop[l].iteration + 1
      BY <2>1, <2>3, TickedLoop
    <3>6. loop[l].root \in Regions
      BY <2>3 DEF LoopTick, WithinCeilings, IInv, BoundLoopsOnOpenRegions
    <3>7. \A f \in Evidence \ {e} : evidence'[f] = evidence[f]
      BY <2>1, <2>3, <3>1, CitedEvidence
    <3> QED BY <3>3, <3>4, <3>5, <3>6, <3>7
  <2>4. ASSUME NEW l \in Loops, NEW verified \in BOOLEAN, NEW judge \in Loops \union {None},
               NEW c \in Evidence \union {None}, LoopTick(l, verified, judge, c)
        PROVE  evidence'[e].by = evidence[e].by
    BY <2>1, <2>4, CitedEvidence
  <2>5. CASE evidence' = evidence
    BY <2>5
  <2>6. CASE \E l \in Loops : EvidenceStep(l)
    BY <2>2, <2>6
  <2>7. CASE \E l \in Loops, verified \in BOOLEAN, judge \in Loops \union {None},
                c \in Evidence \union {None} : LoopTick(l, verified, judge, c)
    BY <2>3, <2>4, <2>7
  <2> QED BY <2>5, <2>6, <2>7, EvidenceLeftAlone
<1> QED BY <1>1, InvariantHolds, FreshUnusedHolds, PTL DEF Spec, EvidenceSpentOnce

(* Where a harness requires evidence, a loop is never counted as accepted   *)
(* without some it gathered and used, over any number of rebindings.        *)
THEOREM AcceptanceIsEvidenced == Spec => []AcceptedWithEvidence
<1>1. Init => AcceptedWithEvidence
  BY DEF Init, AcceptedWithEvidence, NoLoop
<1>2. IInv /\ AcceptedWithEvidence /\ [Next]_vars => AcceptedWithEvidence'
  <2> SUFFICES ASSUME IInv, AcceptedWithEvidence, [Next]_vars,
                      NEW m \in Loops, loop'[m].status = "bound", loop'[m].accepted,
                      NeedsEvidence(m)'
               PROVE  \E e \in Evidence : evidence'[e].by = m /\ evidence'[e].usedAt # None
    BY DEF AcceptedWithEvidence
  <2> DEFINE Kept == /\ loop'[m].status = loop[m].status
                     /\ loop'[m].accepted = loop[m].accepted
                     /\ loop'[m].harness = loop[m].harness
                     /\ loop'[m].objective = loop[m].objective
  <2>1. TypeOK /\ m # None /\ None \notin Nat
    BY NoneAssumption DEF IInv
  <2>2. ASSUME NEW l \in Loops, NEW s \in LoopSpecs, BindScope(l, s) PROVE Kept
    <3>1. m # l
      BY <2>2, BoundLoop
    <3> QED BY <2>1, <2>2, <3>1, OtherLoop
  <2>3. ASSUME NEW l \in Loops, NEW t \in TerminalStates, UnbindScope(l, t) PROVE Kept
    BY <2>1, <2>3, UnboundLoop
  <2>4. ASSUME Kept PROVE \E e \in Evidence : evidence[e].by = m /\ evidence[e].usedAt # None
    <3>1. NeedsEvidence(m)
      BY <2>4 DEF NeedsEvidence
    <3> QED BY <2>4, <3>1 DEF AcceptedWithEvidence
  <2>5. ASSUME NEW l \in Loops, EvidenceStep(l)
        PROVE  /\ loop' = loop
               /\ \A e \in Evidence : evidence[e].by = m => evidence'[e] = evidence[e]
    BY <2>1, <2>5, GatheredEvidence DEF EvidenceStep, AttestEvidence
  <2>6. ASSUME NEW l \in Loops, NEW verified \in BOOLEAN, NEW judge \in Loops \union {None},
               NEW c \in Evidence \union {None}, LoopTick(l, verified, judge, c)
        PROVE  \E e \in Evidence : evidence'[e].by = m /\ evidence'[e].usedAt # None
    <3>1. tick + 1 # None
      BY <2>1 DEF TypeOK
    <3>2. ASSUME NEW e \in Evidence, evidence[e].by = m, evidence[e].usedAt # None
          PROVE  evidence'[e].by = m /\ evidence'[e].usedAt # None
      <4>1. CASE evidence'[e] = evidence[e]
        BY <3>2, <4>1
      <4>2. CASE verified /\ NeedsEvidence(l) /\ e = c
        BY <2>1, <2>6, <3>1, <3>2, <4>2, CitedEvidence
      <4> QED BY <2>1, <2>6, <4>1, <4>2, CitedEvidence
    <3>3. ASSUME Kept PROVE \E e \in Evidence : evidence'[e].by = m /\ evidence'[e].usedAt # None
      <4>1. PICK e \in Evidence : evidence[e].by = m /\ evidence[e].usedAt # None
        BY <2>4, <3>3
      <4>2. evidence'[e].by = m /\ evidence'[e].usedAt # None
        BY <3>2, <4>1
      <4> QED BY <4>2
    <3>4. CASE m = l /\ verified
      <4>1. loop'[l].harness = loop[l].harness /\ loop'[l].objective = loop[l].objective
        BY <2>1, <2>6 DEF LoopTick, TypeOK, LoopRecord
      <4>2. NeedsEvidence(l)
        BY <3>4, <4>1 DEF NeedsEvidence
      <4>3. Citable(l, c)
        BY <2>6, <3>4, <4>2, CitedIsCitable
      <4>4. c \in Evidence /\ evidence[c].by = l
        BY <4>3 DEF Citable
      <4>5. evidence'[c].by = l /\ evidence'[c].usedAt = tick + 1
        BY <2>1, <2>6, <3>4, <4>2, <4>4, CitedEvidence
      <4> QED BY <3>1, <3>4, <4>4, <4>5
    <3>5. CASE ~(m = l /\ verified)
      <4>1. /\ loop'[m].harness = loop[m].harness /\ loop'[m].objective = loop[m].objective
            /\ loop'[m].accepted = loop[m].accepted
        <5>1. loop[l] \in LoopRecord /\ m # l => loop'[m] = loop[m]
          BY <2>1, <2>6 DEF LoopTick, TypeOK
        <5>2. /\ loop'[l].harness = loop[l].harness /\ loop'[l].objective = loop[l].objective
              /\ loop'[l].accepted = (loop[l].accepted \/ verified)
          BY <2>1, <2>6 DEF LoopTick, TypeOK, LoopRecord
        <5>3. loop[l].accepted \in BOOLEAN
          BY <2>1 DEF TypeOK, LoopRecord
        <5> QED BY <2>1, <2>6, <3>5, <5>1, <5>2, <5>3, TickedLoop
      <4>2. loop'[m].status = loop[m].status
        <5>1. CASE m = l
          <6>1. loop[m].status = "bound"
            BY <2>6, <5>1 DEF LoopTick, WithinCeilings, Bound
          <6> QED BY <6>1
        <5>2. CASE m # l
          BY <2>1, <2>6, <5>2, TickedLoop
        <5> QED BY <5>1, <5>2
      <4> QED BY <3>3, <4>1, <4>2
    <3> QED BY <3>4, <3>5
  <2>7. CASE loop' = loop /\ evidence' = evidence
    BY <2>4, <2>7
  <2>8. CASE \E l \in Loops : BindStep(l)
    <3>1. evidence' = evidence
      BY <2>8 DEF BindStep, BindScope, UnbindScope
    <3>2. Kept
      BY <2>2, <2>3, <2>8 DEF BindStep
    <3> QED BY <2>4, <3>1, <3>2
  <2>9. CASE \E l \in Loops : EvidenceStep(l)
    BY <2>4, <2>5, <2>9
  <2> QED BY <2>6, <2>7, <2>8, <2>9, LoopsLeftAlone, EvidenceLeftAlone
<1> QED BY <1>1, <1>2, InvariantHolds, PTL DEF Spec

-----------------------------------------------------------------------------
(* Nesting.                                                                 *)

LEMMA LoopParentsType == LoopParents \in [Loops -> SUBSET Loops]
BY DEF LoopParents

LEMMA LoopKidsType ==
  ASSUME TypeOK PROVE LoopKids \in [Loops -> SUBSET Loops]
BY DEF LoopKids, TypeOK, LoopRecord

LEMMA BindKeepsAcyclic ==
  ASSUME TypeOK, TypeOK', NestingAcyclic, NEW l \in Loops, NEW s \in LoopSpecs, BindScope(l, s)
  PROVE  NestingAcyclic'
<1>1. s.up \in Loops \union {None} /\ None \notin Loops
  BY SpecsAssumption, NoneAssumption DEF LoopSpec
<1>2. loop'[l].up = s.up /\ \A m \in Loops \ {l} : loop'[m].up = loop[m].up
  <2>1. loop'[l].up = s.up
    BY BoundLoop
  <2>2. ASSUME NEW m \in Loops \ {l} PROVE loop'[m].up = loop[m].up
    BY OtherLoop
  <2> QED BY <2>1, <2>2
<1>3. LoopParents' \in [Loops -> SUBSET Loops] /\ LoopKids' \in [Loops -> SUBSET Loops]
  BY DEF LoopParents, LoopKids, TypeOK, LoopRecord
<1>4. \A m \in Loops : m \notin Beneath(LoopParents, m) /\ m \notin Beneath(LoopKids, m)
  BY DEF NestingAcyclic, LoopAncestors, LoopDescendants
<1>5. ASSUME NEW m \in Loops PROVE m \notin Beneath(LoopParents', m)
  <2> DEFINE A == IF s.up = None THEN {} ELSE {s.up} \union Beneath(LoopParents, s.up)
  <2>1. A \in SUBSET Loops
    BY <1>1, LoopParentsType, BeneathType
  <2>2. l \notin A
    BY DEF BindScope, NestsUnder, LoopAncestors
  <2>3. \A z \in A : LoopParents[z] \subseteq A
    BY <1>1, LoopParentsType, BeneathClosed
  <2>4. LoopParents'[l] \subseteq A
    BY <1>1, <1>2 DEF LoopParents
  <2>5. \A z \in Loops \ {l} : LoopParents'[z] = LoopParents[z]
    BY <1>2 DEF LoopParents
  <2> HIDE DEF A, LoopParents
  <2> QED BY <1>3, <1>4, <2>1, <2>2, <2>3, <2>4, <2>5, LoopParentsType, TurnedEdgesAcyclic
<1>6. ASSUME NEW m \in Loops PROVE m \notin Beneath(LoopKids', m)
  <2>1. LoopKids'[l] = {}
    BY BoundLoop DEF LoopKids
  <2>2. \A z \in Loops : LoopKids'[z] \subseteq LoopKids[z] \union {l}
    BY <2>1, OtherLoop DEF LoopKids
  <2> QED BY <1>3, <1>4, <2>1, <2>2, LoopKidsType, NewLeafAcyclic
<1> QED BY <1>5, <1>6 DEF NestingAcyclic, LoopAncestors, LoopDescendants

(* Neither record of who runs beneath whom ever forms a cycle, whatever is  *)
(* unbound and bound again under another parent.                            *)
THEOREM NestingStaysAcyclic == Spec => []NestingAcyclic
<1>1. Init => NestingAcyclic
  <2> SUFFICES ASSUME Init, NEW l \in Loops
               PROVE  l \notin Beneath(LoopParents, l) /\ l \notin Beneath(LoopKids, l)
    BY DEF NestingAcyclic, LoopAncestors, LoopDescendants
  <2>1. TypeOK /\ LoopParents[l] = {} /\ LoopKids[l] = {}
    BY InitTypeOK, NoneAssumption DEF Init, LoopParents, LoopKids, NoLoop
  <2>2. Beneath(LoopParents, l) \subseteq {} /\ Beneath(LoopKids, l) \subseteq {}
    BY <2>1, LoopParentsType, LoopKidsType, BeneathLeast
  <2> QED BY <2>2
<1>2. IInv /\ IInv' /\ NestingAcyclic /\ [Next]_vars => NestingAcyclic'
  <2> SUFFICES ASSUME IInv, IInv', NestingAcyclic, [Next]_vars PROVE NestingAcyclic'
    OBVIOUS
  <2>1. TypeOK /\ TypeOK'
    BY DEF IInv
  <2>2. CASE \A m \in Loops : loop'[m].up = loop[m].up /\ loop'[m].kids = loop[m].kids
    <3>1. LoopParents' = LoopParents /\ LoopKids' = LoopKids
      BY <2>2 DEF LoopParents, LoopKids
    <3> QED BY <3>1 DEF NestingAcyclic, LoopAncestors, LoopDescendants
  <2>3. ASSUME NEW l \in Loops, NEW s \in LoopSpecs, BindScope(l, s) PROVE NestingAcyclic'
    BY <2>1, <2>3, BindKeepsAcyclic
  <2>4. ASSUME NEW l \in Loops, NEW t \in TerminalStates, UnbindScope(l, t)
        PROVE  \A m \in Loops : loop'[m].up = loop[m].up /\ loop'[m].kids = loop[m].kids
    BY <2>1, <2>4, UnboundLoop
  <2>5. ASSUME NEW l \in Loops, NEW verified \in BOOLEAN, NEW judge \in Loops \union {None},
               NEW e \in Evidence \union {None}, LoopTick(l, verified, judge, e)
        PROVE  \A m \in Loops : loop'[m].up = loop[m].up /\ loop'[m].kids = loop[m].kids
    BY <2>1, <2>5 DEF LoopTick, TypeOK, LoopRecord
  <2> QED BY <2>2, <2>3, <2>4, <2>5, LoopsLeftAlone DEF BindStep
<1> QED BY <1>1, <1>2, InvariantHolds, PTL DEF Spec
=============================================================================
