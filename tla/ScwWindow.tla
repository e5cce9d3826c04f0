----------------------------- MODULE ScwWindow -----------------------------
(***************************************************************************)
(* The operations of one structured context window (scw_runtime            *)
(* window.py).  Every action is one call that was accepted, with all it    *)
(* changes; a refused call changes nothing modelled here, and is no step,  *)
(* except where it does (RefuseDriftedTick).  A caller a is a loop id or   *)
(* the unbound host.                                                       *)
(***************************************************************************)
EXTENDS ScwScope

CONSTANTS
  HostOnlyBridges,     \* host_only_bridges
  RequireBounded,      \* require_bounded_loops
  MaxTotalIterations,  \* max_total_iterations, or None
  MaxLoopDepth,        \* max_loop_depth, or None
  LoopSpecs,           \* the bindings a host may ask for
  GrantSpecs           \* the bridges a caller may ask for

LoopSpec == [root: Regions, descend: BOOLEAN, max: Limits, harness: Harnesses \union {None},
             objective: BOOLEAN, exposes: SUBSET Regions, criterion: Criteria \union {None},
             up: Loops \union {None}]

(* Nothing checks a TTL: it may be zero, or negative.                       *)
GrantSpec == [from: Regions, to: Regions, mode: {"read", "write", "read_write"},
              ttl: Int \union {None}]

ASSUME SwitchAssumption == HostOnlyBridges \in BOOLEAN /\ RequireBounded \in BOOLEAN
ASSUME LimitAssumption == MaxTotalIterations \in Limits /\ MaxLoopDepth \in Nat \union {None}
ASSUME SpecsAssumption == LoopSpecs \subseteq LoopSpec /\ GrantSpecs \subseteq GrantSpec

(* "other" stands for no_op, blocked, stalled and exhausted, which the code *)
(* treats alike.                                                            *)
TerminalStates == {"success", "other", None}

LoopRecord == [status: {"none", "bound", "exhausted", "unbound"},
               root: Regions \union {None}, descend: BOOLEAN,
               iteration: Nat, max: Limits, harness: Harnesses \union {None},
               objective: BOOLEAN, exposes: SUBSET Regions,
               criterion: Criteria \union {None},
               up: Loops \union {None}, kids: SUBSET Loops, depth: Nat,
               accepted: BOOLEAN, terminal: TerminalStates]

BridgeRecord == [status: {"none", "open", "closed", "expired"},
                 from: Regions \union {None}, to: Regions \union {None},
                 mode: {"read", "write", "read_write"},
                 expires: Int \union {None}, owner: Actors]

Signatures == UNION {[S -> Contents] : S \in SUBSET Regions}

CriterionRecord == [status: {"none", "pinned", "released"}, region: Regions \union {None},
                    signature: Signatures, drifted: BOOLEAN]

EvidenceRecord == [by: Loops \union {None}, passes: BOOLEAN, signature: Signatures,
                   usedAt: Nat \union {None}]

NoLoop == [status |-> "none", root |-> None, descend |-> FALSE, iteration |-> 0,
           max |-> None, harness |-> None, objective |-> FALSE, exposes |-> {},
           criterion |-> None, up |-> None, kids |-> {}, depth |-> 0,
           accepted |-> FALSE, terminal |-> None]

NoBridge == [status |-> "none", from |-> None, to |-> None, mode |-> "read",
             expires |-> None, owner |-> Host]

NoSignature == [x \in {} |-> Empty]

NoCriterion == [status |-> "none", region |-> None, signature |-> NoSignature, drifted |-> FALSE]

NoEvidence == [by |-> None, passes |-> FALSE, signature |-> NoSignature, usedAt |-> None]

AnyPolicy == CHOOSE p \in Policies : TRUE

Init ==
  /\ life = [r \in Regions |-> "absent"]
  /\ parent = [r \in Regions |-> None]
  /\ policy = [r \in Regions |-> AnyPolicy]     \* resolved when the region is created
  /\ bytes = [r \in Regions |-> Empty]
  /\ loop = [l \in Loops |-> NoLoop]
  /\ bridge = [b \in Bridges |-> NoBridge]
  /\ ceiling = [r \in Regions |-> None]
  /\ criterion = [c \in Criteria |-> NoCriterion]
  /\ evidence = [e \in Evidence |-> NoEvidence]
  /\ spent = [h \in Harnesses |-> 0]
  /\ tick = 0
  /\ strict = FALSE

-----------------------------------------------------------------------------
(* Regions.                                                                 *)

(* A loop never changes a read-only region; the host may seed it.           *)
MayChangeAny(a, r) == TRUE     \* mutant

MayChange(a, r) == policy[r].readonly => a = Host

(* A loop may only nest a region where it may write; only the host adds     *)
(* roots, and it alone may nest under a read-only parent.                   *)
CreateScw(a, r, p, up) ==
  /\ life[r] = "absent"
  /\ IF up = None
     THEN a = Host /\ ~strict
     ELSE /\ life[up] = "open"
          /\ Authorized(a, "write", up)
          /\ MayChange(a, up)
  /\ life' = [life EXCEPT ![r] = "open"]
  /\ parent' = [parent EXCEPT ![r] = up]
  /\ policy' = [policy EXCEPT ![r] = p]
  /\ UNCHANGED <<bytes, loop, bridge, ceiling, criterion, evidence, spent, tick, strict>>

(* Appending, upserting, replacing and the eviction that follows leave some *)
(* content v behind.                                                        *)
Write(a, r, v) ==
  /\ life[r] = "open"
  /\ Authorized(a, "write", r)
  /\ MayChange(a, r)
  /\ bytes' = [bytes EXCEPT ![r] = v]
  /\ UNCHANGED <<life, parent, policy, loop, bridge, ceiling, criterion, evidence,
                 spent, tick, strict>>

(* A copy needs read access to the source; a move also needs write access,  *)
(* because it deletes.  rest is what the move leaves in the source.         *)
Promote(a, from, to, mode, v, rest) ==
  /\ life[from] # "absent"
  /\ Authorized(a, "read", from)
  /\ mode = "move" => /\ Authorized(a, "write", from)
                      /\ life[from] = "open"
                      /\ MayChange(a, from)
  /\ life[to] = "open"
  /\ Authorized(a, "write", to)
  /\ ~policy[to].readonly
  /\ bytes[from] # Empty
  /\ bytes' = [bytes EXCEPT ![from] = IF mode = "move" THEN rest ELSE @, ![to] = v]
  /\ UNCHANGED <<life, parent, policy, loop, bridge, ceiling, criterion, evidence,
                 spent, tick, strict>>

OpenChildren(r) == {c \in Children[r] : life[c] = "open"}

(* What close_scw closes: the region, and with cascade the open regions     *)
(* reached through open children.                                           *)
CloseTargetsShallow(r, cascade) ==     \* mutant: children only
  {r} \union (IF cascade THEN OpenChildren(r) ELSE {})

CloseTargets(r, cascade) ==
  {r} \union (IF cascade THEN Beneath([x \in Regions |-> OpenChildren(x)], r) ELSE {})

(* _revoke_bridges_for, for every region of a set.                          *)
RevokedForTargets(T) ==     \* mutant: grants out of the region are kept
  [b \in Bridges |->
     IF bridge[b].status = "open" /\ bridge[b].to \in T
     THEN [bridge[b] EXCEPT !.status = "closed"]
     ELSE bridge[b]]

RevokedWithReason(T) ==     \* mutant: the reason is stored as the status
  [b \in Bridges |->
     IF bridge[b].status = "open" /\ {bridge[b].from, bridge[b].to} \intersect T # {}
     THEN [bridge[b] EXCEPT !.status = "region_closed"]
     ELSE bridge[b]]

RevokedFor(T) ==
  [b \in Bridges |->
     IF bridge[b].status = "open" /\ {bridge[b].from, bridge[b].to} \intersect T # {}
     THEN [bridge[b] EXCEPT !.status = "closed"]
     ELSE bridge[b]]

(* The whole set is validated before any of it is closed.                   *)
CloseScw(a, r, cascade) ==
  LET T == CloseTargets(r, cascade)
  IN  /\ life[r] = "open"
      /\ cascade \/ OpenChildren(r) = {}
      /\ \A t \in T : Authorized(a, "write", t) /\ Occupants(t) = {}
      /\ life' = [x \in Regions |->
                    IF x \in T THEN IF policy[x].purge THEN "purged" ELSE "sealed"
                               ELSE life[x]]
      /\ bytes' = [x \in Regions |-> IF x \in T /\ policy[x].purge THEN Empty ELSE bytes[x]]
      /\ bridge' = RevokedFor(T)
      /\ UNCHANGED <<parent, policy, loop, ceiling, criterion, evidence, spent, tick, strict>>

Seal ==
  /\ strict' = TRUE
  /\ UNCHANGED <<life, parent, policy, bytes, loop, bridge, ceiling, criterion,
                 evidence, spent, tick>>

-----------------------------------------------------------------------------
(* Binding a loop.                                                          *)

WithinProduct(l, s) ==
  None \notin {loop[s.up].max, s.max, MaxTotalIterations} =>
    loop[s.up].max * s.max <= MaxTotalIterations

NestsUnderOther(l, s) ==     \* mutant: only a cycle of two is refused
  /\ s.up # l
  /\ Bound(s.up)
  /\ loop[s.up].up # l
  /\ s.root \in ReadClosure(s.up)

(* The control-flow nesting a binding may ask for.                          *)
NestsUnder(l, s) ==
  /\ s.up # l
  /\ Bound(s.up)
  /\ l \notin LoopAncestors(s.up)
  /\ MaxLoopDepth # None => loop[s.up].depth + 1 <= MaxLoopDepth
  /\ s.root \in ReadClosure(s.up)
  /\ WithinProduct(l, s)

GovernsExposure(s) == s.harness # None /\ Profile[s.harness].verification = "disjoint"

ExposureAllowedToLoop(l, s) ==     \* mutant: keyed on the loop id only
  loop[l].status # "none" => s.exposes \subseteq loop[l].exposes

(* The handoff surface may narrow but not widen: per region for the         *)
(* bindings a disjointness proof applies to, per loop id for all.           *)
ExposureAllowed(l, s) ==
  /\ GovernsExposure(s) /\ ceiling[s.root] # None => s.exposes \subseteq ceiling[s.root]
  /\ loop[l].status # "none" => s.exposes \subseteq loop[l].exposes

(* bind_scope: a rebinding starts from a fresh record.                      *)
BindScope(l, s) ==
  /\ life[s.root] = "open"
  /\ ~Bound(l)
  /\ RequireBounded => s.max # None
  /\ s.criterion # None => criterion[s.criterion].status = "pinned"
  /\ s.up # None => NestsUnder(l, s)
  /\ \A x \in s.exposes : life[x] # "absent"
  /\ ExposureAllowed(l, s)
  /\ loop' = [m \in Loops |->
                IF m = l
                THEN [status |-> "bound", root |-> s.root, descend |-> s.descend,
                      iteration |-> 0, max |-> s.max, harness |-> s.harness,
                      objective |-> s.objective, exposes |-> s.exposes,
                      criterion |-> s.criterion, up |-> s.up, kids |-> {},
                      depth |-> IF s.up = None THEN 0 ELSE loop[s.up].depth + 1,
                      accepted |-> FALSE, terminal |-> None]
                ELSE IF m = s.up
                THEN [loop[m] EXCEPT !.kids = @ \union {l}]
                ELSE loop[m]]
  /\ ceiling' = IF GovernsExposure(s) THEN [ceiling EXCEPT ![s.root] = s.exposes] ELSE ceiling
  /\ UNCHANGED <<life, parent, policy, bytes, bridge, criterion, evidence, spent, tick, strict>>

(* unbind_scope takes any loop ever bound, bound or not.                    *)
UnbindScope(l, terminal) ==
  /\ loop[l].status # "none"
  /\ terminal = "success" => loop[l].accepted
  /\ loop' = [loop EXCEPT ![l].status = "unbound", ![l].terminal = terminal]
  /\ UNCHANGED <<life, parent, policy, bytes, bridge, ceiling, criterion, evidence,
                 spent, tick, strict>>

-----------------------------------------------------------------------------
(* Bridges.                                                                 *)

FreshBridge(b) ==
  /\ bridge[b].status = "none"
  /\ \A c \in Bridges : c < b => bridge[c].status # "none"

OpenBridge(a, g) ==
  /\ life[g.from] = "open" /\ life[g.to] = "open"
  /\ g.from # g.to
  /\ a # Host => ~HostOnlyBridges /\ g.from \in OwnReachable(a)
  /\ policy[g.to].bridgeable
  /\ g.mode # "read" => ~policy[g.to].readonly
  /\ \E b \in Bridges :
       /\ FreshBridge(b)
       /\ bridge' = [bridge EXCEPT ![b] =
                       [status |-> "open", from |-> g.from, to |-> g.to, mode |-> g.mode,
                        expires |-> IF g.ttl = None THEN None ELSE tick + g.ttl,
                        owner |-> a]]
  /\ UNCHANGED <<life, parent, policy, bytes, loop, ceiling, criterion, evidence,
                 spent, tick, strict>>

(* A loop may close what it minted or what starts in its own scope.  An     *)
(* expired or closed bridge keeps its status.                               *)
CloseBridge(a, b) ==
  /\ bridge[b].status = "open"
  /\ a # Host => bridge[b].owner = a \/ bridge[b].from \in OwnReachable(a)
  /\ bridge' = [bridge EXCEPT ![b].status = "closed"]
  /\ UNCHANGED <<life, parent, policy, bytes, loop, ceiling, criterion, evidence,
                 spent, tick, strict>>

-----------------------------------------------------------------------------
(* Criteria and evidence.                                                   *)

PinCriterion(c, r) ==
  /\ criterion[c].status = "none"
  /\ life[r] = "open"
  /\ criterion' = [criterion EXCEPT ![c] =
                     [status |-> "pinned", region |-> r, signature |-> Signature(r),
                      drifted |-> FALSE]]
  /\ UNCHANGED <<life, parent, policy, bytes, loop, bridge, ceiling, evidence,
                 spent, tick, strict>>

(* repin_criterion does not look at the status, nor change it.              *)
RepinCriterion(c) ==
  /\ criterion[c].status # "none"
  /\ criterion' = [criterion EXCEPT ![c].signature = Signature(criterion[c].region)]
  /\ UNCHANGED <<life, parent, policy, bytes, loop, bridge, ceiling, evidence,
                 spent, tick, strict>>

UnpinCriterion(c) ==
  /\ criterion[c].status # "none"
  /\ criterion' = [criterion EXCEPT ![c].status = "released"]
  /\ UNCHANGED <<life, parent, policy, bytes, loop, bridge, ceiling, evidence,
                 spent, tick, strict>>

FreshEvidence(e) ==
  /\ evidence[e].by = None
  /\ \A f \in Evidence : f < e => evidence[f].by # None

AttestEvidence(l, passes) ==
  /\ Bound(l)
  /\ \E e \in Evidence :
       /\ FreshEvidence(e)
       /\ evidence' = [evidence EXCEPT ![e] =
                         [by |-> l, passes |-> passes, signature |-> Signature(loop[l].root),
                          usedAt |-> None]]
  /\ UNCHANGED <<life, parent, policy, bytes, loop, bridge, ceiling, criterion,
                 spent, tick, strict>>

CitableAgain(l, e) ==     \* mutant: consumption is not checked
  /\ e \in Evidence
  /\ evidence[e].by = l
  /\ evidence[e].passes
  /\ evidence[e].signature = Signature(loop[l].root)

(* _consume_evidence: what a verdict may cite.                              *)
Citable(l, e) ==
  /\ e \in Evidence
  /\ evidence[e].by = l
  /\ evidence[e].usedAt = None
  /\ evidence[e].passes
  /\ evidence[e].signature = Signature(loop[l].root)

-----------------------------------------------------------------------------
(* One iteration.                                                           *)

WithinOwnCeiling(l) ==     \* mutant: the harness budget is not shared
  /\ Bound(l)
  /\ loop[l].max # None => loop[l].iteration < loop[l].max
  /\ MaxTotalIterations # None => tick < MaxTotalIterations

WithinCeilings(l) ==
  /\ Bound(l)
  /\ loop[l].max # None => loop[l].iteration < loop[l].max
  /\ LET h == loop[l].harness
     IN  h # None => (Profile[h].budget # None => spent[h] < Profile[h].budget)
  /\ MaxTotalIterations # None => tick < MaxTotalIterations

YardstickHolds(l) ==
  LET c == loop[l].criterion
  IN  c # None =>
        (criterion[c].status = "pinned" =>
           criterion[c].signature = Signature(criterion[c].region))

Verification(l) ==
  IF loop[l].harness = None THEN "declared" ELSE Profile[loop[l].harness].verification

NeedsEvidence(l) ==
  /\ loop[l].harness # None
  /\ \/ Profile[loop[l].harness].evidence = "all"
     \/ Profile[loop[l].harness].evidence = "objective" /\ loop[l].objective

VerdictStandsUncited(l, judge, e) ==     \* mutant: only evidence that is cited is checked
  /\ Verification(l) = "attributed" => Identified(l, judge)
  /\ NeedsEvidence(l) /\ e # None => Citable(l, e)

(* What a passing verdict has to survive before the tick is taken.          *)
VerdictStands(l, judge, e) ==
  /\ Verification(l) = "attributed" => Identified(l, judge)
  /\ Verification(l) = "disjoint" => Disjoint(l, judge)
  /\ NeedsEvidence(l) => Citable(l, e)

ExpiredOwned(l, now) ==     \* mutant: the host's grants are nobody's to expire
  [b \in Bridges |->
     IF /\ bridge[b].status = "open"
        /\ bridge[b].expires # None
        /\ bridge[b].owner = l
        /\ now >= bridge[b].expires
     THEN [bridge[b] EXCEPT !.status = "expired"]
     ELSE bridge[b]]

(* _expire_bridges: the ticking loop's own grants and the host's.           *)
ExpiredAt(l, now) ==
  [b \in Bridges |->
     IF /\ bridge[b].status = "open"
        /\ bridge[b].expires # None
        /\ bridge[b].owner \in {l, Host}
        /\ now >= bridge[b].expires
     THEN [bridge[b] EXCEPT !.status = "expired"]
     ELSE bridge[b]]

(* loop_tick.  verified is the verdict True; False and None differ only in  *)
(* counters nothing reads.  judge is verified_by; an id that names no bound *)
(* loop is as good as None.                                                 *)
LoopTick(l, verified, judge, e) ==
  /\ WithinCeilings(l)
  /\ YardstickHolds(l)
  /\ verified => VerdictStands(l, judge, e)
  /\ bytes' = [r \in Regions |->
                 IF r \in OwnReachable(l) /\ life[r] = "open" /\ policy[r].reset
                 THEN Empty ELSE bytes[r]]
  /\ bridge' = ExpiredAt(l, tick + 1)
  /\ tick' = tick + 1
  /\ loop' = [loop EXCEPT ![l].iteration = @ + 1,
                          ![l].accepted = @ \/ verified,
                          ![l].status = IF loop[l].max # None /\ loop[l].iteration + 1 >= loop[l].max
                                        THEN "exhausted" ELSE @]
  /\ spent' = [h \in Harnesses |-> IF h = loop[l].harness THEN spent[h] + 1 ELSE spent[h]]
  /\ evidence' = IF verified /\ NeedsEvidence(l)
                 THEN [evidence EXCEPT ![e].usedAt = tick + 1] ELSE evidence
  /\ UNCHANGED <<life, parent, policy, ceiling, criterion, strict>>

(* A tick refused because the pinned criterion moved counts the drift.      *)
RefuseDriftedTick(l) ==
  /\ WithinCeilings(l)
  /\ ~YardstickHolds(l)
  /\ criterion' = [criterion EXCEPT ![loop[l].criterion].drifted = TRUE]
  /\ UNCHANGED <<life, parent, policy, bytes, loop, bridge, ceiling, evidence,
                 spent, tick, strict>>

-----------------------------------------------------------------------------
RegionStep(a) ==
  \/ \E r \in Regions, p \in Policies, up \in Regions \union {None} : CreateScw(a, r, p, up)
  \/ \E r \in Regions, cascade \in BOOLEAN : CloseScw(a, r, cascade)

ContentStep(a) ==
  \/ \E r \in Regions, v \in Contents : Write(a, r, v)
  \/ \E from, to \in Regions, mode \in {"move", "copy"}, v, rest \in Contents :
       Promote(a, from, to, mode, v, rest)

BridgeStep(a) ==
  \/ \E g \in GrantSpecs : OpenBridge(a, g)
  \/ \E b \in Bridges : CloseBridge(a, b)

BindStep(l) ==
  \/ \E s \in LoopSpecs : BindScope(l, s)
  \/ \E terminal \in TerminalStates : UnbindScope(l, terminal)

CriterionStep ==
  \E c \in Criteria :
    \/ \E r \in Regions : PinCriterion(c, r)
    \/ RepinCriterion(c)
    \/ UnpinCriterion(c)

TickStep(l) ==
  \/ \E verified \in BOOLEAN, judge \in Loops \union {None}, e \in Evidence \union {None} :
       LoopTick(l, verified, judge, e)
  \/ RefuseDriftedTick(l)

EvidenceStep(l) == \E passes \in BOOLEAN : AttestEvidence(l, passes)

Next ==
  \/ \E a \in Actors : RegionStep(a) \/ ContentStep(a) \/ BridgeStep(a)
  \/ \E l \in Loops : BindStep(l) \/ TickStep(l) \/ EvidenceStep(l)
  \/ CriterionStep
  \/ Seal

Spec == Init /\ [][Next]_vars
=============================================================================
