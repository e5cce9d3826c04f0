--------------------------- MODULE ScwProperties ---------------------------
(***************************************************************************)
(* What the context window promises, as properties of ScwWindow.           *)
(***************************************************************************)
EXTENDS ScwWindow

(* Every part of the window keeps its type: the records of model.py.        *)
TypeOK ==
  /\ life \in [Regions -> {"absent", "open", "sealed", "purged"}]
  /\ parent \in [Regions -> Regions \union {None}]
  /\ policy \in [Regions -> Policies]
  /\ bytes \in [Regions -> Contents]
  /\ loop \in [Loops -> LoopRecord]
  /\ bridge \in [Bridges -> BridgeRecord]
  /\ ceiling \in [Regions -> {None} \union SUBSET Regions]
  /\ criterion \in [Criteria -> CriterionRecord]
  /\ evidence \in [Evidence -> EvidenceRecord]
  /\ spent \in [Harnesses -> Nat]
  /\ tick \in Nat
  /\ strict \in BOOLEAN

-----------------------------------------------------------------------------
(* Regions, loops and grants stay consistent with one another.              *)

(* An open grant always joins two distinct open regions, into a region that *)
(* accepts grants, and never to write into a read-only one: closing a       *)
(* region, alone or in a cascade, leaves no grant through it behind.        *)
BridgesJoinOpenRegions ==
  \A b \in Bridges : bridge[b].status = "open" =>
    LET from == bridge[b].from  to == bridge[b].to
    IN  /\ from \in Regions /\ to \in Regions /\ from # to
        /\ life[from] = "open" /\ life[to] = "open"
        /\ policy[to].bridgeable
        /\ bridge[b].mode # "read" => ~policy[to].readonly

(* A bound loop's region is open for as long as the loop is bound.          *)
BoundLoopsOnOpenRegions ==
  \A l \in Loops : Bound(l) => loop[l].root \in Regions /\ life[loop[l].root] = "open"

(* Nothing is open beneath a sealed or purged region, so a seal is a seal   *)
(* of the whole subtree.                                                    *)
NothingOpenUnderClosed ==
  \A r \in Regions : life[r] = "open" /\ parent[r] # None => life[parent[r]] = "open"

(* The partition of a bound loop is not closed under its feet: no region of *)
(* it closes while the loop is bound, in whatever cascade.                  *)
NoOccupiedRegionCloses ==
  [][\A r \in Regions : life[r] = "open" /\ life'[r] # "open" =>
       \A l \in Loops : r \notin OwnReachable(l)]_vars

-----------------------------------------------------------------------------
(* The partition.                                                           *)

(* A region that declares bridgeable=False is never read from outside: not  *)
(* by a grant to it, and not by a grant to, or a read of, anything above it. *)
WallsHold ==
  \A l \in Loops : Bound(l) =>
    LET inside == Subtree(loop[l].root)
        walled == {r \in Regions : ~policy[r].bridgeable}
    IN  /\ ReadClosure(l) \intersect walled \subseteq inside
        /\ \A r \in Regions : Authorized(l, "read", r) =>
             Delivered(l, r, TRUE) \intersect walled \subseteq inside

(* For a loop bound with descend, no read returns the bytes of a region     *)
(* outside the closure the disjointness proof is computed from.             *)
DescendingReadsWithinClosure ==
  \A l \in Loops, r \in Regions :
    Bound(l) /\ loop[l].descend /\ Authorized(l, "read", r) =>
      Delivered(l, r, TRUE) \subseteq ReadClosure(l)

(* Once the window is sealed, whatever changes in a region is within some   *)
(* bound loop's write closure, or is the reset of a loop's own region; and  *)
(* a new region appears only beneath a region some loop could write.        *)
WritesWithinClosure ==
  [][strict => \A r \in Regions :
       /\ bytes'[r] # bytes[r] =>
            \E l \in Loops : \/ r \in WriteClosure(l)
                             \/ policy[r].reset /\ r \in OwnReachable(l) /\ bytes'[r] = Empty
       /\ life'[r] # life[r] =>
            \E l \in Loops : IF life[r] = "absent" THEN parent'[r] \in WriteClosure(l)
                             ELSE r \in WriteClosure(l)]_vars

(* A sealed window keeps its yardstick: a pinned region that is read-only   *)
(* all the way down, and not reset, renders the same bytes forever after.   *)
YardstickFrozen ==
  [][\A r \in Regions :
       /\ strict
       /\ \E c \in Criteria : criterion[c].status = "pinned" /\ criterion[c].region = r
       /\ \A x \in Subtree(r) : policy[x].readonly /\ ~policy[x].reset
       => Signature(r)' = Signature(r)]_vars

(* What a loop, or a region under a disjointness proof, hands over may      *)
(* narrow from one binding to the next and never widens or starts over.     *)
ExposureNeverWidens ==
  [][/\ \A r \in Regions : ceiling[r] # None =>
          ceiling'[r] # None /\ ceiling'[r] \subseteq ceiling[r]
     /\ \A l \in Loops : loop[l].status # "none" => loop'[l].exposes \subseteq loop[l].exposes
     /\ \A l \in Loops : /\ ~Bound(l) /\ Bound(l)'
                         /\ Verification(l)' = "disjoint"
                         => loop'[l].exposes \subseteq ceiling'[loop'[l].root]]_vars

-----------------------------------------------------------------------------
(* Loops.                                                                   *)

(* Neither the parents of loops nor their child lists ever form a cycle,    *)
(* whatever is unbound and bound again under another parent.                *)
NestingAcyclic ==
  \A l \in Loops : l \notin LoopAncestors(l) /\ l \notin LoopDescendants(l)

(* No ceiling is overrun: not the loop's (and a loop at its ceiling is no   *)
(* longer bound), not the harness's across loops, not the window's.         *)
CeilingsHold ==
  /\ MaxTotalIterations # None => tick <= MaxTotalIterations
  /\ \A h \in Harnesses : Profile[h].budget # None => spent[h] <= Profile[h].budget
  /\ \A l \in Loops : loop[l].max # None =>
       /\ loop[l].iteration <= loop[l].max
       /\ Bound(l) => loop[l].iteration < loop[l].max

(* The host's grant b is open though the window's tick has reached its      *)
(* expiry.                                                                  *)
Overdue(b) ==
  /\ bridge[b].status = "open" /\ bridge[b].owner = Host
  /\ bridge[b].expires # None /\ tick >= bridge[b].expires

(* No tick, of whichever loop, leaves a host's grant open that has reached  *)
(* its expiry.  Only a grant minted with a TTL of zero or less is overdue,  *)
(* from then until the next tick: nothing else makes one so                 *)
(* (open_bridge, _expire_bridges).                                          *)
HostGrantsExpire ==
  [][\A b \in Bridges :
        Overdue(b)' => tick' = tick /\ (Overdue(b) \/ bridge[b].status = "none")]_vars

(* One check, one iteration: evidence is consumed once, by an iteration of  *)
(* the loop that gathered it, while the loop's region still renders what    *)
(* the check saw.                                                           *)
EvidenceSpentOnce ==
  [][\A e \in Evidence :
       LET l == evidence[e].by
       IN  /\ l # None => evidence'[e].by = l
           /\ evidence'[e].usedAt # evidence[e].usedAt =>
                /\ l # None /\ evidence[e].usedAt = None /\ evidence[e].passes
                /\ loop'[l].iteration = loop[l].iteration + 1
                /\ \E r \in Regions : loop[l].root = r /\ evidence[e].signature = Signature(r)
                /\ \A f \in Evidence \ {e} : evidence'[f] = evidence[f]]_vars

(* Where a harness requires evidence, a loop's accepted iteration has some. *)
AcceptedWithEvidence ==
  \A l \in Loops :
    loop[l].status = "bound" /\ loop[l].accepted /\ NeedsEvidence(l) =>
      \E e \in Evidence : evidence[e].by = l /\ evidence[e].usedAt # None

-----------------------------------------------------------------------------
(* Claims of the repository the code does not keep.                         *)

(* read_closure is documented as every region a loop can obtain bytes from. *)
ReadsWithinClosure ==
  \A l \in Loops, r \in Regions :
    Bound(l) /\ Authorized(l, "read", r) => Delivered(l, r, TRUE) \subseteq ReadClosure(l)

(* The maker's own sub-loops are documented not to grade it: a verdict      *)
(* under a disjointness proof needs a judge the maker did not spawn.        *)
NoSubLoopGrades ==
  \A maker, judge \in Loops :
    Bound(maker) /\ Disjoint(maker, judge) => maker \notin LoopAncestors(judge)
=============================================================================
