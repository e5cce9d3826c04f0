----------------------- MODULE StructuralContainment -----------------------
(***************************************************************************)
(* maxey0_ss/containment/structural.py as ContextService wires it: with a  *)
(* constitution tree over it and a DenialBreaker that reads the refusals   *)
(* back from its log.  Of the log the model keeps what the breaker counts. *)
(* A decision that is allowed changes nothing but the log, so the          *)
(* decisions are the operators MayRead, MayWrite, ... and only refusals    *)
(* are steps.                                                              *)
(***************************************************************************)
EXTENDS ConstitutionTree

CONSTANTS
  SpecOf,        \* the specification of each window; itself, for a specification
  Declarations,  \* the [readable, writable] sets an instance may declare
  Threshold,     \* refusals after which the breaker trips
  MaxRefusals,   \* bound: refusals of one window that are counted here
  MaxBridges     \* bound: bridges open at once

ASSUME SpecAssumption ==
  SpecOf \in [Windows -> Windows] /\ \A w \in Windows : SpecOf[SpecOf[w]] = SpecOf[w]
ASSUME DeclarationAssumption ==
  Declarations \subseteq [readable : SUBSET Windows, writable : SUBSET Windows]
ASSUME ThresholdAssumption == Threshold \in Nat \ {0} /\ MaxRefusals \in Nat /\ MaxBridges \in Nat

VARIABLES
  registered,  \* the instances the provider knows
  readable,    \* their declared read sets
  writable,    \* their declared write sets
  bridges,     \* the <<source, target>> pairs opened
  refused      \* refused crossings of each window on the log

boundaryVars == <<registered, readable, writable, bridges, refused>>
containmentVars == <<treeVars, boundaryVars>>

-----------------------------------------------------------------------------
(* Decisions.                                                               *)

Forms(w) == {w, SpecOf[w]}

(* The chartered form that answers for w: its own charter before that of    *)
(* its specification.                                                       *)
Governs(w) == IF w \in chartered THEN w ELSE SpecOf[w]

ConstitutionPermits(a, t) ==
  LET g == Governs(a)
  IN  g \in chartered /\ \E f \in Forms(t) : f = g \/ Permits(charter[g], f)

Tripped(a) == refused[a] >= Threshold

MayBridge(s, t) ==
  /\ ~Tripped(s)
  /\ IsBridgeable(charter[Governs(s)])
  /\ ConstitutionPermits(s, t)

MayReadUncharted(a, t) ==     \* mutant: a bridge is not held to the charter
  /\ ~Tripped(a)
  /\ a \in registered
  /\ \/ a = t
     \/ t \in readable[a] /\ ConstitutionPermits(a, t)
     \/ <<a, t>> \in bridges

MayRead(a, t) ==
  /\ ~Tripped(a)
  /\ a \in registered
  /\ \/ a = t
     \/ ConstitutionPermits(a, t) /\ (t \in readable[a] \/ <<a, t>> \in bridges)

MayWrite(a, t) ==
  /\ ~Tripped(a)
  /\ a \in registered
  /\ \/ a = t
     \/ ConstitutionPermits(a, t) /\ t \in writable[a]

MayEgress(a) == ~Tripped(a) /\ a \in registered

ReachDeclared(w) == {w} \union readable[w]     \* mutant: bridges are left out

Reach(w) == {w} \union readable[w] \union {t \in Windows : <<w, t>> \in bridges}

MayDeclareDisjoint(a, b) ==
  /\ ~Tripped(a)
  /\ {a, b} \subseteq registered
  /\ Reach(a) \intersect Reach(b) = {}

-----------------------------------------------------------------------------
(* Operations.                                                              *)

ContainmentInit ==
  /\ TreeInit
  /\ registered = {}
  /\ readable = [w \in Windows |-> {}]
  /\ writable = [w \in Windows |-> {}]
  /\ bridges = {}
  /\ refused = [w \in Windows |-> 0]

(* charter_root, charter and narrow: the tree's, and an entry on the log    *)
(* that the breaker does not count.                                         *)
Formation == TreeStep /\ UNCHANGED boundaryVars

(* A refused registration is a SPAWN on the log, not counted either.        *)
Register(w, d) ==
  /\ \A t \in d.readable \union d.writable : ConstitutionPermits(w, t)
  /\ registered' = registered \union {w}
  /\ readable' = [readable EXCEPT ![w] = d.readable]
  /\ writable' = [writable EXCEPT ![w] = d.writable]
  /\ UNCHANGED <<treeVars, bridges, refused>>

(* ContextService.close: the instance is forgotten, and every bridge to or  *)
(* from it.                                                                 *)
Revoke(w) ==
  /\ registered' = registered \ {w}
  /\ readable' = [readable EXCEPT ![w] = {}]
  /\ writable' = [writable EXCEPT ![w] = {}]
  /\ bridges' = {b \in bridges : w \notin {b[1], b[2]}}
  /\ UNCHANGED <<treeVars, refused>>

(* open_bridge does not ask whether either end is registered.               *)
OpenBridge(s, t) ==
  /\ MayBridge(s, t)
  /\ <<s, t>> \in bridges \/ Cardinality(bridges) < MaxBridges
  /\ bridges' = bridges \union {<<s, t>>}
  /\ UNCHANGED <<treeVars, registered, readable, writable, refused>>

(* A refused READ, WRITE, EGRESS or BRIDGE goes on the log; decide refuses  *)
(* every BRIDGE it is asked about as unsupported.                           *)
RefuseCrossing(a) ==
  /\ refused[a] < MaxRefusals
  /\ refused' = [refused EXCEPT ![a] = @ + 1]
  /\ UNCHANGED <<treeVars, registered, readable, writable, bridges>>

RefuseRead(a, t) == ~MayRead(a, t) /\ RefuseCrossing(a)
RefuseWrite(a, t) == ~MayWrite(a, t) /\ RefuseCrossing(a)
RefuseBridge(s, t) == ~MayBridge(s, t) /\ RefuseCrossing(s)
RefuseEgress(a) == ~MayEgress(a) /\ RefuseCrossing(a)
DecideBridge(a) == RefuseCrossing(a)

(* GatedProvider.admit: the window may speak, the semantic gate refuses     *)
(* what it would say, and that is on the log too.                           *)
GateRefusesEgress(a) == MayEgress(a) /\ RefuseCrossing(a)

Crossing ==
  \/ \E w \in Windows, d \in Declarations : Register(w, d)
  \/ \E w \in Windows : Revoke(w)
  \/ \E s, t \in Windows : OpenBridge(s, t)
  \/ \E a, t \in Windows : RefuseRead(a, t) \/ RefuseWrite(a, t) \/ RefuseBridge(a, t)
  \/ \E a \in Windows : RefuseEgress(a) \/ DecideBridge(a) \/ GateRefusesEgress(a)

ContainmentSpec == ContainmentInit /\ [][Formation \/ Crossing]_containmentVars

-----------------------------------------------------------------------------
(* Properties.                                                              *)

ContainmentTypeOK ==
  /\ TreeTypeOK
  /\ registered \subseteq Windows
  /\ readable \in [Windows -> SUBSET Windows]
  /\ writable \in [Windows -> SUBSET Windows]
  /\ bridges \subseteq Windows \X Windows
  /\ refused \in [Windows -> Nat]

(* Whatever was declared or bridged, and whenever, a window crosses only    *)
(* into what its own charter and that of every window above it grants now:  *)
(* narrowing an ancestor takes effect on read sets and bridges that were    *)
(* accepted before.  (Itself, and an instance of its own specification,     *)
(* a window may always name.)                                               *)
CrossingsWithinCharters ==
  \A a, t \in Windows :
    (MayRead(a, t) \/ MayWrite(a, t)) /\ a # t =>
      LET g == Governs(a)
      IN  /\ g \in chartered
          /\ \/ g \in Forms(t)
             \/ \E f \in Forms(t) : \A b \in {g} \union Ancestors(g) : Permits(charter[b], f)

(* Two windows certified disjoint share nothing: there is no window, a      *)
(* third one included, that each of them may read.                          *)
DisjointMeansDisjoint ==
  \A a, b \in Windows : MayDeclareDisjoint(a, b) =>
    ~\E t \in Windows : MayRead(a, t) /\ MayRead(b, t)

(* A window that tripped the breaker stays tripped, through closing and     *)
(* starting again, and gains no bridge.                                     *)
TrippedForGood ==
  [][\A a \in Windows : Tripped(a) =>
       /\ Tripped(a)'
       /\ {b \in bridges' : b[1] = a} \subseteq bridges]_containmentVars
=============================================================================
