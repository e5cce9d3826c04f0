-------------------------- MODULE ContainmentProofs --------------------------
(***************************************************************************)
(* What holds of every formation and of every boundary over it.  First the *)
(* proofs about ConstitutionTree: the order on constitutions, then the     *)
(* shape of the tree, then the theorems.  On top of them the proofs about  *)
(* StructuralContainment: what the charters are worth where windows cross. *)
(***************************************************************************)
EXTENDS StructuralContainment, TreeLemmas, FiniteSetTheorems, WellFoundedInduction

-----------------------------------------------------------------------------
(* The order on constitutions.                                              *)

(* A set of naturals has a least member.                                    *)
LEMMA LeastNatural ==
  ASSUME NEW T \in SUBSET Nat, T # {}
  PROVE  \E m \in T : \A n \in T : m <= n
<1>1. \E m \in T : \A n \in T : <<n, m>> \notin OpToRel(<, Nat)
  BY NatLessThanWellFounded, WFMin
<1>2. \A m, n \in Nat : <<n, m>> \notin OpToRel(<, Nat) => m <= n
  BY DEF OpToRel
<1> QED BY <1>1, <1>2

(* The tightest of some caps is a cap, as tight as each of them, and no     *)
(* looser when there are more of them.                                      *)
LEMMA TightestCaps ==
  ASSUME NEW S \in SUBSET Caps, NEW T \in SUBSET Caps, S \subseteq T
  PROVE  /\ Tightest(S) \in Caps
         /\ \A c \in S : TighterCap(Tightest(S), c)
         /\ TighterCap(Tightest(T), Tightest(S))
<1>1. ASSUME NEW U \in SUBSET Caps
      PROVE  IF U \subseteq {None} THEN Tightest(U) = None
             ELSE /\ Tightest(U) \in U \ {None}
                  /\ \A n \in U \ {None} : Tightest(U) <= n
  <2>1. CASE U \subseteq {None}
    BY <2>1 DEF Tightest
  <2>2. CASE ~(U \subseteq {None})
    <3>1. U \ {None} \in SUBSET Nat /\ U \ {None} # {}
      BY <2>2 DEF Caps
    <3>2. \E m \in U \ {None} : \A n \in U \ {None} : m <= n
      BY <3>1, LeastNatural
    <3>3. Tightest(U) = CHOOSE m \in U \ {None} : \A n \in U \ {None} : m <= n
      BY <2>2 DEF Tightest, Min
    <3> QED BY <2>2, <3>2, <3>3
  <2> QED BY <2>1, <2>2
<1>2. /\ IF S \subseteq {None} THEN Tightest(S) = None
         ELSE Tightest(S) \in S \ {None} /\ \A n \in S \ {None} : Tightest(S) <= n
      /\ IF T \subseteq {None} THEN Tightest(T) = None
         ELSE Tightest(T) \in T \ {None} /\ \A n \in T \ {None} : Tightest(T) <= n
  BY <1>1
<1>3. Tightest(S) \in Caps
  BY <1>2 DEF Caps
<1>4. \A c \in S : TighterCap(Tightest(S), c)
  BY <1>2, NoneAssumption DEF Caps, TighterCap
<1>5. TighterCap(Tightest(T), Tightest(S))
  BY <1>2, NoneAssumption DEF Caps, TighterCap
<1> QED BY <1>3, <1>4, <1>5

LEMMA WithinReflexive == ASSUME NEW k \in Constitution PROVE Within(k, k)
BY NoneAssumption DEF Within, TighterCap, Constitution, Caps

LEMMA WithinTransitive ==
  ASSUME NEW a \in Constitution, NEW b \in Constitution, NEW c \in Constitution,
         Within(a, b), Within(b, c)
  PROVE  Within(a, c)
<1>1. ASSUME NEW x \in Caps, NEW y \in Caps, NEW z \in Caps, TighterCap(x, y), TighterCap(y, z)
      PROVE  TighterCap(x, z)
  BY <1>1, NoneAssumption DEF TighterCap, Caps
<1>2. /\ c.reach # None => a.reach # None /\ a.reach \subseteq c.reach
      /\ IsBridgeable(a) => IsBridgeable(c)
  BY DEF Within
<1> QED BY <1>1, <1>2 DEF Within, Constitution

(* A request that may be made of k gives a constitution within k.           *)
LEMMA DeriveWithin ==
  ASSUME NEW k \in Constitution, NEW q \in Constitution, MayRequest(k, q)
  PROVE  Derive(k, q) \in Constitution /\ Within(Derive(k, q), k)
<1>1. ASSUME NEW p \in Caps, NEW c \in Caps
      PROVE  Tighter(p, c) \in Caps /\ TighterCap(Tighter(p, c), p)
  BY NoneAssumption DEF Caps, Tighter, TighterCap
<1>2. Derive(k, q) \in Constitution
  BY <1>1 DEF Derive, Constitution, IsBridgeable
<1>3. /\ k.reach # None => Derive(k, q).reach # None /\ Derive(k, q).reach \subseteq k.reach
      /\ IsBridgeable(Derive(k, q)) => IsBridgeable(k)
  <2>1. Derive(k, q).reach = q.reach
    BY DEF Derive
  <2>2. k.reach # None => q.reach # None /\ q.reach \subseteq k.reach
    BY DEF MayRequest
  <2>3. CASE q.bridgeable = None
    <3>1. ~IsBridgeable(k) => Derive(k, q).bridgeable = FALSE
      BY <2>3 DEF Derive
    <3>2. FALSE \notin {TRUE, None}
      BY NoneAssumption
    <3>3. IsBridgeable(Derive(k, q)) => IsBridgeable(k)
      BY <3>1, <3>2 DEF IsBridgeable
    <3> QED BY <2>1, <2>2, <3>3
  <2>4. CASE q.bridgeable # None
    <3>1. Derive(k, q).bridgeable = q.bridgeable
      BY <2>4 DEF Derive
    <3> QED BY <2>1, <2>2, <2>4, <3>1 DEF MayRequest, IsBridgeable
  <2> QED BY <2>3, <2>4
<1>4. /\ TighterCap(Derive(k, q).max_depth, k.max_depth)
      /\ TighterCap(Derive(k, q).max_children, k.max_children)
      /\ TighterCap(Derive(k, q).max_descendants, k.max_descendants)
  BY <1>1 DEF Derive, Constitution
<1> QED BY <1>2, <1>3, <1>4 DEF Within

(* The intersection of some constitutions is within each of them, and the   *)
(* intersection of more of them within that of fewer.                       *)
LEMMA IntersectWithin ==
  ASSUME NEW K \in SUBSET Constitution, NEW L \in SUBSET Constitution, K \subseteq L
  PROVE  /\ Intersect(K) \in Constitution
         /\ \A k \in K : Within(Intersect(K), k)
         /\ Within(Intersect(L), Intersect(K))
<1> DEFINE D(M) == {k.max_depth : k \in M}
           C(M) == {k.max_children : k \in M}
           N(M) == {k.max_descendants : k \in M}
<1>1. /\ D(K) \in SUBSET Caps /\ C(K) \in SUBSET Caps /\ N(K) \in SUBSET Caps
      /\ D(L) \in SUBSET Caps /\ C(L) \in SUBSET Caps /\ N(L) \in SUBSET Caps
      /\ D(K) \subseteq D(L) /\ C(K) \subseteq C(L) /\ N(K) \subseteq N(L)
  BY DEF Constitution
<1>2. /\ Tightest(D(K)) \in Caps /\ Tightest(C(K)) \in Caps /\ Tightest(N(K)) \in Caps
      /\ \A c \in D(K) : TighterCap(Tightest(D(K)), c)
      /\ \A c \in C(K) : TighterCap(Tightest(C(K)), c)
      /\ \A c \in N(K) : TighterCap(Tightest(N(K)), c)
      /\ TighterCap(Tightest(D(L)), Tightest(D(K)))
      /\ TighterCap(Tightest(C(L)), Tightest(C(K)))
      /\ TighterCap(Tightest(N(L)), Tightest(N(K)))
  <2> HIDE DEF D, C, N
  <2> QED BY <1>1, TightestCaps
<1>3. /\ Intersect(K).max_depth = Tightest(D(K))
      /\ Intersect(K).max_children = Tightest(C(K))
      /\ Intersect(K).max_descendants = Tightest(N(K))
      /\ Intersect(L).max_depth = Tightest(D(L))
      /\ Intersect(L).max_children = Tightest(C(L))
      /\ Intersect(L).max_descendants = Tightest(N(L))
  BY DEF Intersect
<1>4. Intersect(K) \in Constitution
  <2>1. Tightest(D(K)) \in Caps /\ Tightest(C(K)) \in Caps /\ Tightest(N(K)) \in Caps
    BY <1>2
  <2> QED BY <2>1 DEF Intersect, Constitution
<1>5. /\ IsBridgeable(Intersect(K)) <=> \A k \in K : IsBridgeable(k)
      /\ IsBridgeable(Intersect(L)) <=> \A k \in L : IsBridgeable(k)
  BY NoneAssumption DEF Intersect, IsBridgeable
<1>6. ASSUME NEW k \in K
      PROVE  Within(Intersect(K), k)
  <2>1. k.reach # None => Intersect(K).reach # None /\ Intersect(K).reach \subseteq k.reach
    BY NoneAssumption DEF Intersect, Permits
  <2>2. k.max_depth \in D(K) /\ k.max_children \in C(K) /\ k.max_descendants \in N(K)
    OBVIOUS
  <2> QED BY <1>2, <1>3, <1>5, <2>1, <2>2 DEF Within
<1>7. Within(Intersect(L), Intersect(K))
  <2>1. Intersect(K).reach # None =>
          Intersect(L).reach # None /\ Intersect(L).reach \subseteq Intersect(K).reach
    BY NoneAssumption DEF Intersect, Permits
  <2> QED BY <1>2, <1>3, <1>5, <2>1 DEF Within
<1> QED BY <1>4, <1>6, <1>7

-----------------------------------------------------------------------------
(* The shape of the tree: the child lists and the parents agree, both ends  *)
(* of a link are chartered, and a child sits one below its parent.          *)
Linked ==
  /\ \A w, p \in Windows : w \in children[p] <=> up[w] = p
  /\ \A w \in Windows : up[w] # None =>
       {w, up[w]} \subseteq chartered /\ depth[w] = depth[up[w]] + 1

(* Each constitution is within the parent's.                                *)
EdgesNarrow ==
  \A w \in Windows : up[w] # None => Within(charter[w], charter[up[w]])

IInv == TreeTypeOK /\ Linked /\ EdgesNarrow

LEMMA ParentsType == TreeTypeOK => Parents \in [Windows -> SUBSET Windows]
BY DEF Parents

(* A node below another is deeper.                                          *)
LEMMA DescendantsDeeper ==
  ASSUME TreeTypeOK, Linked, NEW top \in Windows, NEW w \in Descendants(top)
  PROVE  w \in Windows /\ depth[top] < depth[w] /\ up[w] \in {top} \union Descendants(top)
<1> DEFINE S == {x \in Windows : depth[top] < depth[x] /\ up[x] \in {top} \union Descendants(top)}
<1>1. children \in [Windows -> SUBSET Windows]
  BY DEF TreeTypeOK
<1>2. ASSUME NEW y \in {top} \union Descendants(top), NEW x \in children[y],
             y = top \/ depth[top] < depth[y]
      PROVE  x \in S
  <2>1. y \in Windows /\ x \in Windows
    BY <1>1, BeneathType DEF Descendants
  <2>2. up[x] = y /\ up[x] # None
    BY <2>1, NoneAssumption DEF Linked
  <2>3. depth[x] = depth[y] + 1 /\ depth[y] \in Nat /\ depth[top] \in Nat
    BY <2>1, <2>2 DEF Linked, TreeTypeOK
  <2> QED BY <1>2, <2>1, <2>2, <2>3
<1>3. Descendants(top) \subseteq S \intersect Descendants(top)
  <2>1. children[top] \subseteq S \intersect Descendants(top)
    BY <1>1, <1>2, BeneathKids DEF Descendants
  <2>2. ASSUME NEW y \in S \intersect Descendants(top)
        PROVE  children[y] \subseteq S \intersect Descendants(top)
    <3>1. children[y] \subseteq S
      BY <1>2, <2>2
    <3>2. children[y] \subseteq Descendants(top)
      BY <1>1, <2>2, BeneathClosed DEF Descendants
    <3> QED BY <3>1, <3>2
  <2>3. S \intersect Descendants(top) \in SUBSET Windows
    OBVIOUS
  <2> HIDE DEF S
  <2> QED BY <1>1, <2>1, <2>2, <2>3, BeneathLeast DEF Descendants
<1> QED BY <1>3

(* From every parent and child to every window and all those above it.      *)
LEMMA EdgesSuffice == IInv => NarrowsDownward
<1> SUFFICES ASSUME IInv, NEW w \in chartered, NEW a \in Ancestors(w)
             PROVE  Within(charter[w], charter[a])
  BY DEF NarrowsDownward
<1> DEFINE S == {x \in Windows : Within(charter[w], charter[x])}
<1>1. w \in Windows /\ charter \in [Windows -> Constitution]
  BY DEF IInv, TreeTypeOK
<1>2. ASSUME NEW y \in Windows, NEW x \in Parents[y], Within(charter[w], charter[y])
      PROVE  x \in S
  <2>1. x \in Windows /\ up[y] = x
    BY DEF Parents
  <2>2. Within(charter[y], charter[x])
    BY <2>1, NoneAssumption DEF IInv, EdgesNarrow
  <2>3. charter[w] \in Constitution /\ charter[y] \in Constitution /\ charter[x] \in Constitution
    BY <1>1, <2>1
  <2> QED BY <1>2, <2>1, <2>2, <2>3, WithinTransitive
<1>3. Within(charter[w], charter[w])
  BY <1>1, WithinReflexive
<1>4. Parents[w] \subseteq S /\ \A y \in S : Parents[y] \subseteq S
  BY <1>1, <1>2, <1>3
<1>5. S \in SUBSET Windows /\ Parents \in [Windows -> SUBSET Windows]
  BY ParentsType DEF IInv
<1>6. Ancestors(w) \subseteq S
  <2> HIDE DEF S
  <2> QED BY <1>1, <1>4, <1>5, BeneathLeast DEF Ancestors
<1> QED BY <1>6

-----------------------------------------------------------------------------
(* The constitutions after a narrowing.                                     *)
LEMMA ReseatedType ==
  ASSUME TreeTypeOK, NEW top \in Windows, NEW k \in Constitution
  PROVE  Reseated(top, k) \in [Windows -> Constitution]
<1> DEFINE K(w) == {k} \union {charter[a] : a \in {b \in Descendants(top) : b = w \/ w \in Descendants(b)}}
<1>1. Descendants(top) \subseteq Windows
  BY BeneathType DEF Descendants, TreeTypeOK
<1>2. \A w \in Windows : K(w) \in SUBSET Constitution
  BY <1>1 DEF TreeTypeOK
<1>3. \A w \in Windows : Intersect(K(w)) \in Constitution
  <2> HIDE DEF K
  <2> QED BY <1>2, IntersectWithin
<1> QED BY <1>3 DEF Reseated, TreeTypeOK

(* What it gives a window below top: the intersection of the way down.      *)
LEMMA ReseatedWithin ==
  ASSUME IInv, NEW top \in Windows, NEW k \in Constitution, Within(k, charter[top])
  PROVE  /\ \A w \in Windows : Within(Reseated(top, k)[w], charter[w])
         /\ \A w \in Windows : up[w] # None =>
              Within(Reseated(top, k)[w], Reseated(top, k)[up[w]])
<1> DEFINE below == Descendants(top)
           K(w) == {k} \union {charter[a] : a \in {b \in below : b = w \/ w \in Descendants(b)}}
           new == Reseated(top, k)
<1>1. /\ below \subseteq Windows
      /\ children \in [Windows -> SUBSET Windows]
      /\ charter \in [Windows -> Constitution]
  BY BeneathType DEF Descendants, IInv, TreeTypeOK
<1>2. \A w \in Windows : new[w] = IF w = top THEN k
                                 ELSE IF w \in below THEN Intersect(K(w)) ELSE charter[w]
  BY DEF Reseated
<1>3. new \in [Windows -> Constitution]
  BY ReseatedType DEF IInv
<1>4. \A w \in Windows : K(w) \in SUBSET Constitution /\ k \in K(w)
  BY <1>1
<1>5. \A w \in below : charter[w] \in K(w)
  OBVIOUS
<1>6. ASSUME NEW w \in Windows, NEW p \in below, w \in children[p]
      PROVE  w \in below /\ K(p) \subseteq K(w)
  <2>1. w \in below
    BY <1>1, <1>6, BeneathClosed DEF Descendants
  <2>2. w \in Descendants(p)
    BY <1>1, <1>6, BeneathKids DEF Descendants
  <2>3. ASSUME NEW b \in below, p \in Descendants(b)
        PROVE  w \in Descendants(b)
    BY <1>1, <1>6, <2>3, BeneathClosed DEF Descendants
  <2> QED BY <2>1, <2>2, <2>3
<1> HIDE DEF K, new
<1>7. ASSUME NEW w \in Windows
      PROVE  Within(new[w], charter[w])
  <2>1. CASE w = top
    BY <1>2, <2>1
  <2>2. CASE w # top /\ w \in below
    BY <1>2, <1>4, <1>5, <2>2, IntersectWithin
  <2>3. CASE w # top /\ w \notin below
    BY <1>1, <1>2, <2>3, WithinReflexive
  <2> QED BY <2>1, <2>2, <2>3
<1>8. ASSUME NEW w \in Windows, up[w] # None
      PROVE  Within(new[w], new[up[w]])
  <2> DEFINE p == up[w]
  <2>1. p \in Windows /\ w \in children[p] /\ depth[w] = depth[p] + 1
    BY <1>8 DEF IInv, Linked, TreeTypeOK
  <2>2. depth[w] \in Nat /\ depth[p] \in Nat /\ depth[top] \in Nat
    BY <2>1 DEF IInv, TreeTypeOK
  <2>3. Within(charter[w], charter[p])
    BY <1>8 DEF IInv, EdgesNarrow
  <2> HIDE DEF below, p
  <2>4. CASE p = top
    <3>1. w \in below /\ w # top
      BY <1>1, <2>1, <2>2, <2>4, BeneathKids DEF Descendants, below
    <3>2. new[p] = k /\ new[w] = Intersect(K(w))
      BY <1>2, <2>4, <3>1
    <3> QED BY <1>4, <3>2, IntersectWithin DEF p
  <2>5. CASE p # top /\ p \in below
    <3>1. w \in below /\ K(p) \subseteq K(w)
      BY <1>6, <2>1, <2>5
    <3>2. w # top
      BY <2>1, <2>2, <2>5, DescendantsDeeper DEF IInv, below
    <3>3. new[p] = Intersect(K(p)) /\ new[w] = Intersect(K(w))
      BY <1>1, <1>2, <2>5, <3>1, <3>2
    <3> QED BY <1>4, <2>1, <3>1, <3>3, IntersectWithin DEF p
  <2>6. CASE p # top /\ p \notin below
    <3>1. w \notin below
      BY <2>6, DescendantsDeeper DEF IInv, below, p
    <3>2. new[p] = charter[p]
      BY <1>2, <2>1, <2>6
    <3>3. new[w] \in Constitution /\ charter[w] \in Constitution /\ charter[p] \in Constitution
      BY <1>1, <1>3, <2>1
    <3>4. Within(new[w], charter[w])
      BY <1>7
    <3> QED BY <2>3, <3>2, <3>3, <3>4, WithinTransitive DEF p
  <2> QED BY <2>4, <2>5, <2>6
<1> QED BY <1>7, <1>8 DEF new

-----------------------------------------------------------------------------
(* Initially nothing is chartered and nothing is linked.                    *)
LEMMA InitEstablishes == TreeInit => IInv
<1> SUFFICES ASSUME TreeInit PROVE IInv
  OBVIOUS
<1>1. TreeTypeOK
  BY DEF TreeInit, TreeTypeOK, NoCharter, Constitution, Caps
<1>2. Linked
  BY NoneAssumption DEF TreeInit, Linked
<1>3. EdgesNarrow
  BY DEF TreeInit, EdgesNarrow
<1> QED BY <1>1, <1>2, <1>3 DEF IInv

(* A window outside the tree has no links.                                  *)
LEMMA OutsideUnlinked ==
  ASSUME IInv, NEW w \in Windows \ chartered
  PROVE  up[w] = None /\ children[w] = {} /\ \A p \in Windows : up[p] # w /\ w \notin children[p]
<1>1. up[w] = None
  BY DEF IInv, Linked
<1>2. \A p \in Windows : up[p] # w
  BY NoneAssumption DEF IInv, Linked
<1>3. children[w] = {}
  BY <1>2 DEF IInv, Linked, TreeTypeOK
<1>4. \A p \in Windows : w \notin children[p]
  BY <1>1, NoneAssumption DEF IInv, Linked
<1> QED BY <1>1, <1>2, <1>3, <1>4

LEMMA CharterRootPreserves ==
  ASSUME IInv, NEW w \in Windows, NEW k \in Grants, CharterRoot(w, k)
  PROVE  IInv'
<1> USE DEF IInv, CharterRoot
<1>1. TreeTypeOK'
  BY RequestAssumption DEF TreeTypeOK
<1>2. up' = up /\ children' = children
  BY OutsideUnlinked DEF TreeTypeOK
<1>3. \A x \in Windows : up[x] # None => x # w /\ up[x] # w /\ up[x] \in Windows
  BY OutsideUnlinked DEF TreeTypeOK
<1>4. Linked'
  BY <1>2, <1>3 DEF Linked, TreeTypeOK
<1>5. EdgesNarrow'
  BY <1>2, <1>3 DEF EdgesNarrow, TreeTypeOK
<1> QED BY <1>1, <1>4, <1>5

(* What a child is granted is within what its parent holds.                 *)
LEMMA CharteredWithin ==
  ASSUME TreeTypeOK, NEW w \in Windows, NEW p \in Windows, NEW q \in Requests \union {None},
         Charter(w, p, q)
  PROVE  charter'[w] \in Constitution /\ Within(charter'[w], charter[p])
<1>1. charter[p] \in Constitution
  BY DEF TreeTypeOK
<1>2. CASE q = None
  <2>1. charter'[w] = charter[p]
    BY <1>2 DEF Charter, TreeTypeOK
  <2> QED BY <1>1, <2>1, WithinReflexive
<1>3. CASE q # None
  <2>1. charter'[w] = Derive(charter[p], q)
    BY <1>3 DEF Charter, TreeTypeOK
  <2>2. q \in Constitution /\ MayRequest(charter[p], q)
    BY <1>3, RequestAssumption DEF Charter, MayCharter
  <2> QED BY <1>1, <2>1, <2>2, DeriveWithin
<1> QED BY <1>2, <1>3

LEMMA CharterPreserves ==
  ASSUME IInv, NEW w \in Windows, NEW p \in Windows, NEW q \in Requests \union {None},
         Charter(w, p, q)
  PROVE  IInv'
<1>1. w \in Windows \ chartered /\ p \in chartered /\ w # p
  BY DEF Charter, MayCharter
<1>2. /\ up[w] = None /\ children[w] = {}
      /\ \A x \in Windows : up[x] # w /\ w \notin children[x]
  BY <1>1, OutsideUnlinked
<1>3. charter'[w] \in Constitution /\ Within(charter'[w], charter[p])
  BY CharteredWithin DEF IInv
<1>4. TreeTypeOK'
  <2>1. charter' = [charter EXCEPT ![w] = charter'[w]]
    BY DEF Charter, IInv, TreeTypeOK
  <2>2. charter' \in [Windows -> Constitution]
    BY <1>3, <2>1 DEF IInv, TreeTypeOK
  <2>3. children' \in [Windows -> SUBSET Windows]
    BY DEF Charter, IInv, TreeTypeOK
  <2> QED BY <2>2, <2>3 DEF Charter, IInv, TreeTypeOK
<1>5. /\ up' = [x \in Windows |-> IF x = w THEN p ELSE up[x]]
      /\ children' = [x \in Windows |-> IF x = p THEN children[p] \union {w} ELSE children[x]]
      /\ depth' = [x \in Windows |-> IF x = w THEN depth[p] + 1 ELSE depth[x]]
      /\ \A x \in Windows : x # w => charter'[x] = charter[x]
  BY <1>1, <1>2 DEF Charter, IInv, TreeTypeOK
<1>6. chartered' = chartered \union {w}
  BY DEF Charter
<1>7. Linked'
  <2>1. ASSUME NEW x \in Windows, NEW y \in Windows
        PROVE  x \in children'[y] <=> up'[x] = y
    <3>1. x \in children[y] <=> up[x] = y
      BY DEF IInv, Linked
    <3>2. CASE x = w
      BY <1>1, <1>2, <1>5, <3>2
    <3>3. CASE x # w
      BY <1>5, <3>1, <3>3
    <3> QED BY <3>2, <3>3
  <2>2. ASSUME NEW x \in Windows, up'[x] # None
        PROVE  {x, up'[x]} \subseteq chartered' /\ depth'[x] = depth'[up'[x]] + 1
    <3>1. CASE x = w
      BY <1>1, <1>5, <1>6, <3>1
    <3>2. CASE x # w
      <4>1. up'[x] = up[x] /\ up[x] # w /\ up[x] \in Windows
        BY <1>2, <1>5, <2>2, <3>2 DEF IInv, TreeTypeOK
      <4> QED BY <1>5, <1>6, <2>2, <3>2, <4>1 DEF IInv, Linked
    <3> QED BY <3>1, <3>2
  <2> QED BY <2>1, <2>2 DEF Linked
<1>8. EdgesNarrow'
  <2> SUFFICES ASSUME NEW x \in Windows, up'[x] # None
               PROVE  Within(charter'[x], charter'[up'[x]])
    BY DEF EdgesNarrow
  <2>1. CASE x = w
    BY <1>1, <1>3, <1>5, <2>1
  <2>2. CASE x # w
    <3>1. up'[x] = up[x] /\ up[x] # w /\ up[x] \in Windows
      BY <1>2, <1>5, <2>2 DEF IInv, TreeTypeOK
    <3> QED BY <1>5, <2>2, <3>1 DEF IInv, EdgesNarrow
  <2> QED BY <2>1, <2>2
<1> QED BY <1>4, <1>7, <1>8 DEF IInv

LEMMA NarrowPreserves ==
  ASSUME IInv, NEW w \in Windows, NEW q \in Requests, Narrow(w, q)
  PROVE  IInv' /\ \A x \in Windows : Within(charter'[x], charter[x])
<1> DEFINE k == Derive(charter[w], q)
<1>1. charter[w] \in Constitution /\ q \in Constitution /\ MayRequest(charter[w], q)
  BY RequestAssumption DEF Narrow, IInv, TreeTypeOK
<1>2. k \in Constitution /\ Within(k, charter[w])
  BY <1>1, DeriveWithin
<1>3. charter' = Reseated(w, k)
  BY DEF Narrow
<1>4. UNCHANGED <<chartered, up, children, depth>>
  BY DEF Narrow
<1> HIDE DEF k
<1>5. charter' \in [Windows -> Constitution]
  BY <1>2, <1>3, ReseatedType DEF IInv
<1>6. /\ \A x \in Windows : Within(charter'[x], charter[x])
      /\ \A x \in Windows : up[x] # None => Within(charter'[x], charter'[up[x]])
  BY <1>2, <1>3, ReseatedWithin
<1>7. TreeTypeOK'
  BY <1>4, <1>5 DEF IInv, TreeTypeOK
<1>8. Linked'
  BY <1>4 DEF IInv, Linked
<1>9. EdgesNarrow'
  BY <1>4, <1>6 DEF EdgesNarrow
<1> QED BY <1>6, <1>7, <1>8, <1>9 DEF IInv

LEMMA StepPreserves == IInv /\ [TreeStep]_treeVars => IInv'
<1> SUFFICES ASSUME IInv, [TreeStep]_treeVars PROVE IInv'
  OBVIOUS
<1>1. CASE \E w \in Windows, k \in Grants : CharterRoot(w, k)
  BY <1>1, CharterRootPreserves
<1>2. CASE \E w, p \in Windows, q \in Requests \union {None} : Charter(w, p, q)
  BY <1>2, CharterPreserves
<1>3. CASE \E w \in Windows, q \in Requests : Narrow(w, q)
  BY <1>3, NarrowPreserves
<1>4. CASE UNCHANGED treeVars
  BY <1>4 DEF treeVars, IInv, TreeTypeOK, Linked, EdgesNarrow
<1> QED BY <1>1, <1>2, <1>3, <1>4 DEF TreeStep

-----------------------------------------------------------------------------
LEMMA SpecInvariant == TreeSpec => []IInv
BY InitEstablishes, StepPreserves, PTL DEF TreeSpec

(* The fields keep their types: every constitution a formation comes to     *)
(* hold is one, with caps that are absent or natural numbers.               *)
THEOREM TreeTypes == TreeSpec => []TreeTypeOK
<1>1. IInv => TreeTypeOK
  BY DEF IInv
<1> QED BY <1>1, SpecInvariant, PTL

(* In every formation, of any size, whatever was chartered, inherited or    *)
(* narrowed and in whatever order, no window holds more than any window     *)
(* above it.                                                                *)
THEOREM Narrowing == TreeSpec => []NarrowsDownward
BY EdgesSuffice, SpecInvariant, PTL

(* No call widens a constitution that was granted, that of any other window *)
(* included.                                                                *)
THEOREM NeverWidening == TreeSpec => GrantsNeverWiden
<1> DEFINE A == \A w \in chartered : w \in chartered' /\ Within(charter'[w], charter[w])
<1>1. ASSUME IInv, [TreeStep]_treeVars
      PROVE  A \/ UNCHANGED treeVars
  <2>1. charter \in [Windows -> Constitution] /\ chartered \subseteq Windows
    BY <1>1 DEF IInv, TreeTypeOK
  <2>2. ASSUME NEW x \in Windows \ chartered, chartered' = chartered \union {x},
               \A w \in Windows \ {x} : charter'[w] = charter[w]
        PROVE  A
    BY <2>1, <2>2, WithinReflexive
  <2>3. ASSUME NEW w \in Windows, NEW k \in Grants, CharterRoot(w, k)
        PROVE  A
    <3>1. /\ w \in Windows \ chartered /\ chartered' = chartered \union {w}
          /\ \A x \in Windows \ {w} : charter'[x] = charter[x]
      BY <2>1, <2>3 DEF CharterRoot
    <3> QED BY <2>2, <3>1
  <2>4. ASSUME NEW w \in Windows, NEW p \in Windows, NEW q \in Requests \union {None},
               Charter(w, p, q)
        PROVE  A
    <3>1. /\ w \in Windows \ chartered /\ chartered' = chartered \union {w}
          /\ \A x \in Windows \ {w} : charter'[x] = charter[x]
      BY <2>1, <2>4 DEF Charter, MayCharter
    <3> QED BY <2>2, <3>1
  <2>5. ASSUME NEW w \in Windows, NEW q \in Requests, Narrow(w, q)
        PROVE  A
    <3>1. chartered' = chartered
      BY <2>5 DEF Narrow
    <3> QED BY <1>1, <2>1, <2>5, <3>1, NarrowPreserves
  <2> QED BY <1>1, <2>3, <2>4, <2>5 DEF TreeStep
<1>2. IInv /\ [TreeStep]_treeVars => [A]_treeVars
  BY <1>1
<1> QED BY <1>2, SpecInvariant, PTL DEF TreeSpec, GrantsNeverWiden

-----------------------------------------------------------------------------
(* The caps: what is above and below a window that was just chartered.      *)
LEMMA AncestorsOfNew ==
  ASSUME IInv, NEW w \in Windows, NEW p \in Windows, NEW q \in Requests \union {None},
         Charter(w, p, q)
  PROVE  Ancestors(w)' \subseteq {p} \union Ancestors(p)
<1> DEFINE S == {p} \union Ancestors(p)
<1>1. Parents \in [Windows -> SUBSET Windows] /\ Parents' \in [Windows -> SUBSET Windows]
  BY DEF Parents
<1>2. S \in SUBSET Windows
  BY <1>1, BeneathType DEF Ancestors
<1>3. \A x \in Windows : Parents'[x] = IF x = w THEN {p} ELSE Parents[x]
  BY DEF Charter, IInv, TreeTypeOK, Parents
<1>4. \A x \in S : Parents[x] \subseteq S
  BY <1>1, BeneathClosed DEF Ancestors
<1>5. Parents'[w] \subseteq S /\ \A x \in S : Parents'[x] \subseteq S
  BY <1>2, <1>3, <1>4
<1>6. Beneath(Parents', w) \subseteq S
  <2> HIDE DEF S
  <2> QED BY <1>1, <1>2, <1>5, BeneathLeast
<1>7. Ancestors(w)' = Beneath(Parents', w)
  BY DEF Ancestors, Beneath
<1> QED BY <1>6, <1>7

LEMMA DescendantsGrow ==
  ASSUME IInv, NEW w \in Windows, NEW p \in Windows, NEW q \in Requests \union {None},
         Charter(w, p, q), NEW a \in Windows
  PROVE  Descendants(a)' \subseteq Descendants(a) \union {w}
<1> DEFINE S == Descendants(a) \union {w}
<1>1. children \in [Windows -> SUBSET Windows] /\ children' \in [Windows -> SUBSET Windows]
  BY DEF Charter, IInv, TreeTypeOK
<1>2. S \in SUBSET Windows
  BY <1>1, BeneathType DEF Descendants
<1>3. /\ children'[w] = {}
      /\ \A x \in Windows : children'[x] \subseteq children[x] \union {w}
  BY DEF Charter, MayCharter, IInv, TreeTypeOK
<1>4. children[a] \subseteq S /\ \A x \in Descendants(a) : children[x] \subseteq S
  BY <1>1, BeneathKids, BeneathClosed DEF Descendants
<1>5. children'[a] \subseteq S /\ \A x \in S : children'[x] \subseteq S
  BY <1>2, <1>3, <1>4
<1>6. Beneath(children', a) \subseteq S
  <2> HIDE DEF S
  <2> QED BY <1>1, <1>2, <1>5, BeneathLeast
<1>7. Descendants(a)' = Beneath(children', a)
  BY DEF Descendants, Beneath
<1> QED BY <1>6, <1>7

(* One more member, and a cap that was not reached is not exceeded.         *)
LEMMA OneMore ==
  ASSUME NEW S \in SUBSET Windows, NEW T \in SUBSET Windows, NEW w, T \subseteq S \union {w},
         NEW cap \in Caps, cap # None => Cardinality(S) < cap
  PROVE  TighterCap(Cardinality(T), cap)
<1>1. IsFiniteSet(S) /\ IsFiniteSet(T)
  BY WindowsFinite, FS_Subset
<1>2. IsFiniteSet(S \union {w}) /\ Cardinality(S \union {w}) \in {Cardinality(S), Cardinality(S) + 1}
  BY <1>1, FS_AddElement
<1>3. Cardinality(T) <= Cardinality(S \union {w})
  BY <1>2, FS_Subset
<1>4. Cardinality(S) \in Nat /\ Cardinality(T) \in Nat
  BY <1>1, FS_CardinalityType
<1> QED BY <1>2, <1>3, <1>4, NoneAssumption DEF TighterCap, Caps

LEMMA CharterCapped ==
  ASSUME IInv, NEW w \in Windows, NEW p \in Windows, NEW q \in Requests \union {None},
         Charter(w, p, q), NEW a \in Ancestors(w)'
  PROVE  /\ TighterCap(depth'[w], charter[a].max_depth)
         /\ TighterCap(Cardinality(children'[p]), charter[a].max_children)
         /\ TighterCap(Cardinality(Descendants(a)'), charter[a].max_descendants)
<1>1. a \in {p} \union Ancestors(p)
  BY AncestorsOfNew
<1>2. a \in Windows
  BY <1>1, ParentsType, BeneathType DEF IInv, Ancestors
<1>3. HasRoom(p) /\ p \in chartered /\ w # p
  BY DEF Charter, MayCharter
<1>4. charter[p] \in Constitution /\ charter[a] \in Constitution
  BY <1>2 DEF IInv, TreeTypeOK
<1>5. Within(charter[p], charter[a])
  <2>1. NarrowsDownward
    BY EdgesSuffice
  <2> QED BY <1>1, <1>3, <1>4, <2>1, WithinReflexive DEF NarrowsDownward
<1>6. TighterCap(depth'[w], charter[a].max_depth)
  <2>1. depth'[w] = depth[p] + 1 /\ depth[p] \in Nat
    BY DEF Charter, IInv, TreeTypeOK
  <2>2. charter[p].max_depth \in Caps /\ charter[a].max_depth \in Caps
    BY <1>4 DEF Constitution
  <2>3. charter[p].max_depth # None => depth'[w] <= charter[p].max_depth
    BY <1>3, <2>1 DEF HasRoom
  <2>4. TighterCap(charter[p].max_depth, charter[a].max_depth)
    BY <1>5 DEF Within
  <2> QED BY <2>1, <2>2, <2>3, <2>4, NoneAssumption DEF TighterCap, Caps
<1>7. TighterCap(Cardinality(children'[p]), charter[a].max_children)
  <2>1. children'[p] \subseteq children[p] \union {w} /\ children[p] \in SUBSET Windows
        /\ children'[p] \in SUBSET Windows
    BY <1>3 DEF Charter, IInv, TreeTypeOK
  <2>2. charter[a].max_children \in Caps /\ charter[p].max_children \in Caps
    BY <1>4 DEF Constitution
  <2>3. charter[p].max_children # None => Cardinality(children[p]) < charter[p].max_children
    BY <1>3 DEF HasRoom
  <2>4. Cardinality(children[p]) \in Nat
    BY <2>1, WindowsFinite, FS_Subset, FS_CardinalityType
  <2>5. TighterCap(charter[p].max_children, charter[a].max_children)
    BY <1>5 DEF Within
  <2>6. charter[a].max_children # None => Cardinality(children[p]) < charter[a].max_children
    BY <2>2, <2>3, <2>4, <2>5, NoneAssumption DEF TighterCap, Caps
  <2> QED BY <2>1, <2>2, <2>6, OneMore
<1>8. TighterCap(Cardinality(Descendants(a)'), charter[a].max_descendants)
  <2>1. Descendants(a) \in SUBSET Windows
    BY <1>2, BeneathType DEF IInv, TreeTypeOK, Descendants
  <2>2. Descendants(a)' \subseteq Descendants(a) \union {w}
    BY <1>2, DescendantsGrow
  <2>3. charter[a].max_descendants \in Caps
    BY <1>4 DEF Constitution
  <2>4. charter[a].max_descendants # None =>
          Cardinality(Descendants(a)) < charter[a].max_descendants
    BY <1>1, <1>3 DEF HasRoom
  <2>5. Descendants(a)' \in SUBSET Windows
    BY <2>1, <2>2
  <2> QED BY <2>1, <2>2, <2>3, <2>4, <2>5, OneMore
<1> QED BY <1>6, <1>7, <1>8

(* No window is ever chartered beyond a cap that it or any window above it  *)
(* holds, though each charter compares only with its parent's caps and the  *)
(* ancestors' descendant counts.                                            *)
THEOREM Growth == TreeSpec => GrowthCapped
<1> DEFINE A == \A w \in chartered' \ chartered : \A a \in Ancestors(w)' :
                  /\ TighterCap(depth'[w], charter[a].max_depth)
                  /\ \A p \in Windows : up'[w] = p =>
                       TighterCap(Cardinality(children'[p]), charter[a].max_children)
                  /\ TighterCap(Cardinality(Descendants(a)'), charter[a].max_descendants)
<1>1. ASSUME IInv, TreeStep
      PROVE  A
  <2>1. ASSUME NEW w \in Windows, NEW k \in Grants, CharterRoot(w, k)
        PROVE  A
    <3>1. Parents'[w] = {} /\ Parents' \in [Windows -> SUBSET Windows]
      BY <1>1, <2>1, NoneAssumption DEF CharterRoot, IInv, TreeTypeOK, Parents
    <3>2. Beneath(Parents', w) \subseteq {}
      BY <3>1, BeneathLeast
    <3>3. Ancestors(w)' = {}
      BY <3>2 DEF Ancestors, Beneath
    <3>4. chartered' \ chartered = {w}
      BY <2>1 DEF CharterRoot
    <3> QED BY <3>3, <3>4
  <2>2. ASSUME NEW w \in Windows, NEW p \in Windows, NEW q \in Requests \union {None},
               Charter(w, p, q)
        PROVE  A
    <3>1. chartered' \ chartered = {w} /\ up'[w] = p
      BY <1>1, <2>2 DEF Charter, MayCharter, IInv, TreeTypeOK
    <3>2. \A a \in Ancestors(w)' :
            /\ TighterCap(depth'[w], charter[a].max_depth)
            /\ TighterCap(Cardinality(children'[p]), charter[a].max_children)
            /\ TighterCap(Cardinality(Descendants(a)'), charter[a].max_descendants)
      BY <1>1, <2>2, CharterCapped
    <3> QED BY <3>1, <3>2
  <2>3. ASSUME NEW w \in Windows, NEW q \in Requests, Narrow(w, q)
        PROVE  A
    BY <2>3 DEF Narrow
  <2> QED BY <1>1, <2>1, <2>2, <2>3 DEF TreeStep
<1>2. IInv /\ [TreeStep]_treeVars => [A]_treeVars
  BY <1>1
<1> QED BY <1>2, SpecInvariant, PTL DEF TreeSpec, GrowthCapped

-----------------------------------------------------------------------------
(* The boundary.                                                            *)

(* Every step of the provider is a step of its tree, or leaves it alone.    *)
LEMMA StepOfTree == [Formation \/ Crossing]_containmentVars => [TreeStep]_treeVars
<1> SUFFICES ASSUME [Formation \/ Crossing]_containmentVars
             PROVE  [TreeStep]_treeVars
  OBVIOUS
<1>1. CASE Formation
  BY <1>1 DEF Formation
<1>2. CASE Crossing
  BY <1>2 DEF Crossing, Register, Revoke, OpenBridge, RefuseRead, RefuseWrite, RefuseBridge,
              RefuseEgress, DecideBridge, GateRefusesEgress, RefuseCrossing
<1>3. CASE UNCHANGED containmentVars
  BY <1>3 DEF containmentVars
<1> QED BY <1>1, <1>2, <1>3

(* The provider keeps a constitution tree: with what it registers, bridges  *)
(* and refuses left out, it does what the tree's specification says, so     *)
(* that all that holds of formations holds under it.                        *)
THEOREM ContainmentKeepsTree == ContainmentSpec => TreeSpec
BY StepOfTree, PTL DEF ContainmentSpec, ContainmentInit, TreeSpec

(* Narrowness all the way up: what a charter permits, all above it permit.  *)
LEMMA PermittedAbove ==
  ASSUME TreeTypeOK, NarrowsDownward, NEW g \in chartered, NEW f, Permits(charter[g], f),
         NEW b \in {g} \union Ancestors(g)
  PROVE  Permits(charter[b], f)
BY DEF NarrowsDownward, Within, Permits

(* A window crosses only into what its charter and every one above it       *)
(* grants at that moment, whatever was declared or bridged earlier.         *)
THEOREM Crossings == ContainmentSpec => []CrossingsWithinCharters
<1>1. IInv => CrossingsWithinCharters
  <2> SUFFICES ASSUME IInv, NEW a \in Windows, NEW t \in Windows, a # t,
                      MayRead(a, t) \/ MayWrite(a, t)
               PROVE  /\ Governs(a) \in chartered
                      /\ \/ Governs(a) \in Forms(t)
                         \/ \E f \in Forms(t) : \A b \in {Governs(a)} \union Ancestors(Governs(a)) :
                              Permits(charter[b], f)
    BY DEF CrossingsWithinCharters
  <2> DEFINE g == Governs(a)
  <2>1. ConstitutionPermits(a, t)
    BY DEF MayRead, MayWrite
  <2>2. g \in chartered /\ \E f \in Forms(t) : f = g \/ Permits(charter[g], f)
    BY <2>1 DEF ConstitutionPermits
  <2>3. TreeTypeOK /\ NarrowsDownward
    BY EdgesSuffice DEF IInv
  <2>4. CASE g \in Forms(t)
    BY <2>2, <2>4
  <2>5. CASE \E f \in Forms(t) : Permits(charter[g], f)
    <3>1. PICK f \in Forms(t) : Permits(charter[g], f)
      BY <2>5
    <3>2. \A b \in {g} \union Ancestors(g) : Permits(charter[b], f)
      BY <2>2, <2>3, <3>1, PermittedAbove
    <3> QED BY <2>2, <3>2
  <2> QED BY <2>2, <2>4, <2>5
<1>2. TreeSpec => []IInv
  BY SpecInvariant
<1> QED BY <1>1, <1>2, ContainmentKeepsTree, PTL

(* The boundary's own state keeps its types.                                *)
LEMMA BoundaryTypes ==
  ASSUME ContainmentTypeOK, TreeTypeOK', [Formation \/ Crossing]_containmentVars
  PROVE  ContainmentTypeOK'
<1> USE DEF ContainmentTypeOK
<1>1. CASE Formation
  BY <1>1 DEF Formation, boundaryVars
<1>2. CASE \E w \in Windows, d \in Declarations : Register(w, d)
  BY <1>2, DeclarationAssumption DEF Register
<1>3. CASE \E w \in Windows : Revoke(w)
  BY <1>3 DEF Revoke
<1>4. CASE \E s, t \in Windows : OpenBridge(s, t)
  BY <1>4 DEF OpenBridge
<1>5. CASE \E a \in Windows : RefuseCrossing(a)
  BY <1>5 DEF RefuseCrossing
<1>6. CASE UNCHANGED containmentVars
  BY <1>6 DEF containmentVars, boundaryVars
<1> QED BY <1>1, <1>2, <1>3, <1>4, <1>5, <1>6
        DEF Crossing, RefuseRead, RefuseWrite, RefuseBridge, RefuseEgress, DecideBridge,
            GateRefusesEgress

THEOREM ContainmentTypes == ContainmentSpec => []ContainmentTypeOK
<1>1. ContainmentInit => ContainmentTypeOK
  <2>1. ContainmentInit => TreeTypeOK
    BY InitEstablishes DEF ContainmentInit, IInv
  <2> QED BY <2>1 DEF ContainmentInit, ContainmentTypeOK
<1>2. ContainmentTypeOK /\ TreeTypeOK' /\ [Formation \/ Crossing]_containmentVars
        => ContainmentTypeOK'
  BY BoundaryTypes
<1> QED BY <1>1, <1>2, ContainmentKeepsTree, TreeTypes, PTL DEF ContainmentSpec

(* Once tripped a window stays tripped, and opens no bridge: nothing the    *)
(* provider offers takes a refusal off the log.                             *)
THEOREM TrippedStays == ContainmentSpec => TrippedForGood
<1> DEFINE A == \A a \in Windows : Tripped(a) =>
                  /\ Tripped(a)'
                  /\ {b \in bridges' : b[1] = a} \subseteq bridges
<1>1. ASSUME ContainmentTypeOK, [Formation \/ Crossing]_containmentVars
      PROVE  A
  <2>1. CASE UNCHANGED <<bridges, refused>>
    BY <2>1 DEF Tripped
  <2>2. ASSUME NEW w \in Windows, Revoke(w)
        PROVE  A
    BY <2>2 DEF Revoke, Tripped
  <2>3. ASSUME NEW s \in Windows, NEW t \in Windows, OpenBridge(s, t)
        PROVE  A
    BY <2>3 DEF OpenBridge, MayBridge, Tripped
  <2>4. ASSUME NEW w \in Windows, RefuseCrossing(w)
        PROVE  A
    <3>1. \A a \in Windows : refused[a] \in Nat /\ refused'[a] \in {refused[a], refused[a] + 1}
      BY <1>1, <2>4 DEF RefuseCrossing, ContainmentTypeOK
    <3>2. bridges' = bridges
      BY <2>4 DEF RefuseCrossing
    <3> QED BY <3>1, <3>2, ThresholdAssumption DEF Tripped
  <2> QED BY <1>1, <2>1, <2>2, <2>3, <2>4
          DEF Formation, boundaryVars, containmentVars, Crossing, Register, RefuseRead, RefuseWrite,
              RefuseBridge, RefuseEgress, DecideBridge, GateRefusesEgress
<1>2. ContainmentTypeOK /\ [Formation \/ Crossing]_containmentVars => [A]_containmentVars
  BY <1>1
<1> QED BY <1>2, ContainmentTypes, PTL DEF ContainmentSpec, TrippedForGood

(* Two windows certified disjoint read nothing in common: whatever a window *)
(* may read was declared or bridged, and both were looked at.               *)
THEOREM DisjointnessIsExclusive == ContainmentSpec => []DisjointMeansDisjoint
<1>1. \A a, t \in Windows : MayRead(a, t) => t \in Reach(a)
  BY DEF MayRead, Reach
<1>2. DisjointMeansDisjoint
  BY <1>1 DEF DisjointMeansDisjoint, MayDeclareDisjoint
<1> QED BY <1>2, PTL
=============================================================================
