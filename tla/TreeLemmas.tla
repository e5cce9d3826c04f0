----------------------------- MODULE TreeLemmas -----------------------------
(***************************************************************************)
(* Facts about Beneath for any tree, or indeed any graph.                  *)
(***************************************************************************)
EXTENDS Trees, TLAPS

(* Everything beneath x is inside any set that holds the children of x and  *)
(* is closed under children.                                                *)
LEMMA BeneathLeast ==
  ASSUME NEW D, NEW kids \in [D -> SUBSET D], NEW x \in D, NEW S \in SUBSET D,
         kids[x] \subseteq S, \A z \in S : kids[z] \subseteq S
  PROVE  Beneath(kids, x) \subseteq S
BY DEF Beneath

(* What is beneath x, with x, is closed under children.                     *)
LEMMA BeneathClosed ==
  ASSUME NEW D, NEW kids \in [D -> SUBSET D], NEW x \in D,
         NEW y \in {x} \union Beneath(kids, x), NEW z \in kids[y]
  PROVE  z \in Beneath(kids, x)
<1>1. DOMAIN kids = D
  OBVIOUS
<1>2. y \in D /\ z \in D
  BY <1>1 DEF Beneath
<1>3. ASSUME NEW S \in SUBSET D, kids[x] \subseteq S, \A w \in S : kids[w] \subseteq S
      PROVE  z \in S
  <2>1. CASE y = x
    BY <2>1, <1>3
  <2>2. CASE y \in Beneath(kids, x)
    <3>1. y \in S
      BY <2>2, <1>1, <1>3 DEF Beneath
    <3> QED BY <3>1, <1>3
  <2> QED BY <2>1, <2>2
<1> QED BY <1>1, <1>2, <1>3 DEF Beneath

LEMMA BeneathType ==
  ASSUME NEW D, NEW kids \in [D -> SUBSET D], NEW x
  PROVE  Beneath(kids, x) \subseteq D
BY DEF Beneath

(* The children of x are beneath it.                                        *)
LEMMA BeneathKids ==
  ASSUME NEW D, NEW kids \in [D -> SUBSET D], NEW x \in D
  PROVE  kids[x] \subseteq Beneath(kids, x)
BY DEF Beneath

(* What is beneath a node beneath x is beneath x.                           *)
LEMMA BeneathTransitive ==
  ASSUME NEW D, NEW kids \in [D -> SUBSET D], NEW x \in D, NEW y \in Beneath(kids, x)
  PROVE  Beneath(kids, y) \subseteq Beneath(kids, x)
<1>1. y \in D /\ Beneath(kids, x) \subseteq D
  BY BeneathType
<1>2. kids[y] \subseteq Beneath(kids, x)
  BY <1>1, BeneathClosed
<1>3. \A z \in Beneath(kids, x) : kids[z] \subseteq Beneath(kids, x)
  BY <1>1, BeneathClosed
<1> QED BY <1>1, <1>2, <1>3, BeneathLeast

(* What lies beneath x depends on the children of x and of what is beneath  *)
(* it alone.                                                                *)
LEMMA BeneathFrame ==
  ASSUME NEW D, NEW kids \in [D -> SUBSET D], NEW kids2 \in [D -> SUBSET D], NEW x \in D,
         \A y \in {x} \union Beneath(kids, x) : kids2[y] = kids[y]
  PROVE  Beneath(kids2, x) = Beneath(kids, x)
<1> DEFINE B1 == Beneath(kids, x)
           B2 == Beneath(kids2, x)
<1>1. B1 \in SUBSET D /\ B2 \in SUBSET D
  BY BeneathType
<1>2. \A y \in {x} \union B1 : kids[y] \subseteq B1
  BY BeneathClosed
<1>3. \A y \in {x} \union B2 : kids2[y] \subseteq B2
  BY BeneathClosed
<1>4. B2 \subseteq B1
  <2>1. kids2[x] \subseteq B1 /\ \A z \in B1 : kids2[z] \subseteq B1
    BY <1>2
  <2> QED BY <1>1, <2>1, BeneathLeast
<1>5. B1 \subseteq B2
  <2>1. kids[x] \subseteq B1 \intersect B2 /\ \A z \in B1 \intersect B2 : kids[z] \subseteq B1 \intersect B2
    BY <1>2, <1>3
  <2>2. B1 \intersect B2 \in SUBSET D
    BY <1>1
  <2> HIDE DEF B2
  <2>3. B1 \subseteq B1 \intersect B2
    BY <2>1, <2>2, BeneathLeast
  <2> QED BY <2>3
<1> QED BY <1>4, <1>5

(* Turning the edges out of l around keeps a graph free of cycles, when     *)
(* they now lead into a set A that leads nowhere but into itself and is     *)
(* without l.                                                               *)
LEMMA TurnedEdgesAcyclic ==
  ASSUME NEW D, NEW kids \in [D -> SUBSET D], NEW kids2 \in [D -> SUBSET D],
         NEW l \in D, NEW A \in SUBSET D, l \notin A, kids2[l] \subseteq A,
         \A z \in A : kids[z] \subseteq A,
         \A z \in D \ {l} : kids2[z] = kids[z],
         \A m \in D : m \notin Beneath(kids, m),
         NEW m \in D
  PROVE  m \notin Beneath(kids2, m)
<1> DEFINE B == Beneath(kids, m)
<1>1. B \in SUBSET D
  BY BeneathType
<1>2. \A y \in {m} \union B : kids[y] \subseteq B
  BY BeneathClosed
<1>3. CASE m \in A
  <2>1. kids2[m] \subseteq B \intersect A /\ \A z \in B \intersect A : kids2[z] \subseteq B \intersect A
    BY <1>1, <1>2, <1>3
  <2>2. B \intersect A \in SUBSET D
    BY <1>1
  <2>3. m \notin B
    OBVIOUS
  <2> HIDE DEF B
  <2> QED BY <2>1, <2>2, <2>3, BeneathLeast
<1>4. CASE m = l
  <2>1. kids2[m] \subseteq A /\ \A z \in A : kids2[z] \subseteq A
    BY <1>4
  <2> QED BY <1>4, <2>1, BeneathLeast
<1>5. CASE m \notin A /\ m # l
  <2>1. kids2[m] \subseteq B \union A /\ \A z \in B \union A : kids2[z] \subseteq B \union A
    BY <1>1, <1>2, <1>5
  <2>2. B \union A \in SUBSET D
    BY <1>1
  <2>3. m \notin B
    OBVIOUS
  <2> HIDE DEF B
  <2>4. Beneath(kids2, m) \subseteq B \union A
    BY <2>1, <2>2, BeneathLeast
  <2> QED BY <1>5, <2>3, <2>4
<1> QED BY <1>3, <1>4, <1>5

(* So does a new leaf, whoever takes it for a child.                        *)
LEMMA NewLeafAcyclic ==
  ASSUME NEW D, NEW kids \in [D -> SUBSET D], NEW kids2 \in [D -> SUBSET D],
         NEW l \in D, kids2[l] = {},
         \A z \in D : kids2[z] \subseteq kids[z] \union {l},
         \A m \in D : m \notin Beneath(kids, m),
         NEW m \in D
  PROVE  m \notin Beneath(kids2, m)
<1> DEFINE S == IF m = l THEN {} ELSE Beneath(kids, m) \union {l}
<1>1. m \notin S /\ S \in SUBSET D
  BY BeneathType
<1>2. \A y \in {m} \union Beneath(kids, m) : kids[y] \subseteq Beneath(kids, m)
  BY BeneathClosed
<1>3. kids2[m] \subseteq S /\ \A z \in S : kids2[z] \subseteq S
  BY <1>1, <1>2
<1> HIDE DEF S
<1>4. Beneath(kids2, m) \subseteq S
  BY <1>1, <1>3, BeneathLeast
<1> QED BY <1>1, <1>4
=============================================================================
