---------------------------- MODULE RegionProofs ----------------------------
(***************************************************************************)
(* Theorems about the contents of regions and the log behind them, for any *)
(* regions, policies, keys and sizes, and any number of records.           *)
(***************************************************************************)
EXTENDS RegionLog, FiniteSetTheorems, WellFoundedInduction, TLAPS

LEMMA LeastNatural ==
  ASSUME NEW T \in SUBSET Nat, T # {}
  PROVE  \E m \in T : \A k \in T : m <= k
<1>1. PICK m \in T : \A k \in T : <<k, m>> \notin OpToRel(<, Nat)
  BY NatLessThanWellFounded, WFMin
<1>2. \A u, v \in Nat : <<v, u>> \notin OpToRel(<, Nat) => u <= v
  BY DEF OpToRel
<1> QED BY <1>1, <1>2

-----------------------------------------------------------------------------
(* Entries in turn.                                                         *)

(* A strict order of some places.                                           *)
Orders(before, places) ==
  /\ \A i \in places : <<i, i>> \notin before
  /\ \A i, j, k \in places : <<i, j>> \in before /\ <<j, k>> \in before => <<i, k>> \in before
  /\ \A i, j \in places : i # j => <<i, j>> \in before \/ <<j, i>> \in before

(* Every place has its turn, and every turn its place.                      *)
LEMMA Turns ==
  ASSUME NEW places, IsFiniteSet(places), NEW before, Orders(before, places)
  PROVE  LET Turn(i) == Cardinality({j \in places : <<j, i>> \in before})
         IN  /\ \A i, j \in places : Turn(i) = Turn(j) => i = j
             /\ \A k \in 1 .. Cardinality(places) : \E i \in places : Turn(i) = k - 1
<1> DEFINE Ahead(i) == {j \in places : <<j, i>> \in before}
           Turn(i) == Cardinality(Ahead(i))
           n == Cardinality(places)
<1>1. \A i : Ahead(i) \in SUBSET places
  OBVIOUS
<1>2. \A i : IsFiniteSet(Ahead(i)) /\ Turn(i) \in Nat
  <2> TAKE i
  <2>1. IsFiniteSet(Ahead(i))
    BY <1>1, FS_Subset
  <2> QED BY <2>1, FS_CardinalityType
<1>3. n \in Nat
  BY FS_CardinalityType
<1>4. ASSUME NEW i \in places, NEW j \in places, <<i, j>> \in before
      PROVE  Turn(i) < Turn(j)
  <2>1. Ahead(i) \subseteq Ahead(j) /\ i \in Ahead(j) /\ i \notin Ahead(i)
    BY <1>4 DEF Orders
  <2>2. Ahead(i) \in SUBSET Ahead(j) /\ Ahead(i) # Ahead(j)
    BY <2>1
  <2>3. Turn(i) <= Turn(j) /\ Turn(i) # Turn(j)
    <3> HIDE DEF Ahead
    <3> QED BY <1>2, <2>2, FS_Subset
  <2>4. Turn(i) \in Nat /\ Turn(j) \in Nat
    BY <1>2
  <2> HIDE DEF Turn
  <2> QED BY <2>3, <2>4
<1>5. \A i, j \in places : Turn(i) = Turn(j) => i = j
  <2> TAKE i, j \in places
  <2> HAVE Turn(i) = Turn(j)
  <2>1. <<i, j>> \notin before /\ <<j, i>> \notin before
    <3>1. Turn(i) \in Nat /\ Turn(j) \in Nat
      BY <1>2
    <3>2. ~(Turn(i) < Turn(j)) /\ ~(Turn(j) < Turn(i))
      <4> HIDE DEF Turn
      <4> QED BY <3>1
    <3> HIDE DEF Turn
    <3> QED BY <1>4, <3>2
  <2> QED BY <2>1 DEF Orders
<1>6. ASSUME NEW i \in places PROVE Turn(i) \in 0 .. n - 1
  <2>1. Ahead(i) \in SUBSET (places \ {i})
    BY DEF Orders
  <2>2. IsFiniteSet(places \ {i}) /\ Cardinality(places \ {i}) = n - 1
    BY FS_RemoveElement
  <2>3. Turn(i) <= n - 1
    <3> HIDE DEF Ahead
    <3> QED BY <2>1, <2>2, FS_Subset
  <2>4. Turn(i) \in Nat
    BY <1>2
  <2> HIDE DEF Turn, n
  <2> QED BY <1>3, <2>3, <2>4
<1> DEFINE turn == [i \in places |-> Turn(i)]
<1>7. turn \in Injection(places, 0 .. n - 1)
  <2> HIDE DEF Turn, n
  <2>1. turn \in [places -> 0 .. n - 1]
    BY <1>6
  <2> QED BY <1>5, <2>1 DEF Injection, IsInjective
<1>8. IsFiniteSet(0 .. n - 1) /\ Cardinality(0 .. n - 1) = n
  <2> HIDE DEF n
  <2>1. IsFiniteSet(0 .. n - 1)
        /\ Cardinality(0 .. n - 1) = IF 0 > n - 1 THEN 0 ELSE n - 1 - 0 + 1
    BY <1>3, FS_Interval
  <2> QED BY <1>3, <2>1
<1>9. turn \in Surjection(places, 0 .. n - 1)
  <2> HIDE DEF turn
  <2> QED BY <1>7, <1>8, FS_Injection
<1>10. \A k \in 1 .. n : \E i \in places : Turn(i) = k - 1
  <2> TAKE k \in 1 .. n
  <2>1. k - 1 \in 0 .. n - 1
    BY <1>3
  <2>2. \E i \in places : turn[i] = k - 1
    <3> HIDE DEF turn, n
    <3> QED BY <1>9, <2>1 DEF Surjection
  <2> QED BY <2>2
<1> QED BY <1>5, <1>10

(* So what is taken in turn is what is at the places, each once.            *)
(* A sequence has the entries at some places, each once: f says which when. *)
TakenBy(f, taken, es, places) ==
  /\ f \in [1 .. Cardinality(places) -> places]
  /\ \A k, l \in 1 .. Cardinality(places) : f[k] = f[l] => k = l
  /\ \A i \in places : \E k \in 1 .. Cardinality(places) : f[k] = i
  /\ \A k \in 1 .. Cardinality(places) : taken[k] = es[f[k]]

LEMMA TakenInTurn ==
  ASSUME NEW S, NEW es \in Seq(S), NEW places \in SUBSET DOMAIN es,
         NEW before, Orders(before, places)
  PROVE  /\ Cardinality(places) \in Nat
         /\ InTurn(es, places, before) \in Seq(S)
         /\ Len(InTurn(es, places, before)) = Cardinality(places)
         /\ \E f : TakenBy(f, InTurn(es, places, before), es, places)
<1> DEFINE Turn(i) == Cardinality({j \in places : <<j, i>> \in before})
           n == Cardinality(places)
           f == [k \in 1 .. n |-> CHOOSE i \in places : Turn(i) = k - 1]
<1>1. IsFiniteSet(places)
  <2>1. IsFiniteSet(1 .. Len(es))
    BY FS_Interval
  <2> QED BY <2>1, FS_Subset
<1>2. /\ \A i, j \in places : Turn(i) = Turn(j) => i = j
      /\ \A k \in 1 .. n : \E i \in places : Turn(i) = k - 1
  BY <1>1, Turns
<1>3. n \in Nat
  BY <1>1, FS_CardinalityType
<1>4. InTurn(es, places, before) = [k \in 1 .. n |-> es[CHOOSE i \in places : Turn(i) = k - 1]]
  BY DEF InTurn
<1>4a. \A i \in places : Turn(i) \in Nat
  <2> TAKE i \in places
  <2>1. {j \in places : <<j, i>> \in before} \in SUBSET places
    OBVIOUS
  <2> QED BY <1>1, <2>1, FS_Subset, FS_CardinalityType
<1>5. \A i \in places : Turn(i) + 1 \in 1 .. n
  <2> TAKE i \in places
  <2>1. {j \in places : <<j, i>> \in before} \in SUBSET (places \ {i})
    BY DEF Orders
  <2>2. IsFiniteSet(places \ {i}) /\ Cardinality(places \ {i}) = n - 1
    BY <1>1, FS_RemoveElement
  <2>3. IsFiniteSet({j \in places : <<j, i>> \in before}) /\ Turn(i) <= n - 1
    BY <2>1, <2>2, FS_Subset
  <2>4. Turn(i) \in Nat
    BY <2>3, FS_CardinalityType
  <2> QED BY <1>3, <2>3, <2>4
<1> HIDE DEF Turn, n
<1>6. \A k \in 1 .. n : f[k] \in places /\ Turn(f[k]) = k - 1
  BY <1>2
<1>7. \A i \in places : f[Turn(i) + 1] = i
  <2> TAKE i \in places
  <2>1. PICK k \in 1 .. n : k = Turn(i) + 1
    BY <1>5
  <2>2. Turn(f[k]) = k - 1 /\ f[k] \in places
    BY <1>6
  <2>3. Turn(i) \in Nat
    BY <1>4a
  <2>4. k - 1 = Turn(i)
    BY <2>1, <2>3
  <2> QED BY <1>2, <2>1, <2>2, <2>4
<1>8. \A k \in 1 .. n : InTurn(es, places, before)[k] = es[f[k]]
  BY <1>4
<1>9. InTurn(es, places, before) \in [1 .. n -> S]
  <2>1. \A k \in 1 .. n : es[f[k]] \in S
    BY <1>6
  <2> QED BY <1>4, <1>8, <2>1
<1>10. InTurn(es, places, before) \in Seq(S) /\ Len(InTurn(es, places, before)) = n
  <2> DEFINE t == InTurn(es, places, before)
  <2>1. t \in [1 .. n -> S]
    BY <1>9
  <2> HIDE DEF t
  <2>2. t \in Seq(S) /\ Len(t) = n
    BY <1>3, <2>1
  <2> QED BY <2>2 DEF t
<1>11. f \in [1 .. n -> places] /\ \A k, l \in 1 .. n : f[k] = f[l] => k = l
  <2>1. ASSUME NEW k \in 1 .. n, NEW l \in 1 .. n, f[k] = f[l] PROVE k = l
    <3>1. k - 1 = l - 1
      BY <1>6, <2>1
    <3> QED BY <1>3, <3>1
  <2> QED BY <1>6, <2>1
<1>12. \A i \in places : \E k \in 1 .. n : f[k] = i
  BY <1>5, <1>7
<1>13. \E g : TakenBy(g, InTurn(es, places, before), es, places)
  <2> HIDE DEF f
  <2>1. TakenBy(f, InTurn(es, places, before), es, places)
    BY <1>8, <1>11, <1>12 DEF TakenBy, n
  <2> QED BY <2>1
<1> QED BY <1>3, <1>10, <1>13 DEF n
LEMMA EarlierOrders ==
  ASSUME NEW S, NEW es \in Seq(S), NEW places \in SUBSET DOMAIN es
  PROVE  Orders(Earlier(es), places)
<1>1. DOMAIN es \subseteq Nat
  OBVIOUS
<1>2. \A i, j \in places : <<i, j>> \in Earlier(es) <=> i < j
  BY DEF Earlier
<1> QED BY <1>1, <1>2 DEF Orders

LEMMA OnlyInTurn ==
  ASSUME NEW S, NEW es \in Seq(S), NEW places \in SUBSET DOMAIN es
  PROVE  /\ Cardinality(places) \in Nat
         /\ Only(es, places) \in Seq(S)
         /\ Len(Only(es, places)) = Cardinality(places)
         /\ \E f : TakenBy(f, Only(es, places), es, places)
<1> DEFINE before == Earlier(es)
<1>1. Orders(before, places)
  BY EarlierOrders
<1>2. Only(es, places) = InTurn(es, places, before)
  BY DEF Only
<1> HIDE DEF before
<1> QED BY <1>1, <1>2, TakenInTurn

(* What is left of a sequence.                                              *)
LEMMA OnlyThese ==
  ASSUME NEW S, NEW es \in Seq(S), NEW places \in SUBSET DOMAIN es
  PROVE  /\ Only(es, places) \in Seq(S)
         /\ ToSet(Only(es, places)) = {es[i] : i \in places}
<1>0. PICK f : TakenBy(f, Only(es, places), es, places)
  BY OnlyInTurn
<1>1. /\ f \in [1 .. Cardinality(places) -> places]
      /\ \A i \in places : \E k \in 1 .. Cardinality(places) : f[k] = i
      /\ \A k \in 1 .. Cardinality(places) : Only(es, places)[k] = es[f[k]]
  BY <1>0 DEF TakenBy
<1>2. /\ Only(es, places) \in Seq(S) /\ Cardinality(places) \in Nat
      /\ Len(Only(es, places)) = Cardinality(places)
  BY OnlyInTurn
<1>3. DOMAIN Only(es, places) = 1 .. Cardinality(places)
  BY <1>2
<1>4. ToSet(Only(es, places)) = {es[f[k]] : k \in 1 .. Cardinality(places)}
  BY <1>1, <1>3 DEF ToSet
<1>5. ASSUME NEW k \in 1 .. Cardinality(places) PROVE es[f[k]] \in {es[i] : i \in places}
  <2>1. f[k] \in places
    BY <1>1
  <2> QED BY <2>1
<1>6. ASSUME NEW i \in places PROVE es[i] \in {es[f[k]] : k \in 1 .. Cardinality(places)}
  BY <1>1
<1> QED BY <1>2, <1>4, <1>5, <1>6

-----------------------------------------------------------------------------
(* Entries and their tokens.                                                *)

Entries ==
  [id : Nat, key : Keys \union {Unset}, tokens : Nat, seq : Nat, data : Nat, read : Int]

(* No two entries have the same id.                                         *)
Distinct(es) == \A i, j \in DOMAIN es : es[i].id = es[j].id => i = j

LEMMA OnlyDistinct ==
  ASSUME NEW es \in Seq(Entries), Distinct(es), NEW places \in SUBSET DOMAIN es
  PROVE  Distinct(Only(es, places))
<1>0. PICK f : TakenBy(f, Only(es, places), es, places)
  BY OnlyInTurn
<1>1. /\ f \in [1 .. Cardinality(places) -> places]
      /\ \A k, l \in 1 .. Cardinality(places) : f[k] = f[l] => k = l
      /\ \A k \in 1 .. Cardinality(places) : Only(es, places)[k] = es[f[k]]
  BY <1>0 DEF TakenBy
<1>2. /\ Only(es, places) \in Seq(Entries) /\ Cardinality(places) \in Nat
      /\ Len(Only(es, places)) = Cardinality(places)
  BY OnlyInTurn
<1>3. DOMAIN Only(es, places) = 1 .. Cardinality(places)
  BY <1>2
<1> SUFFICES ASSUME NEW k \in 1 .. Cardinality(places), NEW l \in 1 .. Cardinality(places),
                    Only(es, places)[k].id = Only(es, places)[l].id
             PROVE  k = l
  BY <1>3 DEF Distinct
<1>4. es[f[k]].id = es[f[l]].id /\ f[k] \in DOMAIN es /\ f[l] \in DOMAIN es
  BY <1>1
<1> QED BY <1>1, <1>4 DEF Distinct

(* The tokens at some places, one by one.                                   *)
Units(es, places) == UNION {{i} \X (1 .. es[i].tokens) : i \in places}

LEMMA UnitsAre ==
  ASSUME NEW es, NEW places
  PROVE  /\ Tokens(es, places) = Cardinality(Units(es, places))
         /\ \A u : u \in Units(es, places) <=>
              \E i \in places : \E t \in 1 .. es[i].tokens : u = <<i, t>>
<1>1. Tokens(es, places) = Cardinality(Units(es, places))
  BY DEF Tokens, Units
<1>2. ASSUME NEW u, u \in Units(es, places)
      PROVE  \E i \in places : \E t \in 1 .. es[i].tokens : u = <<i, t>>
  BY <1>2 DEF Units
<1>3. ASSUME NEW i \in places, NEW t \in 1 .. es[i].tokens PROVE <<i, t>> \in Units(es, places)
  <2>1. <<i, t>> \in {i} \X (1 .. es[i].tokens)
    OBVIOUS
  <2> QED BY <2>1 DEF Units
<1> QED BY <1>1, <1>2, <1>3

LEMMA UnitsOfOne ==
  ASSUME NEW es \in Seq(Entries), NEW i \in DOMAIN es
  PROVE  IsFiniteSet(Units(es, {i})) /\ Tokens(es, {i}) = es[i].tokens
<1> DEFINE n == es[i].tokens
           f == [t \in 1 .. n |-> <<i, t>>]
<1>1. n \in Nat
  <2>1. es[i] \in Entries
    OBVIOUS
  <2> QED BY <2>1 DEF Entries
<1>2. Units(es, {i}) = {<<i, t>> : t \in 1 .. n}
  BY UnitsAre
<1>3. f \in Bijection(1 .. n, Units(es, {i}))
  <2>1. f \in [1 .. n -> Units(es, {i})] /\ \A t, s \in 1 .. n : f[t] = f[s] => t = s
    BY <1>2
  <2>2. \A u \in Units(es, {i}) : \E t \in 1 .. n : f[t] = u
    BY <1>2
  <2> QED BY <2>1, <2>2 DEF Bijection, Injection, Surjection, IsInjective
<1>4. IsFiniteSet(1 .. n) /\ Cardinality(1 .. n) = n
  <2> HIDE DEF n
  <2>1. IsFiniteSet(1 .. n) /\ Cardinality(1 .. n) = IF 1 > n THEN 0 ELSE n - 1 + 1
    BY <1>1, FS_Interval
  <2> QED BY <1>1, <2>1
<1>5. ExistsBijection(1 .. n, Units(es, {i}))
  BY <1>3 DEF ExistsBijection
<1> QED BY <1>4, <1>5, FS_Bijection, UnitsAre

LEMMA UnitsFinite ==
  ASSUME NEW es \in Seq(Entries), NEW places \in SUBSET DOMAIN es
  PROVE  IsFiniteSet(Units(es, places)) /\ Tokens(es, places) \in Nat
<1> DEFINE Bad == {n \in Nat : n <= Len(es) /\ ~IsFiniteSet(Units(es, 1 .. n))}
<1>1. Bad = {}
  <2> SUFFICES ASSUME Bad # {} PROVE FALSE
    OBVIOUS
  <2>1. Bad \in SUBSET Nat
    OBVIOUS
  <2>2. PICK m \in Bad : \A k \in Bad : m <= k
    <3> HIDE DEF Bad
    <3> QED BY <2>1, LeastNatural
  <2>3. m # 0
    <3>1. Units(es, 1 .. 0) = {}
      BY UnitsAre
    <3> QED BY <2>2, <3>1, FS_EmptySet
  <2>4. m - 1 \in Nat /\ m - 1 <= Len(es) /\ IsFiniteSet(Units(es, 1 .. (m - 1)))
    BY <2>2, <2>3
  <2>5. m \in DOMAIN es /\ 1 .. m = (1 .. (m - 1)) \union {m}
    BY <2>2, <2>3
  <2>6. Units(es, 1 .. m) = Units(es, 1 .. (m - 1)) \union Units(es, {m})
    BY <2>5 DEF Units
  <2>7. IsFiniteSet(Units(es, {m}))
    BY <2>5, UnitsOfOne
  <2> QED BY <2>2, <2>4, <2>6, <2>7, FS_Union
<1>2. IsFiniteSet(Units(es, 1 .. Len(es)))
  BY <1>1
<1>3. Units(es, places) \in SUBSET Units(es, 1 .. Len(es))
  BY DEF Units
<1> QED BY <1>2, <1>3, FS_Subset, FS_CardinalityType, UnitsAre

LEMMA TokensWithin ==
  ASSUME NEW es \in Seq(Entries), NEW J \in SUBSET DOMAIN es, NEW I \in SUBSET J
  PROVE  Tokens(es, I) <= Tokens(es, J)
<1>1. Units(es, I) \in SUBSET Units(es, J)
  BY DEF Units
<1> QED BY <1>1, UnitsFinite, FS_Subset, UnitsAre

LEMMA TokensApart ==
  ASSUME NEW es \in Seq(Entries), NEW I \in SUBSET DOMAIN es, NEW J \in SUBSET DOMAIN es,
         I \intersect J = {}
  PROVE  Tokens(es, I \union J) = Tokens(es, I) + Tokens(es, J)
<1>1. Units(es, I \union J) = Units(es, I) \union Units(es, J)
  BY DEF Units
<1>2. Units(es, I) \intersect Units(es, J) = {}
  BY UnitsAre
<1>3. IsFiniteSet(Units(es, I)) /\ IsFiniteSet(Units(es, J))
  BY UnitsFinite
<1>4. Cardinality(Units(es, I) \union Units(es, J))
        = Cardinality(Units(es, I)) + Cardinality(Units(es, J)) - 0
  BY <1>2, <1>3, FS_Union, FS_EmptySet
<1>5. Tokens(es, I) \in Nat /\ Tokens(es, J) \in Nat
  BY UnitsFinite
<1>6. /\ Tokens(es, I) = Cardinality(Units(es, I)) /\ Tokens(es, J) = Cardinality(Units(es, J))
      /\ Tokens(es, I \union J) = Cardinality(Units(es, I \union J))
  BY UnitsAre
<1>7. Cardinality(Units(es, I)) \in Nat /\ Cardinality(Units(es, J)) \in Nat
  BY <1>5, <1>6
<1>8. Tokens(es, I \union J) = Cardinality(Units(es, I)) + Cardinality(Units(es, J))
  <2>1. \A a, b, c : a \in Nat /\ b \in Nat /\ c = a + b - 0 => c = a + b
    OBVIOUS
  <2>2. Tokens(es, I \union J) = Cardinality(Units(es, I)) + Cardinality(Units(es, J)) - 0
    BY <1>1, <1>4, <1>6
  <2> QED BY <1>7, <2>1, <2>2
<1> QED BY <1>6, <1>8

(* Entries that are found again elsewhere, each at a place of its own, have *)
(* no more tokens than what is there.                                       *)
LEMMA TokensCarried ==
  ASSUME NEW es \in Seq(Entries), NEW I \in SUBSET DOMAIN es,
         NEW fs \in Seq(Entries), NEW J \in SUBSET DOMAIN fs,
         NEW f \in [I -> J], \A i, j \in I : f[i] = f[j] => i = j,
         \A i \in I : es[i].tokens = fs[f[i]].tokens
  PROVE  Tokens(es, I) <= Tokens(fs, J)
<1> DEFINE g == [u \in Units(es, I) |-> <<f[u[1]], u[2]>>]
<1>1. \A u \in Units(es, I) : u[1] \in I /\ u[2] \in 1 .. es[u[1]].tokens /\ u = <<u[1], u[2]>>
  BY UnitsAre
<1>2. g \in [Units(es, I) -> Units(fs, J)]
  <2> SUFFICES ASSUME NEW u \in Units(es, I) PROVE <<f[u[1]], u[2]>> \in Units(fs, J)
    OBVIOUS
  <2>1. f[u[1]] \in J /\ u[2] \in 1 .. fs[f[u[1]]].tokens
    BY <1>1
  <2> QED BY <2>1, UnitsAre
<1>3. ASSUME NEW u \in Units(es, I), NEW v \in Units(es, I), g[u] = g[v] PROVE u = v
  <2>1. f[u[1]] = f[v[1]] /\ u[2] = v[2]
    BY <1>3
  <2> QED BY <1>1, <2>1
<1>4. g \in Injection(Units(es, I), Units(fs, J))
  <2> HIDE DEF g
  <2> QED BY <1>2, <1>3 DEF Injection, IsInjective
<1>5. IsFiniteSet(Units(fs, J))
  BY UnitsFinite
<1>6. Cardinality(Units(es, I)) <= Cardinality(Units(fs, J))
  <2> HIDE DEF g
  <2> QED BY <1>4, <1>5, FS_Injection
<1> QED BY <1>6, UnitsAre
LEMMA EntryFields ==
  ASSUME NEW es \in Seq(Entries), NEW i \in DOMAIN es
  PROVE  /\ es[i] \in Entries
         /\ es[i].id \in Nat /\ es[i].tokens \in Nat /\ es[i].seq \in Nat /\ es[i].read \in Int
<1>1. es[i] \in Entries
  OBVIOUS
<1> QED BY <1>1 DEF Entries

LEMMA SameTokens ==
  ASSUME NEW es, NEW fs, NEW I, \A i \in I : es[i].tokens = fs[i].tokens
  PROVE  Tokens(es, I) = Tokens(fs, I)
<1>1. ASSUME NEW u PROVE u \in Units(es, I) <=> u \in Units(fs, I)
  <2>1. u \in Units(es, I) <=> \E i \in I : \E t \in 1 .. es[i].tokens : u = <<i, t>>
    BY UnitsAre
  <2>2. u \in Units(fs, I) <=> \E i \in I : \E t \in 1 .. fs[i].tokens : u = <<i, t>>
    BY UnitsAre
  <2> QED BY <2>1, <2>2
<1>2. Units(es, I) = Units(fs, I)
  BY <1>1
<1> QED BY <1>2, UnitsAre

LEMMA TokensOfNone == \A es : Tokens(es, {}) = 0
<1> TAKE es
<1>1. Units(es, {}) = {}
  BY UnitsAre
<1> QED BY <1>1, UnitsAre, FS_EmptySet

LEMMA TokensOfType ==
  ASSUME NEW es \in Seq(Entries)
  PROVE  TokensOf(es) \in Nat
BY UnitsFinite DEF TokensOf

LEMMA TokensOfConcat ==
  ASSUME NEW es \in Seq(Entries), NEW fs \in Seq(Entries)
  PROVE  es \o fs \in Seq(Entries) /\ TokensOf(es \o fs) = TokensOf(es) + TokensOf(fs)
<1> DEFINE both == es \o fs
           I == 1 .. Len(es)
           J == (Len(es) + 1) .. (Len(es) + Len(fs))
           f == [j \in J |-> j - Len(es)]
           g == [k \in 1 .. Len(fs) |-> k + Len(es)]
<1>1. /\ both \in Seq(Entries) /\ Len(both) = Len(es) + Len(fs)
      /\ \A i \in I : both[i] = es[i]
      /\ \A k \in 1 .. Len(fs) : both[k + Len(es)] = fs[k]
      /\ \A j \in J : both[j] = fs[j - Len(es)]
  OBVIOUS
<1>2. DOMAIN both = I \union J /\ I \intersect J = {}
  <2>1. DOMAIN both = 1 .. (Len(es) + Len(fs))
    BY <1>1
  <2> HIDE DEF both
  <2> QED BY <2>1
<1>3. /\ f \in [J -> 1 .. Len(fs)] /\ \A i, j \in J : f[i] = f[j] => i = j
      /\ g \in [1 .. Len(fs) -> J] /\ \A i, j \in 1 .. Len(fs) : g[i] = g[j] => i = j
  OBVIOUS
<1> HIDE DEF both
<1>4. TokensOf(both) = Tokens(both, I) + Tokens(both, J)
  <2>1. TokensOf(both) = Tokens(both, I \union J) /\ I \in SUBSET DOMAIN both /\ J \in SUBSET DOMAIN both
    BY <1>2 DEF TokensOf
  <2> HIDE DEF I, J
  <2> QED BY <1>1, <1>2, <2>1, TokensApart
<1>5. Tokens(both, I) = TokensOf(es)
  <2>1. Tokens(both, I) = Tokens(es, I)
    BY <1>1, SameTokens
  <2> QED BY <2>1 DEF TokensOf
<1>6. Tokens(both, J) <= Tokens(fs, 1 .. Len(fs))
  <2>1. \A j \in J : both[j].tokens = fs[f[j]].tokens
    BY <1>1
  <2>2. J \in SUBSET DOMAIN both /\ 1 .. Len(fs) \in SUBSET DOMAIN fs
    BY <1>2
  <2> HIDE DEF f, J
  <2> QED BY <1>1, <1>3, <2>1, <2>2, TokensCarried
<1>7. Tokens(fs, 1 .. Len(fs)) <= Tokens(both, J)
  <2>1. \A k \in 1 .. Len(fs) : fs[k].tokens = both[g[k]].tokens
    BY <1>1
  <2>2. J \in SUBSET DOMAIN both /\ 1 .. Len(fs) \in SUBSET DOMAIN fs
    BY <1>2
  <2> HIDE DEF g, J
  <2> QED BY <1>1, <1>3, <2>1, <2>2, TokensCarried
<1>8. Tokens(both, J) = TokensOf(fs)
  <2>1. Tokens(both, J) \in Nat /\ Tokens(fs, 1 .. Len(fs)) \in Nat
    BY <1>1, <1>2, UnitsFinite
  <2>2. Tokens(both, J) = Tokens(fs, 1 .. Len(fs))
    <3> HIDE DEF J
    <3> QED BY <1>6, <1>7, <2>1
  <2> QED BY <2>2 DEF TokensOf
<1>9. both \in Seq(Entries) /\ TokensOf(both) = TokensOf(es) + TokensOf(fs)
  BY <1>1, <1>4, <1>5, <1>8
<1> QED BY <1>9 DEF both

LEMMA TokensOfSingle ==
  ASSUME NEW e \in Entries
  PROVE  <<e>> \in Seq(Entries) /\ TokensOf(<<e>>) = e.tokens
<1> DEFINE es == <<e>>
<1>1. es \in Seq(Entries) /\ DOMAIN es = {1} /\ es[1] = e
  OBVIOUS
<1>2. Tokens(es, {1}) = e.tokens
  <2> HIDE DEF es
  <2> QED BY <1>1, UnitsOfOne
<1> QED BY <1>1, <1>2 DEF TokensOf

LEMMA TokensOfAppend ==
  ASSUME NEW es \in Seq(Entries), NEW e \in Entries
  PROVE  TokensOf(Append(es, e)) = TokensOf(es) + e.tokens
<1>1. Append(es, e) = es \o <<e>>
  OBVIOUS
<1> QED BY <1>1, TokensOfConcat, TokensOfSingle

(* The entries with another one at a place.                                 *)
Replaced(es, p, e) == [i \in DOMAIN es |-> IF i = p THEN e ELSE es[i]]

LEMMA TokensOfUpsert ==
  ASSUME NEW es \in Seq(Entries), NEW p \in DOMAIN es, NEW e \in Entries
  PROVE  LET fs == Replaced(es, p, e)
         IN  fs \in Seq(Entries) /\ TokensOf(fs) = TokensOf(es) - es[p].tokens + e.tokens
<1> DEFINE fs == Replaced(es, p, e)
           I == (DOMAIN es) \ {p}
<1>1. /\ fs \in Seq(Entries) /\ DOMAIN fs = DOMAIN es /\ fs[p] = e
      /\ \A i \in I : fs[i] = es[i]
  BY DEF Replaced
<1> HIDE DEF fs
<1>2. DOMAIN es = I \union {p} /\ I \intersect {p} = {} /\ I \in SUBSET DOMAIN es
  OBVIOUS
<1> HIDE DEF I
<1>3. TokensOf(es) = Tokens(es, I) + es[p].tokens
  <2>1. TokensOf(es) = Tokens(es, I \union {p})
    BY <1>2 DEF TokensOf
  <2>2. {p} \in SUBSET DOMAIN es
    OBVIOUS
  <2>3. Tokens(es, I \union {p}) = Tokens(es, I) + Tokens(es, {p})
    BY <1>2, <2>2, TokensApart
  <2> QED BY <2>1, <2>3, UnitsOfOne
<1>4. TokensOf(fs) = Tokens(fs, I) + e.tokens
  <2>1. TokensOf(fs) = Tokens(fs, I \union {p})
    BY <1>1, <1>2 DEF TokensOf
  <2>2. {p} \in SUBSET DOMAIN fs /\ I \in SUBSET DOMAIN fs
    BY <1>1, <1>2
  <2>3. Tokens(fs, I \union {p}) = Tokens(fs, I) + Tokens(fs, {p})
    BY <1>1, <1>2, <2>2, TokensApart
  <2> QED BY <1>1, <2>1, <2>3, UnitsOfOne
<1>5. Tokens(fs, I) = Tokens(es, I)
  BY <1>1, SameTokens
<1>6. Tokens(es, I) \in Nat /\ es[p].tokens \in Nat /\ e.tokens \in Nat
  BY <1>2, UnitsFinite, EntryFields DEF Entries
<1>7. fs \in Seq(Entries) /\ TokensOf(fs) = TokensOf(es) - es[p].tokens + e.tokens
  BY <1>1, <1>3, <1>4, <1>5, <1>6
<1> QED BY <1>7 DEF fs

LEMMA TokensOfOnly ==
  ASSUME NEW es \in Seq(Entries), NEW places \in SUBSET DOMAIN es
  PROVE  TokensOf(Only(es, places)) <= Tokens(es, places)
<1> DEFINE os == Only(es, places)
<1>0. PICK f : TakenBy(f, Only(es, places), es, places)
  BY OnlyInTurn
<1>1. /\ f \in [1 .. Cardinality(places) -> places]
      /\ \A k, l \in 1 .. Cardinality(places) : f[k] = f[l] => k = l
      /\ \A k \in 1 .. Cardinality(places) : os[k] = es[f[k]]
  BY <1>0 DEF TakenBy
<1>2. os \in Seq(Entries) /\ Cardinality(places) \in Nat /\ Len(os) = Cardinality(places)
  BY OnlyInTurn
<1> HIDE DEF os
<1>3. DOMAIN os = 1 .. Cardinality(places)
  BY <1>2
<1>4. TokensOf(os) <= Tokens(es, places)
  <2>1. \A k \in DOMAIN os : os[k].tokens = es[f[k]].tokens
    BY <1>1, <1>3
  <2>2. f \in [DOMAIN os -> places] /\ \A k, l \in DOMAIN os : f[k] = f[l] => k = l
    BY <1>1, <1>3
  <2>3. Tokens(os, DOMAIN os) <= Tokens(es, places)
    BY <1>2, <2>1, <2>2, TokensCarried
  <2> QED BY <2>3 DEF TokensOf
<1> QED BY <1>4 DEF os
-----------------------------------------------------------------------------
(* Eviction.                                                                *)

LEMMA ColderOrders ==
  ASSUME NEW es \in Seq(Entries), NEW places \in SUBSET DOMAIN es
  PROVE  Orders(Colder(es), places)
<1>1. \A i \in places : i \in Nat /\ es[i].read \in Int /\ es[i].seq \in Nat
  BY EntryFields
<1>2. \A i, j \in places : <<i, j>> \in Colder(es) <=>
        \/ es[i].read < es[j].read
        \/ es[i].read = es[j].read /\ (es[i].seq < es[j].seq \/ (es[i].seq = es[j].seq /\ i < j))
  BY DEF Colder
<1>3. \A i \in places : <<i, i>> \notin Colder(es)
  BY <1>1, <1>2
<1>4. ASSUME NEW i \in places, NEW j \in places, NEW k \in places,
             <<i, j>> \in Colder(es), <<j, k>> \in Colder(es)
      PROVE  <<i, k>> \in Colder(es)
  <2> DEFINE Before(a, b) == \/ es[a].read < es[b].read
                             \/ /\ es[a].read = es[b].read
                                /\ es[a].seq < es[b].seq \/ (es[a].seq = es[b].seq /\ a < b)
  <2>1. Before(i, j) /\ Before(j, k)
    BY <1>2, <1>4
  <2>2. /\ i \in Nat /\ j \in Nat /\ k \in Nat
        /\ es[i].read \in Int /\ es[j].read \in Int /\ es[k].read \in Int
        /\ es[i].seq \in Nat /\ es[j].seq \in Nat /\ es[k].seq \in Nat
    BY <1>1
  <2>3. Before(i, k)
    BY <2>1, <2>2
  <2> QED BY <1>2, <2>3
<1>5. ASSUME NEW i \in places, NEW j \in places, i # j
      PROVE  <<i, j>> \in Colder(es) \/ <<j, i>> \in Colder(es)
  BY <1>1, <1>2, <1>5
<1> QED BY <1>3, <1>4, <1>5 DEF Orders

LEMMA FirstInTurn ==
  ASSUME NEW places, IsFiniteSet(places), places # {}, NEW before, Orders(before, places)
  PROVE  \E i \in places : \A j \in places : <<j, i>> \notin before
<1> DEFINE Turn(i) == Cardinality({j \in places : <<j, i>> \in before})
<1>1. Cardinality(places) \in Nat /\ Cardinality(places) # 0
  BY FS_CardinalityType, FS_EmptySet
<1>2. 1 \in 1 .. Cardinality(places)
  BY <1>1
<1>2a. \A k \in 1 .. Cardinality(places) : \E i \in places : Turn(i) = k - 1
  BY Turns
<1>3. PICK i \in places : Turn(i) = 0
  <2>1. PICK i \in places : Turn(i) = 1 - 1
    BY <1>2, <1>2a
  <2>2. 1 - 1 = 0
    OBVIOUS
  <2> QED BY <2>1, <2>2
<1>4. {j \in places : <<j, i>> \in before} \in SUBSET places
  OBVIOUS
<1>5. {j \in places : <<j, i>> \in before} = {}
  <2>1. IsFiniteSet({j \in places : <<j, i>> \in before})
    BY <1>4, FS_Subset
  <2> QED BY <1>3, <2>1, FS_EmptySet
<1> QED BY <1>5

LEMMA WithoutThese ==
  ASSUME NEW es \in Seq(Entries), NEW gone
  PROVE  /\ Without(es, gone) \in Seq(Entries)
         /\ ToSet(Without(es, gone)) = ToSet(es) \ ToSet(gone)
         /\ Distinct(es) => Distinct(Without(es, gone))
         /\ TokensOf(Without(es, gone)) <= TokensOf(es)
<1> DEFINE places == {i \in DOMAIN es : es[i] \notin ToSet(gone)}
<1>1. places \in SUBSET DOMAIN es /\ Without(es, gone) = Only(es, places)
  BY DEF Without
<1>2. {es[i] : i \in places} = ToSet(es) \ ToSet(gone)
  BY DEF ToSet
<1> HIDE DEF places
<1>3. TokensOf(Only(es, places)) <= Tokens(es, places)
  BY <1>1, TokensOfOnly
<1>4. Tokens(es, places) <= Tokens(es, DOMAIN es)
  BY <1>1, TokensWithin
<1>5. TokensOf(Only(es, places)) \in Nat /\ Tokens(es, places) \in Nat /\ Tokens(es, DOMAIN es) \in Nat
  BY <1>1, OnlyThese, UnitsFinite, TokensOfType
<1>6. TokensOf(Only(es, places)) <= TokensOf(es)
  BY <1>3, <1>4, <1>5 DEF TokensOf
<1> QED BY <1>1, <1>2, <1>6, OnlyThese, OnlyDistinct

(* What an eviction names is in the region, and what it leaves fits.        *)
LEMMA VictimsMakeRoom ==
  ASSUME NEW es \in Seq(Entries), NEW r \in Regions, Policy[r].budget \in Nat
  PROVE  /\ Victims(r, es) \in Seq(Entries)
         /\ ToSet(Victims(r, es)) \subseteq ToSet(es)
         /\ TokensOf(Without(es, Victims(r, es))) <= Policy[r].budget
<1> DEFINE before == IF Policy[r].eviction = "lru" THEN Colder(es) ELSE Earlier(es)
           NotBefore(i) == {j \in DOMAIN es : <<j, i>> \notin before}
           go == {i \in DOMAIN es : Tokens(es, NotBefore(i)) > Policy[r].budget}
           stay == (DOMAIN es) \ go
           left == {i \in DOMAIN es : es[i] \notin ToSet(Victims(r, es))}
<1>1. Orders(before, DOMAIN es) /\ Orders(before, go) /\ Orders(before, stay)
  <2>1. DOMAIN es \in SUBSET DOMAIN es /\ go \in SUBSET DOMAIN es /\ stay \in SUBSET DOMAIN es
    OBVIOUS
  <2> HIDE DEF go, stay
  <2> QED BY <2>1, ColderOrders, EarlierOrders
<1>2. Victims(r, es) = InTurn(es, go, before)
  BY DEF Victims
<1>3. go \in SUBSET DOMAIN es
  OBVIOUS
<1>4. \A i \in stay : Tokens(es, NotBefore(i)) <= Policy[r].budget
  <2> TAKE i \in stay
  <2>1. NotBefore(i) \in SUBSET DOMAIN es
    OBVIOUS
  <2>2. Tokens(es, NotBefore(i)) \in Nat
    <3> HIDE DEF NotBefore
    <3> QED BY <2>1, UnitsFinite
  <2>3. ~(Tokens(es, NotBefore(i)) > Policy[r].budget)
    OBVIOUS
  <2> HIDE DEF NotBefore
  <2> QED BY <2>2, <2>3
<1> HIDE DEF before, go
<1>4a. PICK f : TakenBy(f, InTurn(es, go, before), es, go)
  BY <1>1, <1>3, TakenInTurn
<1>5. /\ f \in [1 .. Cardinality(go) -> go]
      /\ \A k, l \in 1 .. Cardinality(go) : f[k] = f[l] => k = l
      /\ \A i \in go : \E k \in 1 .. Cardinality(go) : f[k] = i
      /\ \A k \in 1 .. Cardinality(go) : Victims(r, es)[k] = es[f[k]]
  BY <1>2, <1>4a DEF TakenBy
<1>6. /\ Victims(r, es) \in Seq(Entries) /\ Cardinality(go) \in Nat
      /\ Len(Victims(r, es)) = Cardinality(go)
  BY <1>1, <1>2, <1>3, TakenInTurn
<1>7. DOMAIN Victims(r, es) = 1 .. Cardinality(go)
  BY <1>6
<1>8. ToSet(Victims(r, es)) \subseteq ToSet(es)
  <2> SUFFICES ASSUME NEW k \in 1 .. Cardinality(go) PROVE Victims(r, es)[k] \in ToSet(es)
    BY <1>7 DEF ToSet
  <2>1. f[k] \in DOMAIN es /\ Victims(r, es)[k] = es[f[k]]
    BY <1>3, <1>5
  <2> QED BY <2>1 DEF ToSet
<1>9. left \subseteq stay
  <2> SUFFICES ASSUME NEW i \in go PROVE es[i] \in ToSet(Victims(r, es))
    OBVIOUS
  <2>1. PICK k \in 1 .. Cardinality(go) : Victims(r, es)[k] = es[i]
    BY <1>5
  <2> QED BY <1>7, <2>1 DEF ToSet
<1>10. Tokens(es, stay) <= Policy[r].budget
  <2>1. CASE stay = {}
    <3> HIDE DEF stay
    <3>1. Tokens(es, stay) = 0
      BY <2>1, TokensOfNone
    <3> QED BY <3>1
  <2>2. CASE stay # {}
    <3>1. IsFiniteSet(stay)
      <4>1. IsFiniteSet(1 .. Len(es))
        BY FS_Interval
      <4>2. stay \in SUBSET (1 .. Len(es))
        OBVIOUS
      <4> HIDE DEF stay
      <4> QED BY <4>1, <4>2, FS_Subset
    <3>2. PICK i \in stay : \A j \in stay : <<j, i>> \notin before
      <4> HIDE DEF stay
      <4> QED BY <1>1, <2>2, <3>1, FirstInTurn
    <3>3. stay \in SUBSET NotBefore(i) /\ NotBefore(i) \in SUBSET DOMAIN es
      BY <3>2
    <3>4. Tokens(es, NotBefore(i)) <= Policy[r].budget
      BY <1>4
    <3> HIDE DEF stay, NotBefore
    <3>5. Tokens(es, stay) <= Tokens(es, NotBefore(i))
      BY <3>3, TokensWithin
    <3>6. Tokens(es, stay) \in Nat /\ Tokens(es, NotBefore(i)) \in Nat
      <4>1. stay \in SUBSET DOMAIN es
        BY <3>3
      <4> QED BY <3>3, <4>1, UnitsFinite
    <3> QED BY <3>4, <3>5, <3>6
  <2> QED BY <2>1, <2>2
<1>11. TokensOf(Without(es, Victims(r, es))) <= Policy[r].budget
  <2>1. Without(es, Victims(r, es)) = Only(es, left) /\ left \in SUBSET DOMAIN es
    BY DEF Without
  <2>2. left \in SUBSET stay /\ stay \in SUBSET DOMAIN es
    BY <1>9
  <2> HIDE DEF left, stay
  <2>3. TokensOf(Only(es, left)) <= Tokens(es, left) /\ Tokens(es, left) <= Tokens(es, stay)
    BY <2>1, <2>2, TokensOfOnly, TokensWithin
  <2>4. /\ TokensOf(Only(es, left)) \in Nat /\ Tokens(es, left) \in Nat /\ Tokens(es, stay) \in Nat
    BY <2>1, <2>2, OnlyThese, UnitsFinite, TokensOfType
  <2> QED BY <1>10, <2>1, <2>3, <2>4
<1> QED BY <1>6, <1>8, <1>11

-----------------------------------------------------------------------------
(* The fold, record by record.                                              *)

(* The windows a fold goes through.                                         *)
Folds(f, log, n) ==
  f = [k \in 0 .. n |-> IF k = 0 THEN [r \in Regions |-> Nothing]
                        ELSE Replayed(f[k - 1], log[k], k)]

LEMMA FoldsAgree ==
  ASSUME NEW log, NEW more, NEW n \in Nat, NEW m \in Nat, n <= m, \A i \in 1 .. n : log[i] = more[i],
         NEW f, Folds(f, log, n), NEW g, Folds(g, more, m)
  PROVE  \A k \in 0 .. n : f[k] = g[k]
<1> DEFINE Bad == {k \in 0 .. n : f[k] # g[k]}
<1> SUFFICES ASSUME Bad # {} PROVE FALSE
  OBVIOUS
<1>1. Bad \in SUBSET Nat
  OBVIOUS
<1>2. PICK k \in Bad : \A i \in Bad : k <= i
  <2> HIDE DEF Bad
  <2> QED BY <1>1, LeastNatural
<1>3. k \in 0 .. n /\ k \in 0 .. m /\ f[k] # g[k]
  OBVIOUS
<1>4. /\ f[k] = IF k = 0 THEN [r \in Regions |-> Nothing] ELSE Replayed(f[k - 1], log[k], k)
      /\ g[k] = IF k = 0 THEN [r \in Regions |-> Nothing] ELSE Replayed(g[k - 1], more[k], k)
  BY <1>3 DEF Folds
<1>5. k # 0
  BY <1>3, <1>4
<1>6. k - 1 \in 0 .. n /\ k - 1 \notin Bad /\ k \in 1 .. n
  BY <1>2, <1>3, <1>5
<1>7. f[k - 1] = g[k - 1] /\ log[k] = more[k]
  BY <1>6
<1> QED BY <1>3, <1>4, <1>5, <1>7

LEMMA FoldExists ==
  ASSUME NEW log, NEW n \in Nat
  PROVE  \E f : Folds(f, log, n)
<1> DEFINE Bad == {k \in Nat : ~\E f : Folds(f, log, k)}
<1> SUFFICES ASSUME Bad # {} PROVE FALSE
  OBVIOUS
<1>1. Bad \in SUBSET Nat
  OBVIOUS
<1>2. PICK k \in Bad : \A i \in Bad : k <= i
  <2> HIDE DEF Bad
  <2> QED BY <1>1, LeastNatural
<1>3. k \in Nat /\ ~\E f : Folds(f, log, k)
  OBVIOUS
<1>4. k # 0
  <2> DEFINE f == [i \in 0 .. 0 |-> [r \in Regions |-> Nothing]]
  <2>1. Folds(f, log, 0)
    BY DEF Folds
  <2> QED BY <1>3, <2>1
<1>5. k - 1 \in Nat /\ k - 1 \notin Bad
  BY <1>2, <1>3, <1>4
<1>6. PICK f : Folds(f, log, k - 1)
  BY <1>5
<1> DEFINE g == [i \in 0 .. k |-> IF i = k THEN Replayed(f[k - 1], log[k], k) ELSE f[i]]
<1>7. ASSUME NEW i \in 0 .. k
      PROVE  g[i] = IF i = 0 THEN [r \in Regions |-> Nothing] ELSE Replayed(g[i - 1], log[i], i)
  <2>1. CASE i = k
    <3>1. g[k - 1] = f[k - 1]
      BY <1>3, <1>4
    <3> QED BY <1>3, <1>4, <2>1, <3>1
  <2>2. CASE i # k
    <3>1. i \in 0 .. (k - 1) /\ g[i] = f[i]
      BY <1>3, <2>2
    <3>2. i # 0 => g[i - 1] = f[i - 1]
      BY <1>3, <2>2
    <3>3. f[i] = IF i = 0 THEN [r \in Regions |-> Nothing] ELSE Replayed(f[i - 1], log[i], i)
      BY <1>6, <3>1 DEF Folds
    <3> QED BY <3>1, <3>2, <3>3
  <2> QED BY <2>1, <2>2
<1>8. Folds(g, log, k)
  <2> HIDE DEF g
  <2>1. g = [i \in 0 .. k |-> g[i]]
    BY DEF g
  <2> QED BY <1>7, <2>1 DEF Folds
<1> QED BY <1>3, <1>8

LEMMA FoldedIs ==
  ASSUME NEW log, NEW n \in Nat, NEW f, Folds(f, log, n)
  PROVE  Folded(log, n) = f[n]
<1> DEFINE upto == CHOOSE g : Folds(g, log, n)
<1>1. Folds(upto, log, n)
  OBVIOUS
<1>2. Folded(log, n) = upto[n]
  BY DEF Folded, Folds
<1> HIDE DEF upto
<1> QED BY <1>1, <1>2, FoldsAgree

LEMMA FoldedStarts == \A log : Folded(log, 0) = [r \in Regions |-> Nothing]
<1> TAKE log
<1>1. PICK f : Folds(f, log, 0)
  BY FoldExists
<1>2. f[0] = [r \in Regions |-> Nothing]
  BY <1>1 DEF Folds
<1> QED BY <1>1, <1>2, FoldedIs

(* A record more, in a log that goes on.                                    *)
LEMMA FoldedOn ==
  ASSUME NEW log, NEW more, NEW n \in Nat, \A i \in 1 .. n : log[i] = more[i]
  PROVE  Folded(more, n + 1) = Replayed(Folded(log, n), more[n + 1], n + 1)
<1>1. PICK f : Folds(f, log, n)
  BY FoldExists
<1>2. PICK m \in Nat : m = n + 1
  OBVIOUS
<1>3. PICK g : Folds(g, more, m)
  BY <1>2, FoldExists
<1>4. \A k \in 0 .. n : f[k] = g[k]
  BY <1>1, <1>2, <1>3, FoldsAgree
<1>5. g[m] = Replayed(g[n], more[m], m)
  BY <1>2, <1>3 DEF Folds
<1>6. f[n] = g[n]
  BY <1>4
<1>7. Folded(log, n) = f[n] /\ Folded(more, m) = g[m]
  BY <1>1, <1>2, <1>3, FoldedIs
<1> QED BY <1>2, <1>5, <1>6, <1>7

-----------------------------------------------------------------------------
(* What is in a window, and in the log.                                     *)

Contents == [open : BOOLEAN, entries : Seq(Entries), history : Seq(Entries)]

Windows == [Regions -> Contents]

Events ==
  [type : {"write"}, at : Regions, mode : {"replace", "append"}, id : Nat,
     key : Keys \union {Unset}, tokens : Nat, replaced : Nat \union {Unset}]
    \union [type : {"evict"}, at : Regions, gone : Seq(Entries)]
    \union [type : {"read", "close", "purge"}, at : Regions]
    \union [type : {"promote"}, at : Regions, to : Regions, mode : {"move", "copy"},
              id : Nat, gone : Seq(Entries) \ {<<>>}]

LEMMA EventsAre ==
  ASSUME NEW ev \in Events
  PROVE  /\ ev.type \in {"write", "evict", "read", "close", "purge", "promote"}
         /\ ev.at \in Regions
         /\ ev.type = "write" =>
              /\ ev.mode \in {"replace", "append"} /\ ev.id \in Nat /\ ev.tokens \in Nat
              /\ ev.key \in Keys \union {Unset} /\ ev.replaced \in Nat \union {Unset}
         /\ ev.type \in {"evict", "promote"} => ev.gone \in Seq(Entries)
         /\ ev.type = "promote" =>
              /\ ev.to \in Regions /\ ev.mode \in {"move", "copy"}
              /\ ev.id \in Nat /\ ev.gone # <<>>
BY DEF Events

LEMMA ContentsAre ==
  ASSUME NEW c \in Windows, NEW r \in Regions
  PROVE  /\ c[r] \in Contents /\ c[r].open \in BOOLEAN
         /\ c[r].entries \in Seq(Entries) /\ c[r].history \in Seq(Entries)
BY DEF Windows, Contents

LEMMA EntryIs ==
  ASSUME NEW id \in Nat, NEW key \in Keys \union {Unset}, NEW tokens \in Nat, NEW seq \in Nat, NEW data \in Nat
  PROVE  /\ Entry(id, key, tokens, seq, data) \in Entries
         /\ Entry(id, key, tokens, seq, data).id = id
         /\ Entry(id, key, tokens, seq, data).tokens = tokens
BY DEF Entry, Entries

LEMMA ContentsExcept ==
  ASSUME NEW x \in Contents, NEW v
  PROVE  /\ [x EXCEPT !.entries = v] = [open |-> x.open, entries |-> v, history |-> x.history]
         /\ [x EXCEPT !.history = v] = [open |-> x.open, entries |-> x.entries, history |-> v]
         /\ [x EXCEPT !.open = v] = [open |-> v, entries |-> x.entries, history |-> x.history]
BY DEF Contents

LEMMA BecomesIs ==
  ASSUME NEW c \in Windows, NEW r \in Regions, NEW es \in Seq(Entries), NEW gone \in Seq(Entries)
  PROVE  LET d == Becomes(c, r, es, gone)
         IN  /\ d \in Windows
             /\ d[r].open = c[r].open /\ d[r].entries = es
             /\ d[r].history = Kept(r, c[r].history, gone)
             /\ \A q \in Regions \ {r} : d[q] = c[q]
<1>1. c[r] \in Contents /\ c[r].history \in Seq(Entries)
  BY ContentsAre
<1>2. Kept(r, c[r].history, gone) \in Seq(Entries)
  BY <1>1 DEF Kept
<1>3. Becomes(c, r, es, gone) =
        [c EXCEPT ![r] = [open |-> c[r].open, entries |-> es, history |-> Kept(r, c[r].history, gone)]]
  <2> DEFINE h == Kept(r, c[r].history, gone)
             c1 == [c EXCEPT ![r] = [c[r] EXCEPT !.entries = es]]
             c2 == [c1 EXCEPT ![r] = [c1[r] EXCEPT !.history = h]]
  <2>1. c1[r] = [c[r] EXCEPT !.entries = es]
    BY DEF Windows
  <2>2. c1[r].history = c[r].history
    BY <1>1, <2>1 DEF Contents
  <2>3. Becomes(c, r, es, gone) = c2
    BY <2>2 DEF Becomes
  <2>4. [c1[r] EXCEPT !.history = h] = [open |-> c[r].open, entries |-> es, history |-> h]
    BY <1>1, <2>1 DEF Contents
  <2>5. c2 = [c EXCEPT ![r] = [c1[r] EXCEPT !.history = h]]
    BY DEF Windows
  <2> QED BY <2>3, <2>4, <2>5
<1>4. [open |-> c[r].open, entries |-> es, history |-> Kept(r, c[r].history, gone)] \in Contents
  BY <1>1, <1>2 DEF Contents
<1> QED BY <1>3, <1>4 DEF Windows

(* A reading changes no id and no tokens.                                   *)
LEMMA TouchedIs ==
  ASSUME NEW es \in Seq(Entries), NEW seq \in Nat
  PROVE  LET fs == Touched(es, seq)
         IN  /\ fs \in Seq(Entries) /\ DOMAIN fs = DOMAIN es
             /\ \A i \in DOMAIN es : fs[i].id = es[i].id
             /\ TokensOf(fs) = TokensOf(es)
<1> DEFINE fs == Touched(es, seq)
<1>1. DOMAIN fs = 1 .. Len(es) /\ DOMAIN es = 1 .. Len(es) /\ Len(es) \in Nat
  BY DEF Touched
<1>2. ASSUME NEW i \in DOMAIN es
      PROVE  fs[i] \in Entries /\ fs[i].id = es[i].id /\ fs[i].tokens = es[i].tokens
  <2>1. es[i] \in Entries
    BY EntryFields
  <2>2. fs[i] = [es[i] EXCEPT !.read = seq]
    BY DEF Touched
  <2>3. seq \in Int
    OBVIOUS
  <2> HIDE DEF fs
  <2> QED BY <2>1, <2>2, <2>3 DEF Entries
<1>3. fs = [i \in 1 .. Len(es) |-> fs[i]]
  BY <1>1 DEF Touched
<1> HIDE DEF fs
<1>4. fs \in Seq(Entries)
  BY <1>1, <1>2, <1>3
<1>5. Tokens(fs, DOMAIN fs) = Tokens(es, DOMAIN es)
  BY <1>1, <1>2, SameTokens
<1> QED BY <1>1, <1>2, <1>4, <1>5 DEF fs, TokensOf

LEMMA UpsertedIs ==
  ASSUME NEW c \in Windows, NEW r \in Regions, NEW new \in Entries, NEW old
  PROVE  LET es == c[r].entries
         IN  \/ /\ \A i \in DOMAIN es : es[i].id # old
                /\ Upserted(c, r, new, old) = Becomes(c, r, Append(es, new), <<>>)
             \/ \E p \in DOMAIN es :
                  /\ es[p].id = old
                  /\ Upserted(c, r, new, old)
                       = Becomes(c, r, Replaced(es, p, new), <<es[p]>>)
<1> DEFINE es == c[r].entries
           places == {i \in DOMAIN es : es[i].id = old}
           place == CHOOSE i \in places : TRUE
<1>1. CASE places = {}
  BY <1>1 DEF Upserted
<1>2. CASE places # {}
  <2>1. place \in places
    BY <1>2
  <2>2. Upserted(c, r, new, old)
          = Becomes(c, r, Replaced(es, place, new), <<es[place]>>)
    BY <1>2 DEF Upserted, Replaced
  <2> QED BY <2>1, <2>2
<1> QED BY <1>1, <1>2

LEMMA CopiesAre ==
  ASSUME NEW ev, ev.gone \in Seq(Entries), ev.id \in Nat, NEW seq \in Nat,
         NEW data \in [DOMAIN ev.gone -> Nat]
  PROVE  LET cs == Copies(ev, seq, data)
         IN  /\ cs \in Seq(Entries) /\ Len(cs) = Len(ev.gone)
             /\ \A i \in DOMAIN cs : cs[i].id = ev.id + i - 1
             /\ TokensOf(cs) = TokensOf(ev.gone)
<1> DEFINE cs == Copies(ev, seq, data)
           gone == ev.gone
<1>1. DOMAIN gone = 1 .. Len(gone) /\ Len(gone) \in Nat
  OBVIOUS
<1>2. cs = [i \in 1 .. Len(gone) |-> Entry(ev.id + i - 1, gone[i].key, gone[i].tokens, seq, data[i])]
  BY <1>1 DEF Copies
<1>3. ASSUME NEW i \in 1 .. Len(gone)
      PROVE  /\ cs[i] \in Entries /\ cs[i].id = ev.id + i - 1
             /\ cs[i].tokens = gone[i].tokens
  <2>1. cs[i] = Entry(ev.id + i - 1, gone[i].key, gone[i].tokens, seq, data[i])
    BY <1>2
  <2>2. gone[i].key \in Keys \union {Unset} /\ gone[i].tokens \in Nat
    <3>1. gone[i] \in Entries
      BY EntryFields
    <3> QED BY <3>1 DEF Entries
  <2>3. data[i] \in Nat
    OBVIOUS
  <2>4. PICK id \in Nat : id = ev.id + i - 1
    OBVIOUS
  <2> HIDE DEF cs, gone
  <2>5. /\ Entry(id, gone[i].key, gone[i].tokens, seq, data[i]) \in Entries
        /\ Entry(id, gone[i].key, gone[i].tokens, seq, data[i]).id = id
        /\ Entry(id, gone[i].key, gone[i].tokens, seq, data[i]).tokens = gone[i].tokens
    <3> DEFINE key == gone[i].key
               tokens == gone[i].tokens
               source == data[i]
    <3>1. key \in Keys \union {Unset} /\ tokens \in Nat /\ source \in Nat
      BY <2>2, <2>3
    <3> HIDE DEF key, tokens, source
    <3>2. /\ Entry(id, key, tokens, seq, source) \in Entries
          /\ Entry(id, key, tokens, seq, source).id = id
          /\ Entry(id, key, tokens, seq, source).tokens = tokens
      BY <3>1 DEF Entry, Entries
    <3> QED BY <3>2 DEF key, tokens, source
  <2> QED BY <2>1, <2>4, <2>5
<1>4. cs \in Seq(Entries) /\ Len(cs) = Len(gone) /\ DOMAIN cs = 1 .. Len(gone)
  <2>1. cs = [i \in 1 .. Len(gone) |-> cs[i]]
    BY <1>2
  <2> HIDE DEF cs, gone
  <2> QED BY <1>1, <1>3, <2>1
<1> HIDE DEF cs
<1>5. Tokens(cs, DOMAIN cs) = Tokens(gone, DOMAIN gone)
  BY <1>1, <1>3, <1>4, SameTokens
<1> QED BY <1>1, <1>3, <1>4, <1>5 DEF cs, TokensOf

(* The copies join the entries of a region.                                 *)
Joined(c, r, copies) == [c EXCEPT ![r].entries = @ \o copies]

LEMMA JoinedIs ==
  ASSUME NEW c \in Windows, NEW r \in Regions, NEW copies \in Seq(Entries)
  PROVE  LET d == Joined(c, r, copies)
         IN  /\ d \in Windows
             /\ d[r].open = c[r].open /\ d[r].entries = c[r].entries \o copies
             /\ d[r].history = c[r].history
             /\ \A q \in Regions \ {r} : d[q] = c[q]
<1>1. c[r] \in Contents /\ c[r].entries \o copies \in Seq(Entries)
  BY ContentsAre
<1>2. Joined(c, r, copies) =
        [c EXCEPT ![r] = [open |-> c[r].open, entries |-> c[r].entries \o copies, history |-> c[r].history]]
  <2>1. Joined(c, r, copies) = [c EXCEPT ![r] = [c[r] EXCEPT !.entries = c[r].entries \o copies]]
    BY DEF Joined
  <2>2. [c[r] EXCEPT !.entries = c[r].entries \o copies]
          = [open |-> c[r].open, entries |-> c[r].entries \o copies, history |-> c[r].history]
    BY <1>1, ContentsExcept
  <2> QED BY <2>1, <2>2
<1>3. [open |-> c[r].open, entries |-> c[r].entries \o copies, history |-> c[r].history] \in Contents
  BY <1>1, ContentsAre DEF Contents
<1> QED BY <1>2, <1>3 DEF Windows

LEMMA PromotedIs ==
  ASSUME NEW c, NEW ev, NEW copies, NEW gone
  PROVE  Promoted(c, ev, copies, gone) =
           IF ev.mode = "copy" THEN Joined(c, ev.to, copies)
           ELSE Becomes(Joined(c, ev.to, copies), ev.at,
                        Without(Joined(c, ev.to, copies)[ev.at].entries, gone), gone)
BY DEF Promoted, Joined

(* What is in the copies the window makes.                                  *)
Carried(ev) == [i \in DOMAIN ev.gone |-> ev.gone[i].data]

ReadAt(c, r, seq) == [c EXCEPT ![r].entries = Touched(c[r].entries, seq)]

ClosedAt(c, r) == [c EXCEPT ![r].open = FALSE]

LEMMA AppliedIs ==
  ASSUME NEW c, NEW ev \in Events, NEW seq, NEW d, d = Applied(c, ev, seq), NEW r, r = ev.at,
         NEW es, es = c[r].entries, NEW e, e = Entry(ev.id, ev.key, ev.tokens, seq, seq)
  PROVE  /\ ev.type = "write" /\ ev.mode = "replace" => d = Becomes(c, r, <<e>>, es)
         /\ ev.type = "write" /\ ev.mode = "append" => d = Upserted(c, r, e, ev.replaced)
         /\ ev.type = "evict" => d = Becomes(c, r, Without(es, ev.gone), ev.gone)
         /\ ev.type = "read" => d = ReadAt(c, r, seq)
         /\ ev.type = "close" => d = ClosedAt(c, r)
         /\ ev.type = "purge" => d = Becomes(c, r, <<>>, es)
         /\ ev.type = "promote" => d = Promoted(c, ev, Copies(ev, seq, Carried(ev)), ev.gone)
BY DEF Applied, Carried, ReadAt, ClosedAt

LEMMA ReadIs ==
  ASSUME NEW c \in Windows, NEW r \in Regions, NEW seq \in Nat,
         NEW d, d = ReadAt(c, r, seq)
  PROVE  /\ d \in Windows
         /\ d[r].entries = Touched(c[r].entries, seq) /\ d[r].history = c[r].history
         /\ \A q \in Regions \ {r} : d[q] = c[q]
<1>1. c[r] \in Contents /\ Touched(c[r].entries, seq) \in Seq(Entries)
  BY ContentsAre, TouchedIs
<1>2. [c[r] EXCEPT !.entries = Touched(c[r].entries, seq)]
        = [open |-> c[r].open, entries |-> Touched(c[r].entries, seq), history |-> c[r].history]
  BY <1>1, ContentsExcept
<1>3. [open |-> c[r].open, entries |-> Touched(c[r].entries, seq), history |-> c[r].history] \in Contents
  BY <1>1 DEF Contents
<1> QED BY <1>2, <1>3 DEF Windows, ReadAt

LEMMA CloseIs ==
  ASSUME NEW c \in Windows, NEW r \in Regions, NEW d, d = ClosedAt(c, r)
  PROVE  /\ d \in Windows
         /\ d[r].entries = c[r].entries /\ d[r].history = c[r].history
         /\ \A q \in Regions \ {r} : d[q] = c[q]
<1>1. c[r] \in Contents
  BY ContentsAre
<1>2. [c[r] EXCEPT !.open = FALSE]
        = [open |-> FALSE, entries |-> c[r].entries, history |-> c[r].history]
  BY <1>1, ContentsExcept
<1>3. [open |-> FALSE, entries |-> c[r].entries, history |-> c[r].history] \in Contents
  BY <1>1 DEF Contents
<1> QED BY <1>2, <1>3 DEF Windows, ClosedAt

-----------------------------------------------------------------------------
(* Ids: what a region has, and what it remembers.                           *)

IdsOf(es) == {es[i].id : i \in DOMAIN es}

Remembered(x) == IdsOf(x.entries) \union IdsOf(x.history)

LEMMA IdsOfNone == IdsOf(<<>>) = {} /\ Distinct(<<>>)
BY DEF IdsOf, Distinct

LEMMA IdsOfFew ==
  ASSUME NEW e
  PROVE  IdsOf(<<e>>) = {e.id} /\ Distinct(<<e>>)
BY DEF IdsOf, Distinct

LEMMA IdsOfConcat ==
  ASSUME NEW es \in Seq(Entries), NEW fs \in Seq(Entries)
  PROVE  /\ IdsOf(es \o fs) = IdsOf(es) \union IdsOf(fs)
         /\ Distinct(es) /\ Distinct(fs) /\ IdsOf(es) \intersect IdsOf(fs) = {} => Distinct(es \o fs)
<1> DEFINE both == es \o fs
<1>1. /\ DOMAIN both = 1 .. (Len(es) + Len(fs)) /\ Len(es) \in Nat /\ Len(fs) \in Nat
      /\ DOMAIN es = 1 .. Len(es) /\ DOMAIN fs = 1 .. Len(fs)
      /\ \A i \in DOMAIN es : both[i] = es[i]
      /\ \A k \in DOMAIN fs : both[k + Len(es)] = fs[k]
  OBVIOUS
<1> HIDE DEF both
<1>2. \A i \in DOMAIN both :
        (i \in DOMAIN es /\ both[i] = es[i])
          \/ (i - Len(es) \in DOMAIN fs /\ both[i] = fs[i - Len(es)] /\ i \notin DOMAIN es)
  <2> TAKE i \in DOMAIN both
  <2>1. CASE i <= Len(es)
    BY <1>1, <2>1
  <2>2. CASE ~(i <= Len(es))
    <3>1. PICK k \in DOMAIN fs : i = k + Len(es)
      <4>1. i - Len(es) \in DOMAIN fs /\ i = (i - Len(es)) + Len(es)
        BY <1>1, <2>2
      <4> QED BY <4>1
    <3> QED BY <1>1, <3>1
  <2> QED BY <2>1, <2>2
<1>3. IdsOf(both) \subseteq IdsOf(es) \union IdsOf(fs)
  BY <1>2 DEF IdsOf
<1>4. IdsOf(es) \subseteq IdsOf(both)
  BY <1>1 DEF IdsOf
<1>5. IdsOf(fs) \subseteq IdsOf(both)
  <2> SUFFICES ASSUME NEW k \in DOMAIN fs PROVE fs[k].id \in IdsOf(both)
    BY DEF IdsOf
  <2>1. k + Len(es) \in DOMAIN both
    BY <1>1
  <2> QED BY <1>1, <2>1 DEF IdsOf
<1>6. ASSUME Distinct(es), Distinct(fs), IdsOf(es) \intersect IdsOf(fs) = {},
             NEW i \in DOMAIN both, NEW j \in DOMAIN both, both[i].id = both[j].id
      PROVE  i = j
  <2>1. \A a \in DOMAIN es, b \in DOMAIN fs : es[a].id # fs[b].id
    BY <1>6 DEF IdsOf
  <2>2. CASE i \in DOMAIN es /\ j \in DOMAIN es
    BY <1>1, <1>6, <2>2 DEF Distinct
  <2>3. CASE i \notin DOMAIN es /\ j \notin DOMAIN es
    <3>1. i - Len(es) = j - Len(es)
      BY <1>2, <1>6, <2>3 DEF Distinct
    <3> QED BY <1>1, <3>1
  <2> QED BY <1>2, <1>6, <2>1, <2>2, <2>3
<1> QED BY <1>3, <1>4, <1>5, <1>6 DEF both, Distinct

LEMMA IdsOfAppend ==
  ASSUME NEW es \in Seq(Entries), NEW e \in Entries
  PROVE  /\ IdsOf(Append(es, e)) = IdsOf(es) \union {e.id}
         /\ Distinct(es) /\ e.id \notin IdsOf(es) => Distinct(Append(es, e))
<1>1. Append(es, e) = es \o <<e>> /\ <<e>> \in Seq(Entries)
  OBVIOUS
<1>2. IdsOf(<<e>>) = {e.id} /\ Distinct(<<e>>)
  BY IdsOfFew
<1> DEFINE one == <<e>>
<1> HIDE DEF one
<1>3. /\ IdsOf(es \o one) = IdsOf(es) \union IdsOf(one)
      /\ Distinct(es) /\ Distinct(one) /\ IdsOf(es) \intersect IdsOf(one) = {} => Distinct(es \o one)
  BY <1>1, IdsOfConcat DEF one
<1> QED BY <1>1, <1>2, <1>3 DEF one

LEMMA IdsOfUpsert ==
  ASSUME NEW es \in Seq(Entries), NEW p \in DOMAIN es, NEW e \in Entries
  PROVE  LET fs == Replaced(es, p, e)
         IN  /\ IdsOf(fs) \subseteq IdsOf(es) \union {e.id} /\ e.id \in IdsOf(fs)
             /\ IdsOf(es) \subseteq IdsOf(fs) \union {es[p].id}
             /\ Distinct(es) /\ e.id \notin IdsOf(es) => Distinct(fs)
BY DEF IdsOf, Distinct, Replaced

LEMMA IdsOfWithout ==
  ASSUME NEW es \in Seq(Entries), NEW gone \in Seq(Entries)
  PROVE  /\ IdsOf(Without(es, gone)) \subseteq IdsOf(es)
         /\ IdsOf(es) \subseteq IdsOf(Without(es, gone)) \union IdsOf(gone)
<1>1. \A fs : IdsOf(fs) = {e.id : e \in ToSet(fs)}
  BY DEF IdsOf, ToSet
<1>2. ToSet(Without(es, gone)) = ToSet(es) \ ToSet(gone)
  BY WithoutThese
<1> QED BY <1>1, <1>2

LEMMA IdsOfTouched ==
  ASSUME NEW es \in Seq(Entries), NEW seq \in Nat
  PROVE  IdsOf(Touched(es, seq)) = IdsOf(es) /\ (Distinct(es) => Distinct(Touched(es, seq)))
<1> DEFINE fs == Touched(es, seq)
<1>1. DOMAIN fs = DOMAIN es /\ \A i \in DOMAIN es : fs[i].id = es[i].id
  BY TouchedIs
<1> HIDE DEF fs
<1>2. IdsOf(fs) = IdsOf(es) /\ (Distinct(es) => Distinct(fs))
  BY <1>1 DEF IdsOf, Distinct
<1> QED BY <1>2 DEF fs

(* One window follows another: ids come from before or are new, a versioned *)
(* region remembers what it did.                                            *)
Follows(c, d, new) ==
  /\ d \in Windows
  /\ \A r \in Regions :
       /\ IdsOf(d[r].entries) \subseteq IdsOf(c[r].entries) \union new
       /\ Policy[r].versioned => Remembered(c[r]) \subseteq Remembered(d[r])

LEMMA FollowsBecoming ==
  ASSUME NEW c \in Windows, NEW r \in Regions, NEW es \in Seq(Entries), NEW gone \in Seq(Entries),
         NEW new, IdsOf(es) \subseteq IdsOf(c[r].entries) \union new,
         IdsOf(c[r].entries) \subseteq IdsOf(es) \union IdsOf(gone)
  PROVE  Follows(c, Becomes(c, r, es, gone), new)
<1> DEFINE d == Becomes(c, r, es, gone)
<1>1. /\ d \in Windows /\ d[r].entries = es /\ d[r].history = Kept(r, c[r].history, gone)
      /\ \A q \in Regions \ {r} : d[q] = c[q]
  BY BecomesIs
<1> HIDE DEF d
<1>2. Policy[r].versioned => Remembered(c[r]) \subseteq Remembered(d[r])
  <2> SUFFICES ASSUME Policy[r].versioned PROVE Remembered(c[r]) \subseteq Remembered(d[r])
    OBVIOUS
  <2>1. d[r].history = c[r].history \o gone
    BY <1>1 DEF Kept
  <2>2. IdsOf(d[r].history) = IdsOf(c[r].history) \union IdsOf(gone)
    BY <2>1, ContentsAre, IdsOfConcat
  <2> QED BY <1>1, <2>2 DEF Remembered
<1>3. ASSUME NEW q \in Regions, q # r
      PROVE  /\ IdsOf(d[q].entries) \subseteq IdsOf(c[q].entries) \union new
             /\ Remembered(c[q]) \subseteq Remembered(d[q])
  BY <1>1, <1>3
<1> QED BY <1>1, <1>2, <1>3 DEF d, Follows

LEMMA FollowsJoining ==
  ASSUME NEW c \in Windows, NEW r \in Regions, NEW copies \in Seq(Entries)
  PROVE  Follows(c, Joined(c, r, copies), IdsOf(copies))
<1> DEFINE d == Joined(c, r, copies)
<1>1. /\ d \in Windows /\ d[r].entries = c[r].entries \o copies /\ d[r].history = c[r].history
      /\ \A q \in Regions \ {r} : d[q] = c[q]
  BY JoinedIs
<1> HIDE DEF d
<1>2. IdsOf(d[r].entries) = IdsOf(c[r].entries) \union IdsOf(copies)
  BY <1>1, ContentsAre, IdsOfConcat
<1>3. Remembered(c[r]) \subseteq Remembered(d[r])
  BY <1>1, <1>2 DEF Remembered
<1>4. ASSUME NEW q \in Regions, q # r
      PROVE  /\ IdsOf(d[q].entries) \subseteq IdsOf(c[q].entries) \union IdsOf(copies)
             /\ Remembered(c[q]) \subseteq Remembered(d[q])
  BY <1>1, <1>4
<1> QED BY <1>1, <1>2, <1>3, <1>4 DEF d, Follows

LEMMA FollowsSame ==
  ASSUME NEW c \in Windows, NEW d \in Windows, NEW r \in Regions, NEW new,
         IdsOf(d[r].entries) = IdsOf(c[r].entries), d[r].history = c[r].history,
         \A q \in Regions \ {r} : d[q] = c[q]
  PROVE  Follows(c, d, new)
BY DEF Follows, Remembered

(* The ids an event gives out, and the region that gets them.               *)
NewIds(ev) ==
  CASE ev.type = "write" -> {ev.id}
    [] ev.type = "promote" -> {ev.id + i - 1 : i \in DOMAIN ev.gone}
    [] OTHER -> {}

Target(ev) == IF ev.type = "promote" THEN ev.to ELSE ev.at

LEMMA CarriedIs ==
  ASSUME NEW ev, ev.gone \in Seq(Entries)
  PROVE  Carried(ev) \in [DOMAIN ev.gone -> Nat]
<1>1. ASSUME NEW i \in DOMAIN ev.gone PROVE ev.gone[i].data \in Nat
  <2>1. ev.gone[i] \in Entries
    BY EntryFields
  <2> QED BY <2>1 DEF Entries
<1> QED BY <1>1 DEF Carried

LEMMA CopiesOf ==
  ASSUME NEW ev \in Events, ev.type = "promote", NEW seq \in Nat,
         NEW data \in [DOMAIN ev.gone -> Nat]
  PROVE  LET cs == Copies(ev, seq, data)
         IN  /\ cs \in Seq(Entries) /\ TokensOf(cs) = TokensOf(ev.gone)
             /\ IdsOf(cs) = NewIds(ev) /\ Distinct(cs)
<1> DEFINE cs == Copies(ev, seq, data)
<1>1. ev.gone \in Seq(Entries) /\ ev.id \in Nat
  BY EventsAre
<1>2. /\ cs \in Seq(Entries) /\ Len(cs) = Len(ev.gone)
      /\ \A i \in DOMAIN cs : cs[i].id = ev.id + i - 1
      /\ TokensOf(cs) = TokensOf(ev.gone)
  BY <1>1, CopiesAre
<1> HIDE DEF cs
<1>3. DOMAIN cs = DOMAIN ev.gone /\ DOMAIN cs = 1 .. Len(cs)
  BY <1>1, <1>2
<1>4. IdsOf(cs) = NewIds(ev)
  BY <1>2, <1>3 DEF IdsOf, NewIds
<1>5. Distinct(cs)
  BY <1>1, <1>2, <1>3 DEF Distinct
<1> QED BY <1>2, <1>4, <1>5 DEF cs

LEMMA WriteIs ==
  ASSUME NEW ev \in Events, ev.type = "write", NEW seq \in Nat
  PROVE  LET e == Entry(ev.id, ev.key, ev.tokens, seq, seq)
         IN  e \in Entries /\ e.id = ev.id /\ e.tokens = ev.tokens /\ <<e>> \in Seq(Entries)
<1>1. ev.id \in Nat /\ ev.tokens \in Nat /\ ev.key \in Keys \union {Unset}
  BY EventsAre
<1> DEFINE e == Entry(ev.id, ev.key, ev.tokens, seq, seq)
<1>2. e \in Entries /\ e.id = ev.id /\ e.tokens = ev.tokens
  BY <1>1 DEF Entry, Entries
<1> HIDE DEF e
<1>3. <<e>> \in Seq(Entries)
  BY <1>2
<1> QED BY <1>2, <1>3 DEF e

(* The two ways a window takes a change of the entries of one region.       *)
LEMMA UpsertedFollows ==
  ASSUME NEW c \in Windows, NEW r \in Regions, NEW e \in Entries, NEW old,
         NEW d, d = Upserted(c, r, e, old)
  PROVE  /\ Follows(c, d, {e.id}) /\ e.id \in IdsOf(d[r].entries)
         /\ \A q \in Regions \ {r} : d[q] = c[q]
         /\ Distinct(c[r].entries) /\ e.id \notin IdsOf(c[r].entries) => Distinct(d[r].entries)
<1> DEFINE es == c[r].entries
<1>1. es \in Seq(Entries)
  BY ContentsAre
<1>2. CASE d = Becomes(c, r, Append(es, e), <<>>)
  <2>1. Append(es, e) \in Seq(Entries) /\ <<>> \in Seq(Entries)
    BY <1>1
  <2>2. /\ IdsOf(Append(es, e)) = IdsOf(es) \union {e.id}
        /\ Distinct(es) /\ e.id \notin IdsOf(es) => Distinct(Append(es, e))
    BY <1>1, IdsOfAppend
  <2>3. Follows(c, d, {e.id})
    BY <1>2, <2>1, <2>2, FollowsBecoming
  <2> DEFINE fs == Append(es, e)
             none == <<>>
  <2>4. d[r].entries = fs /\ \A q \in Regions \ {r} : d[q] = c[q]
    <3>1. fs \in Seq(Entries) /\ none \in Seq(Entries) /\ d = Becomes(c, r, fs, none)
      BY <1>2, <2>1
    <3> HIDE DEF fs, none
    <3> QED BY <3>1, BecomesIs
  <2> QED BY <2>2, <2>3, <2>4
<1>3. ASSUME NEW p \in DOMAIN es,
             d = Becomes(c, r, Replaced(es, p, e), <<es[p]>>)
      PROVE  /\ Follows(c, d, {e.id}) /\ e.id \in IdsOf(d[r].entries)
             /\ \A q \in Regions \ {r} : d[q] = c[q]
             /\ Distinct(es) /\ e.id \notin IdsOf(es) => Distinct(d[r].entries)
  <2> DEFINE fs == Replaced(es, p, e)
             lost == <<es[p]>>
  <2>1. fs \in Seq(Entries) /\ lost \in Seq(Entries) /\ IdsOf(lost) = {es[p].id}
    <3>1. fs \in Seq(Entries)
      BY <1>1, TokensOfUpsert
    <3>2. lost \in Seq(Entries)
      BY <1>1, EntryFields
    <3> QED BY <3>1, <3>2, IdsOfFew
  <2>2. /\ IdsOf(fs) \subseteq IdsOf(es) \union {e.id} /\ e.id \in IdsOf(fs)
        /\ IdsOf(es) \subseteq IdsOf(fs) \union {es[p].id}
        /\ Distinct(es) /\ e.id \notin IdsOf(es) => Distinct(fs)
    BY <1>1, IdsOfUpsert
  <2>3. d = Becomes(c, r, fs, lost)
    BY <1>3
  <2> HIDE DEF fs, lost
  <2>4. Follows(c, d, {e.id})
    BY <2>1, <2>2, <2>3, FollowsBecoming
  <2>5. d[r].entries = fs /\ \A q \in Regions \ {r} : d[q] = c[q]
    BY <2>1, <2>3, BecomesIs
  <2> QED BY <2>2, <2>4, <2>5
<1>4. \/ d = Becomes(c, r, Append(es, e), <<>>)
      \/ \E p \in DOMAIN es : d = Becomes(c, r, Replaced(es, p, e), <<es[p]>>)
  BY UpsertedIs
<1> QED BY <1>2, <1>3, <1>4

Unique(c) == \A q \in Regions : Distinct(c[q].entries)

New(c, ids) == \A q \in Regions : IdsOf(c[q].entries) \intersect ids = {}

LEMMA BecomingKeepsUnique ==
  ASSUME NEW c \in Windows, NEW r \in Regions, NEW es \in Seq(Entries), NEW gone \in Seq(Entries),
         Unique(c), Distinct(es)
  PROVE  Unique(Becomes(c, r, es, gone))
<1> DEFINE d == Becomes(c, r, es, gone)
<1>1. d[r].entries = es /\ \A q \in Regions \ {r} : d[q] = c[q]
  BY BecomesIs
<1> HIDE DEF d
<1>2. Unique(d)
  BY <1>1 DEF Unique
<1> QED BY <1>2 DEF d

LEMMA PromotedKeeps ==
  ASSUME NEW c \in Windows, NEW ev \in Events, ev.type = "promote",
         NEW copies \in Seq(Entries), NEW gone \in Seq(Entries)
  PROVE  LET d == Promoted(c, ev, copies, gone)
         IN  /\ Follows(c, d, IdsOf(copies))
             /\ Policy[ev.to].versioned => IdsOf(copies) \subseteq Remembered(d[ev.to])
             /\ Unique(c) /\ New(c, IdsOf(copies)) /\ Distinct(copies) => Unique(d)
<1> DEFINE full == Joined(c, ev.to, copies)
           rest == Without(full[ev.at].entries, gone)
           d == Promoted(c, ev, copies, gone)
<1>1. ev.at \in Regions /\ ev.to \in Regions
  BY EventsAre
<1>2. /\ full \in Windows /\ full[ev.to].entries = c[ev.to].entries \o copies
      /\ \A q \in Regions \ {ev.to} : full[q] = c[q]
  BY <1>1, JoinedIs
<1>3. Follows(c, full, IdsOf(copies))
  BY <1>1, FollowsJoining
<1>4. d = IF ev.mode = "copy" THEN full ELSE Becomes(full, ev.at, rest, gone)
  BY PromotedIs
<1> HIDE DEF full, d
<1>5. full[ev.at].entries \in Seq(Entries) /\ rest \in Seq(Entries)
  BY <1>1, <1>2, ContentsAre, WithoutThese
<1>6. /\ IdsOf(rest) \subseteq IdsOf(full[ev.at].entries)
      /\ IdsOf(full[ev.at].entries) \subseteq IdsOf(rest) \union IdsOf(gone)
  BY <1>5, IdsOfWithout
<1>7. Distinct(full[ev.at].entries) => Distinct(rest)
  BY <1>5, WithoutThese
<1> HIDE DEF rest
<1>8. Follows(full, d, {})
  <2>1. CASE ev.mode = "copy"
    BY <1>2, <1>4, <2>1 DEF Follows
  <2>2. CASE ev.mode # "copy"
    <3>1. Follows(full, Becomes(full, ev.at, rest, gone), {})
      BY <1>1, <1>2, <1>5, <1>6, FollowsBecoming
    <3> QED BY <1>4, <2>2, <3>1
  <2> QED BY <2>1, <2>2
<1>9. Follows(c, d, IdsOf(copies))
  BY <1>3, <1>8 DEF Follows
<1>10. IdsOf(full[ev.to].entries) = IdsOf(c[ev.to].entries) \union IdsOf(copies)
  <2>1. c[ev.to].entries \in Seq(Entries)
    BY <1>1, ContentsAre
  <2> QED BY <1>2, <2>1, IdsOfConcat
<1>11. Policy[ev.to].versioned => IdsOf(copies) \subseteq Remembered(d[ev.to])
  BY <1>1, <1>8, <1>10 DEF Follows, Remembered
<1>12. Unique(c) /\ New(c, IdsOf(copies)) /\ Distinct(copies) => Unique(d)
  <2> SUFFICES ASSUME Unique(c), New(c, IdsOf(copies)), Distinct(copies) PROVE Unique(d)
    OBVIOUS
  <2>1. Distinct(full[ev.to].entries)
    <3>1. c[ev.to].entries \in Seq(Entries) /\ Distinct(c[ev.to].entries)
      BY <1>1, ContentsAre DEF Unique
    <3>2. IdsOf(c[ev.to].entries) \intersect IdsOf(copies) = {}
      BY <1>1 DEF New
    <3> QED BY <1>2, <3>1, <3>2, IdsOfConcat
  <2>2. Unique(full)
    BY <1>2, <2>1 DEF Unique
  <2>3. Distinct(rest)
    BY <1>1, <1>7, <2>2 DEF Unique
  <2>4. Unique(Becomes(full, ev.at, rest, gone))
    BY <1>1, <1>2, <1>5, <2>2, <2>3, BecomingKeepsUnique
  <2> QED BY <1>4, <2>2, <2>4
<1> QED BY <1>9, <1>11, <1>12 DEF d

(* What an event that makes d of c keeps.                                   *)
Keeps(c, d, ev) ==
  /\ Follows(c, d, NewIds(ev))
  /\ Policy[Target(ev)].versioned => NewIds(ev) \subseteq Remembered(d[Target(ev)])
  /\ Unique(c) /\ New(c, NewIds(ev)) => Unique(d)

LEMMA NewIdsAre ==
  ASSUME NEW ev
  PROVE  /\ ev.type = "write" => NewIds(ev) = {ev.id} /\ Target(ev) = ev.at
         /\ ev.type = "promote" => Target(ev) = ev.to
         /\ ev.type \in {"evict", "read", "close", "purge"} => NewIds(ev) = {}
BY DEF NewIds, Target

LEMMA AppliedKeeps ==
  ASSUME NEW c \in Windows, NEW ev \in Events, NEW seq \in Nat, NEW d, d = Applied(c, ev, seq)
  PROVE  Keeps(c, d, ev)
<1>r. PICK r \in Regions : r = ev.at
  BY EventsAre
<1>0. PICK es, e :
        r = ev.at /\ es = c[r].entries /\ e = Entry(ev.id, ev.key, ev.tokens, seq, seq)
  BY <1>r
<1>1. es \in Seq(Entries) /\ (Unique(c) => Distinct(es))
  BY <1>0, ContentsAre DEF Unique
<1>2. /\ ev.type = "write" /\ ev.mode = "replace" => d = Becomes(c, r, <<e>>, es)
      /\ ev.type = "write" /\ ev.mode = "append" => d = Upserted(c, r, e, ev.replaced)
      /\ ev.type = "evict" => d = Becomes(c, r, Without(es, ev.gone), ev.gone)
      /\ ev.type = "read" => d = ReadAt(c, r, seq)
      /\ ev.type = "close" => d = ClosedAt(c, r)
      /\ ev.type = "purge" => d = Becomes(c, r, <<>>, es)
      /\ ev.type = "promote" => d = Promoted(c, ev, Copies(ev, seq, Carried(ev)), ev.gone)
  BY <1>0, AppliedIs
<1>3. CASE ev.type = "write" /\ ev.mode = "replace"
  <2>1. d = Becomes(c, r, <<e>>, es) /\ NewIds(ev) = {ev.id} /\ Target(ev) = r
    BY <1>3, <1>2, NewIdsAre, <1>0
  <2>2. e \in Entries /\ e.id = ev.id /\ <<e>> \in Seq(Entries)
    BY <1>3, WriteIs, <1>0
  <2> DEFINE fs == <<e>>
  <2>3. fs \in Seq(Entries) /\ IdsOf(fs) = {ev.id} /\ Distinct(fs) /\ d = Becomes(c, r, fs, es)
    BY <2>1, <2>2, IdsOfFew
  <2> HIDE DEF fs
  <2>4. Follows(c, d, {ev.id})
    BY <1>0, <1>1, <2>3, FollowsBecoming
  <2>5. d[r].entries = fs
    BY <1>0, <1>1, <2>3, BecomesIs
  <2>6. Unique(c) => Unique(d)
    BY <1>0, <1>1, <2>3, BecomingKeepsUnique
  <2> QED BY <2>1, <2>3, <2>4, <2>5, <2>6 DEF Keeps, Remembered
<1>4. CASE ev.type = "write" /\ ev.mode = "append"
  <2>1. d = Upserted(c, r, e, ev.replaced) /\ NewIds(ev) = {ev.id} /\ Target(ev) = r
    BY <1>4, <1>2, NewIdsAre, <1>0
  <2>2. e \in Entries /\ e.id = ev.id
    BY <1>4, WriteIs, <1>0
  <2>3. /\ Follows(c, d, {e.id}) /\ e.id \in IdsOf(d[r].entries)
        /\ \A q \in Regions \ {r} : d[q] = c[q]
        /\ Distinct(c[r].entries) /\ e.id \notin IdsOf(c[r].entries) => Distinct(d[r].entries)
    <3>1. PICK old : old = ev.replaced
      OBVIOUS
    <3>2. d = Upserted(c, r, e, old)
      BY <2>1, <3>1
    <3> QED BY <2>2, <3>2, UpsertedFollows
  <2>4. Unique(c) /\ New(c, {ev.id}) => Unique(d)
    BY <1>0, <1>1, <2>2, <2>3 DEF Unique, New
  <2> QED BY <2>1, <2>2, <2>3, <2>4 DEF Keeps, Remembered
<1>5. CASE ev.type = "evict"
  <2>1. d = Becomes(c, r, Without(es, ev.gone), ev.gone) /\ NewIds(ev) = {} /\ ev.gone \in Seq(Entries)
    BY <1>5, <1>2, NewIdsAre, EventsAre
  <2>2. Without(es, ev.gone) \in Seq(Entries) /\ (Distinct(es) => Distinct(Without(es, ev.gone)))
    BY <1>0, <1>1, WithoutThese
  <2>3. /\ IdsOf(Without(es, ev.gone)) \subseteq IdsOf(es)
        /\ IdsOf(es) \subseteq IdsOf(Without(es, ev.gone)) \union IdsOf(ev.gone)
    BY <1>0, <1>1, <2>1, IdsOfWithout
  <2>4. Follows(c, d, {})
    BY <1>0, <1>1, <2>1, <2>2, <2>3, FollowsBecoming
  <2>5. Unique(c) => Unique(d)
    BY <1>0, <1>1, <2>1, <2>2, BecomingKeepsUnique
  <2> QED BY <2>1, <2>4, <2>5 DEF Keeps
<1>6. CASE ev.type = "read"
  <2>1. d = ReadAt(c, r, seq) /\ NewIds(ev) = {}
    BY <1>6, <1>2, NewIdsAre, <1>0
  <2>2. /\ d \in Windows
        /\ d[r].entries = Touched(es, seq) /\ d[r].history = c[r].history
        /\ \A q \in Regions \ {r} : d[q] = c[q]
    BY <1>0, <1>1, <2>1, ReadIs
  <2>3. IdsOf(d[r].entries) = IdsOf(es) /\ (Distinct(es) => Distinct(d[r].entries))
    BY <1>0, <1>1, <2>2, IdsOfTouched
  <2>4. Follows(c, d, {})
    BY <1>0, <1>1, <2>2, <2>3, FollowsSame
  <2>5. Unique(c) => Unique(d)
    BY <1>0, <1>1, <2>2, <2>3 DEF Unique
  <2> QED BY <2>1, <2>4, <2>5 DEF Keeps
<1>7. CASE ev.type = "close"
  <2>1. d = ClosedAt(c, r) /\ NewIds(ev) = {}
    BY <1>7, <1>2, NewIdsAre, <1>0
  <2>2. /\ d \in Windows
        /\ d[r].entries = es /\ d[r].history = c[r].history
        /\ \A q \in Regions \ {r} : d[q] = c[q]
    BY <1>0, <1>1, <2>1, CloseIs
  <2>3. Follows(c, d, {})
    BY <1>0, <1>1, <2>2, FollowsSame
  <2>4. Unique(c) => Unique(d)
    BY <1>0, <1>1, <2>2 DEF Unique
  <2> QED BY <2>1, <2>3, <2>4 DEF Keeps
<1>8. CASE ev.type = "purge"
  <2> DEFINE none == <<>>
  <2>1. d = Becomes(c, r, none, es) /\ NewIds(ev) = {}
    BY <1>8, <1>2, NewIdsAre, <1>0
  <2>2. none \in Seq(Entries) /\ IdsOf(none) = {} /\ Distinct(none)
    BY IdsOfNone
  <2> HIDE DEF none
  <2>3. Follows(c, d, {})
    BY <1>0, <1>1, <2>1, <2>2, FollowsBecoming
  <2>4. Unique(c) => Unique(d)
    BY <1>0, <1>1, <2>1, <2>2, BecomingKeepsUnique
  <2> QED BY <2>1, <2>3, <2>4 DEF Keeps
<1>9. CASE ev.type = "promote"
  <2> DEFINE cs == Copies(ev, seq, Carried(ev))
  <2>1. d = Promoted(c, ev, cs, ev.gone) /\ Target(ev) = ev.to /\ ev.gone \in Seq(Entries)
    BY <1>9, <1>2, NewIdsAre, EventsAre
  <2>2. Carried(ev) \in [DOMAIN ev.gone -> Nat]
    BY <2>1, CarriedIs
  <2>3. cs \in Seq(Entries) /\ IdsOf(cs) = NewIds(ev) /\ Distinct(cs)
    BY <1>9, <2>2, CopiesOf
  <2> HIDE DEF cs
  <2> QED BY <1>9, <2>1, <2>3, PromotedKeeps DEF Keeps
<1> QED BY <1>3, <1>4, <1>5, <1>6, <1>7, <1>8, <1>9, EventsAre

-----------------------------------------------------------------------------
(* Tokens after an event.                                                   *)

NoFuller(c, d, q) == TokensOf(d[q].entries) <= TokensOf(c[q].entries)

(* What an event may add to a region.                                       *)
Fills(c, d, ev) ==
  LET r == Target(ev)  es == c[r].entries  now == TokensOf(d[r].entries)
  IN /\ \A q \in Regions \ {r} : NoFuller(c, d, q)
     /\ ev.type \in {"evict", "read", "close", "purge"} => NoFuller(c, d, r)
     /\ ev.type = "write" /\ ev.mode = "replace" => now = ev.tokens
     /\ ev.type = "write" /\ ev.mode = "append" =>
          \/ (\A i \in DOMAIN es : es[i].id # ev.replaced) /\ now = TokensOf(es) + ev.tokens
          \/ \E p \in DOMAIN es : es[p].id = ev.replaced
                                  /\ now = TokensOf(es) - es[p].tokens + ev.tokens
     /\ ev.type = "promote" => now <= TokensOf(es) + TokensOf(ev.gone)

LEMMA SameIsNoFuller ==
  ASSUME NEW c \in Windows, NEW d, NEW q \in Regions, d[q].entries = c[q].entries
  PROVE  NoFuller(c, d, q)
<1>1. c[q].entries \in Seq(Entries)
  BY ContentsAre
<1>2. TokensOf(c[q].entries) \in Nat
  BY <1>1, TokensOfType
<1> QED BY <1>2 DEF NoFuller

LEMMA UpsertedFills ==
  ASSUME NEW c \in Windows, NEW r \in Regions, NEW e \in Entries, NEW old,
         NEW d, d = Upserted(c, r, e, old), NEW es, es = c[r].entries
  PROVE  \/ (\A i \in DOMAIN es : es[i].id # old) /\ TokensOf(d[r].entries) = TokensOf(es) + e.tokens
         \/ \E p \in DOMAIN es :
              es[p].id = old /\ TokensOf(d[r].entries) = TokensOf(es) - es[p].tokens + e.tokens
<1>1. es \in Seq(Entries)
  BY ContentsAre
<1>2. CASE (\A i \in DOMAIN es : es[i].id # old) /\ d = Becomes(c, r, Append(es, e), <<>>)
  <2> DEFINE fs == Append(es, e)
             none == <<>>
  <2>1. fs \in Seq(Entries) /\ none \in Seq(Entries) /\ d = Becomes(c, r, fs, none)
    BY <1>1, <1>2
  <2>2. TokensOf(fs) = TokensOf(es) + e.tokens
    BY <1>1, TokensOfAppend
  <2> HIDE DEF fs, none
  <2>3. d[r].entries = fs
    BY <2>1, BecomesIs
  <2> QED BY <1>2, <2>2, <2>3
<1>3. ASSUME NEW p \in DOMAIN es, es[p].id = old, d = Becomes(c, r, Replaced(es, p, e), <<es[p]>>)
      PROVE  TokensOf(d[r].entries) = TokensOf(es) - es[p].tokens + e.tokens
  <2> DEFINE fs == Replaced(es, p, e)
             lost == <<es[p]>>
  <2>1. fs \in Seq(Entries) /\ TokensOf(fs) = TokensOf(es) - es[p].tokens + e.tokens
    BY <1>1, TokensOfUpsert
  <2>2. lost \in Seq(Entries) /\ d = Becomes(c, r, fs, lost)
    BY <1>1, <1>3, EntryFields
  <2> HIDE DEF fs, lost
  <2>3. d[r].entries = fs
    BY <2>1, <2>2, BecomesIs
  <2> QED BY <2>1, <2>3
<1>4. \/ (\A i \in DOMAIN es : es[i].id # old) /\ d = Becomes(c, r, Append(es, e), <<>>)
      \/ \E p \in DOMAIN es : es[p].id = old /\ d = Becomes(c, r, Replaced(es, p, e), <<es[p]>>)
  BY UpsertedIs
<1> QED BY <1>2, <1>3, <1>4

LEMMA PromotedFills ==
  ASSUME NEW c \in Windows, NEW ev \in Events, ev.type = "promote",
         NEW copies \in Seq(Entries), NEW gone \in Seq(Entries),
         NEW d, d = Promoted(c, ev, copies, gone)
  PROVE  /\ \A q \in Regions \ {ev.to} : NoFuller(c, d, q)
         /\ TokensOf(d[ev.to].entries) <= TokensOf(c[ev.to].entries) + TokensOf(copies)
<1>1. PICK at \in Regions, to \in Regions : at = ev.at /\ to = ev.to
  BY EventsAre
<1> DEFINE full == Joined(c, to, copies)
           rest == Without(full[at].entries, gone)
<1>2. /\ full \in Windows /\ full[to].entries = c[to].entries \o copies
      /\ \A q \in Regions \ {to} : full[q] = c[q]
  BY JoinedIs
<1>3. d = IF ev.mode = "copy" THEN full ELSE Becomes(full, at, rest, gone)
  BY <1>1, PromotedIs
<1> HIDE DEF full
<1>4. full[at].entries \in Seq(Entries)
  BY <1>2, ContentsAre
<1>5. rest \in Seq(Entries) /\ TokensOf(rest) <= TokensOf(full[at].entries)
  BY <1>4, WithoutThese
<1> HIDE DEF rest
<1>6. \A q \in Regions : NoFuller(full, d, q)
  <2>1. CASE d = full
    BY <1>2, <2>1, SameIsNoFuller
  <2>2. CASE d = Becomes(full, at, rest, gone)
    <3>1. d[at].entries = rest /\ \A q \in Regions \ {at} : d[q] = full[q]
      <4>1. full \in Windows /\ rest \in Seq(Entries)
        BY <1>2, <1>5
      <4>2. /\ Becomes(full, at, rest, gone)[at].entries = rest
            /\ \A q \in Regions \ {at} : Becomes(full, at, rest, gone)[q] = full[q]
        BY <4>1, BecomesIs
      <4> QED BY <2>2, <4>2
    <3>2. NoFuller(full, d, at)
      BY <1>5, <3>1 DEF NoFuller
    <3>3. \A q \in Regions \ {at} : NoFuller(full, d, q)
      BY <1>2, <3>1, SameIsNoFuller
    <3> QED BY <3>2, <3>3
  <2> QED BY <1>3, <2>1, <2>2
<1>7. \A q \in Regions \ {to} : NoFuller(c, d, q)
  BY <1>2, <1>6 DEF NoFuller
<1>8. TokensOf(full[to].entries) = TokensOf(c[to].entries) + TokensOf(copies)
  <2>1. c[to].entries \in Seq(Entries)
    BY ContentsAre
  <2> QED BY <1>2, <2>1, TokensOfConcat
<1>9. TokensOf(d[to].entries) <= TokensOf(c[to].entries) + TokensOf(copies)
  BY <1>6, <1>8 DEF NoFuller
<1> QED BY <1>1, <1>7, <1>9

LEMMA AppliedFills ==
  ASSUME NEW c \in Windows, NEW ev \in Events, NEW seq \in Nat, NEW d, d = Applied(c, ev, seq)
  PROVE  Fills(c, d, ev)
<1>r. PICK r \in Regions : r = ev.at
  BY EventsAre
<1>0. PICK es, e, to, gone, old :
        /\ r = ev.at /\ es = c[r].entries /\ e = Entry(ev.id, ev.key, ev.tokens, seq, seq)
        /\ to = ev.to /\ gone = ev.gone /\ old = ev.replaced
  BY <1>r
<1>1. es \in Seq(Entries) /\ TokensOf(es) \in Nat
  <2>1. es \in Seq(Entries)
    BY <1>0, ContentsAre
  <2> QED BY <2>1, TokensOfType
<1>2. /\ ev.type = "write" /\ ev.mode = "replace" => d = Becomes(c, r, <<e>>, es)
      /\ ev.type = "write" /\ ev.mode = "append" => d = Upserted(c, r, e, old)
      /\ ev.type = "evict" => d = Becomes(c, r, Without(es, gone), gone)
      /\ ev.type = "read" => d = ReadAt(c, r, seq)
      /\ ev.type = "close" => d = ClosedAt(c, r)
      /\ ev.type = "purge" => d = Becomes(c, r, <<>>, es)
      /\ ev.type = "promote" => d = Promoted(c, ev, Copies(ev, seq, Carried(ev)), gone)
  BY <1>0, AppliedIs
<1>3. CASE ev.type = "write"
  <2>1. e \in Entries /\ e.tokens = ev.tokens /\ <<e>> \in Seq(Entries) /\ Target(ev) = r
    BY <1>0, <1>3, WriteIs, NewIdsAre
  <2>2. \A q \in Regions \ {r} : d[q] = c[q]
    <3>1. CASE ev.mode = "replace"
      <4> DEFINE fs == <<e>>
      <4>1. fs \in Seq(Entries) /\ d = Becomes(c, r, fs, es)
        BY <1>2, <1>3, <2>1, <3>1
      <4> HIDE DEF fs
      <4> QED BY <1>1, <4>1, BecomesIs
    <3>2. CASE ev.mode = "append"
      <4>1. d = Upserted(c, r, e, old)
        BY <1>2, <1>3, <3>2
      <4>2. e \in Entries
        BY <2>1
      <4>3. /\ Follows(c, d, {e.id}) /\ e.id \in IdsOf(d[r].entries)
            /\ \A q \in Regions \ {r} : d[q] = c[q]
            /\ Distinct(c[r].entries) /\ e.id \notin IdsOf(c[r].entries) => Distinct(d[r].entries)
        BY <4>1, <4>2, UpsertedFollows
      <4> QED BY <4>3
    <3> QED BY <1>3, <3>1, <3>2, EventsAre
  <2>3. \A q \in Regions \ {r} : NoFuller(c, d, q)
    BY <2>2, SameIsNoFuller
  <2>4. CASE ev.mode = "replace"
    <3> DEFINE fs == <<e>>
    <3>1. fs \in Seq(Entries) /\ TokensOf(fs) = e.tokens /\ d = Becomes(c, r, fs, es)
      BY <1>2, <1>3, <2>1, <2>4, TokensOfSingle
    <3> HIDE DEF fs
    <3>2. d[r].entries = fs
      BY <1>1, <3>1, BecomesIs
    <3> QED BY <1>3, <2>1, <2>3, <2>4, <3>1, <3>2 DEF Fills
  <2>5. CASE ev.mode = "append"
    <3>1. \/ (\A i \in DOMAIN es : es[i].id # old) /\ TokensOf(d[r].entries) = TokensOf(es) + e.tokens
          \/ \E p \in DOMAIN es :
               es[p].id = old /\ TokensOf(d[r].entries) = TokensOf(es) - es[p].tokens + e.tokens
      BY <1>0, <1>2, <1>3, <2>1, <2>5, UpsertedFills
    <3> QED BY <1>0, <1>3, <2>1, <2>3, <2>5, <3>1 DEF Fills
  <2> QED BY <1>3, <2>4, <2>5, EventsAre
<1>4. CASE ev.type \in {"evict", "read", "close", "purge"}
  <2>1. d[r].entries \in {es, <<>>, Touched(es, seq), Without(es, gone)} /\ (\A q \in Regions \ {r} : d[q] = c[q])
    <3>1. CASE ev.type = "evict"
      <4>1. gone \in Seq(Entries) /\ Without(es, gone) \in Seq(Entries)
        BY <1>0, <1>1, <3>1, EventsAre, WithoutThese
      <4> QED BY <1>2, <3>1, <4>1, BecomesIs
    <3>2. CASE ev.type = "read"
      BY <1>0, <1>2, <3>2, ReadIs
    <3>3. CASE ev.type = "close"
      BY <1>0, <1>2, <3>3, CloseIs
    <3>4. CASE ev.type = "purge"
      <4> DEFINE none == <<>>
      <4>1. none \in Seq(Entries) /\ d = Becomes(c, r, none, es)
        BY <1>2, <3>4
      <4> HIDE DEF none
      <4>2. d[r].entries = none /\ (\A q \in Regions \ {r} : d[q] = c[q])
        BY <1>1, <4>1, BecomesIs
      <4> QED BY <4>2 DEF none
    <3> QED BY <1>4, <3>1, <3>2, <3>3, <3>4
  <2>2. TokensOf(<<>>) = 0
    <3>1. DOMAIN <<>> = {}
      OBVIOUS
    <3> QED BY <3>1, TokensOfNone DEF TokensOf
  <2>3. TokensOf(Touched(es, seq)) = TokensOf(es) /\ TokensOf(Without(es, gone)) <= TokensOf(es)
    BY <1>1, TouchedIs, WithoutThese
  <2>4. NoFuller(c, d, r)
    BY <1>0, <1>1, <2>1, <2>2, <2>3 DEF NoFuller
  <2>5. \A q \in Regions \ {r} : NoFuller(c, d, q)
    BY <2>1, SameIsNoFuller
  <2> QED BY <1>0, <1>4, <2>4, <2>5 DEF Fills, Target
<1>5. CASE ev.type = "promote"
  <2> DEFINE cs == Copies(ev, seq, Carried(ev))
  <2>1. d = Promoted(c, ev, cs, gone) /\ gone \in Seq(Entries)
    BY <1>0, <1>2, <1>5, EventsAre
  <2>2. Carried(ev) \in [DOMAIN ev.gone -> Nat]
    BY <1>0, <2>1, CarriedIs
  <2>3. cs \in Seq(Entries) /\ TokensOf(cs) = TokensOf(gone)
    BY <1>0, <1>5, <2>2, CopiesOf
  <2> HIDE DEF cs
  <2>4. /\ \A q \in Regions \ {ev.to} : NoFuller(c, d, q)
        /\ TokensOf(d[ev.to].entries) <= TokensOf(c[ev.to].entries) + TokensOf(cs)
    BY <1>5, <2>1, <2>3, PromotedFills
  <2> QED BY <1>0, <1>5, <2>3, <2>4, NewIdsAre DEF Fills
<1> QED BY <1>3, <1>4, <1>5, EventsAre

-----------------------------------------------------------------------------
(* The file and the window take an event alike.                             *)

LEMMA ToSetConcat ==
  ASSUME NEW S, NEW es \in Seq(S), NEW fs \in Seq(S)
  PROVE  ToSet(es \o fs) = ToSet(es) \union ToSet(fs)
<1> DEFINE both == es \o fs
<1>1. /\ DOMAIN both = 1 .. (Len(es) + Len(fs)) /\ Len(es) \in Nat /\ Len(fs) \in Nat
      /\ DOMAIN es = 1 .. Len(es) /\ DOMAIN fs = 1 .. Len(fs)
      /\ \A i \in DOMAIN es : both[i] = es[i]
      /\ \A k \in DOMAIN fs : both[k + Len(es)] = fs[k]
  OBVIOUS
<1> HIDE DEF both
<1>2. ASSUME NEW i \in DOMAIN both PROVE both[i] \in ToSet(es) \union ToSet(fs)
  <2>1. CASE i \in DOMAIN es
    BY <1>1, <2>1 DEF ToSet
  <2>2. CASE i \notin DOMAIN es
    <3>1. PICK k \in DOMAIN fs : i = k + Len(es)
      <4>1. i - Len(es) \in DOMAIN fs /\ i = (i - Len(es)) + Len(es)
        BY <1>1, <2>2
      <4> QED BY <4>1
    <3> QED BY <1>1, <3>1 DEF ToSet
  <2> QED BY <2>1, <2>2
<1>3. ASSUME NEW i \in DOMAIN es PROVE es[i] \in ToSet(both)
  <2>1. i \in DOMAIN both /\ both[i] = es[i]
    BY <1>1
  <2> QED BY <2>1 DEF ToSet
<1>4. ASSUME NEW k \in DOMAIN fs PROVE fs[k] \in ToSet(both)
  <2>1. k + Len(es) \in DOMAIN both /\ both[k + Len(es)] = fs[k]
    BY <1>1
  <2> QED BY <2>1 DEF ToSet
<1>5. ToSet(both) \subseteq ToSet(es) \union ToSet(fs)
  BY <1>2 DEF ToSet
<1>6. ToSet(es) \subseteq ToSet(both) /\ ToSet(fs) \subseteq ToSet(both)
  BY <1>3, <1>4 DEF ToSet
<1> QED BY <1>5, <1>6 DEF both

LEMMA SameBecoming ==
  ASSUME NEW b \in Windows, NEW c \in Windows, SameWindow(b, c), NEW r \in Regions,
         NEW es \in Seq(Entries), NEW lost \in Seq(Entries), NEW gone \in Seq(Entries),
         ToSet(lost) = ToSet(gone)
  PROVE  SameWindow(Becomes(b, r, es, lost), Becomes(c, r, es, gone))
<1> DEFINE x == Becomes(b, r, es, lost)
           y == Becomes(c, r, es, gone)
<1>1. /\ x[r].open = b[r].open /\ x[r].entries = es /\ x[r].history = Kept(r, b[r].history, lost)
      /\ \A q \in Regions \ {r} : x[q] = b[q]
  BY BecomesIs
<1>2. /\ y[r].open = c[r].open /\ y[r].entries = es /\ y[r].history = Kept(r, c[r].history, gone)
      /\ \A q \in Regions \ {r} : y[q] = c[q]
  BY BecomesIs
<1> HIDE DEF x, y
<1>3. /\ b[r].open = c[r].open /\ ToSet(b[r].history) = ToSet(c[r].history)
      /\ b[r].history \in Seq(Entries) /\ c[r].history \in Seq(Entries)
  BY ContentsAre DEF SameWindow
<1>4. ToSet(x[r].history) = ToSet(y[r].history)
  <2>1. CASE Policy[r].versioned
    <3>1. x[r].history = b[r].history \o lost /\ y[r].history = c[r].history \o gone
      BY <1>1, <1>2, <2>1 DEF Kept
    <3>2. /\ ToSet(b[r].history \o lost) = ToSet(b[r].history) \union ToSet(lost)
          /\ ToSet(c[r].history \o gone) = ToSet(c[r].history) \union ToSet(gone)
      BY <1>3, ToSetConcat
    <3> QED BY <1>3, <3>1, <3>2
  <2>2. CASE ~Policy[r].versioned
    BY <1>1, <1>2, <1>3, <2>2 DEF Kept
  <2> QED BY <2>1, <2>2
<1>5. SameWindow(x, y)
  <2> SUFFICES ASSUME NEW q \in Regions
               PROVE  /\ x[q].open = y[q].open /\ x[q].entries = y[q].entries
                      /\ ToSet(x[q].history) = ToSet(y[q].history)
    BY DEF SameWindow
  <2>1. CASE q = r
    BY <1>1, <1>2, <1>3, <1>4, <2>1
  <2>2. CASE q # r
    BY <1>1, <1>2, <2>2 DEF SameWindow
  <2> QED BY <2>1, <2>2
<1> QED BY <1>5 DEF x, y

LEMMA SameJoining ==
  ASSUME NEW b \in Windows, NEW c \in Windows, SameWindow(b, c), NEW r \in Regions,
         NEW copies \in Seq(Entries)
  PROVE  SameWindow(Joined(b, r, copies), Joined(c, r, copies))
<1> DEFINE x == Joined(b, r, copies)
           y == Joined(c, r, copies)
<1>1. /\ x[r].open = b[r].open /\ x[r].entries = b[r].entries \o copies /\ x[r].history = b[r].history
      /\ \A q \in Regions \ {r} : x[q] = b[q]
  BY JoinedIs
<1>2. /\ y[r].open = c[r].open /\ y[r].entries = c[r].entries \o copies /\ y[r].history = c[r].history
      /\ \A q \in Regions \ {r} : y[q] = c[q]
  BY JoinedIs
<1> HIDE DEF x, y
<1>3. SameWindow(x, y)
  BY <1>1, <1>2 DEF SameWindow
<1> QED BY <1>3 DEF x, y

LEMMA SameUpserted ==
  ASSUME NEW b \in Windows, NEW c \in Windows, SameWindow(b, c), NEW r \in Regions,
         NEW e \in Entries, NEW old
  PROVE  SameWindow(Upserted(b, r, e, old), Upserted(c, r, e, old))
<1>1. PICK es \in Seq(Entries) : es = b[r].entries /\ es = c[r].entries
  BY ContentsAre DEF SameWindow
<1> DEFINE places == {i \in DOMAIN es : es[i].id = old}
           place == CHOOSE i \in places : TRUE
<1>2. CASE places = {}
  <2> DEFINE fs == Append(es, e)
             none == <<>>
  <2>1. Upserted(b, r, e, old) = Becomes(b, r, fs, none) /\ Upserted(c, r, e, old) = Becomes(c, r, fs, none)
    BY <1>1, <1>2 DEF Upserted
  <2>2. fs \in Seq(Entries) /\ none \in Seq(Entries)
    OBVIOUS
  <2> HIDE DEF fs, none
  <2>3. SameWindow(Becomes(b, r, fs, none), Becomes(c, r, fs, none))
    BY <2>2, SameBecoming
  <2> QED BY <2>1, <2>3
<1>3. CASE places # {}
  <2>1. place \in DOMAIN es
    BY <1>3
  <2> DEFINE fs == Replaced(es, place, e)
             lost == <<es[place]>>
  <2>2. Upserted(b, r, e, old) = Becomes(b, r, fs, lost) /\ Upserted(c, r, e, old) = Becomes(c, r, fs, lost)
    BY <1>1, <1>3 DEF Upserted, Replaced
  <2> HIDE DEF place
  <2>3. fs \in Seq(Entries) /\ lost \in Seq(Entries)
    BY <2>1, TokensOfUpsert, EntryFields
  <2> HIDE DEF fs, lost
  <2>4. SameWindow(Becomes(b, r, fs, lost), Becomes(c, r, fs, lost))
    BY <2>3, SameBecoming
  <2> QED BY <2>2, <2>4
<1> QED BY <1>2, <1>3

(* An event names only entries the region has.                              *)
Fits(c, ev) == ev.type \in {"evict", "promote"} => ToSet(ev.gone) \subseteq ToSet(c[ev.at].entries)

(* By id or by value, the entries an event names are the same.              *)
LEMMA NamedById ==
  ASSUME NEW es \in Seq(Entries), Distinct(es), NEW gone \in Seq(Entries), ToSet(gone) \subseteq ToSet(es),
         NEW places, places = Named(es, gone)
  PROVE  /\ \A i \in DOMAIN es : i \in places <=> es[i] \in ToSet(gone)
         /\ Only(es, places) \in Seq(Entries) /\ ToSet(Only(es, places)) = ToSet(gone)
         /\ Only(es, (DOMAIN es) \ places) = Without(es, gone)
         /\ \A k \in DOMAIN gone : \A j \in DOMAIN es : es[j].id = gone[k].id => es[j] = gone[k]
<1>1. \A k \in DOMAIN gone : \E j \in DOMAIN es : gone[k] = es[j]
  BY DEF ToSet
<1>2. \A k \in DOMAIN gone : \A j \in DOMAIN es : es[j].id = gone[k].id => es[j] = gone[k]
  BY <1>1 DEF Distinct
<1>3. \A i \in DOMAIN es : i \in places <=> es[i] \in ToSet(gone)
  <2> TAKE i \in DOMAIN es
  <2>1. i \in places <=> \E k \in DOMAIN gone : gone[k].id = es[i].id
    BY DEF Named
  <2>2. es[i] \in ToSet(gone) <=> \E k \in DOMAIN gone : gone[k] = es[i]
    BY DEF ToSet
  <2> QED BY <1>2, <2>1, <2>2
<1>4. places \in SUBSET DOMAIN es
  BY DEF Named
<1>5. {es[i] : i \in places} = ToSet(gone)
  <2>1. \A v \in ToSet(gone) : \E i \in DOMAIN es : v = es[i]
    BY DEF ToSet
  <2> QED BY <1>3, <1>4, <2>1
<1>6. Only(es, places) \in Seq(Entries) /\ ToSet(Only(es, places)) = ToSet(gone)
  BY <1>4, <1>5, OnlyThese
<1>7. (DOMAIN es) \ places = {i \in DOMAIN es : es[i] \notin ToSet(gone)}
  BY <1>3
<1>8. Only(es, (DOMAIN es) \ places) = Without(es, gone)
  BY <1>7 DEF Without
<1> QED BY <1>2, <1>3, <1>6, <1>8

(* What is in the copies the file makes.                                    *)
LEMMA RecoveredIsCarried ==
  ASSUME NEW es \in Seq(Entries), Distinct(es), NEW ev, ev.gone \in Seq(Entries),
         ToSet(ev.gone) \subseteq ToSet(es)
  PROVE  Recovered(es, ev.gone) = Carried(ev)
<1>1. PICK gone \in Seq(Entries) : gone = ev.gone
  OBVIOUS
<1>2. ToSet(gone) \subseteq ToSet(es)
  BY <1>1
<1>3. \A k \in DOMAIN gone : \A j \in DOMAIN es : es[j].id = gone[k].id => es[j] = gone[k]
  BY <1>2, NamedById
<1>4. ASSUME NEW i \in DOMAIN gone
      PROVE  (IF Origin(es, gone, i) = {} THEN gone[i].data
              ELSE es[CHOOSE j \in Origin(es, gone, i) : TRUE].data) = gone[i].data
  <2>1. CASE Origin(es, gone, i) = {}
    BY <2>1
  <2>2. CASE Origin(es, gone, i) # {}
    <3>1. (CHOOSE j \in Origin(es, gone, i) : TRUE) \in Origin(es, gone, i)
      BY <2>2
    <3>2. es[CHOOSE j \in Origin(es, gone, i) : TRUE] = gone[i]
      BY <1>3, <3>1 DEF Origin
    <3> QED BY <2>2, <3>2
  <2> QED BY <2>1, <2>2
<1>5. Recovered(es, gone) = [i \in DOMAIN gone |-> gone[i].data]
  BY <1>4 DEF Recovered
<1> QED BY <1>1, <1>5 DEF Carried

LEMMA SameApplied ==
  ASSUME NEW b \in Windows, NEW c \in Windows, SameWindow(b, c), NEW ev \in Events,
         ev.type \notin {"evict", "promote"}, NEW seq \in Nat,
         NEW x, x = Applied(b, ev, seq), NEW y, y = Applied(c, ev, seq)
  PROVE  SameWindow(x, y)
<1>r. PICK r \in Regions : r = ev.at
  BY EventsAre
<1>1. PICK es, e, old :
        /\ r = ev.at /\ es = c[r].entries /\ e = Entry(ev.id, ev.key, ev.tokens, seq, seq)
        /\ old = ev.replaced
  BY <1>r
<1>2. es = b[r].entries /\ es \in Seq(Entries) /\ c[r].open = b[r].open
  BY <1>1, ContentsAre DEF SameWindow
<1>3. /\ ev.type = "write" /\ ev.mode = "replace" => y = Becomes(c, r, <<e>>, es)
      /\ ev.type = "write" /\ ev.mode = "append" => y = Upserted(c, r, e, old)
      /\ ev.type = "read" => y = ReadAt(c, r, seq)
      /\ ev.type = "close" => y = ClosedAt(c, r)
      /\ ev.type = "purge" => y = Becomes(c, r, <<>>, es)
  BY <1>1, AppliedIs
<1>4. /\ ev.type = "write" /\ ev.mode = "replace" => x = Becomes(b, r, <<e>>, es)
      /\ ev.type = "write" /\ ev.mode = "append" => x = Upserted(b, r, e, old)
      /\ ev.type = "read" => x = ReadAt(b, r, seq)
      /\ ev.type = "close" => x = ClosedAt(b, r)
      /\ ev.type = "purge" => x = Becomes(b, r, <<>>, es)
  BY <1>1, <1>2, AppliedIs
<1>5. CASE ev.type = "write"
  <2>1. e \in Entries /\ <<e>> \in Seq(Entries)
    BY <1>1, <1>5, WriteIs
  <2>2. CASE ev.mode = "replace"
    <3> DEFINE fs == <<e>>
    <3>1. fs \in Seq(Entries) /\ x = Becomes(b, r, fs, es) /\ y = Becomes(c, r, fs, es)
      BY <1>3, <1>4, <1>5, <2>1, <2>2
    <3> HIDE DEF fs
    <3>2. SameWindow(Becomes(b, r, fs, es), Becomes(c, r, fs, es))
      BY <1>2, <3>1, SameBecoming
    <3> QED BY <3>1, <3>2
  <2>3. CASE ev.mode = "append"
    <3>1. SameWindow(Upserted(b, r, e, old), Upserted(c, r, e, old))
      BY <2>1, SameUpserted
    <3> QED BY <1>3, <1>4, <1>5, <2>3, <3>1
  <2> QED BY <1>5, <2>2, <2>3, EventsAre
<1>6. CASE ev.type = "read"
  <2>1. x[r].entries = Touched(es, seq) /\ x[r].history = b[r].history /\ \A q \in Regions \ {r} : x[q] = b[q]
    <3>1. x = ReadAt(b, r, seq)
      BY <1>4, <1>6
    <3>2. /\ x[r].entries = Touched(b[r].entries, seq) /\ x[r].history = b[r].history
          /\ \A q \in Regions \ {r} : x[q] = b[q]
      BY <3>1, ReadIs
    <3> QED BY <1>2, <3>2
  <2>2. y[r].entries = Touched(es, seq) /\ y[r].history = c[r].history /\ \A q \in Regions \ {r} : y[q] = c[q]
    BY <1>1, <1>3, <1>6, ReadIs
  <2>3. x[r].open = b[r].open /\ y[r].open = c[r].open
    <3>1. b[r] \in Contents /\ c[r] \in Contents
      BY ContentsAre
    <3> QED BY <1>3, <1>4, <1>6, <3>1 DEF ReadAt, Windows, Contents
  <2> QED BY <1>2, <2>1, <2>2, <2>3 DEF SameWindow
<1>7. CASE ev.type = "close"
  <2>1. x[r].entries = es /\ x[r].history = b[r].history /\ \A q \in Regions \ {r} : x[q] = b[q]
    BY <1>2, <1>4, <1>7, CloseIs
  <2>2. y[r].entries = es /\ y[r].history = c[r].history /\ \A q \in Regions \ {r} : y[q] = c[q]
    BY <1>1, <1>3, <1>7, CloseIs
  <2>3. x[r].open = FALSE /\ y[r].open = FALSE
    <3>1. b[r] \in Contents /\ c[r] \in Contents
      BY ContentsAre
    <3> QED BY <1>3, <1>4, <1>7, <3>1 DEF ClosedAt, Windows, Contents
  <2> SUFFICES ASSUME NEW q \in Regions
               PROVE  /\ x[q].open = y[q].open /\ x[q].entries = y[q].entries
                      /\ ToSet(x[q].history) = ToSet(y[q].history)
    BY DEF SameWindow
  <2>4. b[q].entries = c[q].entries /\ b[q].open = c[q].open /\ ToSet(b[q].history) = ToSet(c[q].history)
    BY DEF SameWindow
  <2>5. CASE q = r
    BY <2>1, <2>2, <2>3, <2>4, <2>5
  <2>6. CASE q # r
    BY <2>1, <2>2, <2>4, <2>6
  <2> QED BY <2>5, <2>6
<1>8. CASE ev.type = "purge"
  <2> DEFINE none == <<>>
  <2>1. none \in Seq(Entries) /\ x = Becomes(b, r, none, es) /\ y = Becomes(c, r, none, es)
    BY <1>3, <1>4, <1>8
  <2> HIDE DEF none
  <2>2. SameWindow(Becomes(b, r, none, es), Becomes(c, r, none, es))
    BY <1>2, <2>1, SameBecoming
  <2> QED BY <2>1, <2>2
<1> QED BY <1>5, <1>6, <1>7, <1>8, EventsAre

(* The fold keeps up with the window.                                       *)
LEMMA ReplayedFollows ==
  ASSUME NEW b \in Windows, NEW c \in Windows, SameWindow(b, c), Unique(c),
         NEW ev \in Events, Fits(c, ev), NEW seq \in Nat,
         NEW x, x = Replayed(b, ev, seq), NEW y, y = Applied(c, ev, seq)
  PROVE  x \in Windows /\ SameWindow(x, y)
<1>r. PICK r \in Regions : r = ev.at
  BY EventsAre
<1>1. PICK es, gone, places :
        r = ev.at /\ es = c[r].entries /\ gone = ev.gone /\ places = Named(es, gone)
  BY <1>r
<1>2. es = b[r].entries /\ es \in Seq(Entries) /\ Distinct(es)
  BY <1>1, ContentsAre DEF SameWindow, Unique
<1>3. /\ ev.type = "evict" => x = Becomes(b, r, Only(es, (DOMAIN es) \ places), Only(es, places))
      /\ ev.type = "promote" => x = Promoted(b, ev, Copies(ev, seq, Recovered(es, gone)), Only(es, places))
      /\ ev.type \notin {"evict", "promote"} => x = Applied(b, ev, seq)
  BY <1>1, <1>2 DEF Replayed
<1>4. CASE ev.type \notin {"evict", "promote"}
  <2>1. x = Applied(b, ev, seq)
    BY <1>3, <1>4
  <2>2. Keeps(b, x, ev)
    BY <2>1, AppliedKeeps
  <2>3. SameWindow(x, y)
    BY <1>4, <2>1, SameApplied
  <2> QED BY <2>2, <2>3 DEF Keeps, Follows
<1>5. CASE ev.type \in {"evict", "promote"}
  <2>1. gone \in Seq(Entries) /\ ToSet(gone) \subseteq ToSet(es)
    BY <1>1, <1>5, EventsAre DEF Fits
  <2>2. PICK named : named = Only(es, places)
    OBVIOUS
  <2>3. /\ named \in Seq(Entries) /\ ToSet(named) = ToSet(gone)
        /\ Only(es, (DOMAIN es) \ places) = Without(es, gone)
    <3>1. /\ Only(es, places) \in Seq(Entries) /\ ToSet(Only(es, places)) = ToSet(gone)
          /\ Only(es, (DOMAIN es) \ places) = Without(es, gone)
      <4>1. es \in Seq(Entries) /\ Distinct(es) /\ places = Named(es, gone)
        BY <1>1, <1>2
      <4> QED BY <2>1, <4>1, NamedById, SMTT(60)
    <3> QED BY <2>2, <3>1
  <2>4. CASE ev.type = "evict"
    <3>1. PICK left : left = Without(es, gone)
      OBVIOUS
    <3>2. left \in Seq(Entries)
      BY <1>2, <3>1, WithoutThese
    <3>3. x = Becomes(b, r, left, named)
      BY <1>3, <2>2, <2>3, <2>4, <3>1
    <3>4. y = Becomes(c, r, left, gone)
      <4>1. y = Becomes(c, r, Without(es, gone), gone)
        BY <1>1, <2>4 DEF Applied
      <4> QED BY <3>1, <4>1
    <3>5. Becomes(b, r, left, named) \in Windows
      BY <2>3, <3>2, BecomesIs
    <3>6. SameWindow(Becomes(b, r, left, named), Becomes(c, r, left, gone))
      BY <2>1, <2>3, <3>2, SameBecoming
    <3> QED BY <3>3, <3>4, <3>5, <3>6
  <2>5. CASE ev.type = "promote"
    <3>1. PICK copies : copies = Copies(ev, seq, Carried(ev))
      OBVIOUS
    <3>2. copies \in Seq(Entries)
      <4>1. Carried(ev) \in [DOMAIN ev.gone -> Nat]
        BY <1>1, <2>1, CarriedIs
      <4> QED BY <2>5, <3>1, <4>1, CopiesOf
    <3>3. x = Promoted(b, ev, copies, named)
      <4>1. Recovered(es, ev.gone) = Carried(ev)
        BY <1>1, <1>2, <2>1, RecoveredIsCarried
      <4> QED BY <1>1, <1>3, <2>2, <2>5, <3>1, <4>1
    <3>4. y = Promoted(c, ev, copies, gone)
      <4>1. PICK e : e = Entry(ev.id, ev.key, ev.tokens, seq, seq)
        OBVIOUS
      <4> QED BY <1>1, <2>5, <3>1, <4>1, AppliedIs
    <3>5. PICK to \in Regions : to = ev.to
      BY <2>5, EventsAre
    <3>6. PICK bb, cc : bb = Joined(b, to, copies) /\ cc = Joined(c, to, copies)
      OBVIOUS
    <3>7. bb \in Windows /\ cc \in Windows /\ SameWindow(bb, cc)
      BY <3>2, <3>6, JoinedIs, SameJoining
    <3>8. PICK fs : fs = cc[r].entries
      OBVIOUS
    <3>9. fs = bb[r].entries /\ fs \in Seq(Entries)
      BY <3>7, <3>8, ContentsAre DEF SameWindow
    <3>10. PICK left : left = Without(fs, gone)
      OBVIOUS
    <3>11. left = Without(fs, named)
      BY <2>3, <3>10 DEF Without
    <3>12. left \in Seq(Entries)
      BY <3>9, <3>10, WithoutThese
    <3>13. /\ x = IF ev.mode = "copy" THEN bb ELSE Becomes(bb, r, left, named)
           /\ y = IF ev.mode = "copy" THEN cc ELSE Becomes(cc, r, left, gone)
      BY <1>1, <3>3, <3>4, <3>5, <3>6, <3>8, <3>9, <3>10, <3>11, PromotedIs
    <3>14. Becomes(bb, r, left, named) \in Windows
      BY <2>3, <3>7, <3>12, BecomesIs
    <3>15. SameWindow(Becomes(bb, r, left, named), Becomes(cc, r, left, gone))
      BY <2>1, <2>3, <3>7, <3>12, SameBecoming
    <3> QED BY <3>7, <3>13, <3>14, <3>15
  <2> QED BY <1>5, <2>4, <2>5
<1> QED BY <1>4, <1>5

-----------------------------------------------------------------------------
(* The log and the window.                                                  *)

RegionTypeOK ==
  /\ content \in Windows /\ made \in Nat
  /\ records \in Seq(Events) /\ written \in Nat /\ failed \in BOOLEAN

Within(c, m) == \A q \in Regions : \A id \in IdsOf(c[q].entries) : id <= m

Remembering(c, log, k) ==
  \A i \in 1 .. k : Policy[Target(log[i])].versioned => NewIds(log[i]) \subseteq Remembered(c[Target(log[i])])

(* A window after the first k records of a log, with m ids given out.       *)
Sound(c, log, k, m) ==
  /\ c \in Windows /\ Unique(c) /\ Within(c, m) /\ Remembering(c, log, k)
  /\ Folded(log, k) \in Windows /\ SameWindow(Folded(log, k), c)

Budgeted(c) ==
  \A r \in Regions : Policy[r].budget # Unset => TokensOf(c[r].entries) <= Policy[r].budget

RegionInv ==
  /\ RegionTypeOK
  /\ ~failed => /\ written = Len(records) /\ Budgeted(content)
                /\ Sound(content, records, Len(records), made)

LEMMA TargetIs ==
  ASSUME NEW ev \in Events
  PROVE  Target(ev) \in Regions
BY EventsAre DEF Target

(* A record more.                                                           *)
LEMMA SoundOn ==
  ASSUME NEW c, NEW log, NEW k \in Nat, NEW m \in Nat, NEW n \in Nat, Sound(c, log, k, m),
         NEW ev \in Events, Fits(c, ev), NewIds(ev) \subseteq (m + 1) .. (m + n),
         NEW more, \A i \in 1 .. k : log[i] = more[i] /\ log[i] \in Events, more[k + 1] = ev,
         NEW d, d = Applied(c, ev, k + 1)
  PROVE  Sound(d, more, k + 1, m + n)
<1>1. PICK seq \in Nat : seq = k + 1
  OBVIOUS
<1>2. c \in Windows /\ Unique(c) /\ d = Applied(c, ev, seq)
  BY <1>1 DEF Sound
<1>3. Keeps(c, d, ev)
  BY <1>1, <1>2, AppliedKeeps
<1>4. d \in Windows
  BY <1>3 DEF Keeps, Follows
<1>5. New(c, NewIds(ev))
  <2> SUFFICES ASSUME NEW q \in Regions, NEW id \in IdsOf(c[q].entries), id \in NewIds(ev) PROVE FALSE
    BY DEF New
  <2>1. id <= m /\ id \in (m + 1) .. (m + n)
    BY DEF Sound, Within
  <2> QED BY <2>1
<1>6. Unique(d)
  BY <1>2, <1>3, <1>5 DEF Keeps
<1>7. Within(d, m + n)
  <2> SUFFICES ASSUME NEW q \in Regions, NEW id \in IdsOf(d[q].entries) PROVE id <= m + n
    BY DEF Within
  <2>1. id \in IdsOf(c[q].entries) \/ id \in (m + 1) .. (m + n)
    BY <1>3 DEF Keeps, Follows
  <2>2. CASE id \in IdsOf(c[q].entries)
    <3>1. id <= m /\ id \in Nat
      <4>1. c[q].entries \in Seq(Entries)
        BY <1>2, ContentsAre
      <4> QED BY <2>2, <4>1, EntryFields DEF IdsOf, Sound, Within
    <3> QED BY <3>1
  <2> QED BY <2>1, <2>2
<1>8. Remembering(d, more, seq)
  <2> SUFFICES ASSUME NEW i \in 1 .. seq, Policy[Target(more[i])].versioned
               PROVE  NewIds(more[i]) \subseteq Remembered(d[Target(more[i])])
    BY DEF Remembering
  <2>1. CASE i = seq
    BY <1>1, <1>3, <2>1 DEF Keeps
  <2>2. CASE i # seq
    <3>1. i \in 1 .. k
      BY <1>1, <2>2
    <3>2. PICK old \in Events : old = log[i] /\ old = more[i]
      BY <3>1
    <3>3. Target(old) \in Regions
      BY TargetIs
    <3>4. NewIds(old) \subseteq Remembered(c[Target(old)])
      BY <3>1, <3>2 DEF Sound, Remembering
    <3>5. Remembered(c[Target(old)]) \subseteq Remembered(d[Target(old)])
      BY <1>3, <3>2, <3>3 DEF Keeps, Follows
    <3> QED BY <3>2, <3>4, <3>5
  <2> QED BY <2>1, <2>2
<1>9. PICK b, x : b = Folded(log, k) /\ x = Replayed(b, ev, seq)
  OBVIOUS
<1>10. Folded(more, k + 1) = x
  <2>1. Folded(more, k + 1) = Replayed(Folded(log, k), more[k + 1], k + 1)
    BY FoldedOn
  <2> QED BY <1>1, <1>9, <2>1
<1>11. x \in Windows /\ SameWindow(x, d)
  <2>1. b \in Windows /\ SameWindow(b, c)
    BY <1>9 DEF Sound
  <2> QED BY <1>1, <1>2, <1>9, <2>1, ReplayedFollows
<1> QED BY <1>1, <1>4, <1>6, <1>7, <1>8, <1>10, <1>11 DEF Sound

(* The window after the first events of a call.                             *)
LEMMA AfterIs ==
  ASSUME RegionTypeOK, NEW evs \in Seq(Events), Len(evs) \in {1, 2}
  PROVE  LET first == Applied(content, evs[1], Len(records) + 1)
         IN  /\ After(evs, 0) = content /\ After(evs, 1) = first
             /\ After(evs, 2) = Applied(first, evs[2], Len(records) + 2)
             /\ \A k \in 0 .. Len(evs) : After(evs, k) \in Windows
<1>1. PICK first, second :
        first = Applied(content, evs[1], Len(records) + 1) /\ second = Applied(first, evs[2], Len(records) + 2)
  OBVIOUS
<1>2. After(evs, 0) = content /\ After(evs, 1) = first /\ After(evs, 2) = second
  BY <1>1 DEF After
<1>3. content \in Windows /\ Len(records) \in Nat
  BY DEF RegionTypeOK
<1>4. first \in Windows
  <2>1. PICK ev \in Events, seq \in Nat : ev = evs[1] /\ seq = Len(records) + 1
    BY <1>3
  <2>2. Keeps(content, first, ev)
    BY <1>1, <1>3, <2>1, AppliedKeeps
  <2> QED BY <2>2 DEF Keeps, Follows
<1>5. Len(evs) = 2 => second \in Windows
  <2> SUFFICES ASSUME Len(evs) = 2 PROVE second \in Windows
    OBVIOUS
  <2>1. PICK ev \in Events, seq \in Nat : ev = evs[2] /\ seq = Len(records) + 2
    <3>1. evs[2] \in Events /\ Len(records) + 2 \in Nat
      BY <1>3
    <3> QED BY <3>1
  <2>2. Keeps(first, second, ev)
    BY <1>1, <1>4, <2>1, AppliedKeeps
  <2> QED BY <2>2 DEF Keeps, Follows
<1>6. \A k \in 0 .. Len(evs) : After(evs, k) \in Windows
  <2> TAKE k \in 0 .. Len(evs)
  <2>1. k = 0 \/ k = 1 \/ (k = 2 /\ Len(evs) = 2)
    <3>1. CASE Len(evs) = 1
      BY <3>1
    <3>2. CASE Len(evs) = 2
      BY <3>2
    <3> QED BY <3>1, <3>2
  <2> QED BY <1>2, <1>3, <1>4, <1>5, <2>1
<1> QED BY <1>1, <1>2, <1>6

(* What a call may do: fresh ids go with its first event, its events name   *)
(* what the regions have, and in the end every region is within its budget. *)
Proper(evs, n) ==
  /\ Fits(content, evs[1]) /\ NewIds(evs[1]) \subseteq (made + 1) .. (made + n)
  /\ Len(evs) = 2 => Fits(After(evs, 1), evs[2]) /\ NewIds(evs[2]) = {}
  /\ Budgeted(After(evs, Len(evs)))

LEMMA CommitKeeps ==
  ASSUME RegionInv, NEW evs \in Seq(Events), Len(evs) \in {1, 2}, NEW n \in Nat, Commit(evs, n),
         ~failed => Proper(evs, n)
  PROVE  RegionInv'
<1>1. RegionTypeOK /\ Len(records) \in Nat
  BY DEF RegionInv, RegionTypeOK
<1>2. \A k \in 0 .. Len(evs) : After(evs, k) \in Windows
  BY <1>1, AfterIs
<1>3. ASSUME content' = After(evs, Len(evs)), made' = made + n, records' = records \o evs,
             written' = Len(records'), UNCHANGED failed
      PROVE  RegionInv'
  <2>1. RegionTypeOK'
    <3>1. content' \in Windows
      BY <1>2, <1>3
    <3>2. records' \in Seq(Events) /\ written' \in Nat
      BY <1>1, <1>3 DEF RegionTypeOK
    <3> QED BY <1>1, <1>3, <3>1, <3>2 DEF RegionTypeOK
  <2>2. ASSUME ~failed
        PROVE  Budgeted(content') /\ Sound(content', records', Len(records'), made')
    <3>1. PICK L \in Nat : L = Len(records)
      BY <1>1
    <3>2. PICK first, second : first = After(evs, 1) /\ second = After(evs, 2)
      OBVIOUS
    <3>3. first = Applied(content, evs[1], L + 1) /\ second = Applied(first, evs[2], L + 2)
      BY <1>1, <3>1, <3>2, AfterIs
    <3>4. /\ Sound(content, records, L, made) /\ Proper(evs, n)
          /\ made \in Nat /\ records \in Seq(Events)
      BY <2>2, <3>1 DEF RegionInv, RegionTypeOK
    <3>5. PICK more : more = records'
      OBVIOUS
    <3>6. /\ \A i \in 1 .. L : records[i] = more[i] /\ records[i] \in Events
          /\ more[L + 1] = evs[1]
          /\ Len(evs) = 2 => more[L + 2] = evs[2]
          /\ Len(more) = L + Len(evs)
      BY <1>3, <3>1, <3>4, <3>5
    <3>7. Sound(first, more, L + 1, made + n)
      <4>1. PICK ev \in Events : ev = evs[1]
        OBVIOUS
      <4>2. Fits(content, ev) /\ NewIds(ev) \subseteq (made + 1) .. (made + n)
        BY <3>4, <4>1 DEF Proper
      <4> QED BY <3>3, <3>4, <3>6, <4>1, <4>2, SoundOn
    <3>8. ASSUME Len(evs) = 2 PROVE Sound(second, more, L + 2, made + n)
      <4>1. PICK ev \in Events : ev = evs[2]
        BY <3>8
      <4>2. PICK k \in Nat, m \in Nat : k = L + 1 /\ m = made + n
        BY <3>4
      <4>3. Fits(first, ev) /\ NewIds(ev) = {}
        BY <3>2, <3>4, <3>8, <4>1 DEF Proper
      <4>4. NewIds(ev) \subseteq (m + 1) .. (m + 0)
        BY <4>3
      <4>5. \A i \in 1 .. k : more[i] = more[i] /\ more[i] \in Events
        <5>1. \A i \in 1 .. k : i \in 1 .. L \/ i = L + 1
          BY <4>2
        <5> QED BY <3>6, <5>1
      <4>6. second = Applied(first, ev, k + 1) /\ more[k + 1] = ev
        BY <3>3, <3>6, <3>8, <4>1, <4>2
      <4>7. Sound(first, more, k, m)
        BY <3>7, <4>2
      <4>8. Sound(second, more, k + 1, m + 0)
        BY <4>3, <4>4, <4>5, <4>6, <4>7, SoundOn
      <4> QED BY <4>2, <4>8
    <3>9. Sound(content', more, Len(more), made + n)
      BY <1>3, <3>2, <3>6, <3>7, <3>8
    <3>10. Budgeted(content')
      BY <1>3, <3>4 DEF Proper
    <3> QED BY <1>3, <3>5, <3>9, <3>10
  <2>3. RegionTypeOK' /\ (~failed' => written' = Len(records') /\ Budgeted(content')
                                      /\ Sound(content', records', Len(records'), made'))
    BY <1>3, <2>1, <2>2
  <2> QED BY <2>3 DEF RegionInv, Budgeted, Sound, Unique, Within, Remembering, Folded, RegionTypeOK
<1>4. ASSUME NEW k \in DOMAIN evs,
             content' = After(evs, k - 1), made' = IF k = 1 THEN made ELSE made + n,
             records' = records \o SubSeq(evs, 1, k),
             written' \in {IF k = 1 THEN written ELSE Len(records) + k - 1, Len(records) + k},
             failed' = TRUE
      PROVE  RegionInv'
  <2>1. k \in 1 .. Len(evs) /\ k - 1 \in 0 .. Len(evs) /\ k \in Nat
    OBVIOUS
  <2>2. content' \in Windows
    BY <1>2, <1>4, <2>1
  <2>3. SubSeq(evs, 1, k) \in Seq(Events)
    BY <2>1
  <2>4. records' \in Seq(Events) /\ made' \in Nat /\ written' \in Nat
    BY <1>1, <1>4, <2>1, <2>3 DEF RegionTypeOK
  <2> QED BY <1>4, <2>2, <2>4 DEF RegionInv, RegionTypeOK
<1> QED BY <1>3, <1>4 DEF Commit

LEMMA PolicyIs ==
  ASSUME NEW r \in Regions
  PROVE  /\ Policy[r].budget \in Nat \union {Unset} /\ Policy[r].versioned \in BOOLEAN
         /\ Policy[r].eviction \in {"lru", "fifo", "reject"}
BY PolicyAssumption

LEMMA BudgetedOn ==
  ASSUME NEW c \in Windows, NEW d \in Windows, Budgeted(c), \A q \in Regions : NoFuller(c, d, q)
  PROVE  Budgeted(d)
<1> SUFFICES ASSUME NEW r \in Regions, Policy[r].budget # Unset
             PROVE  TokensOf(d[r].entries) <= Policy[r].budget
  BY DEF Budgeted
<1>1. Policy[r].budget \in Nat
  BY PolicyIs
<1>2. c[r].entries \in Seq(Entries) /\ d[r].entries \in Seq(Entries)
  BY ContentsAre
<1>3. TokensOf(c[r].entries) \in Nat /\ TokensOf(d[r].entries) \in Nat
  BY <1>2, TokensOfType
<1>4. TokensOf(d[r].entries) <= TokensOf(c[r].entries) /\ TokensOf(c[r].entries) <= Policy[r].budget
  BY DEF NoFuller, Budgeted
<1> QED BY <1>1, <1>3, <1>4

(* A call of one event that adds nothing.                                   *)
LEMMA AddsNothing ==
  ASSUME RegionInv, ~failed, NEW ev \in Events, ev.type \in {"evict", "read", "close", "purge"},
         NEW c \in Windows, Budgeted(c), NEW seq \in Nat, NEW d, d = Applied(c, ev, seq)
  PROVE  d \in Windows /\ Budgeted(d) /\ NewIds(ev) = {}
<1>1. Keeps(c, d, ev) /\ Fills(c, d, ev)
  BY AppliedKeeps, AppliedFills
<1>2. d \in Windows
  BY <1>1 DEF Keeps, Follows
<1>3. \A q \in Regions : NoFuller(c, d, q)
  BY <1>1 DEF Fills
<1> QED BY <1>2, <1>3, BudgetedOn, NewIdsAre

LEMMA ReadKeeps ==
  ASSUME RegionInv, NEW r \in Regions, Read(r)
  PROVE  RegionInv'
<1>1. PICK ev, evs : ev = [type |-> "read", at |-> r] /\ evs = <<ev>>
  OBVIOUS
<1>2. ev \in Events /\ ev.type = "read"
  BY <1>1 DEF Events
<1>3. evs \in Seq(Events) /\ Len(evs) = 1 /\ evs[1] = ev
  BY <1>1, <1>2
<1>4. Commit(evs, 0)
  BY <1>1 DEF Read
<1>5. ASSUME ~failed PROVE Proper(evs, 0)
  <2>1. RegionTypeOK /\ content \in Windows /\ Budgeted(content) /\ Len(records) + 1 \in Nat
    BY <1>5 DEF RegionInv, RegionTypeOK
  <2>2. After(evs, 1) = Applied(content, ev, Len(records) + 1)
    BY <1>3, <2>1, AfterIs
  <2>3. PICK seq, d : seq \in Nat /\ seq = Len(records) + 1 /\ d = Applied(content, ev, seq)
    BY <2>1
  <2>4. Budgeted(d) /\ NewIds(ev) = {}
    BY <1>2, <1>5, <2>1, <2>3, AddsNothing
  <2> QED BY <1>2, <1>3, <2>2, <2>3, <2>4 DEF Proper, Fits
<1> QED BY <1>3, <1>4, <1>5, CommitKeeps

LEMMA ResetKeeps ==
  ASSUME RegionInv, NEW r \in Regions, Reset(r)
  PROVE  RegionInv'
<1>1. PICK ev, evs : ev = [type |-> "evict", at |-> r, gone |-> content[r].entries] /\ evs = <<ev>>
  OBVIOUS
<1>2. content \in Windows /\ content[r].entries \in Seq(Entries)
  BY ContentsAre DEF RegionInv, RegionTypeOK
<1>3. ev \in Events /\ ev.type = "evict"
  BY <1>1, <1>2 DEF Events
<1>4. evs \in Seq(Events) /\ Len(evs) = 1 /\ evs[1] = ev
  BY <1>1, <1>3
<1>5. Commit(evs, 0)
  BY <1>1 DEF Reset
<1>6. Fits(content, ev)
  BY <1>1 DEF Fits
<1>7. ASSUME ~failed PROVE Proper(evs, 0)
  <2>1. RegionTypeOK /\ Budgeted(content) /\ Len(records) + 1 \in Nat
    BY <1>7 DEF RegionInv, RegionTypeOK
  <2>2. After(evs, 1) = Applied(content, ev, Len(records) + 1)
    BY <1>4, <2>1, AfterIs
  <2>3. PICK seq, d : seq \in Nat /\ seq = Len(records) + 1 /\ d = Applied(content, ev, seq)
    BY <2>1
  <2>4. Budgeted(d) /\ NewIds(ev) = {}
    BY <1>2, <1>3, <1>7, <2>1, <2>3, AddsNothing
  <2> QED BY <1>4, <1>6, <2>2, <2>3, <2>4 DEF Proper
<1> QED BY <1>4, <1>5, <1>7, CommitKeeps

LEMMA CloseKeeps ==
  ASSUME RegionInv, NEW r \in Regions, Close(r)
  PROVE  RegionInv'
<1>1. PICK closing, purging : closing = [type |-> "close", at |-> r] /\ purging = [type |-> "purge", at |-> r]
  OBVIOUS
<1>2. closing \in Events /\ closing.type = "close" /\ purging \in Events /\ purging.type = "purge"
  BY <1>1 DEF Events
<1>3. PICK evs : evs = IF Policy[r].purge THEN <<closing, purging>> ELSE <<closing>>
  OBVIOUS
<1>4. /\ evs \in Seq(Events) /\ Len(evs) \in {1, 2} /\ evs[1] = closing
      /\ Len(evs) = 2 => evs[2] = purging
  <2>1. CASE Policy[r].purge
    <3>1. evs = <<closing, purging>>
      BY <1>3, <2>1
    <3> QED BY <1>2, <3>1
  <2>2. CASE ~Policy[r].purge
    <3>1. evs = <<closing>>
      BY <1>3, <2>2
    <3> QED BY <1>2, <3>1
  <2> QED BY <2>1, <2>2
<1>5. Commit(evs, 0)
  BY <1>1, <1>3 DEF Close
<1>6. ASSUME ~failed PROVE Proper(evs, 0)
  <2>1. RegionTypeOK /\ content \in Windows /\ Budgeted(content) /\ Len(records) \in Nat
    BY <1>6 DEF RegionInv, RegionTypeOK
  <2>2. PICK first, second : first = After(evs, 1) /\ second = After(evs, 2)
    OBVIOUS
  <2>3. PICK one \in Nat, two \in Nat : one = Len(records) + 1 /\ two = Len(records) + 2
    BY <2>1
  <2>4. /\ first = Applied(content, closing, one)
        /\ Len(evs) = 2 => second = Applied(first, purging, two)
    BY <1>4, <2>1, <2>2, <2>3, AfterIs
  <2>5. first \in Windows /\ Budgeted(first) /\ NewIds(closing) = {}
    BY <1>2, <1>6, <2>1, <2>4, AddsNothing
  <2>6. Len(evs) = 2 => Budgeted(second) /\ NewIds(purging) = {}
    BY <1>2, <1>6, <2>4, <2>5, AddsNothing
  <2>7. Budgeted(After(evs, Len(evs)))
    BY <1>4, <2>2, <2>5, <2>6
  <2>8. Fits(content, closing) /\ Fits(first, purging)
    BY <1>2 DEF Fits
  <2> QED BY <1>4, <2>2, <2>5, <2>6, <2>7, <2>8 DEF Proper
<1> QED BY <1>4, <1>5, <1>6, CommitKeeps

(* A write or a promotion, and the eviction that makes room for it.         *)
LEMMA ThenEvictIsProper ==
  ASSUME RegionTypeOK, NEW ev \in Events, ev.type \in {"write", "promote"}, NEW r \in Regions, r = Target(ev),
         NEW n \in Nat, NEW evs, evs = ThenEvict(ev, r),
         NEW first, first = Applied(content, ev, Len(records) + 1)
  PROVE  /\ evs \in Seq(Events) /\ Len(evs) \in {1, 2} /\ evs[1] = ev
         /\ /\ RegionInv /\ ~failed /\ Fits(content, ev) /\ NewIds(ev) \subseteq (made + 1) .. (made + n)
            /\ Policy[r].budget # Unset /\ Policy[r].eviction = "reject"
                 => TokensOf(first[r].entries) <= Policy[r].budget
            => Proper(evs, n)
<1>s. PICK seq \in Nat, two \in Nat : seq = Len(records) + 1 /\ two = Len(records) + 2
  BY DEF RegionTypeOK
<1>1. PICK es, budget :
        /\ seq = Len(records) + 1 /\ two = Len(records) + 2 /\ es = first[r].entries /\ budget = Policy[r].budget
  BY <1>s
<1>2. content \in Windows
  BY DEF RegionTypeOK
<1>3. Keeps(content, first, ev) /\ Fills(content, first, ev)
  BY <1>1, <1>2, AppliedKeeps, AppliedFills
<1>4. first \in Windows /\ es \in Seq(Entries)
  BY <1>1, <1>3, ContentsAre DEF Keeps, Follows
<1>5. TokensOf(es) \in Nat /\ budget \in Nat \union {Unset}
  BY <1>1, <1>4, TokensOfType, PolicyIs
<1>6. \A q \in Regions \ {r} : NoFuller(content, first, q)
  BY <1>3 DEF Fills
<1>7. ASSUME Budgeted(content), NEW q \in Regions, q # r, Policy[q].budget # Unset
      PROVE  TokensOf(first[q].entries) <= Policy[q].budget
  <2>1. Policy[q].budget \in Nat
    BY <1>7, PolicyIs
  <2>2. content[q].entries \in Seq(Entries) /\ first[q].entries \in Seq(Entries)
    BY <1>2, <1>4, ContentsAre
  <2>3. TokensOf(content[q].entries) \in Nat /\ TokensOf(first[q].entries) \in Nat
    BY <2>2, TokensOfType
  <2>4. /\ TokensOf(first[q].entries) <= TokensOf(content[q].entries)
        /\ TokensOf(content[q].entries) <= Policy[q].budget
    BY <1>6, <1>7 DEF NoFuller, Budgeted
  <2> QED BY <2>1, <2>3, <2>4
<1>8. CASE budget = Unset \/ Policy[r].eviction = "reject" \/ TokensOf(es) <= budget
  <2>1. evs = <<ev>>
    BY <1>1, <1>8 DEF ThenEvict
  <2>2. evs \in Seq(Events) /\ Len(evs) = 1 /\ evs[1] = ev
    BY <2>1
  <2>3. After(evs, 1) = first
    BY <2>2, AfterIs
  <2>4. ASSUME RegionInv, ~failed, Fits(content, ev), NewIds(ev) \subseteq (made + 1) .. (made + n),
               budget # Unset /\ Policy[r].eviction = "reject" => TokensOf(es) <= budget
        PROVE  Proper(evs, n)
    <3>1. Budgeted(content)
      BY <2>4 DEF RegionInv
    <3>2. Budgeted(first)
      BY <1>1, <1>7, <1>8, <2>4, <3>1 DEF Budgeted
    <3> QED BY <2>2, <2>3, <2>4, <3>2 DEF Proper
  <2> QED BY <1>1, <2>2, <2>4
<1>9. CASE ~(budget = Unset \/ Policy[r].eviction = "reject" \/ TokensOf(es) <= budget)
  <2>1. PICK gone, evict : gone = Victims(r, es) /\ evict = [type |-> "evict", at |-> r, gone |-> gone]
    OBVIOUS
  <2>2. evs = <<ev, evict>>
    BY <1>1, <1>9, <2>1 DEF ThenEvict
  <2>3. /\ gone \in Seq(Entries) /\ ToSet(gone) \subseteq ToSet(es)
        /\ TokensOf(Without(es, gone)) <= budget
    BY <1>1, <1>4, <1>5, <1>9, <2>1, VictimsMakeRoom
  <2>4. evict \in Events /\ evict.type = "evict" /\ evict.at = r /\ evict.gone = gone
    BY <2>1, <2>3 DEF Events
  <2>5. evs \in Seq(Events) /\ Len(evs) = 2 /\ evs[1] = ev /\ evs[2] = evict
    BY <2>2, <2>4
  <2>6. PICK second : second = Applied(first, evict, two)
    OBVIOUS
  <2>7. After(evs, 1) = first /\ After(evs, 2) = second
    BY <1>1, <2>5, <2>6, AfterIs
  <2>8. Fits(first, evict) /\ NewIds(evict) = {}
    BY <1>1, <2>3, <2>4, NewIdsAre DEF Fits
  <2>9. Keeps(first, second, evict) /\ Fills(first, second, evict)
    BY <1>4, <2>4, <2>6, AppliedKeeps, AppliedFills
  <2>10. second \in Windows
    BY <2>9 DEF Keeps, Follows
  <2>11. second[r].entries = Without(es, gone)
    <3>1. second = Becomes(first, r, Without(es, gone), gone)
      BY <1>1, <2>4, <2>6 DEF Applied
    <3>2. PICK left : left = Without(es, gone)
      OBVIOUS
    <3>3. left \in Seq(Entries)
      BY <1>4, <3>2, WithoutThese
    <3>4. Becomes(first, r, left, gone)[r].entries = left
      BY <1>4, <2>3, <3>3, BecomesIs
    <3> QED BY <3>1, <3>2, <3>4
  <2>12. \A q \in Regions \ {r} : NoFuller(first, second, q)
    BY <2>4, <2>9 DEF Fills, Target
  <2>13. ASSUME RegionInv, ~failed, Fits(content, ev), NewIds(ev) \subseteq (made + 1) .. (made + n)
         PROVE  Proper(evs, n)
    <3>1. Budgeted(content)
      BY <2>13 DEF RegionInv
    <3>2. ASSUME NEW q \in Regions, q # r, Policy[q].budget # Unset
          PROVE  TokensOf(second[q].entries) <= Policy[q].budget
      <4>1. Policy[q].budget \in Nat
        BY <3>2, PolicyIs
      <4>2. first[q].entries \in Seq(Entries) /\ second[q].entries \in Seq(Entries)
        BY <1>4, <2>10, ContentsAre
      <4>3. TokensOf(first[q].entries) \in Nat /\ TokensOf(second[q].entries) \in Nat
        BY <4>2, TokensOfType
      <4>4. /\ TokensOf(second[q].entries) <= TokensOf(first[q].entries)
            /\ TokensOf(first[q].entries) <= Policy[q].budget
        BY <1>7, <2>12, <3>1, <3>2 DEF NoFuller
      <4> QED BY <4>1, <4>3, <4>4
    <3>3. Budgeted(second)
      BY <1>1, <2>3, <2>11, <3>2 DEF Budgeted
    <3> QED BY <2>5, <2>7, <2>8, <2>13, <3>3 DEF Proper
  <2> QED BY <2>5, <2>13
<1> QED BY <1>8, <1>9

LEMMA WriteKeeps ==
  ASSUME RegionInv, NEW r \in Regions, NEW key \in Keys \union {Unset}, NEW n \in Sizes,
         NEW mode \in {"replace", "append"}, Write(r, key, n, mode)
  PROVE  RegionInv'
<1> DEFINE es == content[r].entries
           slots == IF key = Unset \/ mode = "replace" THEN {} ELSE {i \in DOMAIN es : es[i].key = key}
           slot == CHOOSE i \in slots : \A j \in slots : i <= j
           base == IF mode = "replace" THEN 0
                   ELSE TokensOf(es) - (IF slots = {} THEN 0 ELSE es[slot].tokens)
           replaced == IF slots = {} THEN Unset ELSE es[slot].id
           ev == [type |-> "write", at |-> r, mode |-> mode, id |-> made + 1, key |-> key,
                  tokens |-> n, replaced |-> replaced]
<1>1. MayHold(r, base + n) /\ Commit(ThenEvict(ev, r), 1)
  BY DEF Write
<1>2. es = content[r].entries
  OBVIOUS
<1>3. /\ RegionTypeOK /\ content \in Windows /\ es \in Seq(Entries)
      /\ n \in Nat /\ made \in Nat /\ Len(records) \in Nat
  BY <1>2, ContentsAre, PolicyAssumption DEF RegionInv, RegionTypeOK
<1> HIDE DEF es
<1>4. slots # {} => slot \in slots
  <2> SUFFICES ASSUME slots # {} PROVE slot \in slots
    OBVIOUS
  <2>1. slots \in SUBSET Nat
    BY <1>3
  <2>2. \E i \in slots : \A j \in slots : i <= j
    <3> HIDE DEF slots
    <3> QED BY <2>1, LeastNatural
  <2> HIDE DEF slots
  <2> QED BY <2>2
<1>5. slots \subseteq DOMAIN es /\ (mode = "replace" => slots = {})
  OBVIOUS
<1> HIDE DEF slot, slots
<1>6. replaced \in Nat \union {Unset}
  <2>1. slots # {} => es[slot].id \in Nat
    BY <1>3, <1>4, <1>5, EntryFields
  <2> QED BY <2>1
<1>7. PICK old, total : old = replaced /\ total = base + n
  OBVIOUS
<1>8. ev \in Events /\ ev.type = "write" /\ ev.mode = mode /\ ev.id = made + 1 /\ ev.tokens = n
      /\ ev.replaced = old /\ ev.at = r
  <2> HIDE DEF replaced
  <2>1. made + 1 \in Nat
    BY <1>3
  <2> QED BY <1>3, <1>6, <1>7, <2>1 DEF Events
<1>9. MayHold(r, total) /\ Commit(ThenEvict(ev, r), 1)
  BY <1>1, <1>7
<1>10. PICK event, first, evs :
         event \in Events /\ event = ev /\ first = Applied(content, event, Len(records) + 1) /\ evs = ThenEvict(event, r)
  BY <1>8
<1>11. Target(event) = r /\ NewIds(event) = {made + 1}
  BY <1>8, <1>10, NewIdsAre
<1>12. ASSUME ~failed PROVE TokensOf(first[r].entries) = total
  <2>1. Distinct(es)
    BY <1>2, <1>12 DEF RegionInv, Sound, Unique
  <2>2. PICK seq \in Nat : seq = Len(records) + 1
    BY <1>3
  <2>3. Fills(content, first, event)
    BY <1>3, <1>10, <2>2, AppliedFills
  <2>4. TokensOf(es) \in Nat
    BY <1>3, TokensOfType
  <2>5. CASE mode = "replace"
    <3>1. TokensOf(first[r].entries) = n
      BY <1>8, <1>10, <1>11, <2>3, <2>5 DEF Fills
    <3>2. base = 0
      BY <2>5
    <3> QED BY <1>3, <1>7, <3>1, <3>2
  <2>6. CASE mode = "append"
    <3>1. \/ (\A i \in DOMAIN es : es[i].id # old) /\ TokensOf(first[r].entries) = TokensOf(es) + n
          \/ \E p \in DOMAIN es : es[p].id = old /\ TokensOf(first[r].entries) = TokensOf(es) - es[p].tokens + n
      <4>1. event.type = "write" /\ event.mode = "append" /\ event.replaced = old /\ event.tokens = n
        BY <1>8, <1>10, <2>6
      <4> QED BY <1>2, <1>11, <2>3, <4>1 DEF Fills
    <3>2. CASE slots = {}
      <4>1. old = Unset /\ \A i \in DOMAIN es : es[i].id \in Nat
        BY <1>3, <1>7, <3>2, EntryFields
      <4>2. base = TokensOf(es)
        BY <2>4, <2>6, <3>2
      <4> QED BY <1>7, <3>1, <4>1, <4>2, PolicyAssumption
    <3>3. CASE slots # {}
      <4>1. old = es[slot].id /\ slot \in DOMAIN es
        BY <1>4, <1>5, <1>7, <3>3
      <4>2. TokensOf(first[r].entries) = TokensOf(es) - es[slot].tokens + n
        BY <2>1, <3>1, <4>1 DEF Distinct
      <4>3. base = TokensOf(es) - es[slot].tokens /\ es[slot].tokens \in Nat
        BY <1>3, <2>6, <3>3, <4>1, EntryFields
      <4> QED BY <1>3, <1>7, <2>4, <4>2, <4>3
    <3> QED BY <3>2, <3>3
  <2> QED BY <2>5, <2>6
<1>13. evs \in Seq(Events) /\ Len(evs) \in {1, 2}
  BY <1>3, <1>8, <1>10, <1>11, ThenEvictIsProper
<1>14. ASSUME ~failed PROVE Proper(evs, 1)
  <2>1. Fits(content, event)
    BY <1>8, <1>10 DEF Fits
  <2>2. NewIds(event) \subseteq (made + 1) .. (made + 1)
    BY <1>3, <1>11
  <2>3. Policy[r].budget # Unset /\ Policy[r].eviction = "reject"
          => TokensOf(first[r].entries) <= Policy[r].budget
    BY <1>9, <1>12, <1>14 DEF MayHold
  <2>4. 1 \in Nat /\ event.type \in {"write", "promote"}
    BY <1>8, <1>10
  <2> QED BY <1>3, <1>10, <1>11, <1>14, <2>1, <2>2, <2>3, <2>4, ThenEvictIsProper
<1>15. Commit(evs, 1)
  BY <1>9, <1>10
<1> QED BY <1>13, <1>14, <1>15, CommitKeeps

LEMMA PromoteKeeps ==
  ASSUME RegionInv, NEW from \in Regions, NEW to \in Regions, NEW mode \in {"move", "copy"},
         NEW keys, Promote(from, to, mode, keys)
  PROVE  RegionInv'
<1>1. PICK es : es = content[from].entries
  OBVIOUS
<1>2. PICK chosen : chosen = Only(es, {i \in DOMAIN es : es[i].key \in keys})
  OBVIOUS
<1> DEFINE ev == [type |-> "promote", at |-> from, to |-> to, mode |-> mode, id |-> made + 1, gone |-> chosen]
<1>3. /\ chosen # <<>>
      /\ MayHold(to, TokensOf(content[to].entries) + TokensOf(chosen))
      /\ Commit(ThenEvict(ev, to), Len(chosen))
  BY <1>1, <1>2 DEF Promote
<1>4. /\ RegionTypeOK /\ content \in Windows /\ es \in Seq(Entries)
      /\ made \in Nat /\ Len(records) \in Nat
  BY <1>1, ContentsAre DEF RegionInv, RegionTypeOK
<1>5. chosen \in Seq(Entries) /\ ToSet(chosen) \subseteq ToSet(es)
  <2>1. PICK places \in SUBSET DOMAIN es : places = {i \in DOMAIN es : es[i].key \in keys}
    OBVIOUS
  <2>2. chosen \in Seq(Entries) /\ ToSet(chosen) = {es[i] : i \in places}
    BY <1>2, <1>4, <2>1, OnlyThese
  <2> QED BY <2>2 DEF ToSet
<1>6. /\ ev \in Events /\ ev.type = "promote" /\ ev.at = from /\ ev.to = to /\ ev.mode = mode
      /\ ev.id = made + 1 /\ ev.gone = chosen
  <2>1. made + 1 \in Nat
    BY <1>4
  <2> QED BY <1>3, <1>5, <2>1 DEF Events
<1>7. PICK event, first, evs :
        event \in Events /\ event = ev /\ first = Applied(content, event, Len(records) + 1) /\ evs = ThenEvict(event, to)
  BY <1>6
<1>8. PICK n \in Nat : n = Len(chosen)
  BY <1>5
<1>9. Target(event) = to
  BY <1>6, <1>7, NewIdsAre
<1>10. NewIds(event) \subseteq (made + 1) .. (made + n)
  <2>1. NewIds(event) = {made + 1 + i - 1 : i \in DOMAIN chosen}
    BY <1>6, <1>7 DEF NewIds
  <2>2. DOMAIN chosen = 1 .. n
    BY <1>5, <1>8
  <2> QED BY <1>4, <2>1, <2>2
<1>11. evs \in Seq(Events) /\ Len(evs) \in {1, 2}
  BY <1>4, <1>6, <1>7, <1>8, <1>9, ThenEvictIsProper
<1>12. ASSUME ~failed PROVE Proper(evs, n)
  <2>1. Fits(content, event)
    BY <1>1, <1>5, <1>6, <1>7 DEF Fits
  <2>2. TokensOf(first[to].entries) <= TokensOf(content[to].entries) + TokensOf(chosen)
    <3>1. PICK seq \in Nat : seq = Len(records) + 1
      BY <1>4
    <3>2. Fills(content, first, event)
      BY <1>4, <1>7, <3>1, AppliedFills
    <3> QED BY <1>6, <1>7, <1>9, <3>2 DEF Fills
  <2>3. first[to].entries \in Seq(Entries)
    <3>1. PICK seq \in Nat : seq = Len(records) + 1
      BY <1>4
    <3>2. Keeps(content, first, event)
      BY <1>4, <1>7, <3>1, AppliedKeeps
    <3> QED BY <3>2, ContentsAre DEF Keeps, Follows
  <2>4. /\ TokensOf(first[to].entries) \in Nat /\ TokensOf(content[to].entries) \in Nat
        /\ TokensOf(chosen) \in Nat /\ Policy[to].budget \in Nat \union {Unset}
    <3>1. content[to].entries \in Seq(Entries)
      BY <1>4, ContentsAre
    <3> QED BY <1>5, <2>3, <3>1, TokensOfType, PolicyIs
  <2>5. Policy[to].budget # Unset /\ Policy[to].eviction = "reject"
          => TokensOf(first[to].entries) <= Policy[to].budget
    BY <1>3, <2>2, <2>4 DEF MayHold
  <2>6. event.type \in {"write", "promote"}
    BY <1>6, <1>7
  <2> QED BY <1>4, <1>7, <1>9, <1>10, <1>12, <2>1, <2>5, <2>6, ThenEvictIsProper
<1>13. Commit(evs, n)
  BY <1>3, <1>7, <1>8
<1> QED BY <1>11, <1>12, <1>13, CommitKeeps

-----------------------------------------------------------------------------
LEMMA RegionStart == RegionInit => RegionInv
<1> SUFFICES ASSUME RegionInit PROVE RegionInv
  OBVIOUS
<1>1. PICK start : start = [r \in Regions |-> Nothing]
  OBVIOUS
<1>2. content = start /\ made = 0 /\ records = <<>> /\ written = 0 /\ failed = FALSE
  BY <1>1 DEF RegionInit
<1>3. \A r \in Regions : start[r] = Nothing
  BY <1>1
<1>4. start \in Windows
  BY <1>1 DEF Windows, Contents, Nothing
<1>5. RegionTypeOK
  <2>1. records \in Seq(Events)
    BY <1>2
  <2>2. content \in Windows /\ made \in Nat /\ written \in Nat /\ failed \in BOOLEAN
    BY <1>2, <1>4
  <2> QED BY <2>1, <2>2 DEF RegionTypeOK
<1>6. \A r \in Regions : start[r].entries = <<>>
  BY <1>3 DEF Nothing
<1>7. Budgeted(start)
  <2>1. TokensOf(<<>>) = 0
    <3>1. DOMAIN <<>> = {}
      OBVIOUS
    <3> QED BY <3>1, TokensOfNone DEF TokensOf
  <2>2. \A r \in Regions : Policy[r].budget # Unset => 0 <= Policy[r].budget
    BY PolicyIs
  <2> QED BY <1>6, <2>1, <2>2 DEF Budgeted
<1>8. Sound(start, records, 0, 0)
  <2>1. Unique(start) /\ Within(start, 0)
    BY <1>6, IdsOfNone DEF Unique, Within
  <2>2. Remembering(start, records, 0)
    BY DEF Remembering
  <2>3. Folded(records, 0) = start
    BY <1>1, FoldedStarts
  <2>4. SameWindow(start, start)
    BY DEF SameWindow
  <2> QED BY <1>4, <2>1, <2>2, <2>3, <2>4 DEF Sound
<1> QED BY <1>2, <1>5, <1>7, <1>8 DEF RegionInv

LEMMA RegionStep == RegionInv /\ [RegionNext]_regionVars => RegionInv'
<1> SUFFICES ASSUME RegionInv, [RegionNext]_regionVars PROVE RegionInv'
  OBVIOUS
<1>1. CASE RegionNext
  <2>1. ASSUME NEW r \in Regions, Read(r) PROVE RegionInv'
    BY <2>1, ReadKeeps
  <2>2. ASSUME NEW r \in Regions, Reset(r) PROVE RegionInv'
    BY <2>2, ResetKeeps
  <2>3. ASSUME NEW r \in Regions, Close(r) PROVE RegionInv'
    BY <2>3, CloseKeeps
  <2>4. ASSUME NEW r \in Regions, NEW n \in Sizes, Write(r, Unset, n, "replace") PROVE RegionInv'
    BY <2>4, WriteKeeps
  <2>5. ASSUME NEW r \in Regions, NEW n \in Sizes, NEW k \in Keys \union {Unset}, Write(r, k, n, "append")
        PROVE  RegionInv'
    BY <2>5, WriteKeeps
  <2>6. ASSUME NEW f \in Regions, NEW t \in Regions, NEW mode \in {"move", "copy"},
               NEW keys \in {Keys, Keys \union {Unset}}, Promote(f, t, mode, keys)
        PROVE  RegionInv'
    BY <2>6, PromoteKeeps
  <2> QED BY <1>1, <2>1, <2>2, <2>3, <2>4, <2>5, <2>6 DEF RegionNext, CallsOn
<1>2. CASE UNCHANGED regionVars
  BY <1>2 DEF regionVars, RegionInv, RegionTypeOK, Budgeted, Sound, Unique, Within, Remembering
<1> QED BY <1>1, <1>2

(* Everything the calls build is of its type, also after an emit that       *)
(* raised.                                                                  *)
THEOREM RegionTypes == RegionSpec => []RegionTypeOK
<1>1. RegionInv => RegionTypeOK
  BY DEF RegionInv
<1> QED BY <1>1, RegionStart, RegionStep, PTL DEF RegionSpec

(* As long as no emit raised, replaying the file gives the window (replay,  *)
(* _commit).                                                                *)
THEOREM FileReplaysToWindow == RegionSpec => []ReplayIsLiveUntilAFailure
<1>1. RegionInv => ReplayIsLiveUntilAFailure
  BY DEF RegionInv, ReplayIsLiveUntilAFailure, ReplayIsLive, Sound, FromFile
<1> QED BY <1>1, RegionStart, RegionStep, PTL DEF RegionSpec

(* No call leaves a region over its budget (write, promote,                 *)
(* _enforce_budget).                                                        *)
THEOREM BudgetsHold == RegionSpec => []WithinBudget
<1>1. RegionInv => WithinBudget
  BY DEF RegionInv, WithinBudget, Budgeted
<1> QED BY <1>1, RegionStart, RegionStep, PTL DEF RegionSpec

(* What was put into a versioned region is among its entries or in its      *)
(* history (write, promote, evict).                                         *)
THEOREM VersionedForgetsNothing == RegionSpec => []NothingForgotten
<1>1. RegionInv => NothingForgotten
  <2> SUFFICES ASSUME RegionInv, ~failed, NEW i \in DOMAIN records,
                      records[i].type \in {"write", "promote"}, NEW at,
                      at = IF records[i].type = "promote" THEN records[i].to ELSE records[i].at,
                      Policy[at].versioned
               PROVE  \E e \in ToSet(content[at].entries \o content[at].history) : e.id = records[i].id
    BY DEF NothingForgotten
  <2>1. PICK ev \in Events : ev = records[i]
    BY DEF RegionInv, RegionTypeOK
  <2>2. at = Target(ev) /\ at \in Regions
    BY <2>1, TargetIs DEF Target
  <2>3. NewIds(ev) \subseteq Remembered(content[at])
    <3>1. i \in 1 .. Len(records)
      BY DEF RegionInv, RegionTypeOK
    <3> QED BY <2>1, <2>2, <3>1 DEF RegionInv, Sound, Remembering
  <2>4. ev.id \in NewIds(ev)
    <3>1. CASE ev.type = "write"
      BY <3>1, NewIdsAre
    <3>2. CASE ev.type = "promote"
      <4>1. ev.gone \in Seq(Entries) /\ ev.gone # <<>> /\ ev.id \in Nat
        BY <3>2, EventsAre
      <4>2. 1 \in DOMAIN ev.gone
        BY <4>1
      <4>3. ev.id = ev.id + 1 - 1
        BY <4>1
      <4> QED BY <3>2, <4>2, <4>3 DEF NewIds
    <3> QED BY <2>1, <3>1, <3>2
  <2>5. content[at].entries \in Seq(Entries) /\ content[at].history \in Seq(Entries)
    BY <2>2, ContentsAre DEF RegionInv, RegionTypeOK
  <2>6. ToSet(content[at].entries \o content[at].history)
          = ToSet(content[at].entries) \union ToSet(content[at].history)
    BY <2>5, ToSetConcat
  <2>7. \A es : \A id \in IdsOf(es) : \E e \in ToSet(es) : e.id = id
    BY DEF IdsOf, ToSet
  <2>8. ev.id \in IdsOf(content[at].entries) \/ ev.id \in IdsOf(content[at].history)
    BY <2>3, <2>4 DEF Remembered
  <2>9. \E e \in ToSet(content[at].entries) \union ToSet(content[at].history) : e.id = ev.id
    BY <2>7, <2>8
  <2> QED BY <2>1, <2>6, <2>9
<1> QED BY <1>1, RegionStart, RegionStep, PTL DEF RegionSpec
=============================================================================
