---------------------------- MODULE ServerProofs ----------------------------
(***************************************************************************)
(* The rate limiter and the task store of the MCP server.  What a bucket   *)
(* gives is bounded, for any keys, capacity, rate and cost and for a clock *)
(* that runs as long as one likes.  The task store keeps its promises      *)
(* where no two threads have one task in hand, for any number of tasks and *)
(* workers, any TTL and any clock.                                         *)
(***************************************************************************)
EXTENDS TokenBuckets, TaskStore, FiniteSetTheorems, TLAPS

(* What a bucket gave and what it still holds came with it or was refilled  *)
(* up to its stamp.                                                         *)
Balanced ==
  \A k \in Keys :
    /\ born[k] <= stamp[k] /\ stamp[k] <= now
    /\ taken[k] + tokens[k] <= Capacity + Rate * (stamp[k] - born[k])

BucketsInv == BucketsTypeOK /\ Balanced

-----------------------------------------------------------------------------
LEMMA RefillAdds ==
  ASSUME NEW a \in Nat, NEW b \in Nat
  PROVE  /\ Rate * a \in Nat /\ Rate * b \in Nat
         /\ Rate * (a + b) = Rate * a + Rate * b
BY BucketAssumption

LEMMA RefilledType ==
  ASSUME BucketsInv, NEW k \in Keys
  PROVE  /\ Refilled(k) \in 0 .. Capacity
         /\ Held(k) => Refilled(k) <= tokens[k] + Rate * (now - stamp[k])
<1>1. /\ Capacity \in Nat /\ tokens[k] \in 0 .. Capacity
      /\ stamp[k] \in Nat /\ now \in Nat /\ stamp[k] <= now
  BY BucketAssumption DEF BucketsInv, BucketsTypeOK, Balanced
<1>2. now - stamp[k] \in Nat
  BY <1>1
<1>3. Rate * (now - stamp[k]) \in Nat
  BY <1>2, RefillAdds
<1> QED BY <1>1, <1>3 DEF Refilled, Lesser

(* A request, admitted or not, leaves the bucket balanced.                  *)
LEMMA TouchBalances ==
  ASSUME BucketsInv, NEW k \in Keys, NEW spent \in Nat,
         spent <= Refilled(k), Touch(k, spent)
  PROVE  BucketsInv'
<1>0. /\ Capacity \in Nat /\ now \in Nat /\ now' = now
      /\ tokens \in [Keys -> 0 .. Capacity] /\ stamp \in [Keys -> Nat]
      /\ born \in [Keys -> Nat] /\ taken \in [Keys -> Nat]
  BY BucketAssumption DEF BucketsInv, BucketsTypeOK, Touch
<1>1. Refilled(k) \in 0 .. Capacity
  BY RefilledType
<1>2. /\ tokens' = [tokens EXCEPT ![k] = Refilled(k) - spent]
      /\ stamp' = [stamp EXCEPT ![k] = now]
      /\ born' = [born EXCEPT ![k] = IF Held(k) THEN born[k] ELSE now]
      /\ taken' = [taken EXCEPT ![k] = (IF Held(k) THEN taken[k] ELSE 0) + spent]
  BY DEF Touch, Stamped
<1>3. BucketsTypeOK'
  <2>1. Refilled(k) - spent \in 0 .. Capacity
    BY <1>0, <1>1
  <2>2. tokens' \in [Keys -> 0 .. Capacity] /\ stamp' \in [Keys -> Nat]
    BY <1>0, <1>2, <2>1
  <2>3. born' \in [Keys -> Nat] /\ taken' \in [Keys -> Nat]
    BY <1>0, <1>2
  <2> QED BY <1>0, <2>2, <2>3 DEF BucketsTypeOK
<1>4. ASSUME NEW x \in Keys
      PROVE  /\ born'[x] <= stamp'[x] /\ stamp'[x] <= now'
             /\ taken'[x] + tokens'[x] <= Capacity + Rate * (stamp'[x] - born'[x])
  <2>0. /\ born[x] <= stamp[x] /\ stamp[x] <= now
        /\ taken[x] + tokens[x] <= Capacity + Rate * (stamp[x] - born[x])
    BY DEF BucketsInv, Balanced
  <2>1. CASE x # k
    BY <1>0, <1>2, <2>0, <2>1
  <2>2. CASE x = k /\ Held(k)
    <3> DEFINE a == stamp[k] - born[k]
               b == now - stamp[k]
    <3>1. a \in Nat /\ b \in Nat /\ now - born[k] = a + b
      BY <1>0, <2>0, <2>2
    <3>3. Refilled(k) <= tokens[k] + Rate * b
      BY <2>2, RefilledType
    <3>4. /\ taken'[x] = taken[k] + spent /\ tokens'[x] = Refilled(k) - spent
          /\ stamp'[x] = now /\ born'[x] = born[k]
      BY <1>0, <1>2, <2>2
    <3>5. taken[k] + tokens[k] <= Capacity + Rate * a
      BY <2>0, <2>2
    <3> HIDE DEF a, b
    <3>2. Rate * (now - born[k]) = Rate * a + Rate * b /\ Rate * a \in Nat /\ Rate * b \in Nat
      <4>1. /\ Rate * a \in Nat /\ Rate * b \in Nat
            /\ Rate * (a + b) = Rate * a + Rate * b
        BY <3>1, RefillAdds
      <4> QED BY <3>1, <4>1
    <3>6. taken[k] + Refilled(k) <= Capacity + Rate * (now - born[k])
      BY <1>0, <1>1, <3>2, <3>3, <3>5
    <3>7. born[k] <= now
      BY <1>0, <2>0, <2>2
    <3> QED BY <1>0, <1>1, <3>4, <3>6, <3>7
  <2>3. CASE x = k /\ ~Held(k)
    <3>1. /\ taken'[x] = spent /\ tokens'[x] = Capacity - spent
          /\ stamp'[x] = now /\ born'[x] = now
      BY <1>0, <1>2, <2>3 DEF Refilled
    <3>2. Rate * (now - now) \in Nat
      BY <1>0, RefillAdds
    <3> QED BY <1>0, <3>1, <3>2
  <2> QED BY <2>1, <2>2, <2>3
<1> QED BY <1>3, <1>4 DEF BucketsInv, Balanced

LEMMA BucketsStart == BucketsInit => BucketsInv
<1> SUFFICES ASSUME BucketsInit PROVE BucketsInv
  OBVIOUS
<1>1. BucketsTypeOK
  BY BucketAssumption DEF BucketsInit, BucketsTypeOK
<1>2. ASSUME NEW k \in Keys
      PROVE  /\ born[k] <= stamp[k] /\ stamp[k] <= now
             /\ taken[k] + tokens[k] <= Capacity + Rate * (stamp[k] - born[k])
  <2>1. born[k] = 0 /\ stamp[k] = 0 /\ now = 0 /\ taken[k] = 0 /\ tokens[k] = Capacity
    BY DEF BucketsInit
  <2>2. Rate * (0 - 0) \in Nat
    BY RefillAdds
  <2> QED BY <2>1, <2>2, BucketAssumption
<1> QED BY <1>1, <1>2 DEF BucketsInv, Balanced

LEMMA BucketsInvariance == BucketsSpec => []BucketsInv
<1>1. ASSUME BucketsInv, [BucketsNext]_bucketVars PROVE BucketsInv'
  <2>1. ASSUME NEW k \in Keys, Admit(k) PROVE BucketsInv'
    <3>1. Cost \in Nat /\ Cost <= Refilled(k) /\ Touch(k, Cost)
      BY <1>1, <2>1, RefilledType, BucketAssumption DEF Admit
    <3> QED BY <1>1, <3>1, TouchBalances
  <2>2. ASSUME NEW k \in Keys, Touch(k, 0) PROVE BucketsInv'
    <3>1. 0 <= Refilled(k)
      BY <1>1, RefilledType
    <3> QED BY <1>1, <2>2, <3>1, TouchBalances
  <2>3. CASE Pass
    <3>1. now \in Nat /\ now' = now + 1 /\ UNCHANGED <<tokens, stamp, born, taken>>
      BY <1>1, <2>3 DEF Pass, BucketsInv, BucketsTypeOK
    <3> QED BY <1>1, <3>1 DEF BucketsInv, BucketsTypeOK, Balanced
  <2>4. CASE UNCHANGED bucketVars
    BY <1>1, <2>4 DEF bucketVars, BucketsInv, BucketsTypeOK, Balanced
  <2> QED BY <1>1, <2>1, <2>2, <2>3, <2>4 DEF BucketsNext, Refuse, Peek
<1> QED BY <1>1, BucketsStart, PTL DEF BucketsSpec

(* The buckets in the order their keys were last seen, and behind each key  *)
(* in that order only keys seen since it was.                               *)
SeenOrder ==
  /\ order \in Seq(Keys) /\ Len(order) <= MaxKeys
  /\ \A i, j \in DOMAIN order : order[i] = order[j] => i = j
  /\ crowd \in [Keys -> [seen : BOOLEAN, since : SUBSET Keys]]
  /\ \A k \in Keys : IsFiniteSet(crowd[k].since)
  /\ \A i, j \in DOMAIN order : i < j => order[j] \in crowd[order[i]].since

CrowdInv == SeenOrder /\ EvictedOnlyByCrowd

(* What o has to be when key k was seen: k last, the others as they were.   *)
SeenAs(o, k) ==
  /\ o \in Seq(Keys) /\ Len(o) \in 1 .. MaxKeys + 1 /\ o[Len(o)] = k
  /\ \A i \in 1 .. Len(o) - 1 : o[i] # k
  /\ \A i, j \in 1 .. Len(o) - 1 : /\ o[i] = o[j] => i = j
                                   /\ i < j => o[j] \in crowd[o[i]].since
  /\ \A i \in DOMAIN order : order[i] # k => \E j \in 1 .. Len(o) - 1 : o[j] = order[i]

(* Seeing a key puts it last and keeps the others in their order.           *)
LEMMA SeenLastOrder ==
  ASSUME SeenOrder, NEW k \in Keys
  PROVE  SeenAs(SeenLast(k), k)
<1>0. SUFFICES ASSUME NEW o, o = SeenLast(k), NEW n, n = Len(order)
               PROVE  SeenAs(o, k)
  OBVIOUS
<1>1. /\ order \in Seq(Keys) /\ n \in Nat /\ n <= MaxKeys /\ MaxKeys \in Nat \ {0}
      /\ DOMAIN order = 1 .. n /\ \A i \in 1 .. n : order[i] \in Keys
  BY <1>0, BucketAssumption DEF SeenOrder
<1>a. \A i, j \in 1 .. n : /\ order[i] = order[j] => i = j
                           /\ i < j => order[j] \in crowd[order[i]].since
  BY <1>1 DEF SeenOrder
<1>2. CASE ~Held(k)
  <2>1. o = Append(order, k) /\ \A i \in 1 .. n : order[i] # k
    BY <1>0, <1>2, <1>1 DEF SeenLast, Held, Contains
  <2>2. /\ o \in Seq(Keys) /\ Len(o) = n + 1 /\ o[n + 1] = k
        /\ \A i \in 1 .. n : o[i] = order[i]
    BY <1>0, <1>1, <2>1
  <2>3. Len(o) - 1 = n /\ Len(o) \in 1 .. MaxKeys + 1
    BY <1>1, <2>2
  <2>4. o[Len(o)] = k /\ \A i \in 1 .. n : o[i] # k
    BY <1>1, <2>1, <2>2
  <2>5. \A i, j \in 1 .. n : /\ o[i] = o[j] => i = j
                             /\ i < j => o[j] \in crowd[o[i]].since
    BY <1>a, <2>2
  <2>6. \A i \in DOMAIN order : order[i] # k => \E j \in 1 .. n : o[j] = order[i]
    BY <1>1, <2>2
  <2>7. /\ \A i \in 1 .. Len(o) - 1 : o[i] # k
        /\ \A i, j \in 1 .. Len(o) - 1 : /\ o[i] = o[j] => i = j
                                         /\ i < j => o[j] \in crowd[o[i]].since
        /\ \A i \in DOMAIN order : order[i] # k => \E j \in 1 .. Len(o) - 1 : o[j] = order[i]
    BY <2>3, <2>4, <2>5, <2>6, Zenon
  <2> QED BY <2>2, <2>3, <2>4, <2>7, Zenon DEF SeenAs
<1>3. CASE Held(k)
  <2>1. PICK p \in 1 .. n : p = Place(k) /\ order[p] = k
    BY <1>1, <1>3 DEF Held, Contains, Place
  <2>2. o = [i \in 1 .. n |-> IF i = n THEN k ELSE IF i < p THEN order[i] ELSE order[i + 1]]
    BY <1>0, <1>1, <1>3, <2>1 DEF SeenLast
  <2>0. n \in Nat /\ p \in Nat /\ 1 <= p /\ p <= n
    BY <1>1, <2>1
  <2>3. n \in 1 .. n /\ \A i \in 1 .. n - 1 : i \in 1 .. n /\ i + 1 \in 1 .. n /\ i # n
    BY <2>0
  <2>c. \A i \in 1 .. n : i # n => i \in 1 .. n - 1
    BY <2>0
  <2>4. \A i \in 1 .. n : o[i] \in Keys
    BY <1>1, <2>2, <2>3, <2>c
  <2>5. o \in Seq(Keys) /\ Len(o) = n
    <3>1. o \in [1 .. n -> Keys]
      BY <2>2, <2>4
    <3> QED BY <2>0, <3>1
  <2>6. o[n] = k /\ \A i \in 1 .. n - 1 : o[i] = IF i < p THEN order[i] ELSE order[i + 1]
    BY <2>2, <2>3
  <2> DEFINE Was(i) == IF i < p THEN i ELSE i + 1
  <2>7. \A i \in 1 .. n - 1 : Was(i) \in 1 .. n /\ Was(i) # p
    BY <2>0
  <2>b. \A i \in 1 .. n - 1 : o[i] = order[Was(i)]
    BY <2>6
  <2>8. \A i, j \in 1 .. n - 1 : (Was(i) = Was(j) => i = j) /\ (i < j => Was(i) < Was(j))
    BY <2>0
  <2> HIDE DEF Was
  <2>10. ASSUME NEW i \in 1 .. n - 1 PROVE o[i] # k
    <3>1. PICK w \in 1 .. n : w # p /\ o[i] = order[w]
      BY <2>7, <2>b
    <3>2. order[w] = order[p] => w = p
      BY <1>a, Zenon
    <3> QED BY <2>1, <3>1, <3>2
  <2>11. \A i, j \in 1 .. n - 1 : /\ o[i] = o[j] => i = j
                                  /\ i < j => o[j] \in crowd[o[i]].since
    BY <1>a, <2>7, <2>b, <2>8
  <2>12. ASSUME NEW i \in 1 .. n, order[i] # k
         PROVE  \E j \in 1 .. n - 1 : o[j] = order[i]
    <3>0. i # p
      BY <2>1, <2>12
    <3>1. CASE i < p
      <4>1. i \in 1 .. n - 1
        BY <2>0, <3>1
      <4> QED BY <2>6, <3>1, <4>1
    <3>2. CASE ~(i < p)
      <4>1. i - 1 \in 1 .. n - 1 /\ ~(i - 1 < p) /\ (i - 1) + 1 = i
        BY <2>0, <3>0, <3>2
      <4>2. o[i - 1] = order[i]
        BY <2>6, <4>1
      <4> QED BY <4>1, <4>2
    <3> QED BY <3>1, <3>2
  <2>13. Len(o) \in 1 .. MaxKeys + 1 /\ Len(o) - 1 = n - 1
    BY <1>1, <2>0, <2>5
  <2>14. o[Len(o)] = k /\ DOMAIN order = 1 .. n
    BY <1>1, <2>5, <2>6
  <2>15. /\ \A i \in 1 .. Len(o) - 1 : o[i] # k
         /\ \A i, j \in 1 .. Len(o) - 1 : /\ o[i] = o[j] => i = j
                                          /\ i < j => o[j] \in crowd[o[i]].since
         /\ \A i \in DOMAIN order : order[i] # k => \E j \in 1 .. Len(o) - 1 : o[j] = order[i]
    BY <2>10, <2>11, <2>12, <2>13, <2>14, Zenon
  <2> QED BY <2>5, <2>13, <2>14, <2>15, Zenon DEF SeenAs
<1> QED BY <1>2, <1>3

(* The first n members of a crowd of different keys.                        *)
LEMMA ManyBehind ==
  ASSUME NEW n \in Nat, NEW f, NEW S, IsFiniteSet(S),
         \A i \in 1 .. n : f[i] \in S,
         \A i, j \in 1 .. n : f[i] = f[j] => i = j
  PROVE  Cardinality(S) >= n
<1> DEFINE g == [i \in 1 .. n |-> f[i]]
<1>1. g \in Injection(1 .. n, S)
  <2>1. g \in [1 .. n -> S]
    OBVIOUS
  <2>2. \A i, j \in 1 .. n : g[i] = g[j] => i = j
    OBVIOUS
  <2> QED BY <2>1, <2>2 DEF Injection, IsInjective
<1>2. 1 .. n \in SUBSET Int /\ IsFiniteSet(1 .. n) /\ Cardinality(1 .. n) = n
  BY FS_Interval
<1>3. Cardinality(1 .. n) <= Cardinality(S)
  BY <1>1, FS_Injection
<1>4. Cardinality(S) \in Nat
  BY FS_CardinalityType
<1> QED BY <1>2, <1>3, <1>4

(* A request for k leaves the order of the others, and a key that loses its *)
(* bucket by it has a full crowd behind it.                                 *)
LEMMA TouchKeepsCrowd ==
  ASSUME CrowdInv, NEW k \in Keys, NEW spent, Touch(k, spent)
  PROVE  CrowdInv'
<1>1. PICK o : o = SeenLast(k) /\ order' = Evicted(o)
  BY DEF Touch
<1>2. SeenAs(o, k)
  BY <1>1, SeenLastOrder DEF CrowdInv
<1>3. /\ crowd \in [Keys -> [seen : BOOLEAN, since : SUBSET Keys]]
      /\ \A x \in Keys : IsFiniteSet(crowd[x].since)
  BY DEF CrowdInv, SeenOrder
<1>4. /\ crowd'[k] = [seen |-> TRUE, since |-> {}]
      /\ \A x \in Keys \ {k} : /\ crowd'[x].seen = crowd[x].seen
                               /\ crowd'[x].since = crowd[x].since \union {k}
  BY <1>3 DEF Touch
<1>5. crowd' \in [Keys -> [seen : BOOLEAN, since : SUBSET Keys]]
  BY <1>3 DEF Touch
<1>6. \A x \in Keys : IsFiniteSet(crowd'[x].since)
  <2>1. ASSUME NEW x \in Keys, x # k PROVE IsFiniteSet(crowd[x].since \union {k})
    BY <1>3, FS_AddElement
  <2> QED BY <1>4, <2>1, FS_EmptySet
<1>7. PICK n \in Nat : n = Len(o) - 1 /\ n <= MaxKeys /\ Len(o) = n + 1
  <2>1. Len(o) \in 1 .. MaxKeys + 1 /\ MaxKeys \in Nat
    BY <1>2, BucketAssumption DEF SeenAs
  <2>2. Len(o) - 1 \in Nat /\ Len(o) - 1 <= MaxKeys /\ Len(o) = (Len(o) - 1) + 1
    BY <2>1
  <2> QED BY <2>2
<1>8. /\ o \in Seq(Keys) /\ DOMAIN o = 1 .. n + 1 /\ o[n + 1] = k
      /\ \A i \in 1 .. n + 1 : o[i] \in Keys
  BY <1>2, <1>7 DEF SeenAs
<1>9. \A i \in 1 .. n : o[i] \in Keys \ {k}
  BY <1>2, <1>7, <1>8 DEF SeenAs
<1>10. \A i, j \in 1 .. n : /\ o[i] = o[j] => i = j
                            /\ i < j => o[j] \in crowd[o[i]].since
  BY <1>2, <1>7 DEF SeenAs
<1>11. \A i, j \in 1 .. n + 1 : o[i] = o[j] => i = j
  <2>1. \A i \in 1 .. n + 1 : i \in 1 .. n \/ i = n + 1
    BY <1>7
  <2> QED BY <1>8, <1>9, <1>10, <2>1
<1>12. \A i, j \in 1 .. n + 1 : i < j => o[j] \in crowd'[o[i]].since
  <2>1. \A i, j \in 1 .. n + 1 : i < j => i \in 1 .. n /\ (j \in 1 .. n \/ j = n + 1)
    BY <1>7
  <2> QED BY <1>4, <1>8, <1>9, <1>10, <2>1
<1>13. \A i \in DOMAIN order : \E j \in 1 .. n + 1 : o[j] = order[i]
  <2>1. \A i \in 1 .. n : i \in 1 .. n + 1
    BY <1>7
  <2>2. n + 1 \in 1 .. n + 1
    BY <1>7
  <2> QED BY <1>2, <1>7, <1>8, <2>1, <2>2 DEF SeenAs
<1>14. /\ MaxKeys \in Nat \ {0} /\ order \in Seq(Keys)
       /\ \A x \in Keys : Held(x) <=> \E i \in DOMAIN order : order[i] = x
  BY BucketAssumption DEF CrowdInv, SeenOrder, Held, Contains
<1>15. /\ \A x \in Keys : Held(x)' <=> \E i \in DOMAIN order' : order'[i] = x
  BY DEF Held, Contains
<1>16. ASSUME NEW x \in Keys, crowd'[x].seen, ~Held(x)', x # k,
              \A i \in 1 .. n + 1 : o[i] # x
       PROVE  Cardinality(crowd'[x].since) >= MaxKeys
  <2>1. crowd[x].seen /\ ~Held(x)
    BY <1>4, <1>13, <1>14, <1>16
  <2>2. Cardinality(crowd[x].since) >= MaxKeys
    BY <2>1 DEF CrowdInv, EvictedOnlyByCrowd
  <2>3. Cardinality(crowd[x].since) \in Nat /\ Cardinality(crowd'[x].since) \in Nat
    BY <1>3, <1>6, FS_CardinalityType
  <2>4. crowd[x].since \in SUBSET crowd'[x].since
    BY <1>4, <1>16
  <2>5. Cardinality(crowd[x].since) <= Cardinality(crowd'[x].since)
    BY <1>6, <2>4, FS_Subset
  <2> QED BY <1>14, <2>2, <2>3, <2>5
<1>17. CASE ~(Len(o) > MaxKeys)
  <2>1. order' = o
    BY <1>1, <1>17 DEF Evicted
  <2>2. Len(o) <= MaxKeys
    BY <1>7, <1>14, <1>17
  <2>3. SeenOrder'
    BY <1>5, <1>6, <1>8, <1>11, <1>12, <2>1, <2>2 DEF SeenOrder
  <2>4. ASSUME NEW x \in Keys, crowd'[x].seen, ~Held(x)'
        PROVE  Cardinality(crowd'[x].since) >= MaxKeys
    <3>1. \A i \in 1 .. n + 1 : o[i] # x
      BY <1>8, <1>15, <2>1, <2>4
    <3>2. x # k
      <4>1. n + 1 \in 1 .. n + 1
        BY <1>7
      <4> QED BY <1>8, <3>1, <4>1
    <3> QED BY <1>16, <2>4, <3>1, <3>2
  <2> QED BY <2>3, <2>4 DEF CrowdInv, EvictedOnlyByCrowd
<1>18. CASE Len(o) > MaxKeys
  <2>1. n = MaxKeys /\ order' = Tail(o) /\ n \in Nat \ {0}
    BY <1>1, <1>7, <1>14, <1>18 DEF Evicted
  <2>2. /\ order' \in Seq(Keys) /\ Len(order') = n /\ DOMAIN order' = 1 .. n
        /\ \A i \in 1 .. n : order'[i] = o[i + 1]
    BY <1>7, <1>8, <2>1
  <2>3. \A i \in 1 .. n : i + 1 \in 1 .. n + 1
    BY <1>7
  <2>4. \A i, j \in 1 .. n : order'[i] = order'[j] => i = j
    <3>1. \A i, j \in 1 .. n : i + 1 = j + 1 => i = j
      BY <1>7
    <3> QED BY <1>11, <2>2, <2>3, <3>1
  <2>5. \A i, j \in 1 .. n : i < j => order'[j] \in crowd'[order'[i]].since
    <3>1. \A i, j \in 1 .. n : i < j => i + 1 < j + 1
      BY <1>7
    <3> QED BY <1>12, <2>2, <2>3, <3>1
  <2>6. SeenOrder'
    <3>1. Len(order') <= MaxKeys
      BY <1>14, <2>1, <2>2
    <3> QED BY <1>5, <1>6, <2>2, <2>4, <2>5, <3>1 DEF SeenOrder
  <2>7. ASSUME NEW x \in Keys, crowd'[x].seen, ~Held(x)'
        PROVE  Cardinality(crowd'[x].since) >= MaxKeys
    <3>1. \A i \in 1 .. n : o[i + 1] # x
      BY <1>15, <2>2, <2>7
    <3>2. x # k
      <4>1. n \in 1 .. n
        BY <2>1
      <4> QED BY <1>8, <3>1, <4>1
    <3>3. CASE o[1] = x
      <4>1. \A i \in 1 .. n : 1 < i + 1 /\ 1 \in 1 .. n + 1
        BY <1>7
      <4>2. \A i \in 1 .. n : o[i + 1] \in crowd'[x].since
        BY <1>12, <2>3, <3>3, <4>1
      <4>3. \A i, j \in 1 .. n : order'[i] \in crowd'[x].since
        BY <2>2, <4>2
      <4>4. Cardinality(crowd'[x].since) >= n
        BY <1>6, <1>7, <2>4, <4>3, ManyBehind
      <4> QED BY <2>1, <4>4
    <3>4. CASE o[1] # x
      <4>1. \A i \in 1 .. n + 1 : i = 1 \/ (i - 1 \in 1 .. n /\ (i - 1) + 1 = i)
        BY <1>7
      <4>2. \A i \in 1 .. n + 1 : o[i] # x
        BY <3>1, <3>4, <4>1
      <4> QED BY <1>16, <2>7, <3>2, <4>2
    <3> QED BY <3>3, <3>4
  <2> QED BY <2>6, <2>7 DEF CrowdInv, EvictedOnlyByCrowd
<1> QED BY <1>17, <1>18

(* A key's bucket goes only when as many others as there are places were    *)
(* seen since that key was: no few of them can reset what it has spent.     *)
THEOREM OnlyACrowdEvicts == BucketsSpec => []EvictedOnlyByCrowd
<1>1. BucketsInit => CrowdInv
  <2> SUFFICES ASSUME BucketsInit PROVE CrowdInv
    OBVIOUS
  <2>1. order = <<>> /\ crowd = [k \in Keys |-> NeverSeen]
    BY DEF BucketsInit
  <2>2. \A k \in Keys : crowd[k].since = {} /\ crowd[k].seen = FALSE
    BY <2>1 DEF NeverSeen
  <2>3. crowd \in [Keys -> [seen : BOOLEAN, since : SUBSET Keys]]
    BY <2>1 DEF NeverSeen
  <2>4. order \in Seq(Keys) /\ Len(order) <= MaxKeys /\ DOMAIN order = {}
    BY <2>1, BucketAssumption
  <2> QED BY <2>2, <2>3, <2>4, FS_EmptySet DEF CrowdInv, SeenOrder, EvictedOnlyByCrowd
<1>2. ASSUME CrowdInv, [BucketsNext]_bucketVars PROVE CrowdInv'
  <2>1. ASSUME NEW k \in Keys, NEW spent, Touch(k, spent) PROVE CrowdInv'
    BY <1>2, <2>1, TouchKeepsCrowd
  <2>2. CASE UNCHANGED <<order, crowd>>
    BY <1>2, <2>2 DEF CrowdInv, SeenOrder, EvictedOnlyByCrowd, Held, Contains
  <2> QED BY <1>2, <2>1, <2>2 DEF BucketsNext, Admit, Refuse, Peek, Pass, bucketVars
<1>3. CrowdInv => EvictedOnlyByCrowd
  BY DEF CrowdInv
<1> QED BY <1>1, <1>2, <1>3, PTL DEF BucketsSpec

(* The buckets keep their types; no bucket ever owes tokens or holds more   *)
(* than its capacity.                                                       *)
THEOREM BucketTypes == BucketsSpec => []BucketsTypeOK
<1>1. BucketsInv => BucketsTypeOK
  BY DEF BucketsInv
<1> QED BY <1>1, BucketsInvariance, PTL

(* No key is given more than its bucket held and what refilled since.       *)
THEOREM Admission == BucketsSpec => []AdmissionBound
<1>1. ASSUME BucketsInv PROVE AdmissionBound
  <2>1. SUFFICES ASSUME NEW k \in Keys
                 PROVE  taken[k] <= Capacity + Rate * (now - born[k])
    BY DEF AdmissionBound
  <2> DEFINE a == stamp[k] - born[k]
             b == now - stamp[k]
  <2>2. /\ born[k] \in Nat /\ stamp[k] \in Nat /\ now \in Nat /\ taken[k] \in Nat
        /\ tokens[k] \in Nat /\ Capacity \in Nat
        /\ born[k] <= stamp[k] /\ stamp[k] <= now
        /\ taken[k] + tokens[k] <= Capacity + Rate * a
    BY <1>1, BucketAssumption DEF BucketsInv, BucketsTypeOK, Balanced
  <2>3. a \in Nat /\ b \in Nat /\ now - born[k] = a + b
    BY <2>2
  <2>4. Rate * (now - born[k]) = Rate * a + Rate * b /\ Rate * a \in Nat /\ Rate * b \in Nat
    BY <2>3, RefillAdds
  <2> HIDE DEF a, b
  <2> QED BY <2>2, <2>4
<1> QED BY <1>1, BucketsInvariance, PTL

-----------------------------------------------------------------------------
Statuses == {"absent", "working", "completed", "failed", "canceled"}
Places == {"none", "queued", "calling", "check", "set", "attach", "done"}
Outcomes == {"completed", "failed", NoTask}
Answers == [status : Statuses, payload : BOOLEAN]

TaskTypes ==
  /\ known \subseteq Tasks
  /\ status \in [Tasks -> Statuses]
  /\ updated \in [Tasks -> Nat] /\ clock \in Nat
  /\ payload \in [Tasks -> BOOLEAN]
  /\ worker \in [Tasks -> [pc : Places, outcome : Outcomes]]
  /\ canceler \in Tasks \union {NoTask} /\ purger \subseteq Tasks
  /\ told \in [Tasks -> SUBSET Answers]

(* What each thread knows of the task it has in hand.                       *)
InHand ==
  \A t \in Tasks :
    /\ worker[t].pc \in {"check", "set"} => worker[t].outcome \in {"completed", "failed"}
    /\ worker[t].pc = "attach" => status[t] \in Terminal
    /\ canceler = t => t \in known
    /\ t \in purger => t \in known /\ canceler = NoTask

(* Of a task that never was in two hands, a thread still knows what it has  *)
(* checked.                                                                 *)
Unraced(t) ==
  /\ told[t] # {} => status[t] \in Terminal
  /\ worker[t].pc = "set" => status[t] \notin Terminal /\ canceler # t /\ t \notin purger
  /\ canceler = t => status[t] \notin Terminal
  /\ t \in purger => status[t] \notin Terminal /\ Expired(t)
  /\ t \notin known => status[t] \notin Terminal /\ worker[t].pc # "set"
  /\ \A x \in told[t] : x.status = status[t]

TaskInv ==
  /\ TaskTypes
  /\ InHand
  /\ \A t \in Tasks \ raced : Unraced(t)

-----------------------------------------------------------------------------
LEMMA TaskStart == TaskInit => TaskInv
<1> SUFFICES ASSUME TaskInit PROVE TaskInv
  OBVIOUS
<1>1. TaskTypes
  BY DEF TaskInit, TaskTypes, NotStarted, Statuses, Places, Outcomes
<1>2. InHand /\ \A t \in Tasks : Unraced(t)
  BY TaskAssumption DEF TaskInit, InHand, Unraced, NotStarted, Terminal
<1> QED BY <1>1, <1>2 DEF TaskInv

LEMMA TaskTypesKept == ASSUME TaskTypes, InHand, [TaskNext]_taskVars PROVE TaskTypes'
<1> USE DEF TaskTypes
<1>1. ASSUME NEW t \in Tasks, Create(t) PROVE TaskTypes'
  BY <1>1 DEF Create, Statuses, Places
<1>2. ASSUME NEW t \in Tasks, WorkerStarts(t) PROVE TaskTypes'
  BY <1>2 DEF WorkerStarts, Places
<1>3. ASSUME NEW t \in Tasks, ProviderAnswers(t) PROVE TaskTypes'
  BY <1>3 DEF ProviderAnswers, Places, Outcomes
<1>4. ASSUME NEW t \in Tasks, WorkerChecks(t) PROVE TaskTypes'
  BY <1>4 DEF WorkerChecks, Places
<1>5. ASSUME NEW t \in Tasks, WorkerSetsStatus(t) PROVE TaskTypes'
  <2>1. worker[t].outcome \in Statuses
    BY <1>5 DEF WorkerSetsStatus, InHand, Statuses
  <2> QED BY <1>5, <2>1 DEF WorkerSetsStatus, Places
<1>6. ASSUME NEW t \in Tasks, WorkerAttaches(t) PROVE TaskTypes'
  BY <1>6 DEF WorkerAttaches, Places
<1>7. ASSUME NEW t \in Tasks, Get(t) PROVE TaskTypes'
  <2>1. [status |-> status[t], payload |-> payload[t]] \in Answers
    BY DEF Answers
  <2> QED BY <1>7, <2>1 DEF Get, Answered
<1>8. ASSUME NEW t \in Tasks, CancelChecks(t) PROVE TaskTypes'
  BY <1>8 DEF CancelChecks
<1>9. CASE CancelSets
  <2>1. canceler \in Tasks
    BY <1>9 DEF CancelSets
  <2>2. [status |-> "canceled", payload |-> payload[canceler]] \in Answers
    BY <2>1 DEF Answers, Statuses
  <2> QED BY <1>9, <2>1, <2>2 DEF CancelSets, Statuses
<1>10. CASE PurgeScans \/ PurgeDeletes
  BY <1>10 DEF PurgeScans, PurgeDeletes, Dead
<1>11. CASE Tick \/ UNCHANGED taskVars
  BY <1>11 DEF Tick, taskVars
<1> QED BY <1>1, <1>2, <1>3, <1>4, <1>5, <1>6, <1>7, <1>8, <1>9, <1>10, <1>11
        DEF TaskNext, WorkerStep

LEMMA InHandKept == ASSUME TaskTypes, InHand, [TaskNext]_taskVars PROVE InHand'
<1> USE DEF TaskTypes, InHand, Terminal
<1>1. ASSUME NEW t \in Tasks, Create(t) PROVE InHand'
  BY <1>1, TaskAssumption DEF Create, LoopIsFree
<1>2. ASSUME NEW t \in Tasks, WorkerStarts(t) PROVE InHand'
  BY <1>2 DEF WorkerStarts
<1>3. ASSUME NEW t \in Tasks, ProviderAnswers(t) PROVE InHand'
  BY <1>3 DEF ProviderAnswers
<1>4. ASSUME NEW t \in Tasks, WorkerChecks(t) PROVE InHand'
  BY <1>4 DEF WorkerChecks
<1>5. ASSUME NEW t \in Tasks, WorkerSetsStatus(t) PROVE InHand'
  BY <1>5 DEF WorkerSetsStatus
<1>6. ASSUME NEW t \in Tasks, WorkerAttaches(t) PROVE InHand'
  BY <1>6 DEF WorkerAttaches
<1>7. ASSUME NEW t \in Tasks, Get(t) PROVE InHand'
  BY <1>7 DEF Get, Answered
<1>8. ASSUME NEW t \in Tasks, CancelChecks(t) PROVE InHand'
  BY <1>8 DEF CancelChecks, LoopIsFree, Live
<1>9. CASE CancelSets
  BY <1>9, TaskAssumption DEF CancelSets
<1>10. CASE PurgeScans
  BY <1>10, TaskAssumption DEF PurgeScans, LoopIsFree, Dead
<1>11. CASE PurgeDeletes
  BY <1>11, TaskAssumption DEF PurgeDeletes
<1>12. CASE Tick
  BY <1>12 DEF Tick
<1>13. CASE UNCHANGED taskVars
  BY <1>13 DEF taskVars
<1> QED BY <1>1, <1>2, <1>3, <1>4, <1>5, <1>6, <1>7, <1>8, <1>9, <1>10, <1>11, <1>12, <1>13
        DEF TaskNext, WorkerStep

LEMMA UnracedKept ==
  ASSUME TaskInv, [TaskNext]_taskVars, NEW u \in Tasks \ raced'
  PROVE  Unraced(u)'
<1>0. u \in Tasks /\ u \notin raced /\ Unraced(u)
  <2>1. raced \subseteq raced'
    BY DEF TaskNext, WorkerStep, taskVars, Create, WorkerStarts, ProviderAnswers, WorkerChecks,
           WorkerSetsStatus, WorkerAttaches, Get, CancelChecks, CancelSets, PurgeScans,
           PurgeDeletes, Tick
  <2> QED BY <2>1 DEF TaskInv
<1> USE DEF TaskInv, TaskTypes, Terminal
<1>1. ASSUME NEW t \in Tasks, Create(t) PROVE Unraced(u)'
  BY <1>0, <1>1, TaskAssumption DEF Create, LoopIsFree, Unraced, Expired
<1>2. ASSUME NEW t \in Tasks, WorkerStarts(t) PROVE Unraced(u)'
  BY <1>0, <1>2 DEF WorkerStarts, Unraced, Expired
<1>3. ASSUME NEW t \in Tasks, ProviderAnswers(t) PROVE Unraced(u)'
  BY <1>0, <1>3 DEF ProviderAnswers, Unraced, Expired
<1>4. ASSUME NEW t \in Tasks, WorkerChecks(t) PROVE Unraced(u)'
  BY <1>0, <1>4 DEF WorkerChecks, MayFinish, Live, Unraced, Expired
<1>5. ASSUME NEW t \in Tasks, WorkerSetsStatus(t) PROVE Unraced(u)'
  BY <1>0, <1>5 DEF WorkerSetsStatus, InHand, Unraced, Expired
<1>6. ASSUME NEW t \in Tasks, WorkerAttaches(t) PROVE Unraced(u)'
  BY <1>0, <1>6 DEF WorkerAttaches, InHand, Unraced, Expired
<1>7. ASSUME NEW t \in Tasks, Get(t) PROVE Unraced(u)'
  BY <1>0, <1>7 DEF Get, Answered, Live, Unraced, Expired
<1>8. ASSUME NEW t \in Tasks, CancelChecks(t) PROVE Unraced(u)'
  BY <1>0, <1>8 DEF CancelChecks, LoopIsFree, Live, Unraced, Expired
<1>9. CASE CancelSets
  BY <1>0, <1>9, TaskAssumption DEF CancelSets, InHand, Unraced, Expired
<1>10. CASE PurgeScans
  BY <1>0, <1>10 DEF PurgeScans, LoopIsFree, Dead, Unraced, Expired
<1>11. CASE PurgeDeletes
  BY <1>0, <1>11 DEF PurgeDeletes, InHand, Unraced, Expired
<1>12. CASE Tick
  BY <1>0, <1>12, TaskAssumption DEF Tick, Unraced, Expired
<1>13. CASE UNCHANGED taskVars
  BY <1>0, <1>13 DEF taskVars, Unraced, Expired
<1> QED BY <1>1, <1>2, <1>3, <1>4, <1>5, <1>6, <1>7, <1>8, <1>9, <1>10, <1>11, <1>12, <1>13
        DEF TaskNext, WorkerStep

LEMMA TaskInvariance == TaskSpec => []TaskInv
<1>1. TaskInv /\ [TaskNext]_taskVars => TaskInv'
  <2> SUFFICES ASSUME TaskInv, [TaskNext]_taskVars PROVE TaskInv'
    OBVIOUS
  <2>1. TaskTypes' /\ InHand'
    BY TaskTypesKept, InHandKept DEF TaskInv
  <2>2. \A u \in Tasks \ raced' : Unraced(u)'
    BY UnracedKept
  <2> QED BY <2>1, <2>2 DEF TaskInv
<1> QED BY <1>1, TaskStart, PTL DEF TaskSpec

(* No answer about the status of a task is taken back, unless two threads   *)
(* had that task in hand at once.                                           *)
THEOREM StatusStands == TaskSpec => []StatusStandsUnraced
<1>1. TaskInv => StatusStandsUnraced
  BY DEF TaskInv, Unraced, StatusStandsUnraced
<1> QED BY <1>1, TaskInvariance, PTL

(* Neither age nor a purge takes a finished task away.                      *)
THEOREM FinishedStays == TaskSpec => []FinishedStaysFetchable
<1>1. TaskInv => FinishedStaysFetchable
  BY DEF TaskInv, Unraced, FinishedStaysFetchable, Live
<1> QED BY <1>1, TaskInvariance, PTL
=============================================================================
