---------------------------- MODULE TokenBuckets ----------------------------
(***************************************************************************)
(* ratelimit.py TokenBuckets: one family of token buckets.  check() holds  *)
(* the lock from the clock to the last assignment, so every call is one    *)
(* step.  Tokens are counted in units small enough for Cost, Capacity and  *)
(* the refill Rate to be whole numbers.                                    *)
(***************************************************************************)
EXTENDS Integers, SequencesExt

CONSTANTS
  Keys,
  Capacity,   \* of a bucket
  Rate,       \* refill per tick
  Cost,       \* what one request takes
  MaxKeys,    \* max_keys
  MaxNow      \* bounds the clock

ASSUME BucketAssumption ==
  /\ Capacity \in Nat \ {0} /\ Rate \in Nat \ {0} /\ Cost \in Nat \ {0}
  /\ MaxKeys \in Nat \ {0} /\ MaxNow \in Nat

VARIABLES
  order,    \* the keys that have a bucket, least recently seen first
  tokens, stamp,
  now,      \* the monotonic clock
  born,     \* when each bucket was made
  taken,    \* what each bucket has given since
  crowd     \* the other keys seen since each key was

bucketVars == <<order, tokens, stamp, now, born, taken, crowd>>

NeverSeen == [seen |-> FALSE, since |-> {}]

BucketsInit ==
  /\ order = <<>> /\ now = 0
  /\ tokens = [k \in Keys |-> Capacity] /\ stamp = [k \in Keys |-> 0]
  /\ born = [k \in Keys |-> 0] /\ taken = [k \in Keys |-> 0]
  /\ crowd = [k \in Keys |-> NeverSeen]

Held(k) == Contains(order, k)

Lesser(a, b) == IF a <= b THEN a ELSE b

(* The bucket brought up to date; a key without one has a full one.         *)
Refilled(k) ==
  IF Held(k) THEN Lesser(Capacity, tokens[k] + Rate * (now - stamp[k])) ELSE Capacity

SeenInPlace(k) == IF Held(k) THEN order ELSE Append(order, k)     \* mutant: no move_to_end

Place(k) == CHOOSE i \in DOMAIN order : order[i] = k

(* The key goes to the end, those behind its place move up; past max_keys   *)
(* the least recently seen one goes.                                        *)
SeenLast(k) ==
  IF Held(k)
  THEN [i \in DOMAIN order |->
          IF i = Len(order) THEN k ELSE IF i < Place(k) THEN order[i] ELSE order[i + 1]]
  ELSE Append(order, k)

Evicted(o) == IF Len(o) > MaxKeys THEN Tail(o) ELSE o

StampOnTake(k, spent) ==     \* mutant: only a charge moves the stamp
  IF spent > 0 THEN now ELSE stamp[k]

Stamped(k, spent) == now

(* The bucket of k is read, and spent is taken from it.                     *)
Touch(k, spent) ==
  /\ order' = Evicted(SeenLast(k))
  /\ tokens' = [tokens EXCEPT ![k] = Refilled(k) - spent]
  /\ stamp' = [stamp EXCEPT ![k] = Stamped(k, spent)]
  /\ born' = [born EXCEPT ![k] = IF Held(k) THEN @ ELSE now]
  /\ taken' = [taken EXCEPT ![k] = (IF Held(k) THEN @ ELSE 0) + spent]
  /\ crowd' = [x \in Keys |-> IF x = k THEN [seen |-> TRUE, since |-> {}]
                              ELSE [crowd[x] EXCEPT !.since = @ \union {k}]]
  /\ UNCHANGED now

Admit(k) == Refilled(k) >= Cost /\ Touch(k, Cost)

(* Refused: the bucket is brought up to date and nothing is taken.          *)
Refuse(k) == Refilled(k) < Cost /\ Touch(k, 0)

(* A peek at a key without a bucket makes none.                             *)
Peek(k) == Held(k) /\ Touch(k, 0)

Pass == now < MaxNow /\ now' = now + 1 /\ UNCHANGED <<order, tokens, stamp, born, taken, crowd>>

BucketsNext == Pass \/ \E k \in Keys : Admit(k) \/ Refuse(k) \/ Peek(k)

BucketsSpec == BucketsInit /\ [][BucketsNext]_bucketVars

-----------------------------------------------------------------------------
BucketsTypeOK ==
  /\ tokens \in [Keys -> 0 .. Capacity]
  /\ stamp \in [Keys -> Nat] /\ born \in [Keys -> Nat] /\ now \in Nat
  /\ taken \in [Keys -> Nat]

(* A bucket gives, since it was made, no more than it held and what refills *)
(* in that time, however charges, refusals and peeks are interleaved.       *)
AdmissionBound ==
  \A k \in Keys : taken[k] <= Capacity + Rate * (now - born[k])

(* A key loses its bucket, and with it what was counted against it, only    *)
(* when max_keys other keys were seen since: a few of them cannot reset it. *)
EvictedOnlyByCrowd ==
  \A k \in Keys : crowd[k].seen /\ ~Held(k) => Cardinality(crowd[k].since) >= MaxKeys
=============================================================================
