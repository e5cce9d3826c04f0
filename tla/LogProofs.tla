------------------------------ MODULE LogProofs ------------------------------
(***************************************************************************)
(* Theorems about the two files that are appended to a line at a time.     *)
(* The attestation log, of one process, keeps its evidence, for any        *)
(* decisions and any number of failed writes, crashes and restarts.  The   *)
(* gate journal, of any number of processes, keeps its chain and shows its *)
(* losses, with and without the lock.                                      *)
(***************************************************************************)
EXTENDS AttestationLog, GateJournal, TLAPS, WellFoundedInduction

-----------------------------------------------------------------------------
(* The attestation log.                                                     *)

Attestations == [json : {TRUE}, seq : Nat, decision : Decisions, prev : Seq(Decisions)]

Lines == Attestations \union {Torn}

AllJson(log) == \A i \in DOMAIN log : log[i].json

LogTypes ==
  /\ entries \in Seq(Attestations) /\ disk \in Seq(Lines)
  /\ unended \in BOOLEAN /\ running \in BOOLEAN
  /\ unended => disk # <<>>

(* A file that verifies holds the chain of the last process, or that and    *)
(* the one record whose write raised after its line was complete.           *)
OneAhead ==
  Verifies(disk) =>
    /\ \A i \in DOMAIN entries : i \in DOMAIN disk /\ disk[i] = entries[i]
    /\ Len(disk) \in {Len(entries), Len(entries) + 1}

LogInv == LogTypes /\ OneAhead /\ RecordedIsPersisted

-----------------------------------------------------------------------------
LEMMA EntryType ==
  ASSUME LogTypes, NEW d \in Decisions
  PROVE  Entry(d) \in Attestations /\ Entry(d).seq = Len(entries) /\ Entry(d).decision = d
<1>1. HeadOf(entries) \in Seq(Decisions)
  <2>1. CASE entries = <<>>
    BY <2>1 DEF HeadOf, GENESIS
  <2>2. CASE entries # <<>>
    <3>1. entries[Len(entries)] \in Attestations
      BY <2>2 DEF LogTypes
    <3>2. \A r \in Attestations : r.prev \in Seq(Decisions) /\ r.decision \in Decisions
      BY DEF Attestations
    <3>3. \A r \in Attestations : Append(r.prev, r.decision) \in Seq(Decisions)
      BY <3>2
    <3>4. HeadOf(entries) = ChainDigest(entries[Len(entries)])
      BY <2>2 DEF HeadOf
    <3> QED BY <3>1, <3>3, <3>4 DEF ChainDigest
  <2> QED BY <2>1, <2>2
<1>2. Len(entries) \in Nat
  BY DEF LogTypes
<1> QED BY <1>1, <1>2 DEF Entry, Attestations

LEMMA Decision ==
  ASSUME NEW s \in Seq(Attestations), NEW i \in DOMAIN s
  PROVE  s[i].decision \in Decisions
<1>1. s[i] \in Attestations
  OBVIOUS
<1> QED BY <1>1 DEF Attestations

(* What a write makes of a file: a torn line, or one line more.             *)
LEMMA WrittenLine ==
  ASSUME LogTypes, NEW x \in Lines
  PROVE  /\ Written(x) \in Seq(Lines)
         /\ Written(x) # <<>>
         /\ unended => ~AllJson(Written(x))
         /\ ~unended => Written(x) = Append(disk, x)
<1>1. CASE unended
  <2>1. disk # <<>> /\ Len(disk) \in DOMAIN disk
    BY <1>1 DEF LogTypes
  <2>2. Written(x) = [disk EXCEPT ![Len(disk)] = Torn]
    BY <1>1 DEF Written
  <2>3. Torn \in Lines /\ Torn.json = FALSE
    BY DEF Lines, Torn
  <2>4. Written(x) \in Seq(Lines) /\ Len(Written(x)) = Len(disk)
    BY <2>1, <2>2, <2>3 DEF LogTypes
  <2>5. Len(disk) \in DOMAIN Written(x) /\ Written(x)[Len(disk)] = Torn
    BY <2>1, <2>2 DEF LogTypes
  <2> QED BY <1>1, <2>1, <2>3, <2>4, <2>5 DEF AllJson
<1>2. CASE ~unended
  BY <1>2 DEF Written, LogTypes
<1> QED BY <1>1, <1>2 DEF LogTypes

LEMMA TornIsNotJson ==
  ASSUME LogTypes
  PROVE  ~AllJson(Written(Torn))
<1>1. Torn \in Lines /\ Torn.json = FALSE
  BY DEF Lines, Torn
<1>2. CASE unended
  BY <1>1, <1>2, WrittenLine
<1>3. CASE ~unended
  <2>1. Written(Torn) = Append(disk, Torn)
    BY <1>1, <1>3, WrittenLine
  <2>2. Written(Torn)[Len(disk) + 1] = Torn /\ Len(disk) + 1 \in DOMAIN Written(Torn)
    BY <1>1, <2>1 DEF LogTypes
  <2> QED BY <1>1, <2>2 DEF AllJson
<1> QED BY <1>2, <1>3 DEF LogTypes

(* What verifies after a line verified before it.                           *)
LEMMA PrefixVerifies ==
  ASSUME NEW s \in Seq(Lines), NEW x \in Lines, Verifies(Append(s, x))
  PROVE  Verifies(s) /\ x.seq = Len(s) /\ AllJson(s)
<1> DEFINE t == Append(s, x)
<1>1. /\ DOMAIN s = 1 .. Len(s) /\ DOMAIN t = 1 .. Len(s) + 1 /\ Len(s) \in Nat
      /\ t[Len(s) + 1] = x
      /\ \A i \in 1 .. Len(s) : t[i] = s[i]
  OBVIOUS
<1>2. \A i \in DOMAIN t : t[i].seq = i - 1 /\ t[i].json
  BY DEF Verifies
<1>3. x.seq = Len(s)
  BY <1>1, <1>2
<1>4. AllJson(s)
  BY <1>1, <1>2 DEF AllJson
<1>5. ASSUME NEW i \in DOMAIN s
      PROVE  s[i].seq = i - 1 /\ s[i].prev = (IF i = 1 THEN GENESIS ELSE ChainDigest(s[i - 1]))
  <2>1. i \in DOMAIN t /\ t[i] = s[i]
    BY <1>1
  <2>2. t[i].seq = i - 1 /\ t[i].prev = (IF i = 1 THEN GENESIS ELSE ChainDigest(t[i - 1]))
    BY <2>1 DEF Verifies
  <2>3. i # 1 => t[i - 1] = s[i - 1]
    BY <1>1
  <2> QED BY <2>1, <2>2, <2>3
<1> QED BY <1>3, <1>4, <1>5 DEF Verifies, AllJson

-----------------------------------------------------------------------------
(* The line of the entry that record() is about to make keeps a file that   *)
(* verifies one ahead of the chain at most.                                 *)
LEMMA WrittenVerifies ==
  ASSUME LogInv, NEW d \in Decisions, Verifies(Written(Entry(d)))
  PROVE  disk = entries /\ Written(Entry(d)) = Append(entries, Entry(d))
<1> USE DEF LogInv
<1>1. Entry(d) \in Lines /\ Entry(d).seq = Len(entries)
  BY EntryType DEF Lines
<1>2. AllJson(Written(Entry(d)))
  BY DEF Verifies, AllJson
<1>3. ~unended /\ Written(Entry(d)) = Append(disk, Entry(d))
  BY <1>1, <1>2, WrittenLine DEF LogTypes
<1>4. disk \in Seq(Lines) /\ entries \in Seq(Attestations)
  BY DEF LogTypes
<1>5. Verifies(disk) /\ Len(entries) = Len(disk)
  BY <1>1, <1>3, <1>4, PrefixVerifies
<1>6. \A i \in DOMAIN entries : disk[i] = entries[i]
  BY <1>5 DEF OneAhead
<1>7. disk = entries
  BY <1>4, <1>5, <1>6
<1> QED BY <1>3, <1>7

LEMMA LogStart == LogInit => LogInv
<1> SUFFICES ASSUME LogInit PROVE LogInv
  OBVIOUS
<1>1. /\ entries = <<>> /\ disk = <<>> /\ Len(disk) = 0 /\ Len(entries) = 0
      /\ DOMAIN entries = {} /\ DOMAIN disk = {}
  BY DEF LogInit
<1>2. LogTypes
  <2>1. entries \in Seq(Attestations) /\ disk \in Seq(Lines)
    BY <1>1
  <2>2. unended \in BOOLEAN /\ running \in BOOLEAN /\ ~unended
    BY Zenon DEF LogInit
  <2> QED BY <2>1, <2>2 DEF LogTypes
<1>3. OneAhead /\ RecordedIsPersisted
  BY <1>1 DEF OneAhead, RecordedIsPersisted
<1> QED BY <1>2, <1>3 DEF LogInv

LEMMA LogTypesKept == ASSUME LogInv, [LogStep]_logVars PROVE LogTypes'
<1> USE DEF LogInv
<1>1. ASSUME NEW d \in Decisions, Record(d) PROVE LogTypes'
  <2>1. Entry(d) \in Attestations /\ Entry(d) \in Lines
    BY EntryType DEF Lines
  <2>2. disk' \in Seq(Lines)
    BY <1>1, <2>1, WrittenLine DEF Record
  <2>3. entries' \in Seq(Attestations)
    BY <1>1, <2>1 DEF Record, LogTypes
  <2> QED BY <1>1, <2>2, <2>3 DEF Record, LogTypes
<1>2. ASSUME NEW d \in Decisions, NEW alive \in BOOLEAN, Interrupt(d, alive) PROVE LogTypes'
  <2>1. Entry(d) \in Lines /\ Torn \in Lines
    BY EntryType DEF Lines
  <2>2. \E x \in Lines : disk' = Written(x) /\ unended' \in BOOLEAN
    BY <1>2, <2>1 DEF Interrupt
  <2> QED BY <1>2, <2>2, WrittenLine DEF Interrupt, LogTypes
<1>3. CASE Crash
  BY <1>3 DEF Crash, LogTypes
<1>4. CASE Reload
  <2>1. \A i \in DOMAIN disk : disk[i] \in Lines /\ disk[i].json
    BY <1>4 DEF Reload, Verifies, LogTypes
  <2>2. \A x \in Lines : x.json => x \in Attestations
    BY DEF Lines, Torn
  <2>3. disk \in Seq(Attestations)
    BY <2>1, <2>2 DEF LogTypes
  <2> QED BY <1>4, <2>3 DEF Reload, LogTypes
<1>5. CASE UNCHANGED logVars
  BY <1>5 DEF logVars, LogTypes
<1> QED BY <1>1, <1>2, <1>3, <1>4, <1>5 DEF LogStep

LEMMA OneAheadKept == ASSUME LogInv, [LogStep]_logVars PROVE OneAhead'
<1> USE DEF LogInv
<1>0. entries \in Seq(Attestations) /\ disk \in Seq(Lines)
  BY DEF LogTypes
<1>1. ASSUME NEW d \in Decisions, Record(d), Verifies(disk)' PROVE OneAhead'
  <2>1. Verifies(Written(Entry(d)))
    BY <1>1 DEF Record, Verifies
  <2>2. disk' = entries'
    BY <1>1, <2>1, WrittenVerifies DEF Record
  <2>3. entries' \in Seq(Attestations)
    BY <1>1, EntryType DEF Record, LogTypes
  <2> QED BY <2>2, <2>3 DEF OneAhead
<1>2. ASSUME NEW d \in Decisions, NEW alive \in BOOLEAN, Interrupt(d, alive), Verifies(disk)'
      PROVE  OneAhead'
  <2>1. CASE disk' = Written(Torn)
    <3>1. AllJson(Written(Torn))
      BY <1>2, <2>1 DEF Verifies, AllJson
    <3> QED BY <3>1, TornIsNotJson
  <2>2. CASE disk' = Written(Entry(d))
    <3>1. Verifies(Written(Entry(d)))
      BY <1>2, <2>2 DEF Verifies
    <3>2. disk' = Append(entries, Entry(d)) /\ entries' = entries
      BY <1>2, <2>2, <3>1, WrittenVerifies DEF Interrupt
    <3>3. Entry(d) \in Attestations
      BY EntryType
    <3> QED BY <1>0, <3>2, <3>3 DEF OneAhead
  <2> QED BY <1>2, <2>1, <2>2 DEF Interrupt
<1>3. CASE Crash
  BY <1>3 DEF Crash, OneAhead, Verifies
<1>4. CASE Reload
  BY <1>0, <1>4 DEF Reload, OneAhead
<1>5. CASE UNCHANGED logVars
  BY <1>5 DEF logVars, OneAhead, Verifies
<1>6. ~Verifies(disk)' => OneAhead'
  BY DEF OneAhead
<1> QED BY <1>1, <1>2, <1>3, <1>4, <1>5, <1>6 DEF LogStep

LEMMA PersistedKept == ASSUME LogInv, [LogStep]_logVars PROVE RecordedIsPersisted'
<1> USE DEF LogInv
<1>0. entries \in Seq(Attestations) /\ disk \in Seq(Lines)
  BY DEF LogTypes
<1>1. SUFFICES ASSUME AllJson(disk)', NEW e \in DOMAIN entries'
               PROVE  \E i \in DOMAIN disk' : disk'[i] = entries'[e]
  BY DEF RecordedIsPersisted, AllJson
(* A line more, and the file still parses: it did before.                   *)
<1>2. ASSUME NEW x \in Lines, disk' = Written(x)
      PROVE  /\ disk' = Append(disk, x)
             /\ \A f \in DOMAIN entries : \E i \in DOMAIN disk' : disk'[i] = entries[f]
  <2>1. AllJson(Written(x))
    BY <1>1, <1>2 DEF AllJson
  <2>2. disk' = Append(disk, x)
    BY <1>2, <2>1, WrittenLine DEF LogTypes
  <2>3. \A i \in DOMAIN disk : i \in DOMAIN disk' /\ disk'[i] = disk[i]
    BY <1>0, <2>2
  <2>4. AllJson(disk)
    BY <1>1, <2>3 DEF AllJson
  <2>5. \A f \in DOMAIN entries : \E i \in DOMAIN disk : disk[i] = entries[f]
    BY <2>4 DEF RecordedIsPersisted, AllJson
  <2> QED BY <2>2, <2>3, <2>5
<1>3. ASSUME NEW d \in Decisions, Record(d)
      PROVE  \E i \in DOMAIN disk' : disk'[i] = entries'[e]
  <2>1. Entry(d) \in Attestations /\ Entry(d) \in Lines
    BY EntryType DEF Lines
  <2>2. disk' = Append(disk, Entry(d)) /\ entries' = Append(entries, Entry(d))
    BY <1>2, <1>3, <2>1 DEF Record
  <2>3. CASE e \in DOMAIN entries
    <3>1. entries'[e] = entries[e]
      BY <1>0, <2>1, <2>2, <2>3
    <3> QED BY <1>2, <1>3, <2>1, <2>3, <3>1 DEF Record
  <2>4. CASE e \notin DOMAIN entries
    <3>1. entries'[e] = Entry(d)
      BY <1>0, <1>1, <2>1, <2>2, <2>4
    <3>2. Len(disk) + 1 \in DOMAIN disk' /\ disk'[Len(disk) + 1] = Entry(d)
      BY <1>0, <2>1, <2>2
    <3> QED BY <3>1, <3>2
  <2> QED BY <2>3, <2>4
<1>4. ASSUME NEW d \in Decisions, NEW alive \in BOOLEAN, Interrupt(d, alive)
      PROVE  \E i \in DOMAIN disk' : disk'[i] = entries'[e]
  <2>1. Entry(d) \in Lines /\ Torn \in Lines
    BY EntryType DEF Lines
  <2>2. \E x \in Lines : disk' = Written(x)
    BY <1>4, <2>1 DEF Interrupt
  <2> QED BY <1>1, <1>2, <1>4, <2>2 DEF Interrupt
<1>5. CASE Crash \/ UNCHANGED logVars
  BY <1>1, <1>5 DEF Crash, logVars, RecordedIsPersisted, AllJson
<1>6. CASE Reload
  BY <1>1, <1>6 DEF Reload
<1> QED BY <1>3, <1>4, <1>5, <1>6 DEF LogStep

LEMMA LogInvariance == LogSpec => []LogInv
<1>1. LogInv /\ [LogStep]_logVars => LogInv'
  <2> SUFFICES ASSUME LogInv, [LogStep]_logVars PROVE LogInv'
    OBVIOUS
  <2> QED BY LogTypesKept, OneAheadKept, PersistedKept DEF LogInv
<1> QED BY <1>1, LogStart, PTL DEF LogSpec

(* Every decision record() returned is in the file, as long as the file     *)
(* parses: whatever failed, crashed or was started again in between.        *)
THEOREM Persisted == LogSpec => []RecordedIsPersisted
<1>1. LogInv => RecordedIsPersisted
  BY DEF LogInv
<1> QED BY <1>1, LogInvariance, PTL

(* A step of the log is one decision more, or none.                         *)
LEMMA LogSimulates ==
  ASSUME LogInv, [LogStep]_logVars
  PROVE  (\E d \in Decisions : Decided' = Append(Decided, d)) \/ Decided' = Decided
<1> USE DEF LogInv
<1>0. entries \in Seq(Attestations) /\ disk \in Seq(Lines)
  BY DEF LogTypes
<1>1. ASSUME NEW d \in Decisions, Record(d) PROVE Decided' = Append(Decided, d)
  <2>1. Entry(d) \in Attestations /\ Entry(d).decision = d
    BY EntryType
  <2>2. entries' = Append(entries, Entry(d))
    BY <1>1 DEF Record
  <2>3. /\ DOMAIN entries' = 1 .. Len(entries) + 1
        /\ DOMAIN entries = 1 .. Len(entries) /\ Len(entries) \in Nat
        /\ \A i \in DOMAIN entries : entries'[i] = entries[i]
        /\ entries'[Len(entries) + 1] = Entry(d)
    BY <1>0, <2>1, <2>2
  <2>4. \A i \in DOMAIN entries : entries[i].decision \in Decisions
    BY <1>0, Decision
  <2>5. Decided \in Seq(Decisions) /\ Len(Decided) = Len(entries)
    BY <2>3, <2>4 DEF Decided
  <2>6. Append(Decided, d) = [i \in 1 .. Len(entries) + 1 |->
                                IF i = Len(entries) + 1 THEN d ELSE entries[i].decision]
    BY <2>3, <2>5 DEF Decided
  <2>7. Decided' = [i \in 1 .. Len(entries) + 1 |-> entries'[i].decision]
    BY <2>3 DEF Decided
  <2>8. \A i \in 1 .. Len(entries) + 1 :
          entries'[i].decision = IF i = Len(entries) + 1 THEN d ELSE entries[i].decision
    BY <2>1, <2>3
  <2> QED BY <2>6, <2>7, <2>8
<1>2. CASE Reload
  <2>1. entries' = disk /\ Verifies(disk)
    BY <1>2 DEF Reload
  <2>2. /\ \A i \in DOMAIN entries : disk[i] = entries[i]
        /\ Len(disk) \in {Len(entries), Len(entries) + 1}
    BY <2>1 DEF OneAhead
  <2>3. CASE Len(disk) = Len(entries)
    <3>1. disk = entries
      BY <1>0, <2>2, <2>3
    <3> QED BY <2>1, <3>1 DEF Decided
  <2>4. CASE Len(disk) = Len(entries) + 1
    <3> DEFINE n == Len(entries) + 1
    <3>1. disk[n] \in Lines /\ disk[n].json
      BY <1>0, <2>1, <2>4 DEF Verifies
    <3>2. disk[n].decision \in Decisions
      <4>1. disk[n] \in Attestations
        BY <3>1 DEF Lines, Torn
      <4> QED BY <4>1 DEF Attestations
    <3>3. /\ DOMAIN disk = 1 .. n /\ DOMAIN entries = 1 .. Len(entries) /\ Len(entries) \in Nat
          /\ \A i \in DOMAIN entries : entries[i].decision \in Decisions
      BY <1>0, <2>4, Decision
    <3>4. Decided \in Seq(Decisions) /\ Len(Decided) = Len(entries)
      BY <3>3 DEF Decided
    <3>5. Append(Decided, disk[n].decision) =
            [i \in 1 .. n |-> IF i = n THEN disk[n].decision ELSE entries[i].decision]
      BY <3>2, <3>3, <3>4 DEF Decided
    <3>6. Decided' = [i \in 1 .. n |-> disk[i].decision]
      BY <2>1, <3>3 DEF Decided
    <3>7. \A i \in 1 .. n : disk[i].decision = IF i = n THEN disk[n].decision ELSE entries[i].decision
      <4> TAKE i \in 1 .. n
      <4>1. i # n => i \in DOMAIN entries
        BY <3>3
      <4> QED BY <2>2, <4>1
    <3>8. Decided' = Append(Decided, disk[n].decision)
      BY <3>5, <3>6, <3>7
    <3> QED BY <3>2, <3>8
  <2> QED BY <2>2, <2>3, <2>4
<1>3. ASSUME NEW d \in Decisions, NEW alive \in BOOLEAN, Interrupt(d, alive)
      PROVE  Decided' = Decided
  BY <1>3 DEF Interrupt, Decided
<1>4. CASE Crash \/ UNCHANGED logVars
  BY <1>4 DEF Crash, logVars, Decided
<1> QED BY <1>1, <1>2, <1>3, <1>4 DEF LogStep

(* The log across all its processes keeps the evidence: no failed write,    *)
(* crash or restart takes back, alters or inserts a decision, and only a    *)
(* running process attests, or a starting one the decision that was cut     *)
(* short.                                                                   *)
THEOREM Implements == LogSpec => KeepsEvidence
<1>1. LogInit => Promised!NothingAttested
  BY DEF LogInit, Promised!NothingAttested, Decided
<1>2. ASSUME LogInv, [LogStep]_logVars
      PROVE  [Promised!Attest \/ Promised!End \/ Promised!ComeUp]_<<Decided, running>>
  <2>1. Promised!Longer \/ UNCHANGED Decided
    BY <1>2, LogSimulates DEF Promised!Longer
  <2>2. ASSUME NEW d \in Decisions, Record(d)
        PROVE  Promised!Attest \/ UNCHANGED <<Decided, running>>
    <3>1. running /\ running' = running
      BY <2>2 DEF Record
    <3> QED BY <2>1, <3>1 DEF Promised!Attest
  <2>3. ASSUME NEW d \in Decisions, NEW alive \in BOOLEAN, Interrupt(d, alive)
        PROVE  Promised!End \/ UNCHANGED <<Decided, running>>
    <3>1. running /\ running' = alive /\ UNCHANGED Decided
      BY <2>3 DEF Interrupt, Decided
    <3>2. CASE alive
      <4>1. running = TRUE
        BY <1>2, <3>1 DEF LogInv, LogTypes
      <4> QED BY <3>1, <3>2, <4>1
    <3>3. CASE ~alive
      BY <3>1, <3>3 DEF Promised!End
    <3> QED BY <3>2, <3>3
  <2>4. CASE Crash
    <3>1. running /\ ~running' /\ UNCHANGED Decided
      BY <2>4 DEF Crash, Decided
    <3> QED BY <3>1 DEF Promised!End
  <2>5. CASE Reload
    <3>1. ~running /\ running'
      BY <2>5 DEF Reload
    <3> QED BY <2>1, <3>1 DEF Promised!ComeUp
  <2>6. CASE UNCHANGED logVars
    BY <2>6 DEF logVars, Decided
  <2> QED BY <1>2, <2>2, <2>3, <2>4, <2>5, <2>6 DEF LogStep
<1> QED BY <1>1, <1>2, LogInvariance, PTL DEF LogSpec, KeepsEvidence, Promised!Evidence

-----------------------------------------------------------------------------
(* The gate journal.                                                        *)

(* A bounded set of naturals has a greatest member.                         *)
LEMMA GreatestNatural ==
  ASSUME NEW n \in Nat, NEW T \in SUBSET (1..n), T # {}
  PROVE  \E m \in T : \A k \in T : k <= m
<1> DEFINE U == {n - k : k \in T}
<1>1. U \in SUBSET Nat /\ U # {}
  <2>1. \A k \in 1..n : n - k \in Nat
    OBVIOUS
  <2>2. PICK k \in T : TRUE
    OBVIOUS
  <2>3. n - k \in U
    OBVIOUS
  <2> QED BY <2>1, <2>3
<1>2. \E u \in U : \A v \in U : <<v, u>> \notin OpToRel(<, Nat)
  <2> HIDE DEF U
  <2> QED BY <1>1, NatLessThanWellFounded, WFMin
<1>3. \A u, v \in Nat : <<v, u>> \notin OpToRel(<, Nat) => u <= v
  BY DEF OpToRel
<1>4. PICK u \in U : \A v \in U : u <= v
  <2> HIDE DEF U
  <2> QED BY <1>1, <1>2, <1>3
<1>5. PICK m \in T : u = n - m
  OBVIOUS
<1>6. ASSUME NEW k \in T PROVE k <= m
  <2>1. n - k \in U
    OBVIOUS
  <2>2. n - m <= n - k
    BY <1>4, <1>5, <2>1
  <2> QED BY <2>2
<1> QED BY <1>6

Doing == {"start", "locked", "write", "end"}
Places == Nat \union {Nothing}

JournalTypes ==
  /\ \E S : lines \in Seq(S)
  /\ cut => Len(lines) > 0
  /\ \A i \in DOMAIN lines : lines[i].parses => lines[i].seq \in Places
  /\ \E P : writer \in [Writers -> [pc : Doing, seq : Places, prev : P]]

(* Whoever is about to take a place holds the lock.                         *)
PlacesUnderLock ==
  \A w \in Writers :
    /\ writer[w].pc = "locked" => lock = w
    /\ writer[w].pc = "write" /\ writer[w].seq # Nothing => lock = w
    /\ writer[w].pc \in {"start", "locked"} => writer[w].seq = Nothing

Clean == Damaged = {} /\ ~misread

(* In an undamaged file that was never misread the places ascend, each      *)
(* record links to an earlier one, and who is about to write still knows    *)
(* the tail.                                                                *)
PlacesAscend ==
  Clean =>
    /\ \A i, j \in Chained : i < j => lines[i].seq < lines[j].seq
    /\ \A i \in Chained :
         \/ lines[i].seq = 0 /\ lines[i].prev = Genesis
         \/ \E j \in Chained : /\ lines[j].seq = lines[i].seq - 1
                               /\ lines[i].prev = Digest(lines[j])
    /\ \A w \in Writers : writer[w].pc = "write" /\ writer[w].seq # Nothing =>
         writer[w].seq = TailSeq /\ writer[w].prev = TailDigest

(* In an undamaged file every persisted record is there, on a line of its   *)
(* own.                                                                     *)
KeptWhole ==
  Damaged = {} =>
    \A r \in persisted : \E i \in DOMAIN lines : lines[i] = r /\ ~(cut /\ i = Len(lines))

JournalInv == JournalTypes /\ PlacesUnderLock /\ PlacesAscend /\ KeptWhole

(* The tail is the last of the records with a place.                        *)
LEMMA TailIsLast ==
  ASSUME JournalTypes, Chained # {}
  PROVE  TailIndex \in Chained /\ \A j \in Chained : j <= TailIndex
<1>1. PICK S : lines \in Seq(S)
  BY DEF JournalTypes
<1>2. Len(lines) \in Nat /\ Chained \in SUBSET (1..Len(lines))
  BY <1>1 DEF Chained
<1>3. \E m \in Chained : \A k \in Chained : k <= m
  BY <1>2, GreatestNatural
<1> QED BY <1>3 DEF TailIndex

LEMMA TailSeqType ==
  ASSUME JournalTypes PROVE TailSeq \in Nat
<1>1. CASE Chained = {}
  BY <1>1 DEF TailSeq
<1>2. CASE Chained # {}
  <2>1. TailIndex \in Chained
    BY <1>2, TailIsLast
  <2>2. lines[TailIndex].seq \in Nat
    BY <2>1 DEF JournalTypes, Chained, Places
  <2> QED BY <1>2, <2>2 DEF TailSeq
<1> QED BY <1>1, <1>2

(* What appending leaves in the file.                                       *)
LEMMA AppendedLines ==
  ASSUME JournalTypes, NEW line, NEW open, Appended(line, open)
  PROVE  /\ \E S : lines' \in Seq(S)
         /\ Len(lines') > 0
         /\ cut => /\ DOMAIN lines' = DOMAIN lines /\ Len(lines) \in DOMAIN lines
                   /\ lines'[Len(lines)] = Damage
                   /\ \A i \in DOMAIN lines : i # Len(lines) => lines'[i] = lines[i]
         /\ ~cut => /\ DOMAIN lines' = DOMAIN lines \union {Len(lines) + 1}
                    /\ Len(lines) + 1 \notin DOMAIN lines /\ Len(lines') = Len(lines) + 1
                    /\ lines'[Len(lines) + 1] = line
                    /\ \A i \in DOMAIN lines : lines'[i] = lines[i] /\ i < Len(lines) + 1
<1>1. PICK S : lines \in Seq(S)
  BY DEF JournalTypes
<1>2. CASE cut
  <2>1. lines \in Seq(S \union {Damage}) /\ Len(lines) \in 1..Len(lines)
    BY <1>1, <1>2 DEF JournalTypes
  <2>2. lines' = [lines EXCEPT ![Len(lines)] = Damage]
    BY <1>2 DEF Appended
  <2>3. lines' \in Seq(S \union {Damage}) /\ Len(lines') = Len(lines)
    BY <2>1, <2>2
  <2> QED BY <1>2, <2>1, <2>2, <2>3
<1>3. CASE ~cut
  <2>1. lines \in Seq(S \union {line}) /\ line \in S \union {line}
    BY <1>1
  <2>2. lines' = Append(lines, line)
    BY <1>3 DEF Appended
  <2> QED BY <1>3, <2>1, <2>2
<1> QED BY <1>2, <1>3

(* A file that is whole after an append was whole before it.                *)
LEMMA WholeBefore ==
  ASSUME JournalTypes, NEW line, NEW open, Appended(line, open), Damaged' = {}
  PROVE  ~cut /\ Damaged = {} /\ line.parses
<1>1. cut => Len(lines) \in DOMAIN lines' /\ lines'[Len(lines)] = Damage
  BY AppendedLines
<1>2. ~Damage.parses
  BY DEF Damage
<1>3. ~cut
  BY <1>1, <1>2 DEF Damaged
<1>4. \A i \in DOMAIN lines : i \in DOMAIN lines' /\ lines'[i] = lines[i]
  BY <1>3, AppendedLines
<1>5. Len(lines) + 1 \in DOMAIN lines' /\ lines'[Len(lines) + 1] = line
  BY <1>3, AppendedLines
<1> QED BY <1>3, <1>4, <1>5 DEF Damaged

(* A record without a place leaves the tail where it was.                   *)
LEMMA UnplacedAppended ==
  ASSUME JournalTypes, NEW line, NEW open, Appended(line, open), Damaged' = {}, line.seq = Nothing
  PROVE  /\ Chained' = Chained /\ \A i \in Chained : lines'[i] = lines[i]
         /\ TailSeq' = TailSeq /\ TailDigest' = TailDigest
<1>1. ~cut
  BY WholeBefore
<1>2. /\ DOMAIN lines' = DOMAIN lines \union {Len(lines) + 1}
      /\ lines'[Len(lines) + 1] = line
      /\ \A i \in DOMAIN lines : lines'[i] = lines[i]
  BY <1>1, AppendedLines
<1>3. Chained' = Chained
  BY <1>2 DEF Chained
<1>4. \A i \in Chained : lines'[i] = lines[i]
  BY <1>2 DEF Chained
<1>5. TailIndex' = TailIndex
  BY <1>3 DEF TailIndex
<1>6. Chained # {} => TailIndex \in Chained
  BY TailIsLast
<1> QED BY <1>3, <1>4, <1>5, <1>6 DEF TailSeq, TailDigest

(* A record placed behind the tail is the new tail.                         *)
LEMMA PlacedAppended ==
  ASSUME JournalTypes, NEW line, NEW open, Appended(line, open), Damaged' = {},
         line.seq \in Nat
  PROVE  /\ Chained' = Chained \union {Len(lines) + 1} /\ \A i \in Chained : i < Len(lines) + 1
         /\ lines'[Len(lines) + 1] = line /\ \A i \in Chained : lines'[i] = lines[i]
<1>1. ~cut /\ line.parses
  BY WholeBefore
<1>2. /\ DOMAIN lines' = DOMAIN lines \union {Len(lines) + 1}
      /\ lines'[Len(lines) + 1] = line
      /\ \A i \in DOMAIN lines : lines'[i] = lines[i] /\ i < Len(lines) + 1
  BY <1>1, AppendedLines
<1>3. line.seq # Nothing
  BY JournalAssumption
<1>4. Chained' = Chained \union {Len(lines) + 1}
  BY <1>1, <1>2, <1>3 DEF Chained
<1> QED BY <1>2, <1>4 DEF Chained

LEMMA JournalStart == JournalInit => JournalInv
<1> SUFFICES ASSUME JournalInit PROVE JournalInv
  OBVIOUS
<1>1. lines = <<>> /\ lines \in Seq({}) /\ DOMAIN lines = {}
  BY DEF JournalInit
<1>2. Start \in [pc : Doing, seq : Places, prev : {Nothing}]
  BY DEF Start, Doing, Places
<1>3. writer \in [Writers -> [pc : Doing, seq : Places, prev : {Nothing}]]
  BY <1>2 DEF JournalInit
<1>4. JournalTypes
  BY <1>1, <1>3 DEF JournalTypes, JournalInit
<1>5. \A w \in Writers : writer[w].pc = "start" /\ writer[w].seq = Nothing
  BY DEF JournalInit, Start
<1> QED BY <1>1, <1>4, <1>5
        DEF JournalInv, PlacesUnderLock, PlacesAscend, KeptWhole, Chained, JournalInit

(* The steps that write nothing: what is left is what the writer knows.     *)
LEMMA FileLeftAlone ==
  ASSUME lines' = lines
  PROVE  /\ Damaged' = Damaged /\ Chained' = Chained
         /\ TailSeq' = TailSeq /\ TailDigest' = TailDigest
BY DEF Damaged, Chained, TailSeq, TailDigest, TailIndex

(* What a step of w leaves of the writers.                                  *)
LEMMA WriterEnds ==
  ASSUME JournalTypes, NEW w \in Writers, Ends(w)
  PROVE  /\ \E P : writer' \in [Writers -> [pc : Doing, seq : Places, prev : P]]
         /\ writer'[w].pc = "end"
         /\ \A u \in Writers \ {w} : writer'[u] = writer[u]
<1>1. PICK P : writer \in [Writers -> [pc : Doing, seq : Places, prev : P]]
  BY DEF JournalTypes
<1>2. writer' = [writer EXCEPT ![w] = [writer[w] EXCEPT !.pc = "end"]]
  BY DEF Ends
<1>3. writer[w] \in [pc : Doing, seq : Places, prev : P]
  BY <1>1
<1>4. /\ [writer[w] EXCEPT !.pc = "end"] \in [pc : Doing, seq : Places, prev : P]
      /\ [writer[w] EXCEPT !.pc = "end"].pc = "end"
  BY <1>3 DEF Doing
<1>5. writer' \in [Writers -> [pc : Doing, seq : Places, prev : P]]
  BY <1>1, <1>2, <1>4
<1> QED BY <1>1, <1>2, <1>4, <1>5

LEMMA WriterMoves ==
  ASSUME JournalTypes, NEW w \in Writers, NEW pc \in {"locked", "write"},
         writer' = [writer EXCEPT ![w].pc = pc]
  PROVE  /\ \E P : writer' \in [Writers -> [pc : Doing, seq : Places, prev : P]]
         /\ writer'[w].pc = pc /\ writer'[w].seq = writer[w].seq
         /\ \A u \in Writers \ {w} : writer'[u] = writer[u]
<1>1. PICK P : writer \in [Writers -> [pc : Doing, seq : Places, prev : P]]
  BY DEF JournalTypes
<1>2. writer' = [writer EXCEPT ![w] = [writer[w] EXCEPT !.pc = pc]]
  OBVIOUS
<1>3. writer[w] \in [pc : Doing, seq : Places, prev : P]
  BY <1>1
<1>4. /\ [writer[w] EXCEPT !.pc = pc] \in [pc : Doing, seq : Places, prev : P]
      /\ [writer[w] EXCEPT !.pc = pc].pc = pc
      /\ [writer[w] EXCEPT !.pc = pc].seq = writer[w].seq
  BY <1>3 DEF Doing
<1>5. writer' \in [Writers -> [pc : Doing, seq : Places, prev : P]]
  BY <1>1, <1>2, <1>4
<1> QED BY <1>1, <1>2, <1>4, <1>5

LEMMA AcquireKeeps ==
  ASSUME JournalInv, NEW w \in Writers, Acquire(w)
  PROVE  JournalInv'
<1> USE DEF JournalInv
<1>1. /\ \E P : writer' \in [Writers -> [pc : Doing, seq : Places, prev : P]]
      /\ writer'[w].pc = "locked" /\ writer'[w].seq = writer[w].seq
      /\ \A u \in Writers \ {w} : writer'[u] = writer[u]
  BY WriterMoves DEF Acquire
<1>2. lines' = lines /\ cut' = cut /\ persisted' = persisted /\ misread' = misread
  BY DEF Acquire
<1>3. \A u \in Writers : lock # u
  BY JournalAssumption DEF Acquire
<1>4. PlacesUnderLock'
  BY <1>1, <1>3 DEF PlacesUnderLock, Acquire
<1>5. PlacesAscend'
  BY <1>1, <1>2, FileLeftAlone DEF PlacesAscend, Clean
<1> QED BY <1>1, <1>2, <1>4, <1>5, FileLeftAlone DEF JournalTypes, KeptWhole

LEMMA GiveUpKeeps ==
  ASSUME JournalInv, NEW w \in Writers, GiveUp(w)
  PROVE  JournalInv'
<1> USE DEF JournalInv
<1>1. /\ \E P : writer' \in [Writers -> [pc : Doing, seq : Places, prev : P]]
      /\ writer'[w].pc = "write" /\ writer'[w].seq = writer[w].seq
      /\ \A u \in Writers \ {w} : writer'[u] = writer[u]
  BY WriterMoves DEF GiveUp
<1>2. lines' = lines /\ cut' = cut /\ persisted' = persisted /\ misread' = misread /\ lock' = lock
  BY DEF GiveUp
<1>3. writer'[w].seq = Nothing
  BY <1>1 DEF GiveUp, PlacesUnderLock
<1>4. PlacesUnderLock'
  BY <1>1, <1>2, <1>3 DEF PlacesUnderLock
<1>5. PlacesAscend'
  BY <1>1, <1>2, <1>3, FileLeftAlone DEF PlacesAscend, Clean
<1> QED BY <1>1, <1>2, <1>4, <1>5, FileLeftAlone DEF JournalTypes, KeptWhole

LEMMA ReadTailKeeps ==
  ASSUME JournalInv, NEW w \in Writers, NEW raises \in BOOLEAN, ReadTail(w, raises)
  PROVE  JournalInv'
<1> USE DEF JournalInv
<1> DEFINE read == [pc |-> "write", seq |-> IF raises THEN 0 ELSE TailSeq,
                    prev |-> IF raises THEN Genesis ELSE TailDigest]
<1>1. PICK P : writer \in [Writers -> [pc : Doing, seq : Places, prev : P]]
  BY DEF JournalTypes
<1>2. read \in [pc : Doing, seq : Places, prev : P \union {read.prev}]
  BY TailSeqType DEF Doing, Places
<1>3. writer' = [writer EXCEPT ![w] = read]
  BY DEF ReadTail
<1>4. writer' \in [Writers -> [pc : Doing, seq : Places, prev : P \union {read.prev}]]
  <2>1. \A u \in Writers : writer[u] \in [pc : Doing, seq : Places, prev : P \union {read.prev}]
    BY <1>1
  <2> HIDE DEF read
  <2> QED BY <1>1, <1>2, <1>3, <2>1
<1>5. writer'[w] = read /\ \A u \in Writers \ {w} : writer'[u] = writer[u]
  BY <1>1, <1>3
<1>6. lines' = lines /\ cut' = cut /\ persisted' = persisted /\ lock' = lock
  BY DEF ReadTail
<1>7. writer[w].pc = "locked" /\ lock = w
  BY DEF ReadTail, PlacesUnderLock
<1>8. PlacesUnderLock'
  BY <1>5, <1>6, <1>7 DEF PlacesUnderLock
<1>9. PlacesAscend'
  <2>1. Clean' => Clean /\ (raises => lines = <<>>)
    BY <1>6, FileLeftAlone DEF Clean, ReadTail
  <2>2. lines = <<>> => TailSeq = 0 /\ TailDigest = Genesis
    BY DEF TailSeq, TailDigest, Chained
  <2>3. Clean' => read.seq = TailSeq /\ read.prev = TailDigest
    BY <2>1, <2>2
  <2> QED BY <1>5, <1>6, <2>1, <2>3, FileLeftAlone DEF PlacesAscend
<1> QED BY <1>4, <1>6, <1>8, <1>9, FileLeftAlone DEF JournalTypes, KeptWhole

LEMMA DieEarlyKeeps ==
  ASSUME JournalInv, NEW w \in Writers, DieEarly(w)
  PROVE  JournalInv'
<1> USE DEF JournalInv
<1>1. /\ \E P : writer' \in [Writers -> [pc : Doing, seq : Places, prev : P]]
      /\ writer'[w].pc = "end"
      /\ \A u \in Writers \ {w} : writer'[u] = writer[u]
  BY WriterEnds DEF DieEarly
<1>2. lines' = lines /\ cut' = cut /\ persisted' = persisted /\ misread' = misread
  BY DEF DieEarly
<1>3. \A u \in Writers \ {w} : lock = u => lock' = u
  BY DEF DieEarly, Freed
<1>4. PlacesUnderLock'
  BY <1>1, <1>3 DEF PlacesUnderLock
<1>5. PlacesAscend'
  BY <1>1, <1>2, FileLeftAlone DEF PlacesAscend, Clean
<1> QED BY <1>1, <1>2, <1>4, <1>5, FileLeftAlone DEF JournalTypes, KeptWhole

(* A record with a place is written behind the tail its writer read, which  *)
(* nobody else moved since: the writer has the lock.                        *)
LEMMA AppendKeepsChain ==
  ASSUME JournalInv, NEW w \in Writers, writer[w].pc = "write",
         NEW line \in {Damage, Own(w)}, NEW open \in BOOLEAN, Appended(line, open),
         Freed(w), Ends(w), misread' = misread
  PROVE  JournalTypes' /\ PlacesUnderLock' /\ PlacesAscend'
<1> USE DEF JournalInv
<1>1. /\ \E P : writer' \in [Writers -> [pc : Doing, seq : Places, prev : P]]
      /\ writer'[w].pc = "end"
      /\ \A u \in Writers \ {w} : writer'[u] = writer[u]
  BY WriterEnds
<1>2. writer[w].seq \in Places
  BY DEF JournalTypes
<1>3. line.parses => /\ line = Own(w) /\ line.seq = writer[w].seq
                     /\ line.prev = writer[w].prev
  BY DEF Damage, Own, Rec
<1>4. JournalTypes'
  <2>1. ASSUME NEW i \in DOMAIN lines', lines'[i].parses PROVE lines'[i].seq \in Places
    <3>1. ~Damage.parses
      BY DEF Damage
    <3>2. CASE cut
      <4>1. i \in DOMAIN lines /\ i # Len(lines) /\ lines'[i] = lines[i]
        BY <2>1, <3>1, <3>2, AppendedLines
      <4> QED BY <2>1, <4>1 DEF JournalTypes
    <3>3. CASE ~cut
      <4>1. (i \in DOMAIN lines /\ lines'[i] = lines[i]) \/ lines'[i] = line
        BY <3>3, AppendedLines
      <4> QED BY <1>2, <1>3, <2>1, <4>1 DEF JournalTypes
    <3> QED BY <3>2, <3>3
  <2>2. (\E S : lines' \in Seq(S)) /\ Len(lines') > 0
    BY AppendedLines
  <2> QED BY <1>1, <2>1, <2>2 DEF JournalTypes
<1>5. PlacesUnderLock'
  <2>1. \A u \in Writers \ {w} : lock = u => lock' = u
    BY DEF Freed
  <2> QED BY <1>1, <2>1 DEF PlacesUnderLock
<1>6. ASSUME Clean'
      PROVE  /\ (\A i, j \in Chained : i < j => lines[i].seq < lines[j].seq)'
             /\ (\A i \in Chained :
                   \/ lines[i].seq = 0 /\ lines[i].prev = Genesis
                   \/ \E j \in Chained : /\ lines[j].seq = lines[i].seq - 1
                                         /\ lines[i].prev = Digest(lines[j]))'
             /\ (\A u \in Writers : writer[u].pc = "write" /\ writer[u].seq # Nothing =>
                   writer[u].seq = TailSeq /\ writer[u].prev = TailDigest)'
  <2>1. Damaged' = {} /\ Clean /\ line.parses
    BY <1>6, WholeBefore DEF Clean
  <2>2. /\ line.seq = writer[w].seq /\ line.prev = writer[w].prev
    BY <1>3, <2>1
  <2>3. /\ \A i, j \in Chained : i < j => lines[i].seq < lines[j].seq
        /\ \A i \in Chained :
             \/ lines[i].seq = 0 /\ lines[i].prev = Genesis
             \/ \E j \in Chained : /\ lines[j].seq = lines[i].seq - 1
                                   /\ lines[i].prev = Digest(lines[j])
    BY <2>1 DEF PlacesAscend
  <2>4. CASE line.seq = Nothing
    <3>1. /\ Chained' = Chained /\ \A i \in Chained : lines'[i] = lines[i]
          /\ TailSeq' = TailSeq /\ TailDigest' = TailDigest
      BY <2>1, <2>4, UnplacedAppended
    <3>2. ASSUME NEW u \in Writers, writer'[u].pc = "write", writer'[u].seq # Nothing
          PROVE  writer'[u].seq = TailSeq /\ writer'[u].prev = TailDigest
      <4>1. u # w /\ writer'[u] = writer[u]
        BY <1>1, <3>2
      <4> QED BY <2>1, <3>2, <4>1 DEF PlacesAscend
    <3> QED BY <2>3, <3>1, <3>2
  <2>5. CASE line.seq # Nothing
    <3> DEFINE n == Len(lines) + 1
    <3>1. line.seq \in Nat /\ lock = w
      BY <1>2, <2>2, <2>5 DEF Places, PlacesUnderLock
    <3>2. line.seq = TailSeq /\ line.prev = TailDigest
      BY <2>1, <2>2, <2>5 DEF PlacesAscend
    <3>3. /\ Chained' = Chained \union {n} /\ \A i \in Chained : i < n
          /\ lines'[n] = line /\ \A i \in Chained : lines'[i] = lines[i]
      BY <2>1, <3>1, PlacedAppended
    <3>4. ASSUME NEW u \in Writers
          PROVE  ~(writer'[u].pc = "write" /\ writer'[u].seq # Nothing)
      <4>1. CASE u = w
        BY <1>1, <4>1
      <4>2. CASE u # w
        BY <1>1, <3>1, <4>2 DEF PlacesUnderLock
      <4> QED BY <4>1, <4>2
    <3>5. \A i \in Chained : i \in Nat /\ lines[i].seq \in Nat
      BY <2>1 DEF JournalTypes, Chained, Places
    <3>6. n \in Nat
      BY DEF JournalTypes
    <3>7. ASSUME NEW i \in Chained PROVE lines[i].seq < line.seq
      <4>1. TailIndex \in Chained /\ i <= TailIndex /\ TailSeq = lines[TailIndex].seq + 1
        BY <3>7, TailIsLast DEF TailSeq
      <4>2. i = TailIndex \/ lines[i].seq < lines[TailIndex].seq
        BY <2>3, <3>5, <4>1
      <4> QED BY <3>2, <3>5, <4>1, <4>2
    <3>8. \/ line.seq = 0 /\ line.prev = Genesis
          \/ \E j \in Chained : lines[j].seq = line.seq - 1 /\ line.prev = Digest(lines[j])
      <4>1. CASE Chained = {}
        BY <3>2, <4>1 DEF TailSeq, TailDigest
      <4>2. CASE Chained # {}
        <5>1. /\ TailIndex \in Chained
              /\ line.seq = lines[TailIndex].seq + 1 /\ line.prev = Digest(lines[TailIndex])
          BY <3>2, <4>2, TailIsLast DEF TailSeq, TailDigest
        <5>2. lines[TailIndex].seq = line.seq - 1
          BY <3>5, <5>1
        <5> QED BY <5>1, <5>2
      <4> QED BY <4>1, <4>2
    <3> HIDE DEF n
    <3>9. ASSUME NEW i \in Chained', NEW j \in Chained', i < j
          PROVE  lines'[i].seq < lines'[j].seq
      BY <2>3, <3>3, <3>5, <3>6, <3>7, <3>9
    <3>10. ASSUME NEW i \in Chained'
           PROVE  \/ lines'[i].seq = 0 /\ lines'[i].prev = Genesis
                  \/ \E j \in Chained' : /\ lines'[j].seq = lines'[i].seq - 1
                                         /\ lines'[i].prev = Digest(lines'[j])
      <4>1. CASE i \in Chained
        BY <2>3, <3>3, <4>1
      <4>2. CASE i = n
        BY <3>3, <3>8, <4>2
      <4> QED BY <3>3, <4>1, <4>2
    <3> QED BY <3>4, <3>9, <3>10
  <2> QED BY <2>4, <2>5
<1>7. PlacesAscend'
  BY <1>6 DEF PlacesAscend
<1> QED BY <1>4, <1>5, <1>7

LEMMA WriteKeeps ==
  ASSUME JournalInv, NEW w \in Writers, Write(w)
  PROVE  JournalInv'
<1>1. JournalTypes' /\ PlacesUnderLock' /\ PlacesAscend'
  BY AppendKeepsChain DEF Write
<1>2. ASSUME Damaged' = {}, NEW r \in persisted'
      PROVE  \E i \in DOMAIN lines' : lines'[i] = r /\ ~(cut' /\ i = Len(lines'))
  <2>1. Appended(Own(w), FALSE) /\ JournalTypes
    BY DEF Write, JournalInv
  <2>2. ~cut /\ Damaged = {} /\ ~cut'
    BY <1>2, <2>1, WholeBefore DEF Appended
  <2>3. CASE r \in persisted
    <3>1. PICK i \in DOMAIN lines : lines[i] = r
      BY <2>2, <2>3 DEF JournalInv, KeptWhole
    <3>2. i \in DOMAIN lines' /\ lines'[i] = r
      BY <2>1, <2>2, <3>1, AppendedLines
    <3> QED BY <2>2, <3>2
  <2>4. CASE r = Own(w)
    <3>1. Len(lines) + 1 \in DOMAIN lines' /\ lines'[Len(lines) + 1] = r
      BY <2>1, <2>2, <2>4, AppendedLines
    <3> QED BY <2>2, <3>1
  <2> QED BY <2>3, <2>4 DEF Write
<1> QED BY <1>1, <1>2 DEF JournalInv, KeptWhole

LEMMA BreakOffKeeps ==
  ASSUME JournalInv, NEW w \in Writers, BreakOff(w)
  PROVE  JournalInv'
<1>1. PICK piece \in {Damage, Own(w)} : Appended(piece, TRUE)
  BY DEF BreakOff
<1>2. JournalTypes' /\ PlacesUnderLock' /\ PlacesAscend'
  BY <1>1, AppendKeepsChain DEF BreakOff
<1>3. ASSUME Damaged' = {}, NEW r \in persisted'
      PROVE  \E i \in DOMAIN lines' : lines'[i] = r /\ ~(cut' /\ i = Len(lines'))
  <2>1. JournalTypes /\ persisted' = persisted
    BY DEF BreakOff, JournalInv
  <2>2. ~cut /\ Damaged = {}
    BY <1>1, <1>3, <2>1, WholeBefore
  <2>3. PICK i \in DOMAIN lines : lines[i] = r
    BY <1>3, <2>1, <2>2 DEF JournalInv, KeptWhole
  <2>4. i \in DOMAIN lines' /\ lines'[i] = r /\ i # Len(lines')
    BY <1>1, <2>1, <2>2, <2>3, AppendedLines
  <2> QED BY <2>4
<1> QED BY <1>2, <1>3 DEF JournalInv, KeptWhole

LEMMA JournalInvariance == JournalSpec => []JournalInv
<1>1. JournalInv /\ [JournalNext]_journalVars => JournalInv'
  <2>1. ASSUME JournalInv, JournalNext PROVE JournalInv'
    BY <2>1, AcquireKeeps, GiveUpKeeps, WriteKeeps, BreakOffKeeps, DieEarlyKeeps, ReadTailKeeps
       DEF JournalNext
  <2>2. ASSUME JournalInv, UNCHANGED journalVars PROVE JournalInv'
    <3>1. /\ lines' = lines /\ cut' = cut /\ lock' = lock /\ writer' = writer
          /\ persisted' = persisted /\ misread' = misread
      BY <2>2 DEF journalVars
    <3> QED BY <2>2, <3>1, FileLeftAlone
            DEF JournalInv, JournalTypes, PlacesUnderLock, PlacesAscend, KeptWhole, Clean
  <2> QED BY <2>1, <2>2
<1> QED BY <1>1, JournalStart, PTL DEF JournalSpec

(* However many processes append at once, with and without the lock, dying  *)
(* anywhere, the chain stays intact while every line parses and no tail was *)
(* misread.                                                                 *)
THEOREM ChainBreaksByDamageOnly == JournalSpec => []OnlyDamageBreaksTheChain
<1>1. JournalInv => OnlyDamageBreaksTheChain
  <2> SUFFICES ASSUME JournalInv, Clean PROVE ChainIntact
    BY DEF OnlyDamageBreaksTheChain, Clean
  <2>1. /\ \A i, j \in Chained : i < j => lines[i].seq < lines[j].seq
        /\ \A i \in Chained :
             \/ lines[i].seq = 0 /\ lines[i].prev = Genesis
             \/ \E j \in Chained : /\ lines[j].seq = lines[i].seq - 1
                                   /\ lines[i].prev = Digest(lines[j])
    BY DEF JournalInv, PlacesAscend
  <2>2. \A i \in Chained : i \in Nat /\ lines[i].seq \in Nat
    BY DEF JournalInv, JournalTypes, Chained, Places
  <2>3. ASSUME NEW i \in Chained, NEW j \in Chained \ {i} PROVE lines[j].seq # lines[i].seq
    BY <2>1, <2>2, <2>3
  <2>4. ASSUME NEW i \in Chained
        PROVE  IF lines[i].seq = 0 THEN lines[i].prev = Genesis
               ELSE \E j \in Chained : /\ lines[j].seq = lines[i].seq - 1
                                      /\ lines[i].prev = Digest(lines[j])
    <3>1. \A j \in Chained : lines[i].seq = 0 => lines[j].seq # lines[i].seq - 1
      BY <2>2, <2>4
    <3> QED BY <2>1, <3>1
  <2> QED BY <2>3, <2>4 DEF ChainIntact
<1> QED BY <1>1, JournalInvariance, PTL

(* A record reported as persisted that cannot be read any more is never     *)
(* covered up by a clean verification.                                      *)
THEOREM LossesShow == JournalSpec => []LossShows
<1>1. JournalInv => LossShows
  BY DEF JournalInv, KeptWhole, LossShows, VerifyOk
<1> QED BY <1>1, JournalInvariance, PTL
=============================================================================
