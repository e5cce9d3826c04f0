--------------------------- MODULE AttestationLog ---------------------------
(***************************************************************************)
(* containment/attestation.py: the chain of containment decisions, kept in *)
(* memory and in a JSONL file, through failing disks, crashes and restarts.*)
(*                                                                         *)
(* record() holds the lock from reading the head to appending the entry,   *)
(* so calls of several threads never interleave; what can come between is  *)
(* a failing write or the end of the process.  A write puts nothing, a     *)
(* piece of its line, the line without its newline, or the whole line into *)
(* the file.  A line that is not JSON is Torn; a line the next record was  *)
(* glued to is one of those.  A digest names a record and, through the     *)
(* digest the record is chained to, every record before it.                *)
(***************************************************************************)
EXTENDS Naturals, Sequences

CONSTANTS
  Decisions,     \* the decisions to record
  MaxRecords     \* bounds the calls of record()

ASSUME MaxRecordsAssumption == MaxRecords \in Nat

VARIABLES
  entries,       \* self._entries; what they were when the process ended, until the next one loads
  disk,          \* the lines of the file
  unended,       \* the last line of the file has no newline
  running        \* the process runs: its constructor did not raise

logVars == <<entries, disk, unended, running>>

GENESIS == <<>>

(* A line that is not JSON.                                                 *)
Torn == [json |-> FALSE]

(* compute_digest: the record and all it is chained to.                     *)
ChainDigest(r) == Append(r.prev, r.decision)

HeadOf(log) == IF log = <<>> THEN GENESIS ELSE ChainDigest(log[Len(log)])

Entry(d) == [json |-> TRUE, seq |-> Len(entries), decision |-> d, prev |-> HeadOf(entries)]

VerifiesParsed(log) ==     \* mutant: only that every line parses
  \A i \in DOMAIN log : log[i].json

(* verify_records from the start of the log: every line parses, follows the *)
(* one before it and holds its place in the sequence.                       *)
Verifies(log) ==
  /\ \A i \in DOMAIN log : log[i].json
  /\ \A i \in DOMAIN log :
       /\ log[i].seq = i - 1
       /\ log[i].prev = (IF i = 1 THEN GENESIS ELSE ChainDigest(log[i - 1]))

(* A line written behind one without a newline is glued to it.              *)
Written(line) == IF unended THEN [disk EXCEPT ![Len(disk)] = Torn] ELSE Append(disk, line)

LogInit == entries = <<>> /\ disk = <<>> /\ unended = FALSE /\ running = TRUE

(* record(): the line reaches the file, then the entry joins the chain.     *)
Record(d) ==
  /\ running
  /\ Len(disk) < MaxRecords /\ Len(entries) < MaxRecords
  /\ disk' = Written(Entry(d)) /\ unended' = FALSE
  /\ entries' = Append(entries, Entry(d))
  /\ UNCHANGED running

InterruptAhead(d, alive) ==     \* mutant: the entry joins the chain before it is written
  /\ running
  /\ Len(disk) < MaxRecords
  /\ \/ disk' = Written(Torn) /\ unended' = TRUE
     \/ disk' = Written(Entry(d)) /\ unended' \in BOOLEAN
     \/ UNCHANGED <<disk, unended>>
  /\ running' = alive
  /\ entries' = Append(entries, Entry(d))

(* The write or the fsync raises: what got into the file stays there, the   *)
(* chain in memory does not move and the caller gets the error.  Or the     *)
(* process ends at that point.                                              *)
Interrupt(d, alive) ==
  /\ running
  /\ Len(disk) < MaxRecords
  /\ \/ disk' = Written(Torn) /\ unended' = TRUE
     \/ disk' = Written(Entry(d)) /\ unended' \in BOOLEAN
  /\ running' = alive
  /\ UNCHANGED entries

Crash == running /\ running' = FALSE /\ UNCHANGED <<entries, disk, unended>>

(* _reload in the constructor of the next process, which raises unless the  *)
(* whole file verifies.                                                     *)
Reload ==
  /\ ~running
  /\ Verifies(disk)
  /\ entries' = disk /\ running' = TRUE
  /\ UNCHANGED <<disk, unended>>

LogStep ==
  \/ \E d \in Decisions : Record(d) \/ \E alive \in BOOLEAN : Interrupt(d, alive)
  \/ Crash
  \/ Reload

LogSpec == LogInit /\ [][LogStep]_logVars

-----------------------------------------------------------------------------
(* What the service holds, across all its processes, is a chain of          *)
(* evidence: no crash, failed write or restart takes back a decision that   *)
(* was recorded, alters one or inserts one, and a restart adds at most the  *)
(* one whose write was cut short; a file that could do otherwise is not     *)
(* loaded at all (record, _reload).                                         *)
Decided == [i \in DOMAIN entries |-> entries[i].decision]

Promised == INSTANCE EvidenceChain WITH Verdicts <- Decisions, chain <- Decided, up <- running

KeepsEvidence == Promised!Evidence

(* As long as every line of the file parses, every decision that record()   *)
(* returned is in the file (written before it joins the chain).             *)
RecordedIsPersisted ==
  (\A i \in DOMAIN disk : disk[i].json) =>
    \A e \in DOMAIN entries : \E i \in DOMAIN disk : disk[i] = entries[e]
=============================================================================
