---------------------------- MODULE GateJournal ----------------------------
(***************************************************************************)
(* gate/journal.py: the one file every hook process appends its record to. *)
(* A record takes its place in the hash chain under a file lock, by        *)
(* reading the file's own tail; a process that does not get the lock       *)
(* appends without a place.  Processes die at any point, writes stop       *)
(* halfway, and a record written behind a line without a newline is glued  *)
(* to it and lost with it.  A digest names a record and, through the digest*)
(* it links to, the chain before it.                                       *)
(***************************************************************************)
EXTENDS Integers, Sequences

CONSTANTS Writers, Nothing

ASSUME JournalAssumption == Nothing \notin Writers /\ Nothing \notin Nat

VARIABLES
  lines,      \* the file: records, and lines that do not parse
  cut,        \* the last line has no newline
  lock,       \* the process that holds the append lock
  writer,     \* what each process is doing, and the chain position it read
  persisted,  \* records emit() reported as persisted
  misread     \* some locked read of the tail raised

journalVars == <<lines, cut, lock, writer, persisted, misread>>

Genesis == <<>>
Damage == [parses |-> FALSE]
Rec(w, seq, prev) == [parses |-> TRUE, by |-> w, seq |-> seq, prev |-> prev]
Digest(r) == <<r.by, r.seq, r.prev>>

Start == [pc |-> "start", seq |-> Nothing, prev |-> Nothing]

JournalInit ==
  /\ lines = <<>> /\ cut = FALSE /\ lock = Nothing
  /\ writer = [w \in Writers |-> Start]
  /\ persisted = {} /\ misread = FALSE

(* Reading: the lines that do not parse, and the records with a place.      *)
Damaged == {i \in DOMAIN lines : ~lines[i].parses}
Chained == {i \in DOMAIN lines : lines[i].parses /\ lines[i].seq # Nothing}

(* _tail_chain: the place behind the last record that has one.              *)
TailIndex == CHOOSE i \in Chained : \A j \in Chained : j <= i
TailSeq == IF Chained = {} THEN 0 ELSE lines[TailIndex].seq + 1
TailDigest == IF Chained = {} THEN Genesis ELSE Digest(lines[TailIndex])

(* _FileLock: taken when it is free.                                        *)
Acquire(w) ==
  /\ writer[w].pc = "start" /\ lock = Nothing
  /\ lock' = w
  /\ writer' = [writer EXCEPT ![w].pc = "locked"]
  /\ UNCHANGED <<lines, cut, persisted, misread>>

GiveUpWithPlace(w) ==     \* mutant: the record takes a place all the same
  /\ writer[w].pc = "start"
  /\ writer' = [writer EXCEPT ![w] = [pc |-> "write", seq |-> TailSeq, prev |-> TailDigest]]
  /\ UNCHANGED <<lines, cut, lock, persisted, misread>>

(* Not had within two seconds, or the sidecar did not open: the record gets *)
(* no place.                                                                *)
GiveUp(w) ==
  /\ writer[w].pc = "start"
  /\ writer' = [writer EXCEPT ![w].pc = "write"]
  /\ UNCHANGED <<lines, cut, lock, persisted, misread>>

(* The locked process reads the tail; a read that raises counts as an empty *)
(* file.                                                                    *)
ReadTail(w, raises) ==
  /\ writer[w].pc = "locked"
  /\ writer' = [writer EXCEPT ![w] =
       [pc |-> "write", seq |-> IF raises THEN 0 ELSE TailSeq,
        prev |-> IF raises THEN Genesis ELSE TailDigest]]
  /\ misread' = (misread \/ (raises /\ lines # <<>>))
  /\ UNCHANGED <<lines, cut, lock, persisted>>

Freed(w) == lock' = IF lock = w THEN Nothing ELSE lock
Ends(w) == writer' = [writer EXCEPT ![w].pc = "end"]

(* What the file becomes when line is appended; open tells that its newline *)
(* did not make it.                                                         *)
Appended(line, open) ==
  /\ lines' = IF cut THEN [lines EXCEPT ![Len(lines)] = Damage] ELSE Append(lines, line)
  /\ cut' = open

Own(w) == Rec(w, writer[w].seq, writer[w].prev)

Write(w) ==
  /\ writer[w].pc = "write"
  /\ Appended(Own(w), FALSE)
  /\ persisted' = persisted \union {Own(w)}
  /\ Freed(w) /\ Ends(w)
  /\ UNCHANGED misread

(* The write raises or the process dies in it, with a piece of the line or  *)
(* all of it but the newline in the file; or it dies before it wrote.       *)
BreakOff(w) ==
  /\ writer[w].pc = "write"
  /\ \E piece \in {Damage, Own(w)} : Appended(piece, TRUE)
  /\ Freed(w) /\ Ends(w)
  /\ UNCHANGED <<persisted, misread>>

DieEarlyHolding(w) ==     \* mutant: a lock that outlives its process
  /\ writer[w].pc \in {"locked", "write"}
  /\ Ends(w)
  /\ UNCHANGED <<lines, cut, lock, persisted, misread>>

DieEarly(w) ==
  /\ writer[w].pc \in {"locked", "write"}
  /\ Freed(w) /\ Ends(w)
  /\ UNCHANGED <<lines, cut, persisted, misread>>

JournalNext ==
  \E w \in Writers :
    \/ Acquire(w) \/ GiveUp(w) \/ Write(w) \/ BreakOff(w) \/ DieEarly(w)
    \/ \E raises \in BOOLEAN : ReadTail(w, raises)

JournalSpec == JournalInit /\ [][JournalNext]_journalVars

(* A process that runs goes on until its record is written: every wait in   *)
(* emit() has a deadline.  Nothing makes it die.                            *)
Progress(w) == Acquire(w) \/ GiveUp(w) \/ ReadTail(w, FALSE) \/ Write(w)

FairJournal == JournalSpec /\ \A w \in Writers : WF_journalVars(Progress(w))

-----------------------------------------------------------------------------
(* verify(): the records with a place, in the order of their places, count  *)
(* from 0 and link to one another: no two share a place, and each links to  *)
(* the one in the place before its own.                                     *)
ChainIntact ==
  \A i \in Chained :
    /\ \A j \in Chained \ {i} : lines[j].seq # lines[i].seq
    /\ IF lines[i].seq = 0
       THEN lines[i].prev = Genesis
       ELSE \E j \in Chained : /\ lines[j].seq = lines[i].seq - 1
                              /\ lines[i].prev = Digest(lines[j])

VerifyOkByChain == ChainIntact     \* mutant: the damage is not asked about

VerifyOk == ChainIntact /\ Damaged = {}

(* However many processes append at once, with and without the lock, the    *)
(* chain is intact as long as every line parses and no tail was misread: a  *)
(* record without a place never shows up as a hole (emit, verify).          *)
OnlyDamageBreaksTheChain == Damaged = {} /\ ~misread => ChainIntact

(* A record that was reported as persisted and cannot be read any more is   *)
(* never covered up by a clean verification (verify and read_all).          *)
LossShows == VerifyOk => \A r \in persisted : \E i \in DOMAIN lines : lines[i] = r

(* Nobody keeps the lock: a process that has it finishes or dies, and the   *)
(* system releases what a dead one held (_FileLock).                        *)
LockIsFreed == []<>(lock = Nothing)
=============================================================================
