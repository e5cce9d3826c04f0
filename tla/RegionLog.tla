----------------------------- MODULE RegionLog -----------------------------
(***************************************************************************)
(* The contents of a window's regions and the event log behind them:       *)
(* write, read, promote, the eviction that follows, reset and purge of     *)
(* window.py, emit() of events.py, and replay.py, which folds the file     *)
(* back into a window.                                                     *)
(*                                                                         *)
(* _commit emits a record and then applies the change.  emit() puts the    *)
(* record into log.records and then into the file; when it raises, the     *)
(* change is not applied, the record stays in log.records, and in the file *)
(* it is either already (a subscriber raised) or once the buffered line is *)
(* flushed by a later emit that succeeds (the disk was full).              *)
(***************************************************************************)
EXTENDS Integers, FiniteSets, SequencesExt

CONSTANTS
  Regions, Keys, Unset,
  Policy,      \* the policy of each region
  Sizes,       \* tokens of what is written
  MaxRecords,  \* bounds the log
  MaxFailing   \* bounds the records before a call that fails

ASSUME PolicyAssumption ==
  /\ Policy \in [Regions -> [budget : Nat \union {Unset}, eviction : {"lru", "fifo", "reject"},
                             versioned : BOOLEAN, reset : BOOLEAN, purge : BOOLEAN]]
  /\ Unset \notin Nat /\ Sizes \subseteq Nat

VARIABLES
  content,     \* what the window holds
  made,        \* entry ids given out
  records,     \* log.records
  written,     \* how many of them are in the file
  failed       \* some emit raised

regionVars == <<content, made, records, written, failed>>

Nothing == [open |-> TRUE, entries |-> <<>>, history |-> <<>>]

RegionInit ==
  /\ content = [r \in Regions |-> Nothing]
  /\ made = 0 /\ records = <<>> /\ written = 0 /\ failed = FALSE

(* Tokens, counted one by one: of the entries at some places, and of all.   *)
Tokens(es, places) == Cardinality(UNION {{i} \X (1 .. es[i].tokens) : i \in places})

TokensOf(es) == Tokens(es, DOMAIN es)

(* An entry; data is the record that brought its content in.                *)
Entry(id, key, tokens, seq, data) ==
  [id |-> id, key |-> key, tokens |-> tokens, seq |-> seq, data |-> data, read |-> -1]

Touched(es, seq) == [i \in DOMAIN es |-> [es[i] EXCEPT !.read = seq]]

(* The entries at some places, in the order of a relation between places.   *)
InTurn(es, places, before) ==
  LET Turn(i) == Cardinality({j \in places : <<j, i>> \in before})
  IN [k \in 1 .. Cardinality(places) |-> es[CHOOSE i \in places : Turn(i) = k - 1]]

Earlier(es) == {p \in (DOMAIN es) \X (DOMAIN es) : p[1] < p[2]}

Only(es, places) == InTurn(es, places, Earlier(es))

Without(es, gone) == Only(es, {i \in DOMAIN es : es[i] \notin ToSet(gone)})

KeptNever(r, history, gone) == history     \* mutant: versioned is not looked at

(* What a versioned region remembers of what it loses.                      *)
Kept(r, history, gone) == IF Policy[r].versioned THEN history \o gone ELSE history

(* A region takes other entries, having lost some.                          *)
Becomes(c, r, es, gone) ==
  [c EXCEPT ![r].entries = es, ![r].history = Kept(r, @, gone)]

(* An upsert takes the place of the entry it replaces.                      *)
Upserted(c, r, new, old) ==
  LET es == c[r].entries
      places == {i \in DOMAIN es : es[i].id = old}
      place == CHOOSE i \in places : TRUE
  IN IF places = {} THEN Becomes(c, r, Append(es, new), <<>>)
     ELSE Becomes(c, r, [i \in DOMAIN es |-> IF i = place THEN new ELSE es[i]], <<es[place]>>)

(* Copies of the entries a promotion names; data says what is in each.      *)
Copies(ev, seq, data) ==
  [i \in DOMAIN ev.gone |-> Entry(ev.id + i - 1, ev.gone[i].key, ev.gone[i].tokens, seq, data[i])]

Promoted(c, ev, copies, gone) ==
  LET full == [c EXCEPT ![ev.to].entries = @ \o copies]
  IN IF ev.mode = "copy" THEN full
     ELSE Becomes(full, ev.at, Without(full[ev.at].entries, gone), gone)

(* The event at seq: what window.py does once it is emitted.                *)
Applied(c, ev, seq) ==
  LET es == c[ev.at].entries
      New == Entry(ev.id, ev.key, ev.tokens, seq, seq)
  IN CASE ev.type = "write" /\ ev.mode = "replace" -> Becomes(c, ev.at, <<New>>, es)
       [] ev.type = "write" /\ ev.mode = "append" -> Upserted(c, ev.at, New, ev.replaced)
       [] ev.type = "evict" -> Becomes(c, ev.at, Without(es, ev.gone), ev.gone)
       [] ev.type = "read" -> [c EXCEPT ![ev.at].entries = Touched(es, seq)]
       [] ev.type = "close" -> [c EXCEPT ![ev.at].open = FALSE]
       [] ev.type = "purge" -> Becomes(c, ev.at, <<>>, es)
       [] ev.type = "promote" ->
            Promoted(c, ev, Copies(ev, seq, [i \in DOMAIN ev.gone |-> ev.gone[i].data]), ev.gone)

(* The window after the first k events of a call, which makes one or two.   *)
After(evs, k) ==
  LET seq == Len(records)
      First == Applied(content, evs[1], seq + 1)
  IN CASE k = 0 -> content
       [] k = 1 -> First
       [] k = 2 -> Applied(First, evs[2], seq + 2)

(* _commit, once for each event of a call: all succeed, or the k-th emit    *)
(* raises and the call ends there.  n entry ids go with the first.          *)
Commit(evs, n) ==
  LET seq == Len(records)
  IN /\ seq + Len(evs) <= MaxRecords
     /\ \/ /\ content' = After(evs, Len(evs)) /\ made' = made + n
           /\ records' = records \o evs /\ written' = Len(records')
           /\ UNCHANGED failed
        \/ \E k \in DOMAIN evs :
             /\ seq <= MaxFailing
             /\ content' = After(evs, k - 1) /\ made' = IF k = 1 THEN made ELSE made + n
             /\ records' = records \o SubSeq(evs, 1, k)
             /\ written' \in {IF k = 1 THEN written ELSE seq + k - 1, seq + k}
             /\ failed' = TRUE

(* The least recently read first, and the oldest of those.                  *)
Colder(es) ==
  {p \in (DOMAIN es) \X (DOMAIN es) :
     LET a == es[p[1]]  b == es[p[2]]
     IN \/ a.read < b.read
        \/ a.read = b.read /\ (a.seq < b.seq \/ (a.seq = b.seq /\ p[1] < p[2]))}

(* They go in turn until the rest fits: an entry goes when it does not fit  *)
(* together with those behind it.                                           *)
Victims(r, es) ==
  LET before == IF Policy[r].eviction = "lru" THEN Colder(es) ELSE Earlier(es)
      NotBefore(i) == {j \in DOMAIN es : <<j, i>> \notin before}
  IN InTurn(es, {i \in DOMAIN es : Tokens(es, NotBefore(i)) > Policy[r].budget}, before)

(* _enforce_budget: the events that follow ev when the region is too full.  *)
ThenEvict(ev, r) ==
  LET es == Applied(content, ev, Len(records) + 1)[r].entries
  IN IF Policy[r].budget = Unset \/ Policy[r].eviction = "reject" \/ TokensOf(es) <= Policy[r].budget
     THEN <<ev>>
     ELSE <<ev, [type |-> "evict", at |-> r, gone |-> Victims(r, es)]>>

MayHoldMore(r, total) == TRUE     \* mutant: promote does not ask

(* _would_exceed: a rejecting region refuses what it cannot hold.           *)
MayHold(r, total) ==
  Policy[r].budget # Unset /\ Policy[r].eviction = "reject" => total <= Policy[r].budget

Write(r, key, n, mode) ==
  LET es == content[r].entries
      slots == IF key = Unset \/ mode = "replace" THEN {} ELSE {i \in DOMAIN es : es[i].key = key}
      slot == CHOOSE i \in slots : \A j \in slots : i <= j
      base == IF mode = "replace" THEN 0
              ELSE TokensOf(es) - (IF slots = {} THEN 0 ELSE es[slot].tokens)
  IN /\ content[r].open
     /\ MayHold(r, base + n)
     /\ Commit(ThenEvict([type |-> "write", at |-> r, mode |-> mode, id |-> made + 1, key |-> key,
                          tokens |-> n, replaced |-> IF slots = {} THEN Unset ELSE es[slot].id], r), 1)

Read(r) == Commit(<<[type |-> "read", at |-> r]>>, 0)

(* The entries of some keys, in their order.                                *)
Promote(from, to, mode, keys) ==
  LET es == content[from].entries
      chosen == Only(es, {i \in DOMAIN es : es[i].key \in keys})
  IN /\ content[to].open /\ (mode = "move" => content[from].open)
     /\ chosen # <<>>
     /\ MayHold(to, TokensOf(content[to].entries) + TokensOf(chosen))
     /\ Commit(ThenEvict([type |-> "promote", at |-> from, to |-> to, mode |-> mode,
                          id |-> made + 1, gone |-> chosen], to), Len(chosen))

(* A tick of a loop that reaches the region.                                *)
Reset(r) ==
  /\ Policy[r].reset /\ content[r].open /\ content[r].entries # <<>>
  /\ Commit(<<[type |-> "evict", at |-> r, gone |-> content[r].entries]>>, 0)

Close(r) ==
  /\ content[r].open
  /\ LET closing == [type |-> "close", at |-> r]
     IN Commit(IF Policy[r].purge THEN <<closing, [type |-> "purge", at |-> r]>> ELSE <<closing>>, 0)

(* What is replaced is written without a key; promoted is all or the keyed. *)
CallsOn(rs) ==
  /\ Len(records) < MaxRecords
  /\ \/ \E r \in rs : \/ Read(r) \/ Reset(r) \/ Close(r)
                      \/ \E n \in Sizes : \/ Write(r, Unset, n, "replace")
                                         \/ \E k \in Keys \union {Unset} : Write(r, k, n, "append")
     \/ \E f, t \in rs, mode \in {"move", "copy"}, keys \in {Keys, Keys \union {Unset}} :
          Promote(f, t, mode, keys)

RegionNext == CallsOn(Regions)

RegionSpec == RegionInit /\ [][RegionNext]_regionVars

-----------------------------------------------------------------------------
ReplayedShort(c, ev, seq) ==     \* mutant: an upsert is replayed as an append
  IF ev.type = "write" /\ ev.mode = "append"
  THEN [c EXCEPT ![ev.at].entries = Append(@, Entry(ev.id, ev.key, ev.tokens, seq, seq))]
  ELSE Applied(c, ev, seq)

(* The entries an event names, by their ids: the file has no more of them.  *)
Named(es, gone) == {i \in DOMAIN es : \E k \in DOMAIN gone : gone[k].id = es[i].id}

(* What is in them: as the window has it, or else as the event says.        *)
Origin(es, gone, i) == {j \in DOMAIN es : es[j].id = gone[i].id}

Recovered(es, gone) ==
  [i \in DOMAIN gone |-> IF Origin(es, gone, i) = {} THEN gone[i].data
                         ELSE es[CHOOSE j \in Origin(es, gone, i) : TRUE].data]

(* replay(): the same event folded from the file.  (It raises on an upsert  *)
(* of an entry it does not have; no file is like that before a failed       *)
(* emit.)                                                                   *)
Replayed(c, ev, seq) ==
  LET es == c[ev.at].entries
      places == Named(es, ev.gone)
  IN CASE ev.type = "evict" -> Becomes(c, ev.at, Only(es, DOMAIN es \ places), Only(es, places))
       [] ev.type = "promote" ->
            Promoted(c, ev, Copies(ev, seq, Recovered(es, ev.gone)), Only(es, places))
       [] OTHER -> Applied(c, ev, seq)

Folded(log, n) ==
  LET upto[k \in 0 .. n] ==
        IF k = 0 THEN [r \in Regions |-> Nothing] ELSE Replayed(upto[k - 1], log[k], k)
  IN upto[n]

FromFile == Folded(records, written)

(* The order of a history is not compared: an eviction of several entries   *)
(* leaves them there in another order.                                      *)
SameWindow(c, d) ==
  \A r \in Regions : /\ c[r].open = d[r].open /\ c[r].entries = d[r].entries
                     /\ ToSet(c[r].history) = ToSet(d[r].history)

(* The file is a complete description of the window: replaying it gives the *)
(* window, also after an emit that raised (_commit).                        *)
ReplayIsLive == SameWindow(FromFile, content)

(* And it does as long as no emit raised, in every order of writing,        *)
(* upserting, evicting, promoting, resetting and purging.                   *)
ReplayIsLiveUntilAFailure == ~failed => ReplayIsLive

(* No call leaves a region over its budget, by writing, upserting or        *)
(* promoting, unless the record of the eviction itself failed.              *)
WithinBudget ==
  ~failed => \A r \in Regions :
    Policy[r].budget # Unset => TokensOf(content[r].entries) <= Policy[r].budget

(* A versioned region loses nothing: whatever a write or a promotion put    *)
(* there is among its entries or in its history.                            *)
NothingForgotten ==
  ~failed => \A i \in DOMAIN records :
    LET ev == records[i]
        at == IF ev.type = "promote" THEN ev.to ELSE ev.at
    IN ev.type \in {"write", "promote"} /\ Policy[at].versioned =>
         \E e \in ToSet(content[at].entries \o content[at].history) : e.id = ev.id
=============================================================================
