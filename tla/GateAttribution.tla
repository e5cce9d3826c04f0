-------------------------- MODULE GateAttribution --------------------------
(***************************************************************************)
(* gate/attribution.py: which role a tool call belongs to.  Every call     *)
(* runs a hook process of its own; the processes share the bindings file   *)
(* of the session and a lock beside it.  resolve() reads the file without  *)
(* the lock, then binds what it found in a locked read-modify-write.       *)
(*                                                                         *)
(* The host dispatches a role by starting an actor of the role's kind; the *)
(* hook of the dispatch enters the role in the pending list.  RoleOf is    *)
(* the truth the gate has to find out: None for a subagent that was        *)
(* started without a role, which may be of the kind of one all the same.   *)
(* Each role is dispatched once, for one actor, so the pending list is a   *)
(* set.                                                                    *)
(***************************************************************************)
EXTENDS FiniteSets

CONSTANTS
  Hooks,      \* hook processes, each handling one payload after another
  Actors, Roles,
  None,       \* no role
  RoleOf,     \* the role each actor was dispatched for, or None
  KindOf,     \* the kind the host reports for each actor
  Bears       \* what each actor can be told by: "cwd", "marker" or "nothing"

ASSUME AttributionAssumption ==
  /\ None \notin Hooks \union Actors \union Roles /\ IsFiniteSet(Roles)
  /\ RoleOf \in [Actors -> Roles \union {None}]
  /\ \A a, b \in Actors : RoleOf[a] = RoleOf[b] /\ RoleOf[a] # None => a = b

VARIABLES
  pending,    \* roles dispatched and not bound, in the file
  bound,      \* the role each actor is bound to, in the file
  lock,       \* the hook that holds the file's lock
  hook,       \* what each hook process is doing
  dispatched, \* roles whose dispatch went through
  told,       \* what the calls of each actor were attributed to so far
  clean,      \* every dispatch reached the file, and nobody gave up on the lock
  overlapped, \* two calls of one actor were resolved at the same time
  strange     \* kinds of which a subagent without a role was taken for a pending one

attributionVars == <<pending, bound, lock, hook, dispatched, told, clean, overlapped, strange>>

Idle == [pc |-> "idle", actor |-> None, role |-> None, start |-> FALSE]
KindOfRole(r) == {KindOf[a] : a \in {x \in Actors : RoleOf[x] = r}}

AttributionInit ==
  /\ pending = {} /\ bound = [a \in Actors |-> None]
  /\ lock = None
  /\ hook = [h \in Hooks |-> Idle]
  /\ dispatched = {} /\ told = [a \in Actors |-> {}]
  /\ clean = TRUE /\ overlapped = FALSE /\ strange = {}

(* The hook goes on to pc, having found role r.                             *)
Goes(h, pc, r) == hook' = [hook EXCEPT ![h] = [@ EXCEPT !.pc = pc, !.role = r]]

(* handle_delegation: the hook of a dispatch is about to declare the role.  *)
BeginDispatch(h, r) ==
  /\ hook[h] = Idle
  /\ r \notin dispatched
  /\ \A k \in Hooks : hook[k].actor # None \/ hook[k].role # r
  /\ Goes(h, "lock", r)
  /\ UNCHANGED <<pending, bound, lock, dispatched, told, clean, overlapped, strange>>

(* resolve() on behalf of an actor that runs: a binding, else the working   *)
(* directory or the marker in its transcript, once it is written.           *)
Look(h, a, start) ==
  /\ hook[h] = Idle
  /\ RoleOf[a] # None => RoleOf[a] \in dispatched
  /\ \E written \in BOOLEAN :
       LET evident == RoleOf[a] # None /\ Bears[a] \in {"cwd"} \union {m \in {"marker"} : written}
       IN hook' = [hook EXCEPT ![h] =
            [pc |-> IF bound[a] # None THEN "resolved" ELSE IF evident THEN "lock" ELSE "match",
             role |-> IF bound[a] # None THEN bound[a] ELSE IF evident THEN RoleOf[a] ELSE None,
             actor |-> a, start |-> start]]
  /\ overlapped' = (overlapped \/ \E k \in Hooks : hook[k].actor = a)
  /\ UNCHANGED <<pending, bound, lock, dispatched, told, clean, strange>>

MatchesAny(a) ==     \* mutant: the first of several candidates is taken
  LET all == {r \in pending : KindOf[a] \in KindOfRole(r)}
  IN IF all = {} THEN {} ELSE {CHOOSE r \in all : TRUE}

(* The roles the actor's kind could stand for.                              *)
Matches(a) == {r \in pending : KindOf[a] \in KindOfRole(r)}

(* resolve(): the kind, when exactly one pending dispatch has it, whoever   *)
(* the actor is.                                                            *)
Match(h) ==
  /\ hook[h].pc = "match"
  /\ LET a == hook[h].actor
         m == Matches(a)
     IN IF Cardinality(m) = 1
        THEN /\ \E r \in m : Goes(h, "lock", r)
             /\ strange' = IF RoleOf[a] = None THEN strange \union {KindOf[a]} ELSE strange
        ELSE Goes(h, "resolved", None) /\ UNCHANGED strange
  /\ UNCHANGED <<pending, bound, lock, dispatched, told, clean, overlapped>>

MayEnterFree(h) == TRUE     \* mutant: a lock among threads only

(* locked(): the lock is free, or it was not had in five seconds and the    *)
(* body runs all the same.                                                  *)
MayEnter(h) == lock = None

Holding(h) == lock = h

(* The locked read: the hook has its copy of the file.                      *)
ReadFile(h, locked) ==
  /\ hook[h].pc = "lock"
  /\ locked => MayEnter(h)
  /\ lock' = IF locked THEN h ELSE lock
  /\ clean' = (clean /\ locked)
  /\ hook' = [hook EXCEPT ![h] =
       [pc |-> "write", actor |-> @.actor, role |-> @.role, start |-> @.start,
        pending |-> pending, bound |-> bound]]
  /\ UNCHANGED <<pending, bound, dispatched, told, overlapped, strange>>

(* The process is done with the file.                                       *)
Released(h) == lock' = IF Holding(h) THEN None ELSE lock

(* declare_dispatch: the copy with the role entered replaces the file, or   *)
(* the write fails; the host then starts the actor.                         *)
WriteDispatch(h, lands) ==
  /\ hook[h].pc = "write" /\ hook[h].actor = None
  /\ pending' = IF lands THEN hook[h].pending \union {hook[h].role} ELSE pending
  /\ bound' = IF lands THEN hook[h].bound ELSE bound
  /\ dispatched' = dispatched \union {hook[h].role}
  /\ clean' = (clean /\ lands)
  /\ hook' = [hook EXCEPT ![h] = Idle]
  /\ Released(h)
  /\ UNCHANGED <<told, overlapped, strange>>

(* bind_actor: the actor is entered under the role, which is no longer      *)
(* pending, or the write fails; the answer stands either way.  A hook of    *)
(* actor_start binds a second time.                                         *)
Bind(h, lands) ==
  LET me == hook[h] IN
  /\ me.pc = "write" /\ me.actor # None
  /\ pending' = IF lands THEN me.pending \ {me.role} ELSE pending
  /\ bound' = IF lands THEN [me.bound EXCEPT ![me.actor] = me.role] ELSE bound
  /\ hook' = [hook EXCEPT ![h] =
       [pc |-> IF me.start THEN "lock" ELSE "resolved",
        actor |-> me.actor, role |-> me.role, start |-> FALSE]]
  /\ Released(h)
  /\ UNCHANGED <<dispatched, told, clean, overlapped, strange>>

(* The call is recorded under the role found, or under none; run() binds    *)
(* once more when the actor starts.                                         *)
Answer(h) ==
  /\ hook[h].pc = "resolved"
  /\ told' = [told EXCEPT ![hook[h].actor] = @ \union ({hook[h].role} \ {None})]
  /\ hook' = [hook EXCEPT ![h] =
       IF hook[h].start /\ hook[h].role # None THEN [@ EXCEPT !.pc = "lock", !.start = FALSE] ELSE Idle]
  /\ UNCHANGED <<pending, bound, lock, dispatched, clean, overlapped, strange>>

(* The hook process dies; the system drops its lock, the host goes on.      *)
Die(h) ==
  /\ hook[h] # Idle
  /\ Released(h)
  /\ hook' = [hook EXCEPT ![h] = Idle]
  /\ IF hook[h].actor = None
     THEN dispatched' = dispatched \union {hook[h].role} /\ clean' = FALSE
     ELSE UNCHANGED <<dispatched, clean>>
  /\ UNCHANGED <<pending, bound, told, overlapped, strange>>

HookStep(h) ==
  \/ Match(h) \/ Answer(h) \/ Die(h)
  \/ \E f \in BOOLEAN : ReadFile(h, f) \/ WriteDispatch(h, f) \/ Bind(h, f)

AttributionNext ==
  \E h \in Hooks :
    \/ HookStep(h)
    \/ \E r \in Roles : BeginDispatch(h, r)
    \/ \E a \in Actors, start \in BOOLEAN : Look(h, a, start)

AttributionSpec == AttributionInit /\ [][AttributionNext]_attributionVars

-----------------------------------------------------------------------------
(* No call is attributed to a role other than its actor's own.  What        *)
(* resolve() claims of itself (never guessed, never a plausible role).  It  *)
(* is asked of instances where every actor has a role: one without breaks   *)
(* it with no overlap at all, for it gets the only pending role of its kind.*)
NeverAnotherRole == clean => \A a \in Actors : told[a] \subseteq {RoleOf[a]}

Kindred(a) == {r \in Roles : KindOf[a] \in KindOfRole(r)}

(* As long as the calls of an actor come one after another, they are        *)
(* attributed to its own role only: the kind is matched outside the lock,   *)
(* yet every dispatch that could be meant is either pending or bound by     *)
(* then (resolve, declare_dispatch).  A subagent without a role breaks this *)
(* for its own kind, and for no other, without any overlap: beside a single *)
(* pending dispatch of the kind it is taken for the one dispatched, which   *)
(* leaves another role of the kind for that one.                            *)
SoundOneByOne ==
  clean /\ ~overlapped =>
    \A a \in Actors : told[a] \subseteq IF KindOf[a] \in strange THEN Kindred(a) ELSE {RoleOf[a]}

(* Under the same conditions no dispatch is lost from the file: it is       *)
(* pending until an actor is bound to it (the comment on locked() recounts  *)
(* eleven of twelve lost).                                                  *)
NoDispatchLost ==
  clean /\ ~overlapped =>
    \A r \in dispatched : r \in pending \/ \E a \in Actors : bound[a] = r
=============================================================================
