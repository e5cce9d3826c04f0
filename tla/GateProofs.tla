----------------------------- MODULE GateProofs -----------------------------
(***************************************************************************)
(* The gate, for any hooks, actors, roles, kinds, calls and policies.      *)
(* While its writes land and nobody gives up on the lock, the locked       *)
(* read-modify-write of the bindings file is atomic; while the calls of an *)
(* actor do not overlap either, no dispatch is lost from it, nobody is     *)
(* taken for another role, and what the journal lets a run claim is true.  *)
(***************************************************************************)
EXTENDS GateHook, FiniteSetTheorems, TLAPS

AnyRole == Roles \union {None}
AnyActor == Actors \union {None}
Bindings == [Actors -> AnyRole]

Resting == [pc : {"idle", "match", "resolved"}, actor : AnyActor, role : AnyRole, start : BOOLEAN]

HookStates ==
  Resting
    \union [pc : {"lock"}, actor : AnyActor, role : Roles, start : BOOLEAN]
    \union [pc : {"write"}, actor : AnyActor, role : Roles, start : BOOLEAN,
            pending : SUBSET Roles, bound : Bindings]

AttributionTypes ==
  /\ pending \subseteq Roles /\ bound \in Bindings
  /\ clean => dispatched \subseteq Roles
  /\ lock \in Hooks \union {None} /\ clean \in BOOLEAN
  /\ hook \in [Hooks -> HookStates]

(* A hook about to replace the file holds the lock, and its copy is the     *)
(* file.                                                                    *)
Exclusive ==
  clean => \A h \in Hooks : hook[h].pc = "write" =>
    /\ lock = h
    /\ hook[h].pending = pending /\ hook[h].bound = bound

OneCallEach ==
  ~overlapped => \A h, k \in Hooks : hook[h].actor = hook[k].actor /\ hook[h].actor # None => h = k

(* What a hook found about its actor does not contradict the file.          *)
Consistent ==
  clean /\ ~overlapped => \A h \in Hooks :
    LET me == hook[h]
    IN  /\ me.pc = "match" => me.role = None
        /\ \A a \in Actors : me.actor = a => bound[a] \in {None, me.role}

AttributionInv ==
  AttributionTypes /\ Exclusive /\ OneCallEach /\ Consistent /\ NoDispatchLost

-----------------------------------------------------------------------------
LEMMA AttributionStart == AttributionInit => AttributionInv
<1> SUFFICES ASSUME AttributionInit PROVE AttributionInv
  OBVIOUS
<1>1. Idle \in HookStates /\ Idle.pc = "idle" /\ Idle.actor = None /\ Idle.role = None
  BY DEF Idle, HookStates, Resting, AnyActor, AnyRole
<1>2. \A h \in Hooks : hook[h] = Idle
  BY DEF AttributionInit
<1>3. AttributionTypes
  BY <1>1 DEF AttributionInit, AttributionTypes, Bindings, AnyRole
<1>4. Exclusive /\ OneCallEach /\ Consistent /\ NoDispatchLost
  BY <1>1, <1>2 DEF AttributionInit, Exclusive, OneCallEach, Consistent, NoDispatchLost
<1> QED BY <1>3, <1>4 DEF AttributionInv

LEMMA HookShape ==
  ASSUME AttributionTypes, NEW h \in Hooks
  PROVE  /\ hook[h].actor \in AnyActor /\ hook[h].role \in AnyRole /\ hook[h].start \in BOOLEAN
         /\ hook[h].pc \in {"idle", "lock", "match", "resolved", "write"}
         /\ hook[h].pc \notin {"lock", "write"} => hook[h] \in Resting
         /\ hook[h].pc \in {"lock", "write"} => hook[h].role \in Roles
         /\ hook[h].pc = "write" => hook[h].pending \in SUBSET Roles /\ hook[h].bound \in Bindings
<1>1. hook[h] \in HookStates
  BY DEF AttributionTypes
<1> QED BY <1>1 DEF HookStates, Resting, AnyRole

(* A hook of the given fields goes on from where it was not writing.        *)
LEMMA HookGoes ==
  ASSUME AttributionTypes, NEW h \in Hooks, NEW s \in HookStates, hook' = [hook EXCEPT ![h] = s]
  PROVE  /\ hook' \in [Hooks -> HookStates]
         /\ hook'[h] = s /\ \A k \in Hooks \ {h} : hook'[k] = hook[k]
BY DEF AttributionTypes

(* The steps that leave the file alone: a hook that is not writing moves    *)
(* on, keeping its actor or taking one nobody has.                          *)
LEMMA FileUntouched ==
  ASSUME AttributionInv, NEW h \in Hooks, NEW s \in HookStates,
         s.pc # "write",
         hook' = [hook EXCEPT ![h] = s],
         UNCHANGED <<pending, bound>>, dispatched' = dispatched,
         lock' = lock \/ (lock = h /\ lock' = None),
         clean' = clean, ~overlapped' => ~overlapped,
         s.actor # None /\ ~overlapped' => s.actor = hook[h].actor \/ \A k \in Hooks : hook[k].actor # s.actor,
         clean' /\ ~overlapped' =>
           /\ s.pc = "match" => s.role = None
           /\ \A a \in Actors : s.actor = a => bound[a] \in {None, s.role}
  PROVE  AttributionInv'
<1> USE DEF AttributionInv
<1>1. /\ hook' \in [Hooks -> HookStates]
      /\ hook'[h] = s /\ \A k \in Hooks \ {h} : hook'[k] = hook[k]
  BY HookGoes
<1>2. AttributionTypes'
  BY <1>1 DEF AttributionTypes
<1>3. Exclusive'
  <2> SUFFICES ASSUME clean', NEW k \in Hooks, hook'[k].pc = "write"
               PROVE  lock' = k /\ hook'[k].pending = pending' /\ hook'[k].bound = bound'
    BY DEF Exclusive
  <2>1. k # h /\ hook'[k] = hook[k]
    BY <1>1
  <2> QED BY <2>1, AttributionAssumption DEF Exclusive
<1>4. OneCallEach'
  BY <1>1 DEF OneCallEach
<1>5. Consistent'
  <2> SUFFICES ASSUME clean', ~overlapped', NEW k \in Hooks
               PROVE  /\ hook'[k].pc = "match" => hook'[k].role = None
                      /\ \A a \in Actors : hook'[k].actor = a => bound'[a] \in {None, hook'[k].role}
    BY DEF Consistent
  <2>1. CASE k = h
    BY <1>1, <2>1
  <2>2. CASE k # h
    BY <1>1, <2>2 DEF Consistent
  <2> QED BY <2>1, <2>2
<1>6. NoDispatchLost'
  BY DEF NoDispatchLost
<1> QED BY <1>2, <1>3, <1>4, <1>5, <1>6

(* Once a write failed or a lock was given up, only the types and the calls *)
(* under way are left to keep.                                              *)
LEMMA Tainted ==
  ASSUME AttributionInv, NEW h \in Hooks, NEW s \in HookStates,
         hook' = [hook EXCEPT ![h] = s], s.actor \in {None, hook[h].actor},
         clean' = FALSE, overlapped' = overlapped, AttributionTypes'
  PROVE  AttributionInv'
<1> USE DEF AttributionInv
<1>1. hook'[h] = s /\ \A k \in Hooks \ {h} : hook'[k] = hook[k]
  BY HookGoes
<1>2. OneCallEach'
  BY <1>1 DEF OneCallEach
<1>3. Exclusive' /\ Consistent' /\ NoDispatchLost'
  BY DEF Exclusive, Consistent, NoDispatchLost
<1> QED BY <1>2, <1>3

LEMMA IdleShape ==
  Idle \in HookStates /\ Idle.pc = "idle" /\ Idle.actor = None /\ Idle.role = None
BY DEF Idle, HookStates, Resting, AnyActor, AnyRole

LEMMA BeginDispatchKeeps ==
  ASSUME AttributionInv, NEW h \in Hooks, NEW r \in Roles, BeginDispatch(h, r)
  PROVE  AttributionInv'
<1> DEFINE s == [hook[h] EXCEPT !.pc = "lock", !.role = r]
<1>1. hook[h] \in Resting
  BY DEF BeginDispatch, Idle, Resting, AnyActor, AnyRole
<1>2. hook' = [hook EXCEPT ![h] = s]
  BY DEF BeginDispatch, Goes
<1>3. s \in HookStates /\ s.pc = "lock" /\ s.actor = hook[h].actor /\ s.role = r
  BY <1>1 DEF HookStates, Resting, AnyRole
<1>4. hook[h].actor = None
  BY IdleShape DEF BeginDispatch
<1> HIDE DEF s
<1>5. \A a \in Actors : a # None
  BY AttributionAssumption
<1> QED BY <1>2, <1>3, <1>4, <1>5, FileUntouched DEF BeginDispatch

LEMMA LookKeeps ==
  ASSUME AttributionInv, NEW h \in Hooks, NEW a \in Actors, NEW start \in BOOLEAN, Look(h, a, start)
  PROVE  AttributionInv'
<1>0. bound \in Bindings /\ a # None
  BY AttributionAssumption DEF AttributionInv, AttributionTypes
<1>1. PICK written \in BOOLEAN :
        LET evident == RoleOf[a] # None /\ Bears[a] \in {"cwd"} \union {m \in {"marker"} : written}
        IN hook' = [hook EXCEPT ![h] =
             [pc |-> IF bound[a] # None THEN "resolved" ELSE IF evident THEN "lock" ELSE "match",
              role |-> IF bound[a] # None THEN bound[a] ELSE IF evident THEN RoleOf[a] ELSE None,
              actor |-> a, start |-> start]]
  BY DEF Look
<1> DEFINE evident == RoleOf[a] # None /\ Bears[a] \in {"cwd"} \union {m \in {"marker"} : written}
           pc == IF bound[a] # None THEN "resolved" ELSE IF evident THEN "lock" ELSE "match"
           role == IF bound[a] # None THEN bound[a] ELSE IF evident THEN RoleOf[a] ELSE None
           s == [pc |-> pc, role |-> role, actor |-> a, start |-> start]
<1>2. hook' = [hook EXCEPT ![h] = s]
  BY <1>1
<1>3. /\ pc \in {"resolved", "lock", "match"} /\ role \in AnyRole
      /\ pc = "match" => role = None
      /\ pc = "lock" => role # None
      /\ bound[a] \in {None, role}
  BY <1>0, AttributionAssumption DEF Bindings, AnyRole
<1> HIDE DEF pc, role
<1>4. s \in HookStates
  BY <1>3 DEF HookStates, Resting, AnyActor, AnyRole
<1>5. s.pc = pc /\ s.role = role /\ s.actor = a
  OBVIOUS
<1> HIDE DEF s
<1>6. ~overlapped' => ~overlapped /\ \A k \in Hooks : hook[k].actor # a
  BY DEF Look
<1> QED BY <1>2, <1>3, <1>4, <1>5, <1>6, FileUntouched DEF Look

LEMMA MatchKeeps ==
  ASSUME AttributionInv, NEW h \in Hooks, Match(h)
  PROVE  AttributionInv'
<1>0. /\ hook[h].actor \in AnyActor /\ hook[h].role \in AnyRole /\ hook[h].start \in BOOLEAN
      /\ pending \subseteq Roles
      /\ hook[h].pc = "match"
      /\ hook[h] \in Resting
  BY HookShape DEF AttributionInv, AttributionTypes, Match
<1>1. PICK pc \in {"lock", "resolved"}, r \in AnyRole :
        Goes(h, pc, r) /\ (pc = "lock" => r \in Roles)
  BY <1>0, AttributionAssumption DEF Match, Matches, AnyRole
<1> DEFINE s == [hook[h] EXCEPT !.pc = pc, !.role = r]
<1>2. hook' = [hook EXCEPT ![h] = s]
  BY <1>1, <1>0 DEF Goes
<1>3. s.pc = pc /\ s.role = r /\ s.actor = hook[h].actor
  BY <1>0
<1>4. s \in HookStates
  BY <1>0, <1>1 DEF HookStates, Resting
<1> HIDE DEF s
<1>5. clean /\ ~overlapped => \A a \in Actors : hook[h].actor = a => bound[a] = None
  BY <1>0 DEF AttributionInv, Consistent
<1> QED BY <1>1, <1>2, <1>3, <1>4, <1>5, FileUntouched DEF Match

LEMMA AnswerKeeps ==
  ASSUME AttributionInv, NEW h \in Hooks, Answer(h)
  PROVE  AttributionInv'
<1>0. /\ hook[h].pc = "resolved"
      /\ hook[h] \in Resting
  BY HookShape DEF AttributionInv, Answer
<1>a. UNCHANGED <<pending, bound, lock, dispatched, clean, overlapped>>
  BY DEF Answer
<1>1. CASE hook[h].start /\ hook[h].role # None
  <2> DEFINE s == [hook[h] EXCEPT !.pc = "lock", !.start = FALSE]
  <2>1. hook' = [hook EXCEPT ![h] = s]
    BY <1>1 DEF Answer
  <2>2. s.pc = "lock" /\ s.role = hook[h].role /\ s.actor = hook[h].actor /\ s \in HookStates
    BY <1>0, <1>1 DEF HookStates, Resting, AnyRole
  <2> HIDE DEF s
  <2>3. clean /\ ~overlapped => \A a \in Actors : hook[h].actor = a => bound[a] \in {None, hook[h].role}
    BY DEF AttributionInv, Consistent
  <2> QED BY <1>a, <1>1, <2>1, <2>2, <2>3, FileUntouched
<1>2. CASE ~(hook[h].start /\ hook[h].role # None)
  <2>1. hook' = [hook EXCEPT ![h] = Idle]
    BY <1>2 DEF Answer
  <2> QED BY <1>a, <2>1, IdleShape, FileUntouched, AttributionAssumption
<1> QED BY <1>1, <1>2

LEMMA ReadFileKeeps ==
  ASSUME AttributionInv, NEW h \in Hooks, NEW locked \in BOOLEAN, ReadFile(h, locked)
  PROVE  AttributionInv'
<1> DEFINE s == [pc |-> "write", actor |-> hook[h].actor, role |-> hook[h].role, start |-> hook[h].start,
                 pending |-> pending, bound |-> bound]
<1>1. hook' = [hook EXCEPT ![h] = s]
  BY DEF ReadFile
<1>2. /\ s \in HookStates /\ s.pc = "write" /\ s.actor = hook[h].actor /\ s.role = hook[h].role
      /\ s.pending = pending /\ s.bound = bound
  <2>1. /\ hook[h].pc = "lock" /\ hook[h].actor \in AnyActor /\ hook[h].role \in Roles
        /\ hook[h].start \in BOOLEAN /\ pending \in SUBSET Roles /\ bound \in Bindings
    BY HookShape DEF AttributionInv, AttributionTypes, ReadFile
  <2> QED BY <2>1 DEF HookStates
<1> HIDE DEF s
<1>3. AttributionTypes'
  BY <1>1, <1>2, HookGoes DEF AttributionInv, AttributionTypes, ReadFile
<1>4. CASE ~(clean /\ locked)
  BY <1>1, <1>2, <1>3, <1>4, Tainted DEF ReadFile
<1>5. CASE clean /\ locked
  <2>1. /\ hook[h].pc = "lock" /\ lock = None /\ lock' = h
        /\ UNCHANGED <<pending, bound, dispatched, overlapped>>
    BY <1>5 DEF ReadFile, MayEnter
  <2>2. hook'[h] = s /\ \A k \in Hooks \ {h} : hook'[k] = hook[k]
    BY <1>1, <1>2, HookGoes DEF AttributionInv
  <2>3. \A k \in Hooks : hook[k].pc # "write"
    BY <1>5, <2>1, AttributionAssumption DEF AttributionInv, Exclusive
  <2>4. Exclusive'
    BY <1>2, <2>1, <2>2, <2>3 DEF Exclusive
  <2>5. OneCallEach'
    BY <1>2, <2>1, <2>2 DEF AttributionInv, OneCallEach
  <2>6. Consistent'
    <3> SUFFICES ASSUME clean', ~overlapped', NEW k \in Hooks
                 PROVE  /\ hook'[k].pc = "match" => hook'[k].role = None
                        /\ \A a \in Actors : hook'[k].actor = a => bound'[a] \in {None, hook'[k].role}
      BY DEF Consistent
    <3>1. ~overlapped
      BY <2>1
    <3> QED BY <1>2, <1>5, <2>1, <2>2, <3>1 DEF AttributionInv, Consistent
  <2>7. NoDispatchLost'
    BY <1>5, <2>1 DEF AttributionInv, NoDispatchLost
  <2> QED BY <1>3, <2>4, <2>5, <2>6, <2>7 DEF AttributionInv
<1> QED BY <1>4, <1>5

LEMMA WriteDispatchKeeps ==
  ASSUME AttributionInv, NEW h \in Hooks, NEW lands \in BOOLEAN, WriteDispatch(h, lands)
  PROVE  AttributionInv'
<1>0. /\ hook[h].pc = "write" /\ hook[h].actor = None /\ hook[h].role \in Roles
      /\ hook[h].pending \in SUBSET Roles /\ hook[h].bound \in Bindings
      /\ hook' = [hook EXCEPT ![h] = Idle]
      /\ lock' \in {lock, None} /\ (lock # h => lock' = lock)
      /\ dispatched' = dispatched \union {hook[h].role} /\ overlapped' = overlapped
      /\ clean' = (clean /\ lands)
  BY HookShape DEF AttributionInv, WriteDispatch, Released, Holding
<1>1. hook' \in [Hooks -> HookStates] /\ hook'[h] = Idle /\ \A k \in Hooks \ {h} : hook'[k] = hook[k]
  BY <1>0, IdleShape, HookGoes DEF AttributionInv
<1>2. AttributionTypes'
  BY <1>0, <1>1 DEF AttributionInv, AttributionTypes, WriteDispatch
<1>3. CASE ~(clean /\ lands)
  BY <1>0, <1>2, <1>3, IdleShape, Tainted
<1>4. CASE clean /\ lands
  <2>1. /\ lock = h /\ bound' = bound /\ pending' = pending \union {hook[h].role}
        /\ \A k \in Hooks \ {h} : hook[k].pc # "write"
    BY <1>0, <1>4 DEF AttributionInv, Exclusive, WriteDispatch
  <2>2. Exclusive' /\ OneCallEach' /\ Consistent'
    BY <1>0, <1>1, <1>4, <2>1, IdleShape, AttributionAssumption
       DEF AttributionInv, Exclusive, OneCallEach, Consistent
  <2>3. NoDispatchLost'
    BY <1>0, <1>4, <2>1 DEF AttributionInv, NoDispatchLost
  <2> QED BY <1>2, <2>2, <2>3 DEF AttributionInv
<1> QED BY <1>3, <1>4

LEMMA BindKeeps ==
  ASSUME AttributionInv, NEW h \in Hooks, NEW lands \in BOOLEAN, Bind(h, lands)
  PROVE  AttributionInv'
<1> DEFINE s == [pc |-> IF hook[h].start THEN "lock" ELSE "resolved",
                 actor |-> hook[h].actor, role |-> hook[h].role, start |-> FALSE]
<1>0. /\ hook[h].pc = "write" /\ hook[h].actor \in Actors /\ hook[h].role \in Roles
      /\ hook[h].start \in BOOLEAN
      /\ hook[h].pending \in SUBSET Roles /\ hook[h].bound \in Bindings
      /\ lock' \in {lock, None} /\ (lock # h => lock' = lock)
      /\ dispatched' = dispatched /\ overlapped' = overlapped /\ clean' = clean
      /\ hook' = [hook EXCEPT ![h] = s]
  BY HookShape DEF AttributionInv, Bind, Released, Holding, AnyActor
<1>1. /\ s \in HookStates /\ s.pc \in {"lock", "resolved"}
      /\ s.actor = hook[h].actor /\ s.role = hook[h].role
  BY <1>0 DEF HookStates, Resting, AnyActor, AnyRole
<1> HIDE DEF s
<1>2. hook' \in [Hooks -> HookStates] /\ hook'[h] = s /\ \A k \in Hooks \ {h} : hook'[k] = hook[k]
  BY <1>0, <1>1, HookGoes DEF AttributionInv
<1>3. CASE ~lands
  <2>1. UNCHANGED <<pending, bound>>
    BY <1>3 DEF Bind
  <2>2. clean /\ ~overlapped => \A a \in Actors : hook[h].actor = a => bound[a] \in {None, hook[h].role}
    BY DEF AttributionInv, Consistent
  <2> QED BY <1>0, <1>1, <2>1, <2>2, FileUntouched
<1>4. CASE lands
  <2>1. /\ pending' = hook[h].pending \ {hook[h].role}
        /\ bound' = [hook[h].bound EXCEPT ![hook[h].actor] = hook[h].role]
    BY <1>4 DEF Bind
  <2>2. AttributionTypes'
    BY <1>0, <1>2, <2>1 DEF AttributionInv, AttributionTypes, Bindings, AnyRole
  <2>3. CASE ~clean
    <3>1. clean' = FALSE
      <4>1. clean' = clean
        BY DEF Bind
      <4>2. clean \in BOOLEAN
        BY DEF AttributionInv, AttributionTypes
      <4> QED BY <2>3, <4>1, <4>2
    <3> QED BY <1>0, <1>1, <2>2, <3>1, Tainted
  <2>4. CASE clean
    <3>1. /\ lock = h /\ hook[h].bound = bound /\ hook[h].pending = pending
          /\ \A k \in Hooks \ {h} : hook[k].pc # "write"
      BY <1>0, <2>4 DEF AttributionInv, Exclusive
    <3>2. /\ bound'[hook[h].actor] = hook[h].role
          /\ \A a \in Actors \ {hook[h].actor} : bound'[a] = bound[a]
      BY <1>0, <2>1, <3>1 DEF Bindings
    <3>3. Exclusive' /\ OneCallEach'
      BY <1>1, <1>2, <1>0, <3>1 DEF AttributionInv, Exclusive, OneCallEach
    <3>4. Consistent'
      <4> SUFFICES ASSUME ~overlapped, NEW k \in Hooks
                   PROVE  /\ hook'[k].pc = "match" => hook'[k].role = None
                          /\ \A a \in Actors : hook'[k].actor = a => bound'[a] \in {None, hook'[k].role}
        BY <1>0 DEF Consistent
      <4>1. CASE k = h
        BY <1>1, <1>2, <3>2, <4>1
      <4>2. CASE k # h
        <5>1. hook[k].actor # hook[h].actor
          BY <1>0, <4>2, AttributionAssumption DEF AttributionInv, OneCallEach
        <5> QED BY <1>2, <2>4, <3>2, <4>2, <5>1 DEF AttributionInv, Consistent
      <4> QED BY <4>1, <4>2
    <3>5. NoDispatchLost'
      <4> SUFFICES ASSUME ~overlapped, NEW r \in dispatched
                   PROVE  r \in pending' \/ \E a \in Actors : bound'[a] = r
        BY <1>0 DEF NoDispatchLost
      <4>1. r \in pending \/ \E a \in Actors : bound[a] = r
        BY <2>4 DEF AttributionInv, NoDispatchLost
      <4>2. CASE r \in pending
        BY <1>0, <2>1, <3>1, <3>2, <4>2
      <4>3. CASE \E a \in Actors : bound[a] = r
        <5>1. PICK a \in Actors : bound[a] = r
          BY <4>3
        <5>2. a = hook[h].actor => r \in {None, hook[h].role}
          BY <2>4, <5>1 DEF AttributionInv, Consistent
        <5>3. r # None
          BY <2>4, AttributionAssumption DEF AttributionInv, AttributionTypes
        <5> QED BY <1>0, <3>2, <5>1, <5>2, <5>3
      <4> QED BY <4>1, <4>2, <4>3
    <3> QED BY <2>2, <3>3, <3>4, <3>5 DEF AttributionInv
  <2> QED BY <2>3, <2>4
<1> QED BY <1>3, <1>4

LEMMA DieKeeps ==
  ASSUME AttributionInv, NEW h \in Hooks, Die(h)
  PROVE  AttributionInv'
<1>0. /\ hook' = [hook EXCEPT ![h] = Idle]
      /\ lock' = lock \/ (lock = h /\ lock' = None)
      /\ UNCHANGED <<pending, bound, overlapped>>
  BY DEF Die, Released, Holding
<1>1. CASE hook[h].actor # None
  <2>1. dispatched' = dispatched /\ clean' = clean
    BY <1>1 DEF Die
  <2> QED BY <1>0, <2>1, IdleShape, FileUntouched, AttributionAssumption
<1>2. CASE hook[h].actor = None
  <2>1. dispatched' = dispatched \union {hook[h].role} /\ clean' = FALSE
    BY <1>2 DEF Die
  <2>3. AttributionTypes'
    BY <1>0, <2>1, IdleShape, HookGoes DEF AttributionInv, AttributionTypes
  <2> QED BY <1>0, <2>1, <2>3, IdleShape, Tainted
<1> QED BY <1>1, <1>2

LEMMA AttributionStep == AttributionInv /\ [AttributionNext]_attributionVars => AttributionInv'
<1> SUFFICES ASSUME AttributionInv, [AttributionNext]_attributionVars PROVE AttributionInv'
  OBVIOUS
<1>1. CASE UNCHANGED attributionVars
  BY <1>1 DEF attributionVars, AttributionInv, AttributionTypes, Exclusive, OneCallEach,
              Consistent, NoDispatchLost
<1>2. CASE AttributionNext
  <2>1. PICK h \in Hooks :
          \/ HookStep(h)
          \/ (\E r \in Roles : BeginDispatch(h, r))
          \/ (\E a \in Actors, start \in BOOLEAN : Look(h, a, start))
    BY <1>2 DEF AttributionNext
  <2>2. CASE HookStep(h)
    BY <2>2, MatchKeeps, AnswerKeeps, DieKeeps, ReadFileKeeps, WriteDispatchKeeps, BindKeeps DEF HookStep
  <2>3. CASE \E r \in Roles : BeginDispatch(h, r)
    BY <2>3, BeginDispatchKeeps
  <2>4. CASE \E a \in Actors, start \in BOOLEAN : Look(h, a, start)
    BY <2>4, LookKeeps
  <2> QED BY <2>1, <2>2, <2>3, <2>4
<1> QED BY <1>1, <1>2

LEMMA AttributionInvariant == AttributionSpec => []AttributionInv
BY AttributionStart, AttributionStep, PTL DEF AttributionSpec

(* While every write lands and nobody gives up on the lock, the             *)
(* read-modify-write is atomic: whoever is about to replace the bindings    *)
(* file holds its lock and a copy equal to the file.                        *)
THEOREM AtomicFile == AttributionSpec => []Exclusive
<1>1. AttributionInv => Exclusive
  BY DEF AttributionInv
<1> QED BY <1>1, AttributionInvariant, PTL

(* Under the same conditions, and while the calls of an actor do not        *)
(* overlap, every dispatched role is pending or bound in the file.          *)
THEOREM DispatchesKept == AttributionSpec => []NoDispatchLost
<1>1. AttributionInv => NoDispatchLost
  BY DEF AttributionInv
<1> QED BY <1>1, AttributionInvariant, PTL

-----------------------------------------------------------------------------
(* What the calls of an actor may be attributed to: its own role or none,   *)
(* and for a kind of which a subagent without a role was taken for a        *)
(* pending one, any role of the kind.                                       *)
MayBe(a) == {None} \union IF KindOf[a] \in strange THEN Kindred(a) ELSE {RoleOf[a]}

(* Under the conditions of SoundOneByOne, the file and every hook have an   *)
(* actor under such a role, and no actor runs before its role was           *)
(* dispatched.                                                              *)
Sound ==
  clean /\ ~overlapped =>
    /\ \A a \in Actors : bound[a] \in MayBe(a) /\ told[a] \subseteq MayBe(a)
    /\ \A h \in Hooks, a \in Actors : hook[h].actor = a =>
         /\ hook[h].role \in MayBe(a)
         /\ RoleOf[a] # None => RoleOf[a] \in dispatched

SoundInv == AttributionInv /\ told \in [Actors -> SUBSET Roles] /\ Sound

LEMMA OwnRoleIsKindred ==
  ASSUME NEW a \in Actors, RoleOf[a] # None
  PROVE  RoleOf[a] \in Kindred(a)
BY AttributionAssumption DEF Kindred, KindOfRole

LEMMA MayBeGrows ==
  ASSUME strange \subseteq strange', NEW a \in Actors
  PROVE  MayBe(a) \subseteq MayBe(a)'
<1>1. CASE KindOf[a] \in strange
  BY <1>1 DEF MayBe
<1>2. CASE KindOf[a] \notin strange
  BY <1>2, OwnRoleIsKindred DEF MayBe
<1> QED BY <1>1, <1>2

(* A step of one hook that writes nothing keeps them so when it does.       *)
LEMMA MovesSoundly ==
  ASSUME AttributionTypes, Sound, NEW h \in Hooks, NEW s, hook' = [hook EXCEPT ![h] = s],
         bound' = bound, told' = told, dispatched \subseteq dispatched', strange \subseteq strange',
         clean' => clean, ~overlapped' => ~overlapped,
         clean' /\ ~overlapped' =>
           \A a \in Actors : s.actor = a =>
             s.role \in MayBe(a)' /\ (RoleOf[a] # None => RoleOf[a] \in dispatched')
  PROVE  Sound'
<1>1. hook'[h] = s /\ \A k \in Hooks \ {h} : hook'[k] = hook[k]
  BY DEF AttributionTypes
<1> SUFFICES ASSUME clean', ~overlapped'
             PROVE  /\ \A a \in Actors : bound'[a] \in MayBe(a)' /\ told'[a] \subseteq MayBe(a)'
                    /\ \A k \in Hooks, a \in Actors : hook'[k].actor = a =>
                         /\ hook'[k].role \in MayBe(a)'
                         /\ RoleOf[a] # None => RoleOf[a] \in dispatched'
  BY DEF Sound
<1>2. ASSUME NEW a \in Actors PROVE bound'[a] \in MayBe(a)' /\ told'[a] \subseteq MayBe(a)'
  <2>1. bound[a] \in MayBe(a) /\ told[a] \subseteq MayBe(a)
    BY DEF Sound
  <2> QED BY <2>1, MayBeGrows
<1>3. ASSUME NEW k \in Hooks, NEW a \in Actors, hook'[k].actor = a
      PROVE  hook'[k].role \in MayBe(a)' /\ (RoleOf[a] # None => RoleOf[a] \in dispatched')
  <2>1. CASE k = h
    BY <1>1, <1>3, <2>1
  <2>2. CASE k # h
    <3>1. hook[k].role \in MayBe(a) /\ (RoleOf[a] # None => RoleOf[a] \in dispatched)
      BY <1>1, <1>3, <2>2 DEF Sound
    <3> QED BY <1>1, <2>2, <3>1, MayBeGrows
  <2> QED BY <2>1, <2>2
<1> QED BY <1>2, <1>3

(* What one dispatch of the actor's kind is left to mean is its own, as     *)
(* long as no other subagent of the kind can have been taken for it.        *)
LEMMA MatchIsOwn ==
  ASSUME SoundInv, clean, ~overlapped,
         NEW h \in Hooks, hook[h].pc = "match", NEW a \in Actors, hook[h].actor = a,
         NEW r \in Matches(a), Cardinality(Matches(a)) = 1,
         RoleOf[a] # None, KindOf[a] \notin strange
  PROVE  r = RoleOf[a]
<1>2. RoleOf[a] \in dispatched
  BY DEF SoundInv, Sound
<1>3. bound[a] = None
  BY DEF SoundInv, AttributionInv, Consistent
<1>4. ASSUME NEW b \in Actors, bound[b] = RoleOf[a] PROVE FALSE
  <2>1. bound[b] \in MayBe(b)
    BY DEF SoundInv, Sound
  <2>2. CASE KindOf[b] \in strange
    <3>1. KindOf[b] \in KindOfRole(RoleOf[a])
      BY <1>4, <2>1, <2>2 DEF MayBe, Kindred
    <3>2. PICK x \in Actors : RoleOf[x] = RoleOf[a] /\ KindOf[b] = KindOf[x]
      BY <3>1 DEF KindOfRole
    <3>3. x = a
      BY <3>2, AttributionAssumption
    <3> QED BY <2>2, <3>2, <3>3
  <2>3. CASE KindOf[b] \notin strange
    <3>1. RoleOf[b] = RoleOf[a]
      BY <1>4, <2>1, <2>3 DEF MayBe
    <3>2. b = a
      BY <3>1, AttributionAssumption
    <3> QED BY <1>3, <1>4, <3>2
  <2> QED BY <2>2, <2>3
<1>5. RoleOf[a] \in pending
  BY <1>2, <1>4 DEF SoundInv, AttributionInv, NoDispatchLost
<1>6. RoleOf[a] \in Matches(a)
  BY <1>5 DEF Matches, KindOfRole
<1>7. IsFiniteSet(Matches(a))
  <2>1. Matches(a) \in SUBSET Roles
    BY DEF Matches, SoundInv, AttributionInv, AttributionTypes
  <2> QED BY <2>1, FS_Subset, AttributionAssumption
<1>8. PICK x : Matches(a) = {x}
  BY <1>7, FS_Singleton
<1> QED BY <1>6, <1>8

LEMMA SoundStep ==
  ASSUME SoundInv, [AttributionNext]_attributionVars
  PROVE  SoundInv'
<1> USE DEF SoundInv
<1>1. AttributionInv'
  BY AttributionStep
<1>2. CASE UNCHANGED attributionVars
  BY <1>1, <1>2 DEF attributionVars, Sound, MayBe
<1>3. ASSUME NEW h \in Hooks, HookStep(h) \/ (\E r \in Roles : BeginDispatch(h, r))
                              \/ (\E a \in Actors, start \in BOOLEAN : Look(h, a, start))
      PROVE  told' \in [Actors -> SUBSET Roles] /\ Sound'
  <2>0. /\ AttributionTypes /\ Sound /\ told \in [Actors -> SUBSET Roles]
        /\ hook[h].role \in AnyRole /\ hook[h].actor \in AnyActor
        /\ None \notin Actors
    BY HookShape, AttributionAssumption DEF AttributionInv
  <2>i. /\ Idle.actor = None
        /\ \A a \in Actors : a # None
    BY <2>0 DEF Idle
  <2>1. ASSUME NEW r \in Roles, BeginDispatch(h, r) PROVE told' = told /\ Sound'
    <3> DEFINE s == [hook[h] EXCEPT !.pc = "lock", !.role = r]
    <3>1. s.actor = None
      BY <2>1, <2>i DEF BeginDispatch, Idle
    <3>2. hook' = [hook EXCEPT ![h] = s]
      BY <2>1 DEF BeginDispatch, Goes
    <3> HIDE DEF s
    <3> QED BY <2>0, <2>1, <2>i, <3>1, <3>2, MovesSoundly DEF BeginDispatch
  <2>2. ASSUME NEW a \in Actors, NEW start \in BOOLEAN, Look(h, a, start) PROVE told' = told /\ Sound'
    <3>1. PICK s : /\ hook' = [hook EXCEPT ![h] = s] /\ s.actor = a
                   /\ s.role \in {None, bound[a], RoleOf[a]}
      <4>1. PICK written \in BOOLEAN :
              LET evident == RoleOf[a] # None /\ Bears[a] \in {"cwd"} \union {m \in {"marker"} : written}
              IN hook' = [hook EXCEPT ![h] =
                   [pc |-> IF bound[a] # None THEN "resolved" ELSE IF evident THEN "lock" ELSE "match",
                    role |-> IF bound[a] # None THEN bound[a] ELSE IF evident THEN RoleOf[a] ELSE None,
                    actor |-> a, start |-> start]]
        BY <2>2 DEF Look
      <4> DEFINE evident == RoleOf[a] # None /\ Bears[a] \in {"cwd"} \union {m \in {"marker"} : written}
                 role == IF bound[a] # None THEN bound[a] ELSE IF evident THEN RoleOf[a] ELSE None
                 s == [pc |-> IF bound[a] # None THEN "resolved" ELSE IF evident THEN "lock" ELSE "match",
                       role |-> role, actor |-> a, start |-> start]
      <4>2. s.actor = a /\ s.role = role /\ role \in {None, bound[a], RoleOf[a]}
        OBVIOUS
      <4>3. hook' = [hook EXCEPT ![h] = s]
        BY <4>1
      <4> HIDE DEF s, role
      <4> QED BY <4>2, <4>3
    <3>2. RoleOf[a] # None => RoleOf[a] \in dispatched
      BY <2>2 DEF Look
    <3>3. clean /\ ~overlapped => s.role \in MayBe(a)
      BY <3>1, OwnRoleIsKindred DEF Sound, MayBe
    <3>4. UNCHANGED <<bound, dispatched, told, strange, clean>> /\ (~overlapped' => ~overlapped)
      BY <2>2 DEF Look
    <3>5. MayBe(a)' = MayBe(a)
      BY <3>4 DEF MayBe
    <3> QED BY <2>0, <3>1, <3>2, <3>3, <3>4, <3>5, MovesSoundly
  <2>3. CASE Match(h)
    <3>1. PICK pc, r : /\ Goes(h, pc, r)
                       /\ r # None => Cardinality(Matches(hook[h].actor)) = 1 /\ r \in Matches(hook[h].actor)
      BY <2>3 DEF Match
    <3> DEFINE s == [hook[h] EXCEPT !.pc = pc, !.role = r]
    <3>2. hook[h] \in Resting
      BY <2>0, <2>3, HookShape DEF Match
    <3>3. hook' = [hook EXCEPT ![h] = s] /\ s.actor = hook[h].actor /\ s.role = r
      BY <3>1, <3>2 DEF Goes, Resting
    <3> HIDE DEF s
    <3>4. /\ UNCHANGED <<bound, dispatched, told, clean, overlapped>> /\ strange \subseteq strange'
          /\ hook[h].pc = "match"
      BY <2>3 DEF Match
    <3>5. ASSUME clean, ~overlapped, NEW a \in Actors, hook[h].actor = a, r # None
          PROVE  r \in MayBe(a)'
      <4>1. Cardinality(Matches(a)) = 1 /\ r \in Matches(a) /\ r \in Kindred(a)
        BY <3>1, <3>5 DEF Matches, Kindred, AttributionInv, AttributionTypes
      <4>2. CASE KindOf[a] \in strange
        BY <3>4, <4>1, <4>2 DEF MayBe
      <4>3. CASE RoleOf[a] = None
        <5>1. KindOf[a] \in strange'
          BY <2>3, <3>5, <4>1, <4>3 DEF Match
        <5> QED BY <4>1, <5>1 DEF MayBe
      <4>4. CASE KindOf[a] \notin strange /\ RoleOf[a] # None
        <5>1. r = RoleOf[a]
          BY <3>4, <3>5, <4>1, <4>4, MatchIsOwn
        <5> QED BY <4>1, <5>1 DEF MayBe
      <4> QED BY <4>2, <4>3, <4>4
    <3>6. ASSUME clean, ~overlapped, NEW a \in Actors, hook[h].actor = a
          PROVE  r \in MayBe(a)' /\ (RoleOf[a] # None => RoleOf[a] \in dispatched)
      BY <3>5, <3>6 DEF Sound, MayBe
    <3> QED BY <2>0, <3>3, <3>4, <3>6, MovesSoundly
  <2>4. CASE Answer(h)
    <3>1. PICK s : /\ hook' = [hook EXCEPT ![h] = s]
                   /\ s.actor # None => s.actor = hook[h].actor /\ s.role = hook[h].role
      <4>1. hook[h] \in Resting
        BY <2>0, <2>4, HookShape DEF Answer
      <4>2. CASE hook[h].start /\ hook[h].role # None
        <5>1. hook' = [hook EXCEPT ![h] = [hook[h] EXCEPT !.pc = "lock", !.start = FALSE]]
          BY <2>4, <4>2 DEF Answer
        <5> DEFINE s == [hook[h] EXCEPT !.pc = "lock", !.start = FALSE]
        <5>2. s.actor = hook[h].actor /\ s.role = hook[h].role
          BY <4>1 DEF Resting
        <5> HIDE DEF s
        <5>3. hook' = [hook EXCEPT ![h] = s]
          BY <5>1 DEF s
        <5> QED BY <5>2, <5>3
      <4>3. CASE ~(hook[h].start /\ hook[h].role # None)
        <5>1. hook' = [hook EXCEPT ![h] = Idle]
          BY <2>4, <4>3 DEF Answer
        <5> QED BY <2>i, <5>1
      <4> QED BY <4>2, <4>3
    <3>2. told' = [told EXCEPT ![hook[h].actor] = @ \union ({hook[h].role} \ {None})]
      BY <2>4 DEF Answer
    <3>3. told' \in [Actors -> SUBSET Roles]
      BY <2>0, <3>2 DEF AnyRole
    <3>4. hook'[h] = s /\ \A k \in Hooks \ {h} : hook'[k] = hook[k]
      BY <2>0, <3>1 DEF AttributionTypes
    <3>5. ASSUME clean, ~overlapped, NEW a \in Actors PROVE told'[a] \subseteq MayBe(a)
      <4>1. CASE a = hook[h].actor
        <5>1. told'[a] = told[a] \union ({hook[h].role} \ {None})
          BY <2>0, <3>2, <4>1
        <5>2. told[a] \subseteq MayBe(a) /\ hook[h].role \in MayBe(a)
          BY <3>5, <4>1 DEF Sound
        <5> QED BY <5>1, <5>2
      <4>2. CASE a # hook[h].actor
        <5>1. told'[a] = told[a]
          BY <2>0, <3>2, <4>2
        <5> QED BY <3>5, <5>1 DEF Sound
      <4> QED BY <4>1, <4>2
    <3>6. UNCHANGED <<pending, bound, lock, dispatched, clean, overlapped, strange>>
      BY <2>4 DEF Answer
    <3>7. ASSUME clean, ~overlapped, NEW k \in Hooks, NEW a \in Actors, hook'[k].actor = a
          PROVE  hook'[k].role \in MayBe(a) /\ (RoleOf[a] # None => RoleOf[a] \in dispatched)
      <4>1. CASE k = h
        BY <2>i, <3>1, <3>4, <3>7, <4>1 DEF Sound
      <4>2. CASE k # h
        BY <3>4, <3>7, <4>2 DEF Sound
      <4> QED BY <4>1, <4>2
    <3>8. Sound'
      BY <3>5, <3>6, <3>7 DEF Sound, MayBe
    <3> QED BY <3>3, <3>8
  <2>5. CASE Die(h)
    <3>1. hook' = [hook EXCEPT ![h] = Idle] /\ UNCHANGED <<bound, told, overlapped, strange>>
          /\ (clean' => clean) /\ dispatched \subseteq dispatched'
      BY <2>5 DEF Die
    <3> QED BY <2>0, <2>i, <3>1, MovesSoundly
  <2>6. ASSUME NEW f \in BOOLEAN, ReadFile(h, f) PROVE told' = told /\ Sound'
    <3> DEFINE s == [pc |-> "write", actor |-> hook[h].actor, role |-> hook[h].role,
                     start |-> hook[h].start, pending |-> pending, bound |-> bound]
    <3>1. hook' = [hook EXCEPT ![h] = s] /\ UNCHANGED <<bound, dispatched, told, overlapped, strange>>
          /\ (clean' => clean)
      BY <2>6 DEF ReadFile
    <3>2. s.actor = hook[h].actor /\ s.role = hook[h].role
      OBVIOUS
    <3> HIDE DEF s
    <3>3. clean /\ ~overlapped => \A a \in Actors : s.actor = a =>
             s.role \in MayBe(a)' /\ (RoleOf[a] # None => RoleOf[a] \in dispatched)
      BY <3>1, <3>2 DEF Sound, MayBe
    <3> QED BY <2>0, <3>1, <3>3, MovesSoundly
  <2>7. ASSUME NEW f \in BOOLEAN, WriteDispatch(h, f) PROVE told' = told /\ Sound'
    <3>1. /\ hook' = [hook EXCEPT ![h] = Idle] /\ UNCHANGED <<told, overlapped, strange>>
          /\ (clean' => clean /\ f) /\ dispatched \subseteq dispatched'
          /\ hook[h].pc = "write"
      BY <2>7 DEF WriteDispatch
    <3>2. CASE ~clean'
      BY <3>1, <3>2 DEF Sound
    <3>3. CASE clean'
      <4>1. bound' = bound
        BY <2>7, <3>1, <3>3 DEF WriteDispatch, AttributionInv, Exclusive
      <4> QED BY <2>0, <2>i, <3>1, <4>1, MovesSoundly
    <3> QED BY <3>1, <3>2, <3>3
  <2>8. ASSUME NEW f \in BOOLEAN, Bind(h, f) PROVE told' = told /\ Sound'
    <3> DEFINE s == [pc |-> IF hook[h].start THEN "lock" ELSE "resolved",
                     actor |-> hook[h].actor, role |-> hook[h].role, start |-> FALSE]
    <3>1. /\ hook' = [hook EXCEPT ![h] = s] /\ UNCHANGED <<told, dispatched, clean, overlapped, strange>>
          /\ hook[h].pc = "write" /\ hook[h].actor \in Actors
          /\ bound' = IF f THEN [hook[h].bound EXCEPT ![hook[h].actor] = hook[h].role] ELSE bound
      BY <2>0, <2>8 DEF Bind, AnyActor
    <3>2. s.actor = hook[h].actor /\ s.role = hook[h].role
      OBVIOUS
    <3> HIDE DEF s
    <3>3. hook'[h] = s /\ \A k \in Hooks \ {h} : hook'[k] = hook[k]
      BY <2>0, <3>1 DEF AttributionTypes
    <3> SUFFICES ASSUME clean, ~overlapped
                 PROVE  /\ \A a \in Actors : bound'[a] \in MayBe(a) /\ told[a] \subseteq MayBe(a)
                        /\ \A k \in Hooks, a \in Actors : hook'[k].actor = a =>
                             /\ hook'[k].role \in MayBe(a)
                             /\ RoleOf[a] # None => RoleOf[a] \in dispatched
      BY <3>1 DEF Sound, MayBe
    <3>4. hook[h].bound = bound /\ bound \in Bindings
      BY <3>1 DEF AttributionInv, Exclusive, AttributionTypes
    <3>5. hook[h].role \in MayBe(hook[h].actor)
      BY <3>1 DEF Sound
    <3>6. ASSUME NEW a \in Actors PROVE bound'[a] \in MayBe(a)
      BY <3>1, <3>4, <3>5 DEF Sound, Bindings
    <3>7. ASSUME NEW k \in Hooks, NEW a \in Actors, hook'[k].actor = a
          PROVE  hook'[k].role \in MayBe(a) /\ (RoleOf[a] # None => RoleOf[a] \in dispatched)
      <4>1. CASE k = h
        BY <3>2, <3>3, <3>7, <4>1 DEF Sound
      <4>2. CASE k # h
        BY <3>3, <3>7, <4>2 DEF Sound
      <4> QED BY <4>1, <4>2
    <3>8. \A a \in Actors : told[a] \subseteq MayBe(a)
      BY DEF Sound
    <3> QED BY <3>6, <3>7, <3>8
  <2> QED BY <1>3, <2>0, <2>1, <2>2, <2>3, <2>4, <2>5, <2>6, <2>7, <2>8 DEF HookStep, Match, Die
<1> QED BY <1>1, <1>2, <1>3 DEF AttributionNext

LEMMA SoundStart == AttributionInit => SoundInv
<1> SUFFICES ASSUME AttributionInit PROVE SoundInv
  OBVIOUS
<1>1. \A h \in Hooks : hook[h].actor = None
  BY DEF AttributionInit, Idle
<1>2. \A a \in Actors : a # None
  BY AttributionAssumption
<1> QED BY <1>1, <1>2, AttributionStart DEF AttributionInit, SoundInv, Sound, MayBe

(* While the calls of an actor come one by one and the file's writes land,  *)
(* no call is attributed to a role that is not its actor's own, unless a    *)
(* subagent without a role was taken for one of the actor's kind.           *)
THEOREM NoOtherRole == AttributionSpec => []SoundOneByOne
<1>1. SoundInv => SoundOneByOne
  BY AttributionAssumption DEF SoundInv, Sound, SoundOneByOne, MayBe
<1>2. SoundInv /\ [AttributionNext]_attributionVars => SoundInv'
  BY SoundStep
<1> QED BY <1>1, <1>2, SoundStart, PTL DEF AttributionSpec

-----------------------------------------------------------------------------
(* The gate around the attribution: a hook that is about a call is on       *)
(* behalf of an actor.                                                      *)
MakingInv ==
  /\ DOMAIN making = Hooks
  /\ \A h \in Hooks : making[h] # NoCall => hook[h].actor \in Actors

(* A call that left the policy of its own role with the gate on shows in    *)
(* the journal.                                                             *)
StraysShow ==
  Undisturbed => \A c \in passed : ~c.off /\ ~c.inScope => Residue \/ Violations

(* Every step of the gate is one of the attribution, or leaves it alone.    *)
LEMMA GateIsAttribution == [GateNext]_gateVars => [AttributionNext]_attributionVars
<1> SUFFICES ASSUME [GateNext]_gateVars PROVE [AttributionNext]_attributionVars
  OBVIOUS
<1>1. ASSUME NEW h \in Hooks, Lifecycle(h) PROVE AttributionNext
  BY <1>1 DEF Lifecycle, AttributionNext, HookStep
<1>2. ASSUME NEW h \in Hooks, WorkOnFile(h) PROVE AttributionNext
  BY <1>2 DEF WorkOnFile, AttributionNext, HookStep
<1>3. ASSUME NEW h \in Hooks, FinishCall(h) PROVE AttributionNext
  BY <1>3 DEF FinishCall, AttributionNext, HookStep
<1>4. ASSUME NEW h \in Hooks, HookDies(h) \/ HookRaises(h) PROVE AttributionNext
  BY <1>4 DEF HookDies, HookRaises, Abandoned, AttributionNext, HookStep
<1>5. ASSUME NEW h \in Hooks, NEW a \in Actors, NEW c \in Calls, BeginCall(h, a, c) PROVE AttributionNext
  <2>1. Look(h, a, FALSE)
    BY <1>5 DEF BeginCall
  <2> QED BY <2>1 DEF AttributionNext
<1>6. ASSUME NEW s \in Scopes, NEW m \in Modes, SetMode(s, m) PROVE UNCHANGED attributionVars
  BY <1>6 DEF SetMode
<1>7. ASSUME NEW s \in Scopes, NEW r \in Roles, NEW p \in Policies, DeclarePolicy(s, r, p)
      PROVE  UNCHANGED attributionVars
  BY <1>7 DEF DeclarePolicy
<1>8. CASE UNCHANGED gateVars
  BY <1>8 DEF gateVars
<1> QED BY <1>1, <1>2, <1>3, <1>4, <1>5, <1>6, <1>7, <1>8 DEF GateNext

(* A step of one hook leaves the others where they are, and one at work on  *)
(* the file for an actor keeps its actor.                                   *)
LEMMA OthersStay ==
  ASSUME AttributionTypes, NEW h \in Hooks,
         HookStep(h) \/ (\E r \in Roles : BeginDispatch(h, r))
                     \/ (\E a \in Actors, start \in BOOLEAN : Look(h, a, start))
  PROVE  \A k \in Hooks \ {h} : hook'[k] = hook[k]
<1>1. \E s : hook' = [hook EXCEPT ![h] = s]
  BY DEF HookStep, BeginDispatch, Look, Match, Goes, Answer, Die, ReadFile, WriteDispatch, Bind
<1> QED BY <1>1 DEF AttributionTypes

LEMMA ActorStays ==
  ASSUME AttributionTypes, NEW h \in Hooks, WorkOnFile(h), hook[h].actor \in Actors
  PROVE  hook'[h].actor = hook[h].actor
<1>0. hook[h].actor # None /\ DOMAIN hook = Hooks
  BY AttributionAssumption DEF AttributionTypes
<1>1. CASE Match(h)
  <2>1. hook[h] \in Resting
    BY <1>1, HookShape DEF Match
  <2>2. \E pc, r : hook' = [hook EXCEPT ![h] = [hook[h] EXCEPT !.pc = pc, !.role = r]]
    BY <1>1 DEF Match, Goes
  <2> QED BY <1>0, <2>1, <2>2 DEF Resting
<1>2. ASSUME NEW f \in BOOLEAN, ReadFile(h, f) PROVE hook'[h].actor = hook[h].actor
  BY <1>0, <1>2 DEF ReadFile
<1>3. ASSUME NEW f \in BOOLEAN, WriteDispatch(h, f) PROVE FALSE
  BY <1>0, <1>3 DEF WriteDispatch
<1>4. ASSUME NEW f \in BOOLEAN, Bind(h, f) PROVE hook'[h].actor = hook[h].actor
  BY <1>0, <1>4 DEF Bind
<1> QED BY <1>1, <1>2, <1>3, <1>4 DEF WorkOnFile

LEMMA MakingStep ==
  ASSUME AttributionTypes, MakingInv, [GateNext]_gateVars
  PROVE  MakingInv'
<1> USE DEF MakingInv
<1>1. ASSUME NEW h \in Hooks, Lifecycle(h) PROVE MakingInv'
  <2>1. making' = making /\ making[h] = NoCall
    BY <1>1 DEF Lifecycle
  <2>2. \A k \in Hooks \ {h} : hook'[k] = hook[k]
    BY <1>1, OthersStay DEF Lifecycle, HookStep
  <2> QED BY <2>1, <2>2
<1>2. ASSUME NEW h \in Hooks, WorkOnFile(h) PROVE MakingInv'
  <2>1. making' = making
    BY <1>2 DEF WorkOnFile
  <2>2. \A k \in Hooks \ {h} : hook'[k] = hook[k]
    BY <1>2, OthersStay DEF WorkOnFile, HookStep
  <2> QED BY <1>2, <2>1, <2>2, ActorStays
<1>3. ASSUME NEW h \in Hooks, FinishCall(h) \/ HookDies(h) \/ HookRaises(h) PROVE MakingInv'
  <2>1. making' = [making EXCEPT ![h] = NoCall] /\ (Answer(h) \/ Die(h))
    BY <1>3 DEF FinishCall, HookDies, HookRaises, Abandoned
  <2>2. \A k \in Hooks \ {h} : hook'[k] = hook[k]
    BY <2>1, OthersStay DEF HookStep
  <2> QED BY <2>1, <2>2
<1>4. ASSUME NEW h \in Hooks, NEW a \in Actors, NEW c \in Calls, BeginCall(h, a, c) PROVE MakingInv'
  <2>1. Look(h, a, FALSE) /\ making' = [making EXCEPT ![h] = [call |-> c, mode |-> ModeNow]]
    BY <1>4 DEF BeginCall
  <2>2. \A k \in Hooks \ {h} : hook'[k] = hook[k]
    BY <2>1, OthersStay
  <2>3. hook'[h].actor = a
    BY <2>1 DEF Look, AttributionTypes
  <2> QED BY <2>1, <2>2, <2>3
<1>5. CASE UNCHANGED <<hook, making>>
  BY <1>5
<1> QED BY <1>1, <1>2, <1>3, <1>4, <1>5
        DEF GateNext, gateVars, attributionVars, SetMode, DeclarePolicy

(* A verdict that lets a call through outside its own role's policy says    *)
(* so, or says that the call could not be judged, while the gate is on.     *)
LEMMA StrayIsNoted ==
  ASSUME SoundInv, clean, ~overlapped, strange = {}, NEW h \in Hooks, NEW a \in Actors, hook[h].actor = a,
         making[h].mode # "off", PolicyOf(RoleOf[a]) # NoPolicy,
         OutOfScope(making[h].call, PolicyOf(RoleOf[a])), Outcome(h).verdict # "deny"
  PROVE  \/ Outcome(h).verdict = "fail_open" \/ Outcome(h).reason = "unattributed"
         \/ Outcome(h).reason = "out_of_scope"
<1>1. RoleOf[a] # None /\ RoleOf[a] \in dispatched /\ hook[h].role \in {None, RoleOf[a]}
  BY DEF PolicyOf, SoundInv, Sound, MayBe
<1>2. CASE hook[h].role = None
  <2>1. LoopIsRunning
    <3>1. RoleOf[a] \in pending \/ \E b \in Actors : bound[b] = RoleOf[a]
      BY <1>1 DEF SoundInv, AttributionInv, NoDispatchLost
    <3> QED BY <1>1, <3>1 DEF LoopIsRunning
  <2> QED BY <1>2, <2>1 DEF Outcome, Decide, Answers
<1>3. CASE hook[h].role = RoleOf[a]
  BY <1>1, <1>3 DEF Outcome, Decide, Answers, MaybeDeny
<1> QED BY <1>1, <1>2, <1>3

(* Nothing that disturbed the attribution is ever made up for.              *)
LEMMA DisturbedStays ==
  ASSUME [GateNext]_gateVars
  PROVE  (clean' => clean) /\ (~overlapped' => ~overlapped) /\ strange \subseteq strange'
<1>1. ASSUME NEW h \in Hooks, Answer(h) \/ (\E r \in Roles : BeginDispatch(h, r))
      PROVE  clean' = clean /\ overlapped' = overlapped /\ strange' = strange
  BY <1>1 DEF Answer, BeginDispatch
<1>d. ASSUME NEW h \in Hooks, Die(h)
      PROVE  (clean' => clean) /\ overlapped' = overlapped /\ strange' = strange
  BY <1>d DEF Die
<1>l. ASSUME NEW h \in Hooks, NEW a \in Actors, NEW start \in BOOLEAN, Look(h, a, start)
      PROVE  clean' = clean /\ (~overlapped' => ~overlapped) /\ strange' = strange
  BY <1>l DEF Look
<1>m. ASSUME NEW h \in Hooks, Match(h)
      PROVE  clean' = clean /\ overlapped' = overlapped /\ strange \subseteq strange'
  BY <1>m DEF Match
<1>2. ASSUME NEW h \in Hooks, NEW f \in BOOLEAN, ReadFile(h, f)
      PROVE  (clean' => clean) /\ overlapped' = overlapped /\ strange' = strange
  BY <1>2 DEF ReadFile
<1>3. ASSUME NEW h \in Hooks, NEW f \in BOOLEAN, WriteDispatch(h, f)
      PROVE  (clean' => clean) /\ overlapped' = overlapped /\ strange' = strange
  BY <1>3 DEF WriteDispatch
<1>4. ASSUME NEW h \in Hooks, NEW f \in BOOLEAN, Bind(h, f)
      PROVE  clean' = clean /\ overlapped' = overlapped /\ strange' = strange
  BY <1>4 DEF Bind
<1>5. CASE AttributionNext
  BY <1>1, <1>d, <1>l, <1>m, <1>2, <1>3, <1>4, <1>5 DEF AttributionNext, HookStep
<1>6. CASE UNCHANGED attributionVars
  BY <1>6 DEF attributionVars
<1> QED BY <1>5, <1>6, GateIsAttribution

LEMMA StraysStep ==
  ASSUME SoundInv, MakingInv, StraysShow, [GateNext]_gateVars
  PROVE  StraysShow'
<1>0. ~silent' => ~silent
  BY DEF GateNext, gateVars, Lifecycle, WorkOnFile, FinishCall, Recorded, HookDies, HookRaises,
         BeginCall, SetMode, DeclarePolicy
<1>u. Undisturbed' => Undisturbed
  BY <1>0, DisturbedStays DEF Undisturbed
<1>1. ASSUME journal \subseteq journal', passed' = passed PROVE StraysShow'
  BY <1>1, <1>u DEF StraysShow, Residue, Violations
<1>2. ASSUME NEW h \in Hooks, FinishCall(h) PROVE StraysShow'
  <2> DEFINE o == Outcome(h)
  <2>1. /\ making[h] # NoCall
        /\ o.verdict # "deny" => Made(h)
        /\ o.verdict = "deny" => passed' = passed
        /\ Recorded(o)
    BY <1>2 DEF FinishCall
  <2>2. /\ journal \subseteq journal'
        /\ ~silent' => o \in journal' \/ Answers("error", "gate_error") \in journal'
    BY <2>1 DEF Recorded
  <2> SUFFICES ASSUME Undisturbed', NEW c \in passed', ~c.off, ~c.inScope
               PROVE  Residue' \/ Violations'
    BY DEF StraysShow
  <2>3. CASE c \in passed
    <3>1. Residue \/ Violations
      BY <1>u, <2>3 DEF StraysShow
    <3> QED BY <2>2, <3>1 DEF Residue, Violations
  <2>4. CASE c \notin passed
    <3> DEFINE a == hook[h].actor
               p == PolicyOf(RoleOf[a])
    <3>1. /\ o.verdict # "deny" /\ a \in Actors
          /\ making[h].mode # "off" /\ p # NoPolicy /\ OutOfScope(making[h].call, p)
      <4>1. o.verdict # "deny" /\ Made(h) /\ a \in Actors
        BY <2>1, <2>4 DEF MakingInv
      <4>2. c = [off |-> making[h].mode = "off",
                 inScope |-> p # NoPolicy => ~OutOfScope(making[h].call, p)]
        BY <2>4, <4>1 DEF Made
      <4>3. c.off = (making[h].mode = "off")
            /\ c.inScope = (p # NoPolicy => ~OutOfScope(making[h].call, p))
        BY <4>2
      <4> QED BY <4>1, <4>3
    <3>2. \/ o.verdict = "fail_open" \/ o.reason = "unattributed" \/ o.reason = "out_of_scope"
      BY <1>u, <3>1, StrayIsNoted DEF Undisturbed
    <3> HIDE DEF o
    <3>3. CASE o \in journal'
      BY <3>1, <3>2, <3>3 DEF Residue, Violations
    <3>4. CASE Answers("error", "gate_error") \in journal'
      BY <3>4 DEF Residue, Answers
    <3> QED BY <2>2, <3>3, <3>4 DEF Undisturbed
  <2> QED BY <2>3, <2>4
<1>3. ASSUME NEW h \in Hooks, HookDies(h) \/ HookRaises(h) PROVE StraysShow'
  <2>0. journal \subseteq journal'
    BY <1>3 DEF HookDies, HookRaises
  <2>1. CASE making[h] = NoCall
    BY <1>1, <1>3, <2>0, <2>1 DEF HookDies, HookRaises, Abandoned
  <2>2. CASE making[h] # NoCall
    <3>1. silent' \/ FailOpen \in journal'
      BY <1>3, <2>2 DEF HookDies, HookRaises
    <3>2. FailOpen \in journal' => Residue'
      BY DEF Residue, FailOpen, Answers
    <3> QED BY <3>1, <3>2 DEF StraysShow, Undisturbed
  <2> QED BY <2>1, <2>2
<1>4. CASE UNCHANGED <<passed, journal>>
  BY <1>1, <1>4
<1> QED BY <1>2, <1>3, <1>4
        DEF GateNext, gateVars, Lifecycle, WorkOnFile, BeginCall, SetMode, DeclarePolicy

GateInv == SoundInv /\ MakingInv /\ StraysShow

LEMMA GateInvariant == GateSpec => []GateInv
<1>1. GateInit => GateInv
  BY SoundStart DEF GateInit, GateInv, MakingInv, StraysShow
<1>2. GateInv /\ [GateNext]_gateVars => GateInv'
  <2> SUFFICES ASSUME GateInv, [GateNext]_gateVars PROVE GateInv'
    OBVIOUS
  <2> QED BY GateIsAttribution, SoundStep, MakingStep, StraysStep DEF GateInv, SoundInv, AttributionInv
<1> QED BY <1>1, <1>2, PTL DEF GateSpec

(* What the journal lets a run claim is true of the calls it made with the  *)
(* gate on, for any number of hooks, actors and roles, any calls and any    *)
(* policies.                                                                *)
THEOREM ClaimsHold == GateSpec => []ClaimsAreTrue
<1>1. GateInv => ClaimsAreTrue
  BY DEF GateInv, StraysShow, ClaimsAreTrue, Claimable, Held
<1> QED BY <1>1, GateInvariant, PTL

(* Whoever was attributed a role sets the gate's mode by a call only if the *)
(* gate was off, or if the hook failed, which is on record or left no       *)
(* record.                                                                  *)
THEOREM PlacedActorsSetNoMode == GateSpec => OnlyTheUnplacedSetModes
<1> DEFINE Whole == DOMAIN making = Hooks
           A == \A h \in Hooks : making[h] # NoCall /\ making'[h] = NoCall
                  /\ hook[h].role # None /\ modes' # modes
                  => \/ making[h].mode = "off"
                     \/ Abandoned(h) /\ (silent' \/ FailOpen \in journal')
<1>1. GateInit => Whole
  BY DEF GateInit
<1>2. Whole /\ [GateNext]_gateVars => Whole'
  BY DEF GateNext, gateVars, SetMode, DeclarePolicy, BeginCall, FinishCall, Lifecycle, WorkOnFile,
         HookDies, HookRaises, Abandoned
<1>3. ASSUME DOMAIN making = Hooks, [GateNext]_gateVars, NEW h \in Hooks,
             making[h] # NoCall, making'[h] = NoCall,
             hook[h].role # None, modes' # modes
      PROVE  \/ making[h].mode = "off"
             \/ Abandoned(h) /\ (silent' \/ FailOpen \in journal')
  <2>1. PICK k \in Hooks : FinishCall(k) \/ HookDies(k) \/ HookRaises(k)
    BY <1>3 DEF GateNext, gateVars, SetMode, DeclarePolicy, BeginCall, Lifecycle, WorkOnFile
  <2>2. k = h
    <3>1. making' = [making EXCEPT ![k] = NoCall]
      BY <2>1 DEF FinishCall, HookDies, HookRaises, Abandoned
    <3> QED BY <1>3, <3>1
  <2>3. CASE FinishCall(h)
    <3>1. Outcome(h).verdict # "deny" /\ making[h].call.control
      BY <1>3, <2>3 DEF FinishCall, Made
    <3>2. Decide(making[h].mode, TRUE, making[h].call, PolicyOf(hook[h].role)).verdict # "deny"
      BY <1>3, <3>1 DEF Outcome, Answers, Decide, MaybeDeny
    <3> QED BY <3>1, <3>2 DEF Decide, Answers
  <2>4. CASE HookDies(h) \/ HookRaises(h)
    BY <1>3, <2>4 DEF HookDies, HookRaises
  <2> QED BY <2>1, <2>2, <2>3, <2>4
<1>4. Whole /\ [GateNext]_gateVars => A
  BY <1>3
<1> HIDE DEF Whole, A
<1>5. GateSpec => [][A]_gateVars
  BY <1>1, <1>2, <1>4, PTL DEF GateSpec
<1> QED BY <1>5 DEF OnlyTheUnplacedSetModes, A

=============================================================================
