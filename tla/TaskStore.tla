----------------------------- MODULE TaskStore -----------------------------
(***************************************************************************)
(* tasks.py and the two sides that use it: the worker threads of           *)
(* mcp_surface.py, one task each, which complete or fail a task when the   *)
(* provider has answered, and the event loop of mcp_2026.py, which runs    *)
(* every tool and answers tasks/get and tasks/cancel, one request at a     *)
(* time.  The store has no lock, so a method that checks a task and then   *)
(* changes it is two steps, and what another thread does comes between.    *)
(*                                                                         *)
(* An answer is what a caller is told of a finished task: its status, and  *)
(* whether the payload was there.  Nothing in src/ asks a task for input,  *)
(* so there is no input_required here.                                     *)
(***************************************************************************)
EXTENDS Naturals, FiniteSets

CONSTANTS
  Tasks, NoTask,
  TTL,          \* ttl_ms, in ticks of the clock
  MaxWorkers,   \* max_workers of the pool
  MaxClock      \* bounds the clock

ASSUME TaskAssumption == NoTask \notin Tasks /\ TTL \in Nat \ {0} /\ MaxClock \in Nat

VARIABLES
  known,      \* the tasks in the registry
  status, updated, payload,
  worker,     \* where the worker of each task is, and the outcome it has
  canceler,   \* the task the event loop found unfinished and is about to cancel
  purger,     \* the tasks the event loop found expired and is about to delete
  clock,
  told,       \* answers given, for each task
  raced       \* tasks changed by two threads at once

taskVars == <<known, status, updated, payload, worker, canceler, purger, clock, told, raced>>

Terminal == {"completed", "failed", "canceled"}
NotStarted == [pc |-> "none", outcome |-> NoTask]

TaskInit ==
  /\ known = {}
  /\ status = [t \in Tasks |-> "absent"]
  /\ updated = [t \in Tasks |-> 0]
  /\ payload = [t \in Tasks |-> FALSE]
  /\ worker = [t \in Tasks |-> NotStarted]
  /\ canceler = NoTask /\ purger = {}
  /\ clock = 0
  /\ told = [t \in Tasks |-> {}] /\ raced = {}

Expired(t) == clock - updated[t] >= TTL

(* _live: what a method does not raise for.                                 *)
Live(t) == t \in known /\ (Expired(t) => status[t] \in Terminal)

LoopIsFree == canceler = NoTask /\ purger = {}

(* provider_complete with async: a task, and a worker queued for it.        *)
Create(t) ==
  /\ LoopIsFree
  /\ status[t] = "absent"
  /\ known' = known \union {t}
  /\ status' = [status EXCEPT ![t] = "working"]
  /\ updated' = [updated EXCEPT ![t] = clock]
  /\ worker' = [worker EXCEPT ![t].pc = "queued"]
  /\ UNCHANGED <<payload, canceler, purger, clock, told, raced>>

WorkerStarts(t) ==
  /\ worker[t].pc = "queued"
  /\ Cardinality({u \in Tasks : worker[u].pc \in {"calling", "check", "set", "attach"}}) < MaxWorkers
  /\ worker' = [worker EXCEPT ![t].pc = "calling"]
  /\ UNCHANGED <<known, status, updated, payload, canceler, purger, clock, told, raced>>

ProviderAnswersOrNot(t) ==     \* mutant: an exception nobody expected ends the worker
  /\ worker[t].pc = "calling"
  /\ \E n \in {[pc |-> "check", outcome |-> "completed"], [pc |-> "done", outcome |-> NoTask]} :
       worker' = [worker EXCEPT ![t] = n]
  /\ UNCHANGED <<known, status, updated, payload, canceler, purger, clock, told, raced>>

(* The egress ends: completed, or failed whatever the exception.            *)
ProviderAnswers(t) ==
  /\ worker[t].pc = "calling"
  /\ \E o \in {"completed", "failed"} :
       worker' = [worker EXCEPT ![t] = [pc |-> "check", outcome |-> o]]
  /\ UNCHANGED <<known, status, updated, payload, canceler, purger, clock, told, raced>>

MayFinishAgain(t) == Live(t)     \* mutant: a finished task is finished again

(* What complete() and fail() ask of a task.                                *)
MayFinish(t) == Live(t) /\ status[t] \notin Terminal

(* Else the worker swallows the TaskError and is done.                      *)
WorkerChecks(t) ==
  /\ worker[t].pc = "check"
  /\ worker' = [worker EXCEPT ![t].pc = IF MayFinish(t) THEN "set" ELSE "done"]
  /\ raced' = raced \union (IF MayFinish(t) /\ canceler = t THEN {t} ELSE {})
  /\ UNCHANGED <<known, status, updated, payload, canceler, purger, clock, told>>

WorkerSetsStatus(t) ==
  /\ worker[t].pc = "set"
  /\ status' = [status EXCEPT ![t] = worker[t].outcome]
  /\ worker' = [worker EXCEPT ![t].pc = "attach"]
  /\ UNCHANGED <<known, updated, payload, canceler, purger, clock, told, raced>>

WorkerAttaches(t) ==
  /\ worker[t].pc = "attach"
  /\ payload' = [payload EXCEPT ![t] = TRUE]
  /\ updated' = [updated EXCEPT ![t] = clock]
  /\ worker' = [worker EXCEPT ![t].pc = "done"]
  /\ UNCHANGED <<known, status, canceler, purger, clock, told, raced>>

WorkerStep(t) ==
  WorkerStarts(t) \/ ProviderAnswers(t) \/ WorkerChecks(t) \/ WorkerSetsStatus(t) \/ WorkerAttaches(t)

(* as_result under resultType "complete".                                   *)
Answered(t) == told' = [told EXCEPT ![t] = @ \union {[status |-> status[t], payload |-> payload[t]]}]

(* tasks/get of a finished task; of another one it tells nothing final.     *)
Get(t) ==
  /\ LoopIsFree
  /\ Live(t) /\ status[t] \in Terminal
  /\ Answered(t)
  /\ UNCHANGED <<known, status, updated, payload, worker, canceler, purger, clock, raced>>

(* tasks/cancel: of a finished task a no-op, answered as tasks/get is.      *)
CancelChecks(t) ==
  /\ LoopIsFree
  /\ Live(t) /\ status[t] \notin Terminal
  /\ canceler' = t
  /\ raced' = raced \union (IF worker[t].pc = "set" THEN {t} ELSE {})
  /\ UNCHANGED <<known, status, updated, payload, worker, purger, clock, told>>

CancelSets ==
  /\ canceler # NoTask
  /\ status' = [status EXCEPT ![canceler] = "canceled"]
  /\ updated' = [updated EXCEPT ![canceler] = clock]
  /\ told' = [told EXCEPT ![canceler] = @ \union {[status |-> "canceled", payload |-> payload[canceler]]}]
  /\ canceler' = NoTask
  /\ UNCHANGED <<known, payload, worker, purger, clock, raced>>

DeadByAge == {t \in known : Expired(t)}     \* mutant: finished tasks are purged as well

Dead == {t \in known : Expired(t) /\ status[t] \notin Terminal}

(* tasks_status purges first.                                               *)
PurgeScans ==
  /\ LoopIsFree
  /\ purger' = Dead
  /\ raced' = raced \union {t \in Dead : worker[t].pc = "set"}
  /\ UNCHANGED <<known, status, updated, payload, worker, canceler, clock, told>>

PurgeDeletes ==
  /\ purger # {}
  /\ known' = known \ purger /\ purger' = {}
  /\ UNCHANGED <<status, updated, payload, worker, canceler, clock, told, raced>>

Tick ==
  /\ clock < MaxClock /\ clock' = clock + 1
  /\ UNCHANGED <<known, status, updated, payload, worker, canceler, purger, told, raced>>

TaskNext ==
  \/ \E t \in Tasks : Create(t) \/ WorkerStep(t) \/ Get(t) \/ CancelChecks(t)
  \/ CancelSets \/ PurgeScans \/ PurgeDeletes \/ Tick

TaskSpec == TaskInit /\ [][TaskNext]_taskVars

(* A thread that runs goes on, a queued task gets its turn, and a provider  *)
(* answers or times out.                                                    *)
FairTasks == TaskSpec /\ \A t \in Tasks : WF_taskVars(WorkerStep(t))

-----------------------------------------------------------------------------
(* A caller that was told a task is complete has been told the truth once   *)
(* and for all: whoever asks later gets the same answer, payload included   *)
(* (the comments on resultType in mcp_2026.py and on _run_complete).        *)
FinalAnswerStands == \A t \in Tasks : Cardinality(told[t]) <= 1

(* As long as no two threads had a task in hand at once, no answer about    *)
(* its status is taken back: a late completion of a canceled, expired or    *)
(* purged task changes nothing (complete, fail, cancel).                    *)
StatusStandsUnraced ==
  \A t \in Tasks \ raced : \A x \in told[t] : x.status = status[t]

(* A finished task stays fetchable: neither its age nor a purge takes it    *)
(* away (purge_expired, get).                                               *)
FinishedStaysFetchable ==
  \A t \in Tasks \ raced : status[t] \in Terminal => Live(t)

(* Every task comes to an end, by its worker, its caller or its TTL; no     *)
(* poller waits for ever on a worker that died (_run_complete).             *)
EveryTaskEnds ==
  \A t \in Tasks : status[t] = "working" ~> (status[t] \in Terminal \/ ~Live(t))
=============================================================================
