----------------------------- MODULE MCServices -----------------------------
(***************************************************************************)
(* The containment layer, the file logs, the task store and the buckets    *)
(* for TLC.  They share no state, so one run takes them in turn: focus     *)
(* says which one moves.                                                   *)
(***************************************************************************)
EXTENDS MCContainment, AttestationLog, GateJournal, TaskStore, TokenBuckets

CONSTANTS a, b, p1, p2, p3, t1, t2, k1, k2, k3

VARIABLE focus

servicesVars == <<containmentVars, logVars, journalVars, taskVars, bucketVars, focus>>

MCInit ==
  /\ ContainmentInit /\ LogInit /\ JournalInit /\ TaskInit /\ BucketsInit
  /\ focus \in {"formation", "crossings", "log", "journal", "tasks", "buckets"}

LogMoves(step) ==
  focus = "log" /\ step /\ UNCHANGED <<containmentVars, journalVars, taskVars, bucketVars>>
JournalMoves(step) ==
  focus = "journal" /\ step /\ UNCHANGED <<containmentVars, logVars, taskVars, bucketVars>>
TasksMove(step) ==
  focus = "tasks" /\ step /\ UNCHANGED <<containmentVars, logVars, journalVars, bucketVars>>
BucketsMove(step) ==
  focus = "buckets" /\ step /\ UNCHANGED <<containmentVars, logVars, journalVars, taskVars>>
ContainmentMoves(step) ==
  step /\ UNCHANGED <<logVars, journalVars, taskVars, bucketVars>>

MCNext ==
  /\ \/ ContainmentMoves(focus = "formation" /\ FormationScenario)
     \/ ContainmentMoves(focus = "crossings" /\ CrossingScenario)
     \/ LogMoves(LogStep) \/ JournalMoves(JournalNext)
     \/ TasksMove(TaskNext) \/ BucketsMove(BucketsNext)
  /\ UNCHANGED focus

(* The fairness of FairJournal and FairTasks.                               *)
MCFairness ==
  /\ \A w \in Writers : WF_servicesVars(JournalMoves(Progress(w)) /\ UNCHANGED focus)
  /\ \A t \in Tasks : WF_servicesVars(TasksMove(WorkerStep(t)) /\ UNCHANGED focus)

MCSpec == MCInit /\ [][MCNext]_servicesVars /\ MCFairness
=============================================================================
