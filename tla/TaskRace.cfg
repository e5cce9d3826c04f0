\* Two tasks: their workers, a poller and a caller that cancels.
SPECIFICATION FairTasks
CONSTANTS
  Tasks = {"t1", "t2"}
  NoTask = NoTask
  TTL = 1
  MaxWorkers = 1
  MaxClock = 2
INVARIANT FinalAnswerStands
CHECK_DEADLOCK FALSE
