\* A call ingested twice at the same time, while the next one is on its way.
SPECIFICATION RunSpec
CONSTANTS
  maker1 = maker1  maker2 = maker2  judge = judge
  Order <- FanIn
  ReadsFrom <- FanInReads
  Responses = {1, 2}
  Callers = {"c1", "c2"}
  Unanswered = Unanswered  Garbled = Garbled
INVARIANT RecordedAsSent
CHECK_DEADLOCK FALSE
