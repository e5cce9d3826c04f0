\* Hook processes, a window's event log, experiments and cross-window runs, in turn.
SPECIFICATION FilesSpec
CONSTANTS
  h1 = h1  h2 = h2  a1 = a1  a2 = a2  a3 = a3  r1 = r1  r2 = r2
  k = k  f1 = f1  f2 = f2  ReadTool = ReadTool  SetTool = SetTool
  None = None  AnyTool = AnyTool  NoPolicy = NoPolicy
  Hooks = {h1, h2}
  Actors = {a1, a2, a3}
  Roles = {r1, r2}
  RoleOf <- Role
  KindOf <- Kind
  Bears <- Evidence
  Calls <- GateCalls
  Policies <- GatePolicies
  MaxCalls = 2
  durable = durable  reference = reference  scratch = scratch
  Regions = {durable, reference, scratch}
  Keys = {"key"}  Unset = Unset
  Policy <- Presets
  Sizes = {1, 2}
  MaxRecords = 4
  MaxFailing = 0
  scw = scw  flat = flat  Absent = Absent  Torn = Torn
  Exps = {"e1", "e2"}
  Conditions <- SpecConditions
  Flat = {flat}
  Threads = {"t1", "t2"}
  MaxIterations = 2
  MaxResets = 1
  maker1 = maker1  maker2 = maker2  judge = judge
  Order <- FanIn
  ReadsFrom <- FanInReads
  Responses = {1, 2}  Unanswered = Unanswered  Garbled = Garbled
  Callers = {"c1", "c2"}
SYMMETRY HookSymmetry
INVARIANTS
  SoundOneByOne NoDispatchLost ClaimsAreTrue
   WithinBudget NothingForgotten
  FileAndWindowAgree
  PendingPromptsHold RecordedAsSentUnraced
PROPERTY OnlyTheUnplacedSetModes
CHECK_DEADLOCK FALSE
