\* Two calls of one actor, resolved at the same time.
SPECIFICATION GateCallsSpec
CONSTANTS
  h1 = h1  h2 = h2  a1 = a1  a2 = a2  a3 = a3  r1 = r1  r2 = r2
  k = k  f1 = f1  f2 = f2  ReadTool = ReadTool  SetTool = SetTool
  None = None  AnyTool = AnyTool  NoPolicy = NoPolicy
  Hooks = {h1, h2}
  Actors = {a1, a2}
  Roles = {r1, r2}
  RoleOf <- Role
  KindOf <- Kind
  Bears <- Evidence
  Calls <- GateCalls
  Policies <- GatePolicies
  MaxCalls = 2
INVARIANT NeverAnotherRole
CHECK_DEADLOCK FALSE
