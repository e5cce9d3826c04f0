\* Two requests at once create a child of a root capped at one child.
SPECIFICATION ThreadsSpec
CONSTANTS
  w1 = w1
  w2 = w2
  w3 = w3
  r1 = r1
  r2 = r2
  None = None
  Windows <- Family
  Grants <- NoConstitutions
  Requests <- NoConstitutions
  Threads <- Requesters
  Ask <- Asks
  Root = w1
  RootGrant <- OneChild
INVARIANT RootCapBinds
CHECK_DEADLOCK FALSE
