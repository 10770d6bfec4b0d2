SPECIFICATION Spec
CONSTANTS
  Caller = {c1, c2}
  TTL = 1
  MaxDelay = 1
  MaxTime = 7
INVARIANTS
  TypeOK
  AgeBounded
  TreeKeepsUp
