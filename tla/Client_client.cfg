SPECIFICATION ClientSpec
CONSTANTS
  Daemons = {d1, d2}
  None = None
  Clients = {c1}
INVARIANTS
  TypeOK
  ClientTypeOK
  ServingIsReached
PROPERTIES
  RefusedOnlyForAnother
  ServedCallsAreAnswered
  StartEnds
  CallsEnd
