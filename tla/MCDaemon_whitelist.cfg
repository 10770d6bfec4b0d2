SPECIFICATION Spec
CONSTANTS
  r = r
  a = a
  b = b
  q1 = q1
  q2 = q2
  NoPid = NoPid
  NoLimit = NoLimit
  Missing = Missing
  Empty = Empty
  Invalid = Invalid
  Pid <- RandA
  Quota = {q1}
  Backend = "systemd"
  InitParent <- WithChild
  InitAlive <- RandA
  IgnoredPids = {}
  Hogs = {}
  Clients = {}
  violationThreshold = 3
  Files <- AWhitelisted
  DefaultConfig <- Default
  Environment = {}
PROPERTIES
  WhitelistedIsNeverJailed
CHECK_DEADLOCK FALSE
