SPECIFICATION FairSpec
CONSTANTS
  r = r
  a = a
  b = b
  q1 = q1
  q2 = q2
  NoPid = NoPid
  NoLimit = NoLimit
  Missing = Missing
  Empty = Empty
  Invalid = Invalid
  Pid <- RABs
  Quota = {q1}
  Backend = "systemd"
  InitParent <- WithTwo
  InitAlive <- RABs
  IgnoredPids = {b}
  Hogs = {r}
  Clients = {}
  violationThreshold = 2
  Files <- OnOrOff
  DefaultConfig <- Default
  Environment <- Exits
INVARIANTS
  MarkersAgree
PROPERTIES
  StopKillsNothing
  HogIsJailed
CHECK_DEADLOCK FALSE
