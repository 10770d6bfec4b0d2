SPECIFICATION FairStreakSpec
CONSTANTS
  r = r
  a = a
  b = b
  q1 = q1
  q2 = q2
  NoPid = NoPid
  NoLimit = NoLimit
  Missing = Missing
  Empty = Empty
  Invalid = Invalid
  Pid <- RandA
  Quota = {q1}
  Backend = "cgroup"
  InitParent <- WithChild
  InitAlive <- RandA
  IgnoredPids = {}
  Hogs = {}
  Clients = {}
  violationThreshold = 2
  Files <- AbsentOrOff
  DefaultConfig <- Default
  Environment <- LoneEnv
INVARIANTS
  CleanStopLeavesNoGroup
  MembersAreLimited
  NoEarlyJail
PROPERTIES
  StopIsCarriedOut
  TicksAndStopsEnd
CHECK_DEADLOCK FALSE
