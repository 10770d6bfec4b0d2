SPECIFICATION FairSpec
CONSTANTS
  Pid = {1, 2, 3}
  NumCPU = 4
  maxProcessInfoWorkers = 2
INVARIANTS
  TypeOK
  NeverSendsOnClosed
  OnlyUnreadAreMissing
  ChannelsHaveRoom
  NobodyTwice
  SomebodyMoves
PROPERTIES
  ScanDwindles
  ScanEnds
