SPECIFICATION FairSpec
CONSTANTS
  c1 = c1
  c2 = c2
  p1 = p1
  p2 = p2
  byPid = byPid
  byName = byName
  NoRows = NoRows
  k1 = k1
  k2 = k2
  Refresh = {c1, c2}
  Mode = {byPid, byName}
  FirstMode = byPid
  Procs = {p1, p2}
  Marks = {k1, k2}
INVARIANTS
  TypeOK
PROPERTIES
  UnchangedIsOnScreen
  TableCatchesUp
