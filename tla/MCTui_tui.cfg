SPECIFICATION FairSpec
CONSTANTS
  r = r
  a = a
  NoPid = NoPid
  Pid = {r, a}
  InitParent <- WithChild
  Sizes <- SomeSizes
  PanelConfig <- BothWidths
INVARIANTS
  TypeOK
  PromptIsShown
  PanelsFit
PROPERTIES
  FormsActOnWhoTheyName
  RootGoesLast
  LoopComesBack
