CONSTANTS
  Procs = {p1, p2}
  Keys = {k1}
  NoProc = NoProc
  NoPage = NoPage
  MaxAmount = 2
SPECIFICATION FairSpec
PROPERTIES
  PrepopulatedKeysWork
CHECK_DEADLOCK FALSE
