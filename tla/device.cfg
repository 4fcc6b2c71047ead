SPECIFICATION FairSpec
CONSTANTS
  Clients = {c1}
  Objects = {o1}
  None = None
  MayFail <- AllFailures
  MaxOpens = 2
  MaxSets = 2
INVARIANTS TypeOK ReleasedClean FreeAlone UsedWhileClosing
PROPERTIES ImplementsEvents MethodsReturn
CHECK_DEADLOCK FALSE
