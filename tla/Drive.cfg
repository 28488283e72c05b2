SPECIFICATION Spec
CONSTANTS
  MaxNodes = 6
  MaxFresh = 3
  MaxBusy = 4
  FolderNames = {n1}
  FileNames = {n1, n2}
  Quota = 3
  NoNode = NoNode
INVARIANTS TypeOK TreeIsConsistent NeverOvercharged
PROPERTIES  TrashStaysFindable
CHECK_DEADLOCK FALSE
