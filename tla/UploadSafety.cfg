\* Two uploads and two PUTs in flight, while their clients abort, trash,
\* restore and purge them.
SPECIFICATION Spec
CONSTANTS
  Files = {f1, f2}
  Names = {n1}
  Sizes = {1, 3}
  ChunkSize = 2
  Bodies = {b1}
  Keys <- NoKeys
  Modes = {"server_managed"}
  Declared <- NoDeclaration
  Putters = {p1, p2}
  Finishers = {c1}
  Quota = 4
  MaxUploads = 1
  MaxAttempts = 2
  MaxPuts = 3
  ClientOps = {"abort", "trash", "restore", "purge"}
  NoNode = NoNode
  NoSession = NoSession
  Idle = Idle
  NoKey = NoKey
  NoDigest = NoDigest
SYMMETRY Symmetry
INVARIANTS
  TypeOK
  ReadyFilesAreComplete
  ReceiptsAreDurable
  AbortedUploadsHaveNoNode
CHECK_DEADLOCK FALSE
