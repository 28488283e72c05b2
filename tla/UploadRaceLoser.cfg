\* Two PUTs of one index carry different bytes.
SPECIFICATION Spec
CONSTANTS
  Files = {f1}
  Names = {n1}
  Sizes = {1}
  ChunkSize = 2
  Bodies = {b1, b2}
  Keys <- NoKeys
  Modes = {"server_managed"}
  Declared <- NoDeclaration
  Putters = {p1, p2}
  Finishers = {c1}
  Quota = 0
  MaxUploads = 2
  MaxAttempts = 1
  MaxPuts = 2
  ClientOps = {}
  NoNode = NoNode
  NoSession = NoSession
  Idle = Idle
  NoKey = NoKey
  NoDigest = NoDigest
INVARIANT ConflictingBodiesAreRefused
CHECK_DEADLOCK FALSE
