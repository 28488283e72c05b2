\* One file; clients disagree on its bytes and on its digest, in both modes.
SPECIFICATION Spec
CONSTANTS
  Files = {f1}
  Names = {n1}
  Sizes = {3}
  ChunkSize = 2
  Bodies = {b1, b2}
  Keys <- NoKeys
  Modes = {"server_managed", "zero_knowledge"}
  Declared <- OneDeclaration
  Putters = {p1, p2}
  Finishers = {c1, c2}
  Quota = 0
  MaxUploads = 2
  MaxAttempts = 2
  MaxPuts = 3
  ClientOps = {"abort", "purge"}
  NoNode = NoNode
  NoSession = NoSession
  Idle = Idle
  NoKey = NoKey
  NoDigest = NoDigest
  Empty = Empty
INVARIANTS
  OneRowPerChunk
  EverythingIsBacked
  ReadyDigestIsProven
PROPERTIES
  TerminalStatusIsFinal
  ImplementsResumableFile
CHECK_DEADLOCK FALSE
