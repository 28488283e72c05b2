\* Two uploads of two sizes compete for a quota of four and for one upload slot;
\* sends fail and are retried; clients replay idempotency keys, overwrite, abort,
\* trash and restore.  No symmetry, because of the liveness property.
SPECIFICATION Spec
CONSTANTS
  Files = {f1, f2}
  Names = {n1}
  Sizes = {1, 3}
  ChunkSize = 2
  Bodies = {b1}
  Keys = {k1}
  Modes = {"server_managed"}
  Declared <- NoDeclaration
  Putters = {p1, p2}
  Finishers = {c1}
  Quota = 4
  MaxUploads = 1
  MaxAttempts = 2
  MaxPuts = 2
  ClientOps = {"overwrite", "abort", "trash", "restore"}
  NoNode = NoNode
  NoSession = NoSession
  Idle = Idle
  NoKey = NoKey
  NoDigest = NoDigest
INVARIANT QuotaMatchesUsage
PROPERTIES
  AdmittedWithinQuota
  RequestsFinish
CHECK_DEADLOCK FALSE
