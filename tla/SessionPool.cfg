\* Two calls under a ceiling of one; an enrolment replaces the only session.
SPECIFICATION Spec
CONSTANTS
  s1 = s1
  s2 = s2
  l1 = l1
  l2 = l2
  Sessions = {s1, s2}
  Labels = {l1, l2}
  LabelOf <- RealForFake
  Initial = {s1}
  Fakes = {s1}
  Requests = {r1, r2}
  Limit = 1
  MaxAttempts = 2
  Timeout = 1
  FloodWaits = {1, 2}
  MaxSleep = 1
  FailureThreshold = 2
  FloodWaitThreshold = 2
  BaseQuarantine = 1
  MaxQuarantine = 2
  CountCap = 2
  NoRequest = NoRequest
  NoSession = NoSession
INVARIANTS
  TypeOK
  CeilingConserved
PROPERTIES
  RestIsRespected
  CallsAreAnswered
CHECK_DEADLOCK FALSE
