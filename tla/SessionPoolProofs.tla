--------------------------- MODULE SessionPoolProofs ---------------------------
(***************************************************************************)
(* Safety of the session pool, for any number of accounts, requests, waits *)
(* and thresholds.  The two counters a lease returns are proved to be what *)
(* they count; for that it is enough to know the stage of the one request  *)
(* that moves, and the session it holds.                                   *)
(***************************************************************************)
EXTENDS SessionPool, FiniteSetTheorems, TLAPS

-------------------------------------------------------------------------------
\* What the library's Max and Min are on two integers.

\* The larger of two integers.
LEMMA MaxOfTwo ==
  ASSUME NEW a \in Int, NEW b \in Int
  PROVE  Max({a, b}) = IF a >= b THEN a ELSE b
<1>1. \E x \in {a, b} : \A y \in {a, b} : x >= y
  <2>1. CASE a >= b  BY <2>1
  <2>2. CASE ~(a >= b)  BY <2>2
  <2> QED  BY <2>1, <2>2
<1>2. Max({a, b}) \in {a, b} /\ \A y \in {a, b} : Max({a, b}) >= y
  BY <1>1 DEF Max
<1> QED  BY <1>2

\* The smaller of two integers.
LEMMA MinOfTwo ==
  ASSUME NEW a \in Int, NEW b \in Int
  PROVE  Min({a, b}) = IF a <= b THEN a ELSE b
<1>1. \E x \in {a, b} : \A y \in {a, b} : x <= y
  <2>1. CASE a <= b  BY <2>1
  <2>2. CASE ~(a <= b)  BY <2>2
  <2> QED  BY <2>1, <2>2
<1>2. Min({a, b}) \in {a, b} /\ \A y \in {a, b} : Min({a, b}) <= y
  BY <1>1 DEF Min
<1> QED  BY <1>2

\* A timer stays a number of seconds and does not grow by running.
LEMMA ElapsedType == ASSUME NEW n \in Nat PROVE Elapsed(n) \in Nat /\ Elapsed(n) <= n
<1>1. n - 1 \in Int /\ 0 \in Int  OBVIOUS
<1>2. Max({0, n - 1}) = IF 0 >= n - 1 THEN 0 ELSE n - 1  BY <1>1, MaxOfTwo
<1> QED  BY <1>2 DEF Elapsed

\* A count stays a count.
LEMMA CountedType == ASSUME NEW n \in Nat PROVE Counted(n) \in Nat
<1>1. n + 1 \in Int /\ CountCap \in Int  BY SettingsAssumption
<1>2. Min({n + 1, CountCap}) = IF n + 1 <= CountCap THEN n + 1 ELSE CountCap
  BY <1>1, MinOfTwo
<1> QED  BY <1>2, SettingsAssumption DEF Counted

-------------------------------------------------------------------------------
\* Types.

\* A request at some stage is a typed record.
LEMMA RequestType ==
  ASSUME TypeOK, NEW r \in Requests, NEW stage, At(r, stage)
  PROVE  req[r] \in Request /\ req[r].stage = stage
BY DEF TypeOK, At

\* A working request holds a session, of some account.
LEMMA WorkingType ==
  ASSUME TypeOK, NEW r \in Requests, At(r, "working")
  PROVE  req[r].session \in Sessions /\ LabelOf[req[r].session] \in Labels
BY PoolAssumption DEF TypeOK, At

\* Releasing a lease keeps both counters natural.
LEMMA ReleaseType ==
  ASSUME TypeOK, NEW r \in Requests, At(r, "working"), Release(r)
  PROVE  inFlight' \in [Sessions -> Nat] /\ free' \in Nat
<1>1. req[r].session \in Sessions  BY WorkingType
<1>2. inFlight[req[r].session] \in Nat  BY <1>1 DEF TypeOK
<1>3. Max({0, inFlight[req[r].session] - 1}) \in Nat
  BY <1>2, ElapsedType DEF Elapsed
<1> QED  BY <1>1, <1>3 DEF Release, TypeOK

\* After an attempt the request pauses or ends, and no other is touched.
LEMMA NextAttemptType ==
  ASSUME TypeOK, NEW r \in Requests, At(r, "working"),
         NextAttempt(r)
  PROVE  /\ req' \in [Requests -> Request \union {NoRequest}]
         /\ req'[r] # NoRequest => req'[r].stage = "paused"
         /\ \A q \in Requests \ {r} : req'[q] = req[q]
<1>1. req[r] \in Request  BY RequestType
<1>2. [req[r] EXCEPT !.stage = "paused", !.session = NoSession] \in Request
  BY <1>1 DEF Request
<1> QED  BY <1>1, <1>2 DEF NextAttempt, TypeOK

\* Recording an offence keeps the breaker typed, whatever the jitter.
LEMMA OffenceType ==
  ASSUME TypeOK, NEW l \in Labels, FloodOffence(l) \/ FailureOffence(l)
  PROVE  breaker' \in [Labels -> Breaker]
<1>1. breaker[l] \in Breaker  BY DEF TypeOK
<1>2. /\ Counted(breaker[l].total) \in Nat
      /\ Counted(breaker[l].floodwaits) \in Nat
      /\ Counted(breaker[l].failures) \in Nat
  BY <1>1, CountedType DEF Breaker
<1>3. \A offences \in Breaker, tripped \in BOOLEAN :
         Recorded(l, offences, tripped) => breaker' \in [Labels -> Breaker]
  <2> SUFFICES ASSUME NEW offences \in Breaker, NEW tripped \in BOOLEAN,
                      Recorded(l, offences, tripped)
               PROVE  breaker' \in [Labels -> Breaker]
    OBVIOUS
  <2>1. PICK q \in IF tripped THEN Quarantines(offences.total)
                             ELSE {offences.quarantine} :
          breaker' = [breaker EXCEPT ![l] = [offences EXCEPT !.quarantine = q]]
    BY DEF Recorded
  <2>2. q \in Nat
    BY <2>1, SettingsAssumption DEF Quarantines, Breaker
  <2>3. [offences EXCEPT !.quarantine = q] \in Breaker  BY <2>2 DEF Breaker
  <2> QED  BY <2>1, <2>3 DEF TypeOK
<1> DEFINE flooded == [breaker[l] EXCEPT !.total = Counted(@), !.floodwaits = Counted(@)]
           failed == [breaker[l] EXCEPT !.total = Counted(@), !.failures = Counted(@)]
<1>4. flooded \in Breaker /\ failed \in Breaker  BY <1>1, <1>2 DEF Breaker
<1>5. FloodOffence(l) => Recorded(l, flooded, flooded.floodwaits >= FloodWaitThreshold)
  BY DEF FloodOffence
<1>6. FailureOffence(l) => Recorded(l, failed, failed.failures >= FailureThreshold)
  BY DEF FailureOffence
<1>7. (flooded.floodwaits >= FloodWaitThreshold) \in BOOLEAN
      /\ (failed.failures >= FailureThreshold) \in BOOLEAN
  BY <1>4, SettingsAssumption DEF Breaker
<1> HIDE DEF flooded, failed
<1> QED  BY <1>3, <1>4, <1>5, <1>6, <1>7

\* The pool at start-up is well typed.
LEMMA InitType == Init => TypeOK
BY PoolAssumption, SettingsAssumption, NoRequestAssumption
DEF Init, TypeOK, Breaker

\* What a request that moves does to the requests, one formula for each kind of
\* move: from a stage that holds nothing, through a slot, to a lease.
Others(r) == \A q \in Requests \ {r} : req'[q] = req[q]

\* However an attempt ends: its lease is released and it pauses or ends.
LEMMA AnswerType ==
  ASSUME TypeOK, NEW r \in Requests, Answer(r)
  PROVE  TypeOK' /\ Others(r) /\ At(r, "working") /\ Release(r)
         /\ (req'[r] # NoRequest => req'[r].stage = "paused")
<1>0. At(r, "working") /\ Release(r)
  BY DEF Answer, Succeed, FloodWait, Fail, Return
<1> USE <1>0
<1>a. req[r] \in Request /\ req[r].session \in Sessions
      /\ LabelOf[req[r].session] \in Labels
  BY RequestType, WorkingType
<1>b. inFlight' \in [Sessions -> Nat] /\ free' \in Nat  BY ReleaseType
<1>1. CASE Succeed(r)
  BY <1>1, <1>a, <1>b DEF Succeed, TypeOK, Others, Breaker
<1>2. CASE FloodWait(r)
  <2> DEFINE l == LabelOf[req[r].session]
  <2>1. breaker' \in [Labels -> Breaker]
    BY <1>2, <1>a, OffenceType DEF FloodWait
  <2>2. \A seconds \in FloodWaits : LongestWait(l, seconds) \in Nat
    <3> SUFFICES ASSUME NEW seconds \in FloodWaits
                 PROVE  LongestWait(l, seconds) \in Nat
      OBVIOUS
    <3>1. gate[l] \in Nat /\ seconds \in Nat
      BY <1>a, SettingsAssumption DEF TypeOK
    <3>2. Max({gate[l], seconds}) = IF gate[l] >= seconds THEN gate[l] ELSE seconds
      BY <3>1, MaxOfTwo
    <3> QED  BY <3>1, <3>2 DEF LongestWait
  <2>3. gate' \in [Labels -> Nat] /\ disabled' \in SUBSET Sessions
    BY <1>2, <1>a, <2>2 DEF FloodWait, TypeOK
  <2>4. /\ req' \in [Requests -> Request \union {NoRequest}]
        /\ req'[r] # NoRequest => req'[r].stage = "paused"
        /\ \A q \in Requests \ {r} : req'[q] = req[q]
    <3>1. NextAttempt(r)  BY <1>2, <1>a DEF FloodWait
    <3> QED  BY <3>1, NextAttemptType
  <2> QED  BY <1>2, <1>b, <2>1, <2>3, <2>4 DEF FloodWait, TypeOK, Others
<1>3. CASE Fail(r)
  <2>1. breaker' \in [Labels -> Breaker]
    BY <1>3, <1>a, OffenceType DEF Fail
  <2>2. /\ req' \in [Requests -> Request \union {NoRequest}]
        /\ req'[r] # NoRequest => req'[r].stage = "paused"
        /\ \A q \in Requests \ {r} : req'[q] = req[q]
    BY <1>3, NextAttemptType DEF Fail
  <2> QED  BY <1>3, <1>b, <2>1, <2>2 DEF Fail, TypeOK, Others
<1>4. CASE Return(r)
  BY <1>4, <1>a, <1>b DEF Return, TypeOK, Others
<1> QED  BY <1>1, <1>2, <1>3, <1>4 DEF Answer

\* Every step keeps the types.
LEMMA NextType == TypeOK /\ [Next]_vars => TypeOK'
<1> SUFFICES ASSUME TypeOK, [Next]_vars PROVE TypeOK'
  OBVIOUS
<1>1. CASE UNCHANGED vars  BY <1>1 DEF vars, TypeOK
<1>2. ASSUME NEW r \in Requests, Call(r) PROVE TypeOK'
  <2>1. [stage |-> "queued", attempt |-> 1, left |-> Timeout, nap |-> 0,
         session |-> NoSession] \in Request
    BY SettingsAssumption DEF Request
  <2> QED  BY <1>2, <2>1 DEF Call, TypeOK
<1>3. ASSUME NEW r \in Requests, Enter(r) PROVE TypeOK'
  <2>1. req[r] \in Request  BY <1>3, RequestType DEF Enter
  <2>2. [req[r] EXCEPT !.stage = "seeking"] \in Request  BY <2>1 DEF Request
  <2> QED  BY <1>3, <2>1, <2>2 DEF Enter, At, TypeOK
<1>4. ASSUME NEW r \in Requests, Take(r) PROVE TypeOK'
  <2>1. req[r] \in Request  BY <1>4, RequestType DEF Take
  <2>2. PICK s \in Sessions :
          /\ inFlight' = [inFlight EXCEPT ![s] = @ + 1]
          /\ req' = [req EXCEPT ![r] = [req[r] EXCEPT !.stage = "working",
                                          !.session = s, !.left = 0]]
    BY <1>4 DEF Take, LeastLoaded, Candidates
  <2>3. [req[r] EXCEPT !.stage = "working", !.session = s, !.left = 0] \in Request
    BY <2>1 DEF Request
  <2>4. inFlight' \in [Sessions -> Nat]  BY <2>2 DEF TypeOK
  <2>5. req' \in [Requests -> Request \union {NoRequest}]  BY <2>2, <2>3 DEF TypeOK
  <2>6. \A q \in Requests : req'[q] # NoRequest /\ req'[q].stage = "working"
          => req'[q].session \in Sessions
    BY <2>1, <2>2 DEF TypeOK, Request
  <2> QED  BY <1>4, <2>4, <2>5, <2>6 DEF Take, TypeOK
<1>5. ASSUME NEW r \in Requests, Refuse(r) PROVE TypeOK'
  BY <1>5 DEF Refuse, TypeOK
<1>6. ASSUME NEW r \in Requests, Doze(r) PROVE TypeOK'
  <2>1. req[r] \in Request  BY <1>6, RequestType DEF Doze
  <2>2. [req[r] EXCEPT !.nap = 1] \in Request  BY <2>1 DEF Request
  <2> QED  BY <1>6, <2>1, <2>2 DEF Doze, At, TypeOK
<1>7. ASSUME NEW r \in Requests, Answer(r) PROVE TypeOK'
  BY <1>7, AnswerType
<1>8. ASSUME NEW r \in Requests, Again(r) PROVE TypeOK'
  <2>1. req[r] \in Request  BY <1>8, RequestType DEF Again
  <2>2. [req[r] EXCEPT !.stage = "queued", !.attempt = @ + 1, !.left = Timeout] \in Request
    <3>1. req[r].attempt + 1 \in Nat  BY <2>1 DEF Request
    <3> QED  BY <2>1, <3>1, SettingsAssumption DEF Request
  <2>3. req' \in [Requests -> Request \union {NoRequest}]
    BY <1>8, <2>2 DEF Again, TypeOK
  <2>4. \A q \in Requests : req'[q] # NoRequest /\ req'[q].stage = "working"
          => req'[q].session \in Sessions
    BY <1>8, <2>1 DEF Again, TypeOK, Request
  <2> QED  BY <1>8, <2>3, <2>4 DEF Again, TypeOK
<1>9. ASSUME NEW r \in Requests, Cancel(r) PROVE TypeOK'
  BY <1>9 DEF Cancel, TypeOK
<1>10. ASSUME NEW s \in Sessions, Enroll(s) PROVE TypeOK'
  BY <1>10 DEF Enroll, TypeOK
<1>11. CASE Tick
  <2>1. gate' \in [Labels -> Nat]  BY <1>11, ElapsedType DEF Tick, TypeOK
  <2>2. breaker' \in [Labels -> Breaker]
    BY <1>11, ElapsedType DEF Tick, TypeOK, Breaker
  <2>3. \A r \in Requests : req[r] # NoRequest =>
          /\ req[r] \in Request
          /\ [req[r] EXCEPT !.left = Elapsed(@), !.nap = Elapsed(@)] \in Request
    BY ElapsedType DEF TypeOK, Request
  <2>4. req' \in [Requests -> Request \union {NoRequest}]
    BY <1>11, <2>3 DEF Tick
  <2>5. \A r \in Requests : req'[r] # NoRequest /\ req'[r].stage = "working"
          => req'[r].session \in Sessions
    BY <1>11, <2>3 DEF Tick, TypeOK, Request
  <2> QED  BY <1>11, <2>1, <2>2, <2>4, <2>5 DEF Tick, TypeOK
<1> QED
  BY <1>1, <1>2, <1>3, <1>4, <1>5, <1>6, <1>7, <1>8, <1>9, <1>10, <1>11
  DEF Next, Seek

\* Every reachable state of the pool is well typed: no counter of a lease or of
\* the ceiling falls below zero, and a working request holds a session.
THEOREM PoolTypeCorrect == Spec => []TypeOK
BY InitType, NextType, PTL DEF Spec

-------------------------------------------------------------------------------
\* What a lease returns.

CInv == TypeOK /\ CeilingConserved /\ LoadCountsLeases

\* What is counted is finite.
LEMMA SetsAreFinite ==
  IsFiniteSet(Holders) /\ \A s : IsFiniteSet(UsersOf(s))
<1>1. Holders \subseteq Requests /\ \A s : UsersOf(s) \subseteq Requests
  BY DEF Holders, UsersOf
<1> QED  BY <1>1, PoolAssumption, FS_Subset

\* Only the request that moves enters or leaves a set.
LEMMA OneMoves ==
  ASSUME NEW r \in Requests, Others(r)
  PROVE  /\ Holders' \ {r} = Holders \ {r}
         /\ \A s : UsersOf(s)' \ {r} = UsersOf(s) \ {r}
BY DEF Others, Holders, UsersOf, At

\* A step that changes neither counter and neither set.
LEMMA NobodyEnters ==
  ASSUME CInv, NEW r \in Requests, Others(r), UNCHANGED <<free, inFlight>>,
         r \in Holders <=> r \in Holders',
         \A s : r \in UsersOf(s) <=> r \in UsersOf(s)'
  PROVE  CeilingConserved' /\ LoadCountsLeases'
<1>1. Holders' = Holders /\ \A s : UsersOf(s)' = UsersOf(s)
  BY OneMoves
<1> QED  BY <1>1 DEF CInv, CeilingConserved, LoadCountsLeases

\* A slot is taken, or given back by a request with no lease.
LEMMA SlotMoves ==
  ASSUME CInv, NEW r \in Requests, Others(r), UNCHANGED inFlight,
         \/ r \notin Holders /\ r \in Holders' /\ free' = free - 1
         \/ r \in Holders /\ r \notin Holders' /\ free' = free + 1,
         \A s : r \notin UsersOf(s) /\ r \notin UsersOf(s)'
  PROVE  CeilingConserved' /\ LoadCountsLeases'
<1>1. \A s : UsersOf(s)' = UsersOf(s)  BY OneMoves
<1>2. Cardinality(Holders) \in Nat /\ free \in Nat /\ Limit \in Nat
  BY SetsAreFinite, FS_CardinalityType, SettingsAssumption DEF CInv, TypeOK
<1>3. CASE r \notin Holders /\ r \in Holders' /\ free' = free - 1
  <2>1. Holders' = Holders \union {r}  BY <1>3, OneMoves
  <2>2. Cardinality(Holders') = Cardinality(Holders) + 1
    BY <1>3, <2>1, SetsAreFinite, FS_AddElement
  <2> QED  BY <1>1, <1>2, <1>3, <2>2 DEF CInv, CeilingConserved, LoadCountsLeases
<1>4. CASE r \in Holders /\ r \notin Holders' /\ free' = free + 1
  <2>1. Holders' = Holders \ {r}  BY <1>4, OneMoves
  <2>2. Cardinality(Holders') = Cardinality(Holders) - 1
    BY <1>4, <2>1, SetsAreFinite, FS_RemoveElement
  <2> QED  BY <1>1, <1>2, <1>4, <2>2 DEF CInv, CeilingConserved, LoadCountsLeases
<1> QED  BY <1>3, <1>4

\* A lease on a session is granted to a request that already has a slot.
LEMMA LeaseGranted ==
  ASSUME CInv, NEW r \in Requests, Others(r), UNCHANGED free, NEW s \in Sessions,
         inFlight' = [inFlight EXCEPT ![s] = @ + 1],
         r \in Holders, r \in Holders',
         \A t : r \notin UsersOf(t),
         \A t : r \in UsersOf(t)' <=> t = s
  PROVE  CeilingConserved' /\ LoadCountsLeases'
<1>1. Holders' = Holders  BY OneMoves
<1>2. UsersOf(s)' = UsersOf(s) \union {r}  BY OneMoves
<1>3. \A t : t # s => UsersOf(t)' = UsersOf(t)  BY OneMoves
<1>4. Cardinality(UsersOf(s)') = Cardinality(UsersOf(s)) + 1
  BY <1>2, SetsAreFinite, FS_AddElement
<1> QED  BY <1>1, <1>3, <1>4 DEF CInv, TypeOK, CeilingConserved, LoadCountsLeases

\* A lease is released: both counts go down, and neither was zero.
LEMMA LeaseReleased ==
  ASSUME CInv, NEW r \in Requests, Others(r), At(r, "working"), Release(r),
         r \notin Holders', \A t : r \notin UsersOf(t)'
  PROVE  CeilingConserved' /\ LoadCountsLeases'
<1>1. PICK s \in Sessions : s = req[r].session  BY WorkingType DEF CInv
<1>2. r \in Holders /\ r \in UsersOf(s) /\ \A t : t # s => r \notin UsersOf(t)
  BY <1>1 DEF Holders, UsersOf
<1>3. Holders' = Holders \ {r} /\ UsersOf(s)' = UsersOf(s) \ {r}
      /\ \A t : t # s => UsersOf(t)' = UsersOf(t)
  <2>1. Holders' = Holders \ {r}  BY <1>2, OneMoves
  <2>2. UsersOf(s)' = UsersOf(s) \ {r}
    <3>1. UsersOf(s)' \ {r} = UsersOf(s) \ {r}  BY OneMoves
    <3>2. r \notin UsersOf(s)'  OBVIOUS
    <3> QED  BY <3>1, <3>2
  <2>3. ASSUME NEW t, t # s PROVE UsersOf(t)' = UsersOf(t)
    <3>1. UsersOf(t)' \ {r} = UsersOf(t) \ {r}  BY OneMoves
    <3>2. r \notin UsersOf(t)' /\ r \notin UsersOf(t)  BY <1>2, <2>3
    <3> QED  BY <3>1, <3>2
  <2> QED  BY <2>1, <2>2, <2>3
<1>4. /\ Cardinality(Holders') = Cardinality(Holders) - 1
      /\ Cardinality(UsersOf(s)') = Cardinality(UsersOf(s)) - 1
  BY <1>2, <1>3, SetsAreFinite, FS_RemoveElement
<1>5. /\ Cardinality(Holders) \in Nat /\ Cardinality(UsersOf(s)) \in Nat
      /\ Cardinality(UsersOf(s)) # 0
  BY <1>2, SetsAreFinite, FS_CardinalityType, FS_EmptySet
<1>6. inFlight[s] = Cardinality(UsersOf(s))
  BY <1>1 DEF CInv, LoadCountsLeases
<1>7. Max({0, inFlight[s] - 1}) = inFlight[s] - 1
  <2>1. 0 \in Int /\ inFlight[s] - 1 \in Int  BY <1>5, <1>6
  <2>2. Max({0, inFlight[s] - 1}) = IF 0 >= inFlight[s] - 1 THEN 0 ELSE inFlight[s] - 1
    BY <2>1, MaxOfTwo
  <2> QED  BY <1>5, <1>6, <2>2
<1>8. inFlight' = [inFlight EXCEPT ![s] = inFlight[s] - 1] /\ free' = free + 1
  BY <1>1, <1>7 DEF Release
<1>9. free \in Nat /\ Limit \in Nat /\ inFlight \in [Sessions -> Nat]
  BY SettingsAssumption DEF CInv, TypeOK
<1>10. CeilingConserved'
  BY <1>4, <1>5, <1>8, <1>9 DEF CInv, CeilingConserved
<1>11. ASSUME NEW t \in Sessions PROVE inFlight'[t] = Cardinality(UsersOf(t)')
  <2>1. CASE t = s  BY <1>1, <1>4, <1>6, <1>8, <1>9, <2>1
  <2>2. CASE t # s  BY <1>1, <1>3, <1>8, <1>9, <1>11, <2>2 DEF CInv, LoadCountsLeases
  <2> QED  BY <2>1, <2>2
<1> QED  BY <1>10, <1>11 DEF LoadCountsLeases

\* The two counts are inductive together with the types.
LEMMA CInvStep == CInv /\ [Next]_vars => CInv'
<1> SUFFICES ASSUME CInv, [Next]_vars PROVE CeilingConserved' /\ LoadCountsLeases'
  BY NextType DEF CInv
<1>0. TypeOK  BY DEF CInv
<1>1. CASE UNCHANGED vars
  <2>1. UNCHANGED <<free, inFlight>> /\ Holders' = Holders /\ \A s : UsersOf(s)' = UsersOf(s)
    BY <1>1 DEF vars, Holders, UsersOf, At
  <2> QED  BY <2>1 DEF CInv, CeilingConserved, LoadCountsLeases
<1>2. ASSUME NEW r \in Requests, Call(r) PROVE CeilingConserved' /\ LoadCountsLeases'
  <2>1. Others(r) /\ req'[r].stage = "queued" /\ req[r] = NoRequest
    BY <1>0, <1>2 DEF Call, Others, TypeOK
  <2>2. /\ r \notin Holders /\ r \notin Holders'
        /\ \A s : r \notin UsersOf(s) /\ r \notin UsersOf(s)'
    BY <2>1 DEF Holders, UsersOf, At
  <2> QED  BY <1>2, <2>1, <2>2, NobodyEnters DEF Call
<1>3. ASSUME NEW r \in Requests, Enter(r) PROVE CeilingConserved' /\ LoadCountsLeases'
  <2>1. req[r] \in Request /\ req[r].stage = "queued"
    BY <1>0, <1>3, RequestType DEF Enter
  <2>2. Others(r) /\ req'[r] = [req[r] EXCEPT !.stage = "seeking"]
    BY <1>0, <1>3 DEF Enter, Others, TypeOK
  <2>3. req'[r].stage = "seeking" /\ req'[r] # NoRequest
    BY <2>1, <2>2, NoRequestAssumption DEF Request
  <2>4. /\ r \notin Holders /\ r \in Holders'
        /\ \A s : r \notin UsersOf(s) /\ r \notin UsersOf(s)'
    BY <2>1, <2>3 DEF Holders, UsersOf, At
  <2> QED  BY <1>3, <2>2, <2>4, SlotMoves DEF Enter
<1>4. ASSUME NEW r \in Requests, Take(r) PROVE CeilingConserved' /\ LoadCountsLeases'
  <2>1. req[r] \in Request /\ req[r].stage = "seeking" /\ At(r, "seeking")
    BY <1>0, <1>4, RequestType DEF Take
  <2>2. PICK s \in Sessions :
          /\ inFlight' = [inFlight EXCEPT ![s] = @ + 1]
          /\ req' = [req EXCEPT ![r] = [req[r] EXCEPT !.stage = "working",
                                          !.session = s, !.left = 0]]
    BY <1>4 DEF Take, LeastLoaded, Candidates
  <2>3. Others(r) /\ req'[r].stage = "working" /\ req'[r].session = s
        /\ req'[r] # NoRequest
    <3>1. Others(r) /\ req'[r] = [req[r] EXCEPT !.stage = "working",
                                   !.session = s, !.left = 0]
      BY <1>0, <2>2 DEF Others, TypeOK
    <3>2. [req[r] EXCEPT !.stage = "working", !.session = s, !.left = 0] \in Request
      BY <2>1 DEF Request
    <3>3. req'[r].stage = "working" /\ req'[r].session = s /\ req'[r] \in Request
      BY <2>1, <3>1, <3>2 DEF Request
    <3> QED  BY <3>1, <3>3, NoRequestAssumption
  <2>4. /\ r \in Holders /\ r \in Holders' /\ \A t : r \notin UsersOf(t)
        /\ \A t : r \in UsersOf(t)' <=> t = s
    BY <2>1, <2>3 DEF Holders, UsersOf, At
  <2>5. UNCHANGED free  BY <1>4 DEF Take
  <2> QED  BY <2>2, <2>3, <2>4, <2>5, LeaseGranted
<1>5. ASSUME NEW r \in Requests, Refuse(r) PROVE CeilingConserved' /\ LoadCountsLeases'
  <2>1. req[r] \in Request /\ req[r].stage = "seeking" /\ At(r, "seeking")
    BY <1>0, <1>5, RequestType DEF Refuse
  <2>2. Others(r) /\ req'[r] = NoRequest  BY <1>0, <1>5 DEF Refuse, Others, TypeOK
  <2>3. /\ r \in Holders /\ r \notin Holders'
        /\ \A s : r \notin UsersOf(s) /\ r \notin UsersOf(s)'
    BY <2>1, <2>2 DEF Holders, UsersOf, At
  <2> QED  BY <1>5, <2>2, <2>3, SlotMoves DEF Refuse
<1>6. ASSUME NEW r \in Requests, Doze(r) PROVE CeilingConserved' /\ LoadCountsLeases'
  <2>1. req[r] \in Request /\ req[r].stage = "seeking" /\ At(r, "seeking")
    BY <1>0, <1>6, RequestType DEF Doze
  <2>2. Others(r) /\ req'[r] = [req[r] EXCEPT !.nap = 1]
    BY <1>0, <1>6 DEF Doze, Others, TypeOK
  <2>3. req'[r].stage = "seeking" /\ req'[r] # NoRequest
    BY <2>1, <2>2, NoRequestAssumption DEF Request
  <2>4. /\ r \in Holders /\ r \in Holders'
        /\ \A s : r \notin UsersOf(s) /\ r \notin UsersOf(s)'
    BY <2>1, <2>3 DEF Holders, UsersOf, At
  <2> QED  BY <1>6, <2>2, <2>4, NobodyEnters DEF Doze
<1>7. ASSUME NEW r \in Requests, Answer(r) PROVE CeilingConserved' /\ LoadCountsLeases'
  <2>1. Others(r) /\ At(r, "working") /\ Release(r)
        /\ (req'[r] # NoRequest => req'[r].stage = "paused")
    BY <1>0, <1>7, AnswerType
  <2>2. r \notin Holders' /\ \A t : r \notin UsersOf(t)'
    BY <2>1 DEF Holders, UsersOf, At
  <2> QED  BY <2>1, <2>2, LeaseReleased
<1>8. ASSUME NEW r \in Requests, Again(r) PROVE CeilingConserved' /\ LoadCountsLeases'
  <2>1. req[r] \in Request /\ req[r].stage = "paused"
    BY <1>0, <1>8, RequestType DEF Again
  <2>2. Others(r) /\ req'[r] = [req[r] EXCEPT !.stage = "queued",
                                  !.attempt = @ + 1, !.left = Timeout]
    BY <1>0, <1>8 DEF Again, Others, TypeOK
  <2>3. req'[r].stage = "queued"  BY <2>1, <2>2 DEF Request
  <2>4. /\ r \notin Holders /\ r \notin Holders'
        /\ \A s : r \notin UsersOf(s) /\ r \notin UsersOf(s)'
    BY <2>1, <2>3 DEF Holders, UsersOf, At
  <2> QED  BY <1>8, <2>2, <2>4, NobodyEnters DEF Again
<1>9. ASSUME NEW r \in Requests, Cancel(r) PROVE CeilingConserved' /\ LoadCountsLeases'
  <2>1. Others(r) /\ req'[r] = NoRequest  BY <1>0, <1>9 DEF Cancel, Others, TypeOK
  <2>2. r \notin Holders' /\ \A s : r \notin UsersOf(s) /\ r \notin UsersOf(s)'
    BY <1>9, <2>1 DEF Cancel, Holders, UsersOf, At
  <2>3. CASE At(r, "seeking")
    <3>1. r \in Holders /\ free' = free + 1  BY <1>9, <2>3 DEF Cancel, Holders
    <3> QED  BY <1>9, <2>1, <2>2, <3>1, SlotMoves DEF Cancel
  <2>4. CASE ~At(r, "seeking")
    <3>1. r \notin Holders /\ free' = free  BY <1>9, <2>4 DEF Cancel, Holders, At
    <3> QED  BY <1>9, <2>1, <2>2, <3>1, NobodyEnters DEF Cancel
  <2> QED  BY <2>3, <2>4
<1>10. ASSUME NEW s \in Sessions, Enroll(s) PROVE CeilingConserved' /\ LoadCountsLeases'
  <2>1. UNCHANGED <<free, inFlight, req>>  BY <1>10 DEF Enroll
  <2>2. Holders' = Holders /\ \A t : UsersOf(t)' = UsersOf(t)
    BY <2>1 DEF Holders, UsersOf, At
  <2> QED  BY <2>1, <2>2 DEF CInv, CeilingConserved, LoadCountsLeases
<1>11. CASE Tick
  <2>1. ASSUME NEW r \in Requests, req[r] # NoRequest
        PROVE  /\ req[r] \in Request
               /\ req'[r] = [req[r] EXCEPT !.left = Elapsed(@), !.nap = Elapsed(@)]
               /\ req'[r] \in Request
    <3>1. req[r] \in Request  BY <1>0, <2>1 DEF TypeOK
    <3>2. req'[r] = [req[r] EXCEPT !.left = Elapsed(@), !.nap = Elapsed(@)]
      BY <1>11, <2>1 DEF Tick
    <3>3. Elapsed(req[r].left) \in Nat /\ Elapsed(req[r].nap) \in Nat
      BY <3>1, ElapsedType DEF Request
    <3> QED  BY <3>1, <3>2, <3>3 DEF Request
  <2>2. \A r \in Requests :
          /\ (req'[r] = NoRequest) <=> (req[r] = NoRequest)
          /\ req[r] # NoRequest =>
               req'[r].stage = req[r].stage /\ req'[r].session = req[r].session
    BY <1>11, <2>1, NoRequestAssumption DEF Tick, Request
  <2>3. Holders' = Holders /\ \A t : UsersOf(t)' = UsersOf(t)
    BY <2>2 DEF Holders, UsersOf, At
  <2> QED  BY <1>11, <2>3 DEF Tick, CInv, CeilingConserved, LoadCountsLeases
<1> QED
  BY <1>1, <1>2, <1>3, <1>4, <1>5, <1>6, <1>7, <1>8, <1>9, <1>10, <1>11
  DEF Next, Seek

\* At start-up nobody holds anything.
LEMMA CInvInit == Init => CInv
<1> SUFFICES ASSUME Init PROVE CeilingConserved /\ LoadCountsLeases
  BY InitType DEF CInv
<1>1. Holders = {} /\ \A s : UsersOf(s) = {}
  BY DEF Init, Holders, UsersOf, At
<1>2. Cardinality({}) = 0  BY FS_EmptySet
<1>3. Cardinality(Holders) = 0 /\ \A s : Cardinality(UsersOf(s)) = 0
  BY <1>1, <1>2
<1> QED
  BY <1>3, SettingsAssumption
  DEF Init, CeilingConserved, LoadCountsLeases

\* The counts hold in every reachable state.
LEMMA CInvariance == Spec => []CInv
BY CInvInit, CInvStep, PTL DEF Spec

\* Lease.release and the failing acquire: whatever ends a request, at whatever
\* await, the global ceiling is neither leaked nor exceeded.
THEOREM CeilingIsConserved == Spec => []CeilingConserved
<1>1. CInv => CeilingConserved  BY DEF CInv
<1> QED  BY <1>1, CInvariance, PTL

\* in_flight is the number of leases out on the session, so that least-loaded
\* selection never works with a stale figure.
THEOREM LoadIsCounted == Spec => []LoadCountsLeases
<1>1. CInv => LoadCountsLeases  BY DEF CInv
<1> QED  BY <1>1, CInvariance, PTL

-------------------------------------------------------------------------------
\* Flood waits.

\* A flood wait, on whichever account, makes no gate shorter.
LEMMA FloodWaitExtends ==
  ASSUME TypeOK, NEW r \in Requests, FloodWait(r), NEW l \in Labels
  PROVE  gate'[l] >= gate[l]
<1>1. LabelOf[req[r].session] \in Labels  BY WorkingType DEF FloodWait
<1>2. PICK k \in Labels, seconds \in FloodWaits :
        gate' = [gate EXCEPT ![k] = Max({gate[k], seconds})]
  BY <1>1 DEF FloodWait, LongestWait
<1>3. gate[k] \in Nat /\ gate[l] \in Nat /\ seconds \in Nat
  BY SettingsAssumption DEF TypeOK
<1>4. Max({gate[k], seconds}) = IF gate[k] >= seconds THEN gate[k] ELSE seconds
  BY <1>3, MaxOfTwo
<1>5. CASE l = k  BY <1>2, <1>3, <1>4, <1>5 DEF TypeOK
<1>6. CASE l # k  BY <1>2, <1>3, <1>6 DEF TypeOK
<1> QED  BY <1>5, <1>6

\* FloodWaitGate: no report of another request in flight, no enrolment and no
\* success shortens the gate of an account; only time does.
THEOREM GatesAreHard == Spec => GatesOnlyExpire
<1> DEFINE Expiry == \A l \in Labels :
             gate'[l] < gate[l] => gate' = [k \in Labels |-> Elapsed(gate[k])]
<1>1. TypeOK /\ [Next]_vars => [Expiry]_vars
  <2> SUFFICES ASSUME TypeOK, Next PROVE Expiry
    OBVIOUS
  <2>1. CASE Tick  BY <2>1 DEF Tick
  <2>2. ASSUME NEW r \in Requests, FloodWait(r) PROVE Expiry
    <3> SUFFICES ASSUME NEW l \in Labels, gate'[l] < gate[l] PROVE FALSE
      OBVIOUS
    <3>1. gate'[l] >= gate[l]  BY <2>2, FloodWaitExtends
    <3>2. TypeOK'
      BY <2>2, AnswerType DEF Answer
    <3>3. gate'[l] \in Nat /\ gate[l] \in Nat  BY <3>2 DEF TypeOK
    <3> QED  BY <3>1, <3>3
  <2>3. CASE UNCHANGED gate
    <3>1. \A l \in Labels : gate[l] \in Nat  BY DEF TypeOK
    <3> QED  BY <2>3, <3>1
  <2>4. Tick \/ (\E r \in Requests : FloodWait(r)) \/ UNCHANGED gate
    BY DEF Next, Call, Enter, Seek, Take, Refuse, Doze, Answer, Succeed, Fail,
           Return, Again, Cancel, Enroll
  <2> QED  BY <2>1, <2>2, <2>3, <2>4
<1> QED  BY <1>1, PoolTypeCorrect, PTL DEF Spec, GatesOnlyExpire

\* A session gets one more operation only while its account is neither gated
\* nor quarantined and it is not disabled itself.
THEOREM RestIsGuaranteed == Spec => RestIsRespected
<1> DEFINE Rest == \A s \in Sessions : inFlight'[s] > inFlight[s]
             => Recovery(LabelOf[s]) = 0 /\ s \notin disabled
<1>1. TypeOK /\ [Next]_vars => [Rest]_vars
  <2> SUFFICES ASSUME TypeOK, Next, NEW s \in Sessions, inFlight'[s] > inFlight[s]
               PROVE  Recovery(LabelOf[s]) = 0 /\ s \notin disabled
    OBVIOUS
  <2>0. inFlight[s] \in Nat  BY DEF TypeOK
  <2>1. ASSUME NEW r \in Requests, Answer(r) PROVE FALSE
    <3>1. At(r, "working") /\ Release(r)  BY <2>1, AnswerType
    <3>2. PICK t \in Sessions : inFlight' = [inFlight EXCEPT ![t] = Elapsed(@)]
      BY <3>1, WorkingType DEF Release, Elapsed
    <3>3. inFlight[t] \in Nat /\ inFlight \in [Sessions -> Nat]  BY DEF TypeOK
    <3>4. Elapsed(inFlight[t]) \in Nat /\ Elapsed(inFlight[t]) <= inFlight[t]
      BY <3>3, ElapsedType
    <3> QED  BY <2>0, <3>2, <3>3, <3>4
  <2>2. ASSUME NEW r \in Requests, Take(r) PROVE Selectable(s)
    <3>1. PICK t \in Candidates : inFlight' = [inFlight EXCEPT ![t] = @ + 1]
      BY <2>2 DEF Take, LeastLoaded
    <3>2. s = t  BY <2>0, <3>1 DEF TypeOK, Candidates
    <3> QED  BY <3>1, <3>2 DEF Candidates
  <2>3. ~UNCHANGED inFlight  BY <2>0
  <2>4. \E r \in Requests : Answer(r) \/ Take(r)
    BY <2>3 DEF Next, Call, Enter, Seek, Refuse, Doze, Again, Cancel, Enroll, Tick
  <2>5. Selectable(s)  BY <2>1, <2>2, <2>4
  <2>6. Max({0, 0}) = 0  BY MaxOfTwo
  <2> QED  BY <2>5, <2>6 DEF Selectable, Recovery
<1> QED  BY <1>1, PoolTypeCorrect, PTL DEF Spec, RestIsRespected
===============================================================================
