------------------------------ MODULE SessionPool ------------------------------
(***************************************************************************)
(* The pool of Telegram accounts: SessionPool of telegram/pool.py with the *)
(* FloodWaitGate, CircuitBreaker and AdaptiveConcurrencyLimiter of         *)
(* telegram/ratelimit.py.                                                  *)
(*                                                                         *)
(* A request is a call of execute_with_retry, or a route that acquires a   *)
(* lease and returns it.  It yields the event loop in four places: at the  *)
(* semaphore of the limiter, in the sleeps of acquire, in the operation it *)
(* runs on the leased session, and in the pause between two attempts.      *)
(*                                                                         *)
(* Time is counted in seconds, as what is left of every timer; a request   *)
(* may be late for any of them.  Gate and breaker are keyed by label (the  *)
(* account), leases and the disabled flag by session: an account enrolled  *)
(* twice is two sessions of one label.  No code takes a token from a       *)
(* TokenBucket, so all buckets are full and play no part in selection.     *)
(***************************************************************************)
EXTENDS Integers, FiniteSets, FiniteSetsExt

CONSTANTS
  Sessions,           \* ids of pooled sessions
  Labels,             \* the accounts' labels
  LabelOf,            \* the label of each session
  Initial,            \* the sessions registered at start-up
  Fakes,              \* those that an enrolment throws out
  Requests,           \* calls that can be under way together
  Limit,              \* AdaptiveConcurrencyLimiter.limit
  MaxAttempts,        \* max_attempts of execute_with_retry
  Timeout,            \* acquire_timeout, in seconds
  FloodWaits,         \* the waits that Telegram imposes, in seconds
  MaxSleep,           \* settings.floodwait_max_sleep_seconds
  FailureThreshold, FloodWaitThreshold, BaseQuarantine, MaxQuarantine,
  CountCap,           \* where the model's counts of offences saturate
  NoRequest, NoSession

ASSUME PoolAssumption ==
  /\ LabelOf \in [Sessions -> Labels]
  /\ Fakes \subseteq Initial /\ Initial \subseteq Sessions
  /\ IsFiniteSet(Requests)
  /\ NoSession \notin Sessions

ASSUME SettingsAssumption ==
  /\ Limit \in Nat \ {0} /\ MaxAttempts \in Nat \ {0}
  /\ Timeout \in Nat /\ FloodWaits \subseteq Nat /\ MaxSleep \in Nat
  /\ FailureThreshold \in Nat \ {0} /\ FloodWaitThreshold \in Nat \ {0}
  /\ BaseQuarantine \in Nat \ {0} /\ MaxQuarantine \in Nat \ {0}
  /\ CountCap \in Nat

\* Counting further than CountCap would change no threshold and no quarantine.
ASSUME CountCapAssumption ==
  /\ CountCap >= FailureThreshold /\ CountCap >= FloodWaitThreshold
  /\ BaseQuarantine * 2 ^ (CountCap - 1) >= MaxQuarantine

VARIABLES
  pool,      \* pool._sessions
  disabled,  \* sessions with disabled = True
  inFlight,  \* PooledSession.in_flight
  gate,      \* what is left of FloodWaitGate._until, by label
  breaker,   \* CircuitBreaker._states, by label
  free,      \* the value of the limiter's semaphore
  req        \* the requests

vars == <<pool, disabled, inFlight, gate, breaker, free, req>>

Breaker == [failures : Nat, total : Nat, floodwaits : Nat, quarantine : Nat]

Request == [stage : {"queued", "seeking", "working", "paused"}, attempt : Nat,
            left : Nat, nap : Nat, session : Sessions \union {NoSession}]

TypeOK ==
  /\ pool \in SUBSET Sessions
  /\ disabled \in SUBSET Sessions
  /\ inFlight \in [Sessions -> Nat]
  /\ gate \in [Labels -> Nat]
  /\ breaker \in [Labels -> Breaker]
  /\ free \in Nat
  /\ req \in [Requests -> Request \union {NoRequest}]
  /\ \A r \in Requests : req[r] # NoRequest /\ req[r].stage = "working"
       => req[r].session \in Sessions

ASSUME NoRequestAssumption == NoRequest \notin Request

-------------------------------------------------------------------------------
At(r, stage) == req[r] # NoRequest /\ req[r].stage = stage

Recovery(l) == Max({gate[l], breaker[l].quarantine})

\* Mutant: the gate is looked up by session, where nothing is ever stored.
SelectableUngated(s) ==
  s \in pool \ disabled /\ breaker[LabelOf[s]].quarantine = 0

Selectable(s) ==
  /\ s \in pool \ disabled
  /\ gate[LabelOf[s]] = 0
  /\ breaker[LabelOf[s]].quarantine = 0

Candidates == {s \in Sessions : Selectable(s)}
LeastLoaded ==
  {s \in Candidates : \A t \in Candidates : inFlight[s] <= inFlight[t]}

\* Waiting cannot help: every session is disabled, or none is back in time.
Futile(r) ==
  /\ pool # {}
  /\ \A s \in pool \ disabled : Recovery(LabelOf[s]) > req[r].left

-------------------------------------------------------------------------------
\* A probe that fails at start-up leaves its session registered and disabled;
\* a fake has nothing to probe.
Init ==
  /\ pool = Initial
  /\ disabled \in SUBSET (Initial \ Fakes)
  /\ inFlight = [s \in Sessions |-> 0]
  /\ gate = [l \in Labels |-> 0]
  /\ breaker = [l \in Labels |->
       [failures |-> 0, total |-> 0, floodwaits |-> 0, quarantine |-> 0]]
  /\ free = Limit
  /\ req = [r \in Requests |-> NoRequest]

-------------------------------------------------------------------------------
\* acquire.

\* The deadline is set before the semaphore is waited for.
Call(r) ==
  /\ req[r] = NoRequest
  /\ req' = [req EXCEPT ![r] =
       [stage |-> "queued", attempt |-> 1, left |-> Timeout, nap |-> 0,
        session |-> NoSession]]
  /\ UNCHANGED <<pool, disabled, inFlight, gate, breaker, free>>

Enter(r) ==
  /\ At(r, "queued")
  /\ free > 0
  /\ free' = free - 1
  /\ req' = [req EXCEPT ![r].stage = "seeking"]
  /\ UNCHANGED <<pool, disabled, inFlight, gate, breaker>>

\* One of the least loaded healthy sessions, at random.
Take(r) ==
  /\ At(r, "seeking") /\ req[r].nap = 0
  /\ \E s \in LeastLoaded :
       /\ inFlight' = [inFlight EXCEPT ![s] = @ + 1]
       /\ req' = [req EXCEPT ![r] = [req[r] EXCEPT !.stage = "working",
                                                   !.session = s, !.left = 0]]
  /\ UNCHANGED <<pool, disabled, gate, breaker, free>>

\* Mutant: the early design's leak, a failed acquire that keeps its slot.
RefuseKeepingSlot(r) ==
  /\ At(r, "seeking") /\ req[r].nap = 0
  /\ Candidates = {}
  /\ Futile(r) \/ req[r].left = 0
  /\ req' = [req EXCEPT ![r] = NoRequest]
  /\ UNCHANGED <<pool, disabled, inFlight, gate, breaker, free>>

\* SessionUnavailableError, which execute_with_retry does not catch.
Refuse(r) ==
  /\ At(r, "seeking") /\ req[r].nap = 0
  /\ Candidates = {}
  /\ Futile(r) \/ req[r].left = 0
  /\ free' = free + 1
  /\ req' = [req EXCEPT ![r] = NoRequest]
  /\ UNCHANGED <<pool, disabled, inFlight, gate, breaker>>

\* A second's sleep, with the slot held, and another look.
Doze(r) ==
  /\ At(r, "seeking") /\ req[r].nap = 0
  /\ Candidates = {}
  /\ ~Futile(r) /\ req[r].left > 0
  /\ req' = [req EXCEPT ![r].nap = 1]
  /\ UNCHANGED <<pool, disabled, inFlight, gate, breaker, free>>

-------------------------------------------------------------------------------
\* The outcomes of an attempt: what is reported, then the lease's release.

\* Mutant: the early design's two methods, of which only one was called.
ReleaseSlotOnly(r) ==
  /\ free' = free + 1
  /\ UNCHANGED inFlight

Release(r) ==
  /\ inFlight' = [inFlight EXCEPT ![req[r].session] = Max({0, @ - 1})]
  /\ free' = free + 1

\* The pause before the next attempt, or the error after the last one.  The
\* labels that failed (exclude) are collected, and acquire is not told of them.
NextAttempt(r) ==
  req' = [req EXCEPT ![r] =
    IF req[r].attempt < MaxAttempts
    THEN [req[r] EXCEPT !.stage = "paused", !.session = NoSession]
    ELSE NoRequest]

Counted(n) == Min({n + 1, CountCap})

\* _quarantine: doubling with every offence, jittered by a fifth, capped twice.
Quarantines(total) ==
  LET benched == Min({MaxQuarantine,
                      BaseQuarantine * 2 ^ Max({0, total - 1})})
  IN  {q \in 0 .. MaxQuarantine : 4 * benched <= 5 * q /\ 5 * q <= 6 * benched}

\* The offence is on the account's record, and tripped the breaker or not.
Recorded(l, offences, tripped) ==
  \E q \in IF tripped THEN Quarantines(offences.total) ELSE {offences.quarantine} :
    breaker' = [breaker EXCEPT ![l] = [offences EXCEPT !.quarantine = q]]

\* record_floodwait.  A success does not reset the count of flood waits.
FloodOffence(l) ==
  LET now == [breaker[l] EXCEPT !.total = Counted(@), !.floodwaits = Counted(@)]
  IN  Recorded(l, now, now.floodwaits >= FloodWaitThreshold)

\* record_failure.
FailureOffence(l) ==
  LET now == [breaker[l] EXCEPT !.total = Counted(@), !.failures = Counted(@)]
  IN  Recorded(l, now, now.failures >= FailureThreshold)

\* record_success, by which no timer is touched.
Succeed(r) ==
  /\ At(r, "working")
  /\ breaker' = [breaker EXCEPT ![LabelOf[req[r].session]].failures = 0]
  /\ Release(r)
  /\ req' = [req EXCEPT ![r] = NoRequest]
  /\ UNCHANGED <<pool, disabled, gate>>

LongestWait(l, seconds) == Max({gate[l], seconds})

\* report_floodwait.
FloodWait(r) ==
  LET s == req[r].session
      l == LabelOf[s]
  IN  /\ At(r, "working")
      /\ \E seconds \in FloodWaits :
           /\ gate' = [gate EXCEPT ![l] = LongestWait(l, seconds)]
           /\ disabled' = disabled \union (IF seconds > MaxSleep THEN {s} ELSE {})
      /\ FloodOffence(l)
      /\ Release(r)
      /\ NextAttempt(r)
      /\ UNCHANGED pool

\* report_failure: a StorageError or anything unexpected.
Fail(r) ==
  /\ At(r, "working")
  /\ FailureOffence(LabelOf[req[r].session])
  /\ Release(r)
  /\ NextAttempt(r)
  /\ UNCHANGED <<pool, disabled, gate>>

\* A permanent error is not held against the account; nor does a route that only
\* borrows a lease, or a request cancelled in its operation, report anything.
Return(r) ==
  /\ At(r, "working")
  /\ Release(r)
  /\ req' = [req EXCEPT ![r] = NoRequest]
  /\ UNCHANGED <<pool, disabled, gate, breaker>>

\* The next attempt, with a deadline of its own.
Again(r) ==
  /\ At(r, "paused")
  /\ req' = [req EXCEPT ![r] = [req[r] EXCEPT !.stage = "queued",
                                              !.attempt = @ + 1, !.left = Timeout]]
  /\ UNCHANGED <<pool, disabled, inFlight, gate, breaker, free>>

\* A download whose client has gone is cancelled wherever it waits.
Cancel(r) ==
  /\ At(r, "queued") \/ At(r, "seeking") \/ At(r, "paused")
  /\ free' = IF At(r, "seeking") THEN free + 1 ELSE free
  /\ req' = [req EXCEPT ![r] = NoRequest]
  /\ UNCHANGED <<pool, disabled, inFlight, gate, breaker>>

-------------------------------------------------------------------------------
\* _enroll_live_session: the fakes go, an account comes under a fresh id.
\* Leases on a session that went are returned to its object as before.
Enroll(s) ==
  /\ s \notin pool \union Initial
  /\ pool' = (pool \ Fakes) \union {s}
  /\ UNCHANGED <<disabled, inFlight, gate, breaker, free, req>>

\* Mutant: what is left of a timer, without its floor.
Overdue(n) == n - 1

Elapsed(n) == Max({0, n - 1})

\* A second passes.
Tick ==
  /\ gate' = [l \in Labels |-> Elapsed(gate[l])]
  /\ breaker' = [l \in Labels |-> [breaker[l] EXCEPT !.quarantine = Elapsed(@)]]
  /\ req' = [r \in Requests |->
       IF req[r] = NoRequest THEN NoRequest
       ELSE [req[r] EXCEPT !.left = Elapsed(@), !.nap = Elapsed(@)]]
  /\ UNCHANGED <<pool, disabled, inFlight, free>>

Seek(r) == Take(r) \/ Refuse(r) \/ Doze(r)
Answer(r) == Succeed(r) \/ FloodWait(r) \/ Fail(r) \/ Return(r)

Next ==
  \/ \E r \in Requests :
       Call(r) \/ Enter(r) \/ Seek(r) \/ Answer(r) \/ Again(r) \/ Cancel(r)
  \/ \E s \in Sessions : Enroll(s)
  \/ Tick

\* Time passes; the event loop runs what is awake; the semaphore serves its
\* waiters in order; Telethon answers an operation or times it out.
Fairness ==
  /\ WF_vars(Tick)
  /\ \A r \in Requests :
       /\ SF_vars(Enter(r))
       /\ WF_vars(Seek(r)) /\ WF_vars(Answer(r)) /\ WF_vars(Again(r))

Spec == Init /\ [][Next]_vars /\ Fairness

-------------------------------------------------------------------------------
\* Properties.

Holders == {r \in Requests : At(r, "seeking") \/ At(r, "working")}
UsersOf(s) == {r \in Requests : At(r, "working") /\ req[r].session = s}

\* Lease.release: the global slot comes back exactly once on every way out of
\* acquire and of an attempt, so the ceiling neither shrinks nor grows.
CeilingConserved == free + Cardinality(Holders) = Limit

\* in_flight, by which sessions are chosen, is the number of operations that
\* really run on the session, whichever way earlier ones ended, and even when
\* the session has been removed from the pool under them.
LoadCountsLeases == \A s \in Sessions : inFlight[s] = Cardinality(UsersOf(s))

\* FloodWaitGate: the gate of an account is never shortened.  Whatever else is
\* in flight on the account reports, its timer only runs down with the clock.
GatesOnlyExpire ==
  [][\A l \in Labels :
       gate'[l] < gate[l] => gate' = [k \in Labels |-> Elapsed(gate[k])]]_vars

\* An account that was told to wait, or that is quarantined, gets no more work
\* until its time is up, under whichever session it is enrolled.
RestIsRespected ==
  [][\A s \in Sessions : inFlight'[s] > inFlight[s]
       => Recovery(LabelOf[s]) = 0 /\ s \notin disabled]_vars

\* A call is answered or refused: neither the ceiling nor a pool with no healthy
\* session keeps it for ever.
CallsAreAnswered ==
  \A r \in Requests : req[r] # NoRequest ~> req[r] = NoRequest
===============================================================================
