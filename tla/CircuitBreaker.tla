--------------------------- MODULE CircuitBreaker ---------------------------
(***************************************************************************)
(* utils/error_handler.py: class CircuitBreaker and the retry loop         *)
(* retry_async, which wraps every attempt in CircuitBreaker.execute().     *)
(*                                                                         *)
(* One breaker is shared by a set of asyncio tasks (Callers).  A task runs *)
(* uninterrupted between two awaits, so an action is the code from one     *)
(* await to the next: Attempt is everything up to `await fn()`, Succeed,   *)
(* Fail and Cancel are everything after it, Wake is the end of the backoff *)
(* sleep.  Time is abstracted to whether the cooldown of the present OPEN  *)
(* period has elapsed.                                                     *)
(***************************************************************************)
EXTENDS Naturals, FiniteSets

CONSTANTS
  Callers,           \* tasks that call retry_async with this breaker
  FailureThreshold,  \* config.failure_threshold
  ResetThreshold,    \* config.reset_success_threshold
  HalfOpenMaxCalls,  \* config.half_open_max_calls
  MaxAttempts,       \* RetryConfig.max_attempts
  FailureBound,      \* bound: failures reported from outside stop at this count
  CountBound         \* bound: half_open_inflight and the history counters saturate

ASSUME BreakerAssumption ==
  /\ IsFiniteSet(Callers)
  /\ FailureThreshold \in Nat \ {0}
  /\ ResetThreshold \in Nat \ {0}
  /\ HalfOpenMaxCalls \in Nat \ {0}
  /\ MaxAttempts \in Nat \ {0}
  /\ FailureBound \in Nat
  /\ CountBound \in Nat
  /\ CountBound >= FailureThreshold
  /\ CountBound >= ResetThreshold

CLOSED    == "closed"
OPEN      == "open"
HALF_OPEN == "half_open"

VARIABLES
  state,             \* stats.state
  failureCount,      \* stats.failure_count
  successCount,      \* stats.success_count
  halfOpenInflight,  \* stats.half_open_inflight
  openedAt,          \* stats.opened_at: "none", or whether the cooldown is over
  pc,                \* per caller: outside retry_async, awaiting fn, or in backoff
  attempt,           \* per caller: the loop variable of retry_async
  probes,            \* history: calls in flight admitted in this HALF_OPEN period
  failStreak,        \* history: failures recorded since the last success or reset
  okStreak           \* history: successes recorded since the last failure or reset

breakerVars == <<state, failureCount, successCount, openedAt>>
callVars    == <<pc, attempt>>
streakVars  == <<failStreak, okStreak>>
vars == <<breakerVars, halfOpenInflight, callVars, probes, streakVars>>

Saturate(n) == IF n > CountBound THEN CountBound ELSE n

TypeOK ==
  /\ state \in {CLOSED, OPEN, HALF_OPEN}
  /\ failureCount \in Nat
  /\ successCount \in Nat
  /\ halfOpenInflight \in Nat
  /\ openedAt \in {"none", "cooling", "elapsed"}
  /\ pc \in [Callers -> {"idle", "calling", "backoff"}]
  /\ attempt \in [Callers -> 0 .. MaxAttempts]
  /\ probes \in SUBSET Callers
  /\ failStreak \in Nat
  /\ okStreak \in Nat

Init ==
  /\ state = CLOSED
  /\ failureCount = 0
  /\ successCount = 0
  /\ halfOpenInflight = 0
  /\ openedAt = "none"
  /\ pc = [c \in Callers |-> "idle"]
  /\ attempt = [c \in Callers |-> 0]
  /\ probes = {}
  /\ failStreak = 0
  /\ okStreak = 0

-----------------------------------------------------------------------------
(* The transitions of the state machine and the two notifications.         *)

TransitionToOpen ==
  /\ state' = OPEN
  /\ openedAt' = "cooling"
  /\ successCount' = 0

TransitionToClosed ==
  /\ state' = CLOSED
  /\ failureCount' = 0
  /\ successCount' = 0
  /\ openedAt' = "none"

(* What the is_active property leaves behind: reading it is what moves an  *)
(* OPEN breaker whose cooldown is over to HALF_OPEN.                       *)
CooldownOver == state = OPEN /\ openedAt # "cooling"
StateSeen == IF CooldownOver THEN HALF_OPEN ELSE state
ReadIsActive ==
  /\ state' = StateSeen
  /\ failureCount' = IF CooldownOver THEN 0 ELSE failureCount
  /\ successCount' = IF CooldownOver THEN 0 ELSE successCount
  /\ UNCHANGED openedAt

CountSuccess ==
  /\ okStreak' = Saturate(okStreak + 1)
  /\ failStreak' = 0

CountFailure ==
  /\ failStreak' = Saturate(failStreak + 1)
  /\ okStreak' = 0

RecordSuccess_KeepsFailures ==  \* mutant: failure_count survives a success
  /\ CountSuccess
  /\ IF state = HALF_OPEN /\ successCount + 1 >= ResetThreshold
       THEN TransitionToClosed
       ELSE /\ successCount' = IF state = HALF_OPEN THEN successCount + 1
                                                    ELSE successCount
            /\ UNCHANGED <<failureCount, state, openedAt>>

RecordSuccess ==
  /\ CountSuccess
  /\ IF state = HALF_OPEN /\ successCount + 1 >= ResetThreshold
       THEN TransitionToClosed
       ELSE /\ failureCount' = 0
            /\ successCount' = IF state = HALF_OPEN THEN successCount + 1
                                                    ELSE successCount
            /\ UNCHANGED <<state, openedAt>>

TripsOnFailure ==
  \/ state = HALF_OPEN
  \/ state = CLOSED /\ failureCount + 1 >= FailureThreshold

RecordFailure ==
  /\ CountFailure
  /\ failureCount' = failureCount + 1
  /\ IF TripsOnFailure THEN TransitionToOpen
                       ELSE UNCHANGED <<state, openedAt, successCount>>

(* The `finally` of execute(): the inflight counter is touched only if the *)
(* breaker is HALF_OPEN at that moment.                                    *)
ReleaseProbe(c) ==
  /\ halfOpenInflight' = IF state' = HALF_OPEN /\ halfOpenInflight > 0
                           THEN halfOpenInflight - 1 ELSE halfOpenInflight
  /\ probes' = IF state' = state THEN probes \ {c} ELSE {}

-----------------------------------------------------------------------------
(* execute() lets the call through and its task is now awaiting fn.        *)
Admit(c, n) ==
  /\ pc' = [pc EXCEPT ![c] = "calling"]
  /\ attempt' = [attempt EXCEPT ![c] = n]
  /\ halfOpenInflight' = IF StateSeen = HALF_OPEN THEN Saturate(halfOpenInflight + 1)
                                                  ELSE halfOpenInflight
  /\ probes' = IF StateSeen = HALF_OPEN THEN probes \cup {c} ELSE probes

LeaveRetry(c) ==
  /\ pc' = [pc EXCEPT ![c] = "idle"]
  /\ attempt' = [attempt EXCEPT ![c] = 0]

Attempt_ProbeLimit(c) ==  \* mutant: the limit enforced with the leaking counter
  /\ pc[c] = "idle"
  /\ StateSeen # OPEN
  /\ StateSeen = HALF_OPEN => halfOpenInflight < HalfOpenMaxCalls
  /\ ReadIsActive
  /\ Admit(c, 1)
  /\ UNCHANGED streakVars

(* A caller starts an attempt: rejected when the circuit is open (the      *)
(* CircuitBreakerOpenError leaves retry_async at once), else admitted.     *)
Attempt(c) ==
  /\ pc[c] = "idle"
  /\ ReadIsActive
  /\ IF StateSeen = OPEN THEN UNCHANGED <<callVars, halfOpenInflight, probes>>
                         ELSE Admit(c, 1)
  /\ UNCHANGED streakVars

Wake_RetryWhenOpen(c) ==  \* mutant: an open circuit is retried like an error
  /\ pc[c] = "backoff"
  /\ StateSeen # OPEN
  /\ ReadIsActive
  /\ Admit(c, attempt[c] + 1)
  /\ UNCHANGED streakVars

(* The backoff sleep is over and the loop goes round.                      *)
Wake(c) ==
  /\ pc[c] = "backoff"
  /\ ReadIsActive
  /\ IF StateSeen = OPEN THEN LeaveRetry(c) /\ UNCHANGED <<halfOpenInflight, probes>>
                         ELSE Admit(c, attempt[c] + 1)
  /\ UNCHANGED streakVars

Succeed(c) ==
  /\ pc[c] = "calling"
  /\ RecordSuccess
  /\ ReleaseProbe(c)
  /\ LeaveRetry(c)

Fail_ExtraAttempt(c, category) ==  \* mutant: > instead of ==
  /\ pc[c] = "calling"
  /\ RecordFailure
  /\ ReleaseProbe(c)
  /\ IF category = "permanent" \/ attempt[c] > MaxAttempts
       THEN LeaveRetry(c)
       ELSE pc' = [pc EXCEPT ![c] = "backoff"] /\ UNCHANGED attempt

(* fn raised: a TRANSIENT error is retried after a backoff until the last  *)
(* attempt, a PERMANENT one leaves the loop.                               *)
Fail(c, category) ==
  /\ pc[c] = "calling"
  /\ RecordFailure
  /\ ReleaseProbe(c)
  /\ IF category = "permanent" \/ attempt[c] = MaxAttempts
       THEN LeaveRetry(c)
       ELSE pc' = [pc EXCEPT ![c] = "backoff"] /\ UNCHANGED attempt

(* The awaiting task is cancelled: execute() catches BaseException, so the *)
(* cancellation counts as a failure; retry_async does not catch it.        *)
Cancel(c) ==
  /\ pc[c] = "calling"
  /\ RecordFailure
  /\ ReleaseProbe(c)
  /\ LeaveRetry(c)

-----------------------------------------------------------------------------
(* The clock passes opened_at + cooldown_seconds.                          *)
CooldownElapses ==
  /\ openedAt = "cooling"
  /\ openedAt' = "elapsed"
  /\ UNCHANGED <<state, failureCount, successCount, halfOpenInflight,
                 callVars, probes, streakVars>>

(* trip(): does nothing, and does not restart the cooldown, when OPEN.     *)
Trip ==
  /\ state # OPEN
  /\ TransitionToOpen
  /\ probes' = {}
  /\ UNCHANGED <<failureCount, halfOpenInflight, callVars, streakVars>>

(* reset(): fresh CircuitBreakerStats.                                     *)
Reset ==
  /\ TransitionToClosed
  /\ halfOpenInflight' = 0
  /\ probes' = {}
  /\ failStreak' = 0
  /\ okStreak' = 0
  /\ UNCHANGED callVars

(* ErrorHandler.handle() for a transient error reported from outside any   *)
(* protected call: record_failure, then a read of is_active.  A breaker    *)
(* that is OPEN past its cooldown is moved to HALF_OPEN by that read.      *)
HandleError ==
  /\ failureCount < FailureBound
  /\ CountFailure
  /\ IF TripsOnFailure
       THEN TransitionToOpen /\ failureCount' = failureCount + 1
       ELSE /\ state' = StateSeen
            /\ failureCount' = IF CooldownOver THEN 0 ELSE failureCount + 1
            /\ successCount' = IF CooldownOver THEN 0 ELSE successCount
            /\ UNCHANGED openedAt
  /\ probes' = IF state' = state THEN probes ELSE {}
  /\ UNCHANGED <<halfOpenInflight, callVars>>

(* Any other reader of is_active (order submission, health check).         *)
PollIsActive ==
  /\ CooldownOver
  /\ ReadIsActive
  /\ UNCHANGED <<halfOpenInflight, callVars, probes, streakVars>>

Next ==
  \/ \E c \in Callers : \/ Attempt(c) \/ Wake(c) \/ Succeed(c) \/ Cancel(c)
                        \/ \E k \in {"transient", "permanent"} : Fail(c, k)
  \/ CooldownElapses \/ Trip \/ Reset \/ HandleError \/ PollIsActive

(* The event loop runs ready tasks, the clock advances, and a protected    *)
(* call ends one way or another (its own timeouts see to that); callers    *)
(* keep coming.  Nothing forces a trip, a reset or a reported error.       *)
Fairness ==
  /\ WF_vars(CooldownElapses)
  /\ \A c \in Callers :
       /\ WF_vars(Attempt(c))
       /\ WF_vars(Wake(c))
       /\ WF_vars(Succeed(c) \/ Cancel(c) \/ Fail(c, "transient"))

Spec == Init /\ [][Next]_vars
FairSpec == Spec /\ Fairness

-----------------------------------------------------------------------------
(* Properties of record_success, record_failure and the two transitions.   *)

(* The breaker does not sit in a state its own counters have outgrown: a   *)
(* CLOSED breaker has counted fewer failures than failure_threshold and a  *)
(* HALF_OPEN one fewer successes than reset_success_threshold, whichever   *)
(* interleaving of late completions, trips and resets led there.           *)
CountersBelowThresholds ==
  /\ state = CLOSED => failureCount < FailureThreshold
  /\ state = HALF_OPEN => successCount < ResetThreshold /\ failureCount = 0

(* "consecutive failures before OPEN": a CLOSED breaker opens only by      *)
(* trip() or when the calls that completed last, whoever made them, all    *)
(* failed, failure_threshold of them.                                      *)
TripsOnConsecutiveFailures ==
  [][ state = CLOSED /\ state' = OPEN
        => Trip \/ failStreak' >= FailureThreshold ]_vars

(* "consecutive successes in HALF_OPEN to CLOSE": no failure was recorded  *)
(* among the last reset_success_threshold outcomes when the breaker        *)
(* closes, except by reset().                                              *)
ClosesOnConsecutiveSuccesses ==
  [][ state = HALF_OPEN /\ state' = CLOSED
        => Reset \/ okStreak' >= ResetThreshold ]_vars

(* An OPEN period ends only by reset() or after the cooldown: a success    *)
(* that arrives late from a call admitted before the trip does not end it. *)
OnlyCooldownEndsOpen ==
  [][ state = OPEN /\ state' # OPEN => Reset \/ openedAt = "elapsed" ]_vars

(* No interleaving of calls makes the breaker open, close or probe without *)
(* the outcomes, or the time, that its configuration asks for.             *)
TransitionsAreEarned ==
  /\ TripsOnConsecutiveFailures
  /\ ClosesOnConsecutiveSuccesses
  /\ OnlyCooldownEndsOpen

(* retry_async returns or raises: its attempts are bounded and an open     *)
(* circuit ends it.                                                        *)
RetryEnds == \A c \in Callers : pc[c] # "idle" ~> pc[c] = "idle"

Disturbance ==
  \/ Trip
  \/ HandleError
  \/ \E c \in Callers : Cancel(c) \/ \E k \in {"transient", "permanent"} : Fail(c, k)

(* Once the dependency stops failing and nobody trips the breaker, it      *)
(* closes and stays closed: no mix of late calls and leftover counts       *)
(* leaves it OPEN or probing for ever.                                     *)
Recovers == <>[][~Disturbance]_vars => <>[](state = CLOSED)

(* What a comment promises and the code does not keep.                     *)

(* "probe requests allowed in HALF_OPEN": half_open_max_calls bounds the   *)
(* probes in flight.  Nothing reads that setting.                          *)
ProbeLimit == Cardinality(probes) <= HalfOpenMaxCalls
=============================================================================
