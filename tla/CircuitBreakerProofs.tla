------------------------ MODULE CircuitBreakerProofs ------------------------
(***************************************************************************)
(* Proofs about CircuitBreaker for every number of callers and every       *)
(* configuration: type correctness, the bound on its counters, and the     *)
(* three action properties that say when it may open and close.            *)
(***************************************************************************)
EXTENDS CircuitBreaker, TLAPS

(* Each counter is backed by outcomes that were really consecutive, and an *)
(* OPEN breaker has a time stamp; this makes CountersBelowThresholds       *)
(* strong enough to imply the action properties.                           *)
StreaksBackCounters ==
  /\ state = CLOSED => failureCount <= failStreak
  /\ state = HALF_OPEN => successCount <= okStreak
  /\ state = OPEN => openedAt \in {"cooling", "elapsed"}

IInv == TypeOK /\ CountersBelowThresholds /\ StreaksBackCounters

LEMMA SaturateType == \A n \in Nat : Saturate(n) \in Nat
  BY BreakerAssumption DEF Saturate

(* Saturating a history counter does not lose what a threshold can see.    *)
LEMMA SaturateKeepsBound ==
  ASSUME NEW m \in Nat, NEW n \in Nat, m <= n, m <= CountBound
  PROVE  m <= Saturate(n)
  BY BreakerAssumption DEF Saturate

LEMMA InitInv == Init => IInv
  BY BreakerAssumption
     DEF Init, IInv, TypeOK, CountersBelowThresholds, StreaksBackCounters,
         CLOSED, OPEN, HALF_OPEN

-----------------------------------------------------------------------------
(* What each of the shared operators does to the breaker's part of IInv.   *)

BreakerTypeOK ==
  /\ state \in {CLOSED, OPEN, HALF_OPEN}
  /\ failureCount \in Nat
  /\ successCount \in Nat
  /\ openedAt \in {"none", "cooling", "elapsed"}
  /\ failStreak \in Nat
  /\ okStreak \in Nat

BreakerInv == BreakerTypeOK /\ CountersBelowThresholds /\ StreaksBackCounters

LEMMA ReadInv ==
  ASSUME BreakerInv, ReadIsActive, UNCHANGED streakVars
  PROVE  BreakerInv'
  BY BreakerAssumption
     DEF BreakerInv, BreakerTypeOK, CountersBelowThresholds, StreaksBackCounters,
         ReadIsActive, StateSeen, CooldownOver, streakVars, CLOSED, OPEN, HALF_OPEN

LEMMA SuccessInv ==
  ASSUME BreakerInv, RecordSuccess
  PROVE  BreakerInv'
<1>1. failStreak' \in Nat /\ okStreak' \in Nat /\ okStreak' = Saturate(okStreak + 1)
  BY SaturateType DEF RecordSuccess, CountSuccess, BreakerInv, BreakerTypeOK
<1>2. CASE state = HALF_OPEN /\ successCount + 1 >= ResetThreshold
  BY <1>1, <1>2, BreakerAssumption
     DEF RecordSuccess, TransitionToClosed, CountSuccess, BreakerInv, BreakerTypeOK,
         CountersBelowThresholds, StreaksBackCounters, CLOSED, OPEN, HALF_OPEN
<1>3. CASE ~(state = HALF_OPEN /\ successCount + 1 >= ResetThreshold)
  <2>1. /\ failureCount' = 0
        /\ successCount' = IF state = HALF_OPEN THEN successCount + 1 ELSE successCount
        /\ UNCHANGED <<state, openedAt>>
    BY <1>3 DEF RecordSuccess
  <2>2. state = HALF_OPEN => successCount + 1 <= Saturate(okStreak + 1)
    <3>1. SUFFICES ASSUME state = HALF_OPEN
                   PROVE  successCount + 1 <= Saturate(okStreak + 1)
      OBVIOUS
    <3>2. /\ successCount + 1 \in Nat /\ okStreak + 1 \in Nat
          /\ successCount + 1 <= okStreak + 1
          /\ successCount + 1 <= CountBound
      BY <3>1, <1>3, BreakerAssumption
         DEF BreakerInv, BreakerTypeOK, StreaksBackCounters
    <3>3. QED BY <3>2, SaturateKeepsBound
  <2>3. QED
    BY <1>1, <1>3, <2>1, <2>2, BreakerAssumption
       DEF BreakerInv, BreakerTypeOK, CountersBelowThresholds, StreaksBackCounters,
           CLOSED, OPEN, HALF_OPEN
<1>4. QED BY <1>2, <1>3

(* A failure that trips, and one that is only counted.                     *)
LEMMA TripInv ==
  ASSUME BreakerInv, TransitionToOpen, failureCount' \in Nat,
         failStreak' \in Nat, okStreak' \in Nat
  PROVE  BreakerInv'
  BY DEF BreakerInv, BreakerTypeOK, CountersBelowThresholds, StreaksBackCounters,
         TransitionToOpen, CLOSED, OPEN, HALF_OPEN

LEMMA CountedFailure ==
  ASSUME BreakerInv, ~TripsOnFailure, state = CLOSED
  PROVE  /\ failureCount + 1 < FailureThreshold
         /\ failureCount + 1 <= Saturate(failStreak + 1)
<1>1. failureCount + 1 < FailureThreshold
  BY BreakerAssumption DEF TripsOnFailure, BreakerInv, BreakerTypeOK
<1>2. /\ failureCount + 1 \in Nat /\ failStreak + 1 \in Nat
      /\ failureCount + 1 <= failStreak + 1
      /\ failureCount + 1 <= CountBound
  BY <1>1, BreakerAssumption DEF BreakerInv, BreakerTypeOK, StreaksBackCounters
<1>3. QED BY <1>1, <1>2, SaturateKeepsBound

LEMMA FailureInv ==
  ASSUME BreakerInv, RecordFailure
  PROVE  BreakerInv'
<1>1. /\ failStreak' \in Nat /\ okStreak' \in Nat /\ failureCount' \in Nat
      /\ failStreak' = Saturate(failStreak + 1)
      /\ failureCount' = failureCount + 1
  BY SaturateType DEF RecordFailure, CountFailure, BreakerInv, BreakerTypeOK
<1>2. CASE TripsOnFailure
  BY <1>1, <1>2, TripInv DEF RecordFailure
<1>3. CASE ~TripsOnFailure
  <2>1. UNCHANGED <<state, openedAt, successCount>>
    BY <1>3 DEF RecordFailure
  <2>2. state # HALF_OPEN
    BY <1>3 DEF TripsOnFailure
  <2>3. state = CLOSED => /\ failureCount + 1 < FailureThreshold
                          /\ failureCount + 1 <= Saturate(failStreak + 1)
    BY <1>3, CountedFailure
  <2>4. QED
    BY <1>1, <2>1, <2>2, <2>3
       DEF BreakerInv, BreakerTypeOK, CountersBelowThresholds, StreaksBackCounters
<1>4. QED BY <1>2, <1>3

LEMMA HandleErrorInv ==
  ASSUME BreakerInv, HandleError
  PROVE  BreakerInv'
<1>1. /\ failStreak' \in Nat /\ okStreak' \in Nat
      /\ failStreak' = Saturate(failStreak + 1)
  BY SaturateType DEF HandleError, CountFailure, BreakerInv, BreakerTypeOK
<1>2. CASE TripsOnFailure
  <2>1. TransitionToOpen /\ failureCount' \in Nat
    BY <1>2 DEF HandleError, BreakerInv, BreakerTypeOK
  <2>2. QED BY <1>1, <2>1, TripInv
<1>3. CASE ~TripsOnFailure
  <2>1. /\ state' = StateSeen
        /\ failureCount' = IF CooldownOver THEN 0 ELSE failureCount + 1
        /\ successCount' = IF CooldownOver THEN 0 ELSE successCount
        /\ UNCHANGED openedAt
    BY <1>3 DEF HandleError
  <2>2. state # HALF_OPEN
    BY <1>3 DEF TripsOnFailure
  <2>3. state = CLOSED => /\ failureCount + 1 < FailureThreshold
                          /\ failureCount + 1 <= Saturate(failStreak + 1)
    BY <1>3, CountedFailure
  <2>4. QED
    BY <1>1, <2>1, <2>2, <2>3, BreakerAssumption
       DEF BreakerInv, BreakerTypeOK, CountersBelowThresholds, StreaksBackCounters,
           StateSeen, CooldownOver, CLOSED, OPEN, HALF_OPEN
<1>4. QED BY <1>2, <1>3

-----------------------------------------------------------------------------
(* The callers' part of the type invariant.                                *)

CallersTypeOK ==
  /\ halfOpenInflight \in Nat
  /\ pc \in [Callers -> {"idle", "calling", "backoff"}]
  /\ attempt \in [Callers -> 0 .. MaxAttempts]
  /\ probes \in SUBSET Callers

(* A caller in backoff has an attempt left.                                *)
AttemptLeft == \A c \in Callers : pc[c] = "backoff" => attempt[c] < MaxAttempts

LEMMA Split == IInv <=> BreakerInv /\ CallersTypeOK
  BY DEF IInv, BreakerInv, BreakerTypeOK, CallersTypeOK, TypeOK

LEMMA NextCallers ==
  ASSUME CallersTypeOK, AttemptLeft, [Next]_vars
  PROVE  CallersTypeOK' /\ AttemptLeft'
<1>1. ASSUME NEW c \in Callers, NEW n \in 1 .. MaxAttempts, Admit(c, n)
      PROVE  CallersTypeOK' /\ AttemptLeft'
  BY <1>1, BreakerAssumption, SaturateType DEF Admit, CallersTypeOK, AttemptLeft
<1>2. ASSUME NEW c \in Callers, Attempt(c) \/ Wake(c)
      PROVE  CallersTypeOK' /\ AttemptLeft'
  <2>1. CASE LeaveRetry(c) /\ UNCHANGED <<halfOpenInflight, probes>>
    BY <2>1, BreakerAssumption DEF LeaveRetry, CallersTypeOK, AttemptLeft
  <2>2. CASE UNCHANGED <<callVars, halfOpenInflight, probes>>
    BY <2>2 DEF callVars, CallersTypeOK, AttemptLeft
  <2>3. CASE Admit(c, 1) /\ pc[c] = "idle"
    BY <1>1, <2>3, BreakerAssumption
  <2>4. CASE Admit(c, attempt[c] + 1) /\ pc[c] = "backoff"
    <3>1. attempt[c] + 1 \in 1 .. MaxAttempts
      BY <2>4, BreakerAssumption DEF AttemptLeft, CallersTypeOK
    <3>2. QED BY <1>1, <2>4, <3>1
  <2>5. QED BY <1>2, <2>1, <2>2, <2>3, <2>4 DEF Attempt, Wake
<1>3. ASSUME NEW c \in Callers, ReleaseProbe(c)
      PROVE  halfOpenInflight \in Nat /\ probes \in SUBSET Callers =>
             halfOpenInflight' \in Nat /\ probes' \in SUBSET Callers
  BY <1>3 DEF ReleaseProbe
<1>4. ASSUME NEW c \in Callers, LeaveRetry(c)
      PROVE  /\ pc' \in [Callers -> {"idle", "calling", "backoff"}]
             /\ attempt' \in [Callers -> 0 .. MaxAttempts]
             /\ AttemptLeft'
  BY <1>4, BreakerAssumption DEF LeaveRetry, CallersTypeOK, AttemptLeft
<1>5. ASSUME NEW c \in Callers, Succeed(c) \/ Cancel(c)
      PROVE  CallersTypeOK' /\ AttemptLeft'
  BY <1>3, <1>4, <1>5 DEF Succeed, Cancel, CallersTypeOK
<1>6. ASSUME NEW c \in Callers, NEW k \in {"transient", "permanent"}, Fail(c, k)
      PROVE  CallersTypeOK' /\ AttemptLeft'
  <2>1. halfOpenInflight' \in Nat /\ probes' \in SUBSET Callers
    BY <1>3, <1>6 DEF Fail, CallersTypeOK
  <2>2. CASE LeaveRetry(c)
    BY <1>4, <2>1, <2>2 DEF CallersTypeOK
  <2>3. CASE /\ attempt[c] # MaxAttempts
             /\ pc' = [pc EXCEPT ![c] = "backoff"] /\ UNCHANGED attempt
    BY <2>1, <2>3, BreakerAssumption DEF CallersTypeOK, AttemptLeft
  <2>4. QED BY <1>6, <2>2, <2>3 DEF Fail
<1>7. CASE CooldownElapses \/ Trip \/ Reset \/ HandleError \/ PollIsActive
  BY <1>7 DEF CooldownElapses, Trip, Reset, HandleError, PollIsActive,
              CallersTypeOK, AttemptLeft, callVars
<1>8. CASE UNCHANGED vars
  BY <1>8 DEF vars, callVars, CallersTypeOK, AttemptLeft
<1>9. QED BY <1>2, <1>5, <1>6, <1>7, <1>8 DEF Next

-----------------------------------------------------------------------------
(* Every step of a caller or of the environment keeps the breaker's part.  *)
LEMMA NextBreaker ==
  ASSUME BreakerInv, [Next]_vars
  PROVE  BreakerInv'
<1>1. ASSUME NEW c \in Callers, Attempt(c) \/ Wake(c)
      PROVE  BreakerInv'
  <2>1. (ReadIsActive /\ UNCHANGED streakVars) \/ UNCHANGED vars
    BY <1>1 DEF Attempt, Wake
  <2>2. QED BY <2>1, ReadInv DEF vars, breakerVars, streakVars, BreakerInv,
               BreakerTypeOK, CountersBelowThresholds, StreaksBackCounters
<1>2. ASSUME NEW c \in Callers, Succeed(c)
      PROVE  BreakerInv'
  BY <1>2, SuccessInv DEF Succeed
<1>3. ASSUME NEW c \in Callers, Cancel(c) \/ \E k \in {"transient", "permanent"} : Fail(c, k)
      PROVE  BreakerInv'
  BY <1>3, FailureInv DEF Cancel, Fail
<1>4. CASE CooldownElapses \/ UNCHANGED vars
  BY <1>4 DEF CooldownElapses, vars, breakerVars, streakVars, BreakerInv,
              BreakerTypeOK, CountersBelowThresholds, StreaksBackCounters
<1>5. CASE Trip
  BY <1>5, TripInv DEF Trip, streakVars, BreakerInv, BreakerTypeOK
<1>6. CASE Reset
  BY <1>6, BreakerAssumption
     DEF Reset, TransitionToClosed, BreakerInv, BreakerTypeOK,
         CountersBelowThresholds, StreaksBackCounters, CLOSED, OPEN, HALF_OPEN
<1>7. CASE HandleError
  BY <1>7, HandleErrorInv
<1>8. CASE PollIsActive
  BY <1>8, ReadInv DEF PollIsActive
<1>9. QED BY <1>1, <1>2, <1>3, <1>4, <1>5, <1>6, <1>7, <1>8 DEF Next

(* The inductive invariant of the breaker and its callers.                 *)
THEOREM Invariance == Spec => [](IInv /\ AttemptLeft)
<1>1. Init => IInv /\ AttemptLeft
  BY InitInv DEF Init, AttemptLeft
<1>2. IInv /\ AttemptLeft /\ [Next]_vars => (IInv /\ AttemptLeft)'
  <2>1. SUFFICES ASSUME IInv, AttemptLeft, [Next]_vars
                 PROVE  IInv' /\ AttemptLeft'
    OBVIOUS
  <2>2. BreakerInv' /\ CallersTypeOK' /\ AttemptLeft'
    BY <2>1, Split, NextBreaker, NextCallers
  <2>3. QED
    BY <2>2 DEF IInv, BreakerInv, BreakerTypeOK, CallersTypeOK, TypeOK
<1>3. QED BY <1>1, <1>2, PTL DEF Spec

(* Every reachable value of the breaker's and the callers' state has its   *)
(* type, for any number of callers.                                        *)
THEOREM TypeCorrect == Spec => []TypeOK
<1>1. IInv /\ AttemptLeft => TypeOK
  BY DEF IInv
<1>2. QED BY <1>1, Invariance, PTL

(* A CLOSED or HALF_OPEN breaker has never outgrown the threshold that     *)
(* would have moved it on: record_success, record_failure, trip, reset and *)
(* late completions in any order keep this.                                *)
THEOREM CountersBounded == Spec => []CountersBelowThresholds
<1>1. IInv /\ AttemptLeft => CountersBelowThresholds
  BY DEF IInv
<1>2. QED BY <1>1, Invariance, PTL

-----------------------------------------------------------------------------
(* Which steps move the breaker out of each state.                         *)

LEMMA RecordingSteps ==
  ASSUME [Next]_vars, ~Trip, ~Reset
  PROVE  \/ RecordSuccess \/ RecordFailure \/ HandleError \/ ReadIsActive
         \/ CooldownElapses \/ UNCHANGED vars
  BY DEF Next, Attempt, Wake, Succeed, Fail, Cancel, PollIsActive

(* A CLOSED breaker opens only by trip() or on failure_threshold           *)
(* consecutive recorded failures.                                          *)
THEOREM TripsOnlyOnConsecutiveFailures == Spec => TripsOnConsecutiveFailures
<1>1. IInv /\ AttemptLeft /\ [Next]_vars =>
        [state = CLOSED /\ state' = OPEN
           => Trip \/ failStreak' >= FailureThreshold]_vars
  <2>1. SUFFICES ASSUME IInv, [Next]_vars, state = CLOSED, state' = OPEN, ~Trip
                 PROVE  failStreak' >= FailureThreshold
    OBVIOUS
  <2>2. RecordFailure \/ HandleError
    BY <2>1, RecordingSteps
       DEF RecordSuccess, TransitionToClosed, ReadIsActive, StateSeen, CooldownOver,
           CooldownElapses, Reset, vars, breakerVars, CLOSED, OPEN, HALF_OPEN
  <2>3. TripsOnFailure /\ failStreak' = Saturate(failStreak + 1)
    BY <2>1, <2>2
       DEF RecordFailure, HandleError, CountFailure, StateSeen, CooldownOver,
           CLOSED, OPEN, HALF_OPEN
  <2>4. /\ FailureThreshold <= failStreak + 1
        /\ FailureThreshold \in Nat /\ failStreak + 1 \in Nat
        /\ FailureThreshold <= CountBound
    BY <2>1, <2>3, BreakerAssumption
       DEF IInv, TypeOK, StreaksBackCounters, TripsOnFailure, CLOSED, HALF_OPEN
  <2>5. FailureThreshold <= Saturate(failStreak + 1)
    BY <2>4, SaturateKeepsBound
  <2>6. Saturate(failStreak + 1) \in Nat
    BY <2>4, SaturateType
  <2>7. QED BY <2>3, <2>4, <2>5, <2>6
<1>2. QED BY <1>1, Invariance, PTL DEF Spec, TripsOnConsecutiveFailures

(* A HALF_OPEN breaker closes only by reset() or on                        *)
(* reset_success_threshold consecutive recorded successes.                 *)
THEOREM ClosesOnlyOnConsecutiveSuccesses == Spec => ClosesOnConsecutiveSuccesses
<1>1. IInv /\ AttemptLeft /\ [Next]_vars =>
        [state = HALF_OPEN /\ state' = CLOSED
           => Reset \/ okStreak' >= ResetThreshold]_vars
  <2>1. SUFFICES ASSUME IInv, [Next]_vars, state = HALF_OPEN, state' = CLOSED, ~Reset
                 PROVE  okStreak' >= ResetThreshold
    OBVIOUS
  <2>2. RecordSuccess /\ successCount + 1 >= ResetThreshold
    BY <2>1, RecordingSteps
       DEF RecordSuccess, RecordFailure, HandleError, TripsOnFailure, TransitionToOpen,
           ReadIsActive, StateSeen, CooldownOver, CooldownElapses, Trip, vars,
           breakerVars, CLOSED, OPEN, HALF_OPEN
  <2>3. okStreak' = Saturate(okStreak + 1)
    BY <2>2 DEF RecordSuccess, CountSuccess
  <2>4. /\ ResetThreshold <= okStreak + 1
        /\ ResetThreshold \in Nat /\ okStreak + 1 \in Nat
        /\ ResetThreshold <= CountBound
    BY <2>1, <2>2, BreakerAssumption DEF IInv, TypeOK, StreaksBackCounters
  <2>5. ResetThreshold <= Saturate(okStreak + 1)
    BY <2>4, SaturateKeepsBound
  <2>6. Saturate(okStreak + 1) \in Nat
    BY <2>4, SaturateType
  <2>7. QED BY <2>3, <2>4, <2>5, <2>6
<1>2. QED BY <1>1, Invariance, PTL DEF Spec, ClosesOnConsecutiveSuccesses

(* An OPEN breaker leaves OPEN only by reset() or after its cooldown, so a *)
(* late success never cuts an outage short.                                *)
THEOREM OpenLastsItsCooldown == Spec => OnlyCooldownEndsOpen
<1>1. IInv /\ AttemptLeft /\ [Next]_vars =>
        [state = OPEN /\ state' # OPEN => Reset \/ openedAt = "elapsed"]_vars
  <2>1. SUFFICES ASSUME IInv, [Next]_vars, state = OPEN, state' # OPEN, ~Reset
                 PROVE  openedAt = "elapsed"
    OBVIOUS
  <2>2. CooldownOver
    BY <2>1, RecordingSteps
       DEF RecordSuccess, RecordFailure, HandleError, TripsOnFailure, TransitionToOpen,
           ReadIsActive, StateSeen, CooldownElapses, Trip, vars, breakerVars,
           CLOSED, OPEN, HALF_OPEN
  <2>3. QED BY <2>1, <2>2 DEF CooldownOver, IInv, StreaksBackCounters
<1>2. QED BY <1>1, Invariance, PTL DEF Spec, OnlyCooldownEndsOpen

(* All three together: every transition of the breaker is earned.          *)
THEOREM TransitionsAlwaysEarned == Spec => TransitionsAreEarned
  BY TripsOnlyOnConsecutiveFailures, ClosesOnlyOnConsecutiveSuccesses, OpenLastsItsCooldown
     DEF TransitionsAreEarned
=============================================================================
