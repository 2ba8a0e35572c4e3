---------------------------- MODULE PlatformProofs ----------------------------
(***************************************************************************)
(* Proofs about Platform, for any constants: one inductive invariant for   *)
(* each part, and what follows from them for every state of PlatformSpec.  *)
(***************************************************************************)
EXTENDS PlatformPartsProofs

-----------------------------------------------------------------------------
(* Live engine: health task, link and order synchronisation.               *)

Open == {"ACCEPTED"} \union Live!Final

(* The shape of the live engine's state, as far as the invariant needs it. *)
LiveShape ==
  /\ vEngineOn \in BOOLEAN /\ vStarting \in BOOLEAN /\ vStopping \in BOOLEAN
  /\ vLinked \in BOOLEAN /\ vShut \in BOOLEAN /\ vAdapterUp \in BOOLEAN
  /\ vHealth \in {"HEALTHY", "DEGRADED", "CRITICAL", "OFFLINE"}
  /\ vChecker \in {"none", "sleep", "ask", "connect", "delay"}
  /\ vSyncer \in {"none", "sleep", "ask", "answered"}
  /\ vTries \in 0..MaxAttempts /\ vFaults \in 0..MaxFaults

(* The health task lives only in an engine that has started, and           *)
(* reconnects only while the link is down, with an attempt left after each *)
(* delay.                                                                  *)
CheckerInv ==
  /\ vChecker # "none" => vEngineOn /\ ~vStarting
  /\ vChecker \in {"connect", "delay"} => ~vLinked /\ vTries > 0
  /\ vChecker = "delay" => vTries < MaxAttempts

(* What an order is here and at the broker.                                *)
OrdersInv ==
  /\ vPending \subseteq Orders /\ vDropped \subseteq Orders
  /\ vLocal \in [Orders -> {"new"} \union Open] /\ vRemote \in [Orders -> {"new"} \union Open]
  /\ \A o \in Orders : vLocal[o] = "new" <=> vRemote[o] = "new"

(* An end the broker has reported stays its end.                           *)
AnswersInv ==
  \A o \in DOMAIN vSeen :
    o \in Orders /\ vSeen[o] \in Open /\ (vSeen[o] \in Live!Final => vRemote[o] = vSeen[o])

LiveInv ==
  LiveShape /\ CheckerInv /\ OrdersInv /\ AnswersInv /\ Live!HealthIsTrue /\ Live!OrderSyncIsSound

LEMMA Zero == 0 \in 0..MaxAttempts /\ 1 \in 0..MaxAttempts /\ 0 \in 0..MaxFaults
BY PlatformConstants DEF PlatformConstants

LEMMA OneMore ==
  ASSUME NEW N \in Nat, NEW n \in 0..N, n < N
  PROVE  n + 1 \in 0..N /\ n + 1 > 0
OBVIOUS

LEMMA LiveIsTyped == ASSUME LiveInv PROVE Live!TypeOK
BY DEF LiveInv, LiveShape, OrdersInv, Live!TypeOK, Open

LEMMA LiveInitHolds == ASSUME Live!Init PROVE LiveInv
<1>1. 0 \in 0..MaxAttempts /\ 0 \in 0..MaxFaults
  BY Zero
<1>2. LiveShape /\ CheckerInv
  BY <1>1 DEF Live!Init, LiveShape, CheckerInv
<1>3. OrdersInv /\ AnswersInv
  BY DEF Live!Init, OrdersInv, AnswersInv, Live!NoAnswer
<1>4. Live!HealthIsTrue /\ Live!OrderSyncIsSound
  BY DEF Live!Init, Live!HealthIsTrue, Live!OrderSyncIsSound
<1>5. QED BY <1>2, <1>3, <1>4 DEF LiveInv

(* What touches neither link nor health task, and neither order nor        *)
(* answer.                                                                 *)
LinkKept == UNCHANGED <<vEngineOn, vStarting, vStopping, vLinked, vHealth, vChecker, vTries>>

OrdersKept == UNCHANGED <<vPending, vLocal, vRemote, vDropped>>

LEMMA LinkStays ==
  ASSUME CheckerInv, Live!HealthIsTrue, LinkKept
  PROVE  CheckerInv' /\ Live!HealthIsTrue'
BY DEF CheckerInv, Live!HealthIsTrue, LinkKept

LEMMA OrdersStay ==
  ASSUME OrdersInv, AnswersInv, Live!OrderSyncIsSound, OrdersKept,
         vSeen' = vSeen \/ vSeen' = Live!NoAnswer
  PROVE  OrdersInv' /\ AnswersInv' /\ Live!OrderSyncIsSound'
BY DEF OrdersInv, AnswersInv, Live!OrderSyncIsSound, OrdersKept, Live!NoAnswer

(* Start, stop and health check leave the orders alone.                    *)
LifeStep == Live!Start \/ Live!Stop \/ Live!HealthSteps \/ Live!HealthFails

LEMMA LifeHolds ==
  ASSUME LiveInv, LifeStep
  PROVE  LiveInv'
<1> USE DEF Live!lives, Live!link, Live!world, Live!orders
<1>0. MaxAttempts \in Nat \ {0} /\ MaxFaults \in Nat
  BY PlatformConstants DEF PlatformConstants
<1>1. OrdersKept /\ (vSeen' = vSeen \/ vSeen' = Live!NoAnswer)
  BY DEF LifeStep, OrdersKept, Live!Start, Live!Stop, Live!HealthSteps, Live!HealthFails,
    Live!StartConnects, Live!StopEnds, Live!HealthWakes, Live!HealthAnswers, Live!LinkGone,
    Live!Reconnected, Live!AttemptFails, Live!DelayEnds
<1>2. OrdersInv' /\ AnswersInv' /\ Live!OrderSyncIsSound'
  BY <1>1, OrdersStay DEF LiveInv
<1>3. LiveShape' /\ CheckerInv' /\ Live!HealthIsTrue'
  <2> USE <1>0 DEF LiveInv, LiveShape, CheckerInv, Live!HealthIsTrue
  <2>1. CASE Live!Start BY <2>1 DEF Live!Start
  <2>2. CASE Live!StartConnects BY <2>2 DEF Live!StartConnects
  <2>3. CASE Live!Stop BY <2>3, Zero DEF Live!Stop
  <2>4. CASE Live!StopEnds BY <2>4 DEF Live!StopEnds
  <2>5. CASE Live!HealthWakes BY <2>5 DEF Live!HealthWakes
  <2>6. CASE Live!HealthAnswers BY <2>6 DEF Live!HealthAnswers
  <2>7. CASE Live!LinkGone 
    <3>1. /\ vLinked' = FALSE /\ vEngineOn /\ ~vStarting
          /\ UNCHANGED <<vEngineOn, vStarting, vStopping, vAdapterUp, vShut, vFaults, vSyncer>>
      BY <2>7 DEF Live!LinkGone
    <3>2. \/ vHealth' = "OFFLINE" /\ vChecker' = "sleep" /\ vTries' = 0
          \/ vHealth' = "DEGRADED" /\ vChecker' = "connect" /\ vTries' = 1
      BY <2>7 DEF Live!LinkGone, Live!Try
    <3>3. vTries' \in 0..MaxAttempts BY <3>2, Zero
    <3>4. LiveShape' BY <3>1, <3>2, <3>3
    <3>5. CheckerInv' BY <3>1, <3>2
    <3>6. Live!HealthIsTrue' BY <3>1, <3>2
    <3>7. QED BY <3>4, <3>5, <3>6
  <2>8. CASE Live!Reconnected BY <2>8 DEF Live!Reconnected
  <2>9. CASE Live!AttemptFails 
    <3>1. /\ vLinked' = FALSE /\ vEngineOn /\ ~vStarting /\ vShut' \in BOOLEAN
          /\ UNCHANGED <<vEngineOn, vStarting, vStopping, vAdapterUp, vFaults, vSyncer>>
      BY <2>9 DEF Live!AttemptFails
    <3>2. \/ vHealth' = "OFFLINE" /\ vChecker' = "sleep" /\ vTries' = 0
          \/ /\ vHealth' = "CRITICAL" /\ vChecker' = "delay"
             /\ vTries' = vTries /\ vTries # MaxAttempts /\ vTries > 0
      BY <2>9 DEF Live!AttemptFails
    <3>3. vTries' \in 0..MaxAttempts BY <3>2, Zero
    <3>4. LiveShape' BY <3>1, <3>2, <3>3
    <3>5. vTries # MaxAttempts => vTries < MaxAttempts OBVIOUS
    <3>6. CheckerInv' BY <3>1, <3>2, <3>5
    <3>7. Live!HealthIsTrue' BY <3>1, <3>2
    <3>8. QED BY <3>4, <3>6, <3>7
  <2>10. CASE Live!DelayEnds BY <2>10 DEF Live!DelayEnds, Live!Try
  <2>11. CASE Live!HealthFails BY <2>11 DEF Live!HealthFails
  <2>12. QED
    BY <2>1, <2>2, <2>3, <2>4, <2>5, <2>6, <2>7, <2>8, <2>9, <2>10, <2>11
    DEF LifeStep, Live!HealthSteps
<1>4. QED BY <1>2, <1>3 DEF LiveInv

LEMMA SyncAppliedHolds ==
  ASSUME LiveInv, Live!SyncApplied
  PROVE  OrdersInv' /\ AnswersInv' /\ Live!OrderSyncIsSound'
<1>1. \A o \in Live!Found : o \in vPending /\ o \in DOMAIN vSeen
  BY DEF Live!Found
<1>2. \A o \in Live!Found :
        /\ o \in Orders /\ vLocal[o] = "ACCEPTED" /\ vSeen[o] \in Open
        /\ vSeen[o] \in Live!Final => vRemote[o] = vSeen[o]
  BY <1>1 DEF LiveInv, OrdersInv, AnswersInv, Live!OrderSyncIsSound
<1>3. /\ vRemote' = vRemote
      /\ \A o \in Orders : vLocal'[o] = IF o \in Live!Found THEN vSeen[o] ELSE vLocal[o]
      /\ vLocal' = [o \in Orders |-> vLocal'[o]]
  BY DEF Live!SyncApplied
<1>4. \A o : o \in vPending' <=>
        o \in vPending /\ ~(o \in Live!Found /\ vSeen[o] \in Live!Final)
  BY <1>2 DEF Live!SyncApplied, Live!Final
<1>5. \A o : o \in vDropped' <=>
        o \in vDropped \/ (o \in Live!Found /\ vSeen[o] \in Live!Final)
  BY <1>2 DEF Live!SyncApplied, Live!Final
<1>6. vLocal' \in [Orders -> {"new"} \union Open]
  BY <1>2, <1>3 DEF LiveInv, OrdersInv
<1>7. OrdersInv'
  BY <1>2, <1>3, <1>4, <1>5, <1>6 DEF LiveInv, OrdersInv, Open, Live!Final
<1>8. AnswersInv'
  BY DEF Live!SyncApplied, AnswersInv, Live!NoAnswer
<1>9. Live!OrderSyncIsSound'
  BY <1>2, <1>3, <1>4, <1>5 DEF LiveInv, OrdersInv, Live!OrderSyncIsSound, Open, Live!Final
<1>10. QED BY <1>7, <1>8, <1>9

LEMMA SyncHoldsLive ==
  ASSUME LiveInv, Live!SyncWakes \/ Live!SyncAnswered \/ Live!SyncFails \/ Live!SyncApplied
  PROVE  LiveInv'
<1> USE DEF Live!lives, Live!link, Live!world, Live!orders
<1>1. LinkKept /\ UNCHANGED <<vShut, vAdapterUp, vFaults>>
  BY DEF LinkKept, Live!SyncWakes, Live!SyncAnswered, Live!SyncFails, Live!SyncApplied
<1>2. vSyncer' \in {"ask", "sleep", "answered"}
  BY DEF Live!SyncWakes, Live!SyncAnswered, Live!SyncFails, Live!SyncApplied
<1>3. LiveShape'
  BY <1>1, <1>2 DEF LiveInv, LiveShape, LinkKept
<1>4. OrdersInv' /\ AnswersInv' /\ Live!OrderSyncIsSound'
  <2>1. CASE Live!SyncWakes \/ Live!SyncFails
    BY <2>1, OrdersStay DEF LiveInv, OrdersKept, Live!SyncWakes, Live!SyncFails
  <2>2. CASE Live!SyncAnswered
    <3>1. OrdersInv' /\ Live!OrderSyncIsSound'
      BY <2>2 DEF LiveInv, OrdersInv, Live!OrderSyncIsSound, Live!SyncAnswered
    <3>2. PICK S \in SUBSET {o \in Orders : vRemote[o] # "new"} : vSeen' = [o \in S |-> vRemote[o]]
      BY <2>2 DEF Live!SyncAnswered
    <3>3. vRemote' = vRemote
      BY <2>2 DEF Live!SyncAnswered
    <3>4. AnswersInv'
      BY <3>2, <3>3 DEF LiveInv, OrdersInv, AnswersInv, Open
    <3>5. QED BY <3>1, <3>4
  <2>3. CASE Live!SyncApplied BY <2>3, SyncAppliedHolds
  <2>4. QED BY <2>1, <2>2, <2>3
<1>5. QED BY <1>1, <1>3, <1>4, LinkStays DEF LiveInv

(* An order is sent, cancelled here, or moved by the broker.               *)
OrderStep ==
  \E o \in Orders :
    \/ Live!Submitted(o) \/ Live!CancelledHere(o)
    \/ \E status \in Live!Final : Live!RemoteMoves(o, status)

LEMMA OrderHolds ==
  ASSUME LiveInv, OrderStep
  PROVE  LiveInv'
<1> USE DEF Live!lives, Live!link, Live!world
<1>1. PICK o \in Orders :
        \/ Live!Submitted(o) \/ Live!CancelledHere(o)
        \/ \E status \in Live!Final : Live!RemoteMoves(o, status)
  BY DEF OrderStep
<1>2. LinkKept /\ UNCHANGED <<vShut, vAdapterUp, vFaults, vSyncer, vSeen>>
  BY <1>1 DEF LinkKept, Live!Submitted, Live!CancelledHere, Live!RemoteMoves
<1>3. LiveShape'
  BY <1>2 DEF LiveInv, LiveShape, LinkKept
<1>4. OrdersInv' /\ AnswersInv' /\ Live!OrderSyncIsSound'
  <2> USE DEF LiveInv, OrdersInv, AnswersInv, Live!OrderSyncIsSound, Open, Live!Final
  <2>1. CASE Live!Submitted(o) BY <1>2, <2>1 DEF Live!Submitted
  <2>2. CASE Live!CancelledHere(o)
    <3>1. /\ vPending' = vPending \ {o} /\ o \in vPending /\ vDropped' = vDropped
          /\ vLocal' = [vLocal EXCEPT ![o] = "CANCELLED"]
          /\ \/ vRemote' = vRemote
             \/ vRemote' = [vRemote EXCEPT ![o] =
                              IF vRemote[o] = "ACCEPTED" THEN "CANCELLED" ELSE vRemote[o]]
      BY <2>2 DEF Live!CancelledHere
    <3>2. CASE vRemote' = vRemote BY <1>2, <3>1, <3>2
    <3>3. CASE vRemote' = [vRemote EXCEPT ![o] =
                              IF vRemote[o] = "ACCEPTED" THEN "CANCELLED" ELSE vRemote[o]]
      BY <1>2, <3>1, <3>3
    <3>4. QED BY <3>1, <3>2, <3>3
  <2>3. ASSUME NEW status \in Live!Final, Live!RemoteMoves(o, status)
        PROVE  OrdersInv' /\ AnswersInv' /\ Live!OrderSyncIsSound'
    BY <1>2, <2>3 DEF Live!RemoteMoves
  <2>4. QED BY <1>1, <2>1, <2>2, <2>3
<1>5. QED BY <1>2, <1>3, <1>4, LinkStays DEF LiveInv

LEMMA WorldHolds ==
  ASSUME LiveInv, Live!Fault \/ Live!ServiceReturns \/ Live!Cooldown
  PROVE  LiveInv'
<1> USE DEF Live!lives, Live!link, Live!orders
<1>1. LinkKept /\ OrdersKept /\ UNCHANGED <<vSyncer, vSeen>>
  BY DEF LinkKept, OrdersKept, Live!Fault, Live!ServiceReturns, Live!Cooldown
<1>2. vShut' \in BOOLEAN /\ vAdapterUp' \in BOOLEAN
  BY DEF LiveInv, LiveShape, Live!Fault, Live!ServiceReturns, Live!Cooldown
<1>5. vFaults' \in 0..MaxFaults
  <2>1. CASE vFaults < MaxFaults /\ vFaults' = vFaults + 1
    BY <2>1, OneMore, PlatformConstants DEF PlatformConstants, LiveInv, LiveShape
  <2>2. CASE vFaults' = vFaults BY <2>2 DEF LiveInv, LiveShape
  <2>3. QED BY <2>1, <2>2 DEF Live!Fault, Live!ServiceReturns, Live!Cooldown
<1>3. LiveShape'
  BY <1>1, <1>2, <1>5 DEF LiveInv, LiveShape, LinkKept
<1>4. QED BY <1>1, <1>3, LinkStays, OrdersStay DEF LiveInv

LEMMA LiveStepHolds == ASSUME LiveInv, [Live!Next]_liveVars PROVE LiveInv'
<1>1. CASE UNCHANGED liveVars
  <2>1. LinkKept /\ OrdersKept /\ UNCHANGED <<vSyncer, vSeen, vShut, vAdapterUp, vFaults>>
    BY <1>1 DEF liveVars, LinkKept, OrdersKept
  <2>2. LiveShape' BY <2>1 DEF LiveInv, LiveShape, LinkKept
  <2>3. QED BY <2>1, <2>2, LinkStays, OrdersStay DEF LiveInv
<1>2. CASE Live!Next
  BY <1>2, LifeHolds, SyncHoldsLive, OrderHolds, WorldHolds DEF Live!Next, LifeStep, OrderStep
<1>3. QED BY <1>1, <1>2

-----------------------------------------------------------------------------
(* Stream of the feed and its buffer task.                                 *)

(* A buffer task that goes on.                                             *)
Goes == {"created", "runs"}

StreamTyped ==
  /\ fStreaming \in BOOLEAN /\ fCrossed \in BOOLEAN /\ fNewest \in 0..MaxStreams
  /\ fHalting \in {"no", "stream"}
  /\ fStreams \in [1..MaxStreams -> {"none", "created", "runs", "ended"}]

(* Unless a start went through while a stop waited, what the stop found is *)
(* stopped.                                                                *)
TaskInv ==
  /\ fHalting = "stream" => fNewest > 0
  /\ fStreaming => fNewest > 0
  /\ ~fCrossed /\ fHalting = "stream" => ~fStreaming
  /\ fStreaming /\ ~fCrossed => fStreams[fNewest] \in Goes

(* Data are numbered as they are handed over: what is emitted comes before *)
(* what waits.                                                             *)
CountInv ==
  /\ fEmitted \in Seq(Nat) /\ fWaiting \in Seq(Nat) /\ fLost \in Nat /\ fSent \in Nat
  /\ Len(fEmitted) + Len(fWaiting) + fLost = fSent
  /\ Len(fWaiting) <= Capacity

AscentInv ==
  /\ \A i, j \in 1..Len(fEmitted) : i < j => fEmitted[i] < fEmitted[j]
  /\ \A i, j \in 1..Len(fWaiting) : i < j => fWaiting[i] < fWaiting[j]
  /\ \A i \in 1..Len(fEmitted), j \in 1..Len(fWaiting) : fEmitted[i] < fWaiting[j]
  /\ \A i \in 1..Len(fEmitted) : fEmitted[i] <= fSent
  /\ \A i \in 1..Len(fWaiting) : fWaiting[i] <= fSent

DataInv == CountInv /\ AscentInv

StreamInv == StreamTyped /\ TaskInv /\ DataInv

LEMMA StreamIsInOrder == ASSUME StreamInv PROVE Feed!StreamIsServed
<1>1. fEmitted \in Seq(Nat) /\ fWaiting \in Seq(Nat)
  BY DEF StreamInv, DataInv, CountInv, AscentInv
<1> DEFINE all == fEmitted \o fWaiting
           e == Len(fEmitted)
<1>2. /\ all \in Seq(Nat) /\ Len(all) = e + Len(fWaiting) /\ e \in Nat /\ Len(fWaiting) \in Nat
      /\ \A i \in 1..Len(all) : all[i] = IF i <= e THEN fEmitted[i] ELSE fWaiting[i - e]
  BY <1>1
<1>3. ASSUME NEW i \in 2..Len(all) PROVE all[i - 1] < all[i]
  <2> HIDE DEF all, e
  <2>1. i - 1 \in 1..Len(all) /\ i \in 1..Len(all) BY <1>2, <1>3
  <2>2. CASE i <= e
    <3>1. i - 1 \in 1..e /\ i \in 1..e /\ i - 1 < i /\ i - 1 <= e BY <2>1, <2>2, <1>2
    <3>2. all[i] = fEmitted[i] /\ all[i - 1] = fEmitted[i - 1] BY <3>1, <2>1, <1>2
    <3>3. QED BY <3>1, <3>2 DEF StreamInv, DataInv, CountInv, AscentInv, e
  <2>3. CASE i > e /\ i - 1 <= e
    <3>1. i - 1 \in 1..e /\ i - e \in 1..Len(fWaiting) /\ ~(i <= e) BY <2>1, <2>3, <1>2, <1>3
    <3>2. all[i] = fWaiting[i - e] /\ all[i - 1] = fEmitted[i - 1] BY <3>1, <2>1, <2>3, <1>2
    <3>3. QED BY <3>1, <3>2 DEF StreamInv, DataInv, CountInv, AscentInv, e
  <2>4. CASE i - 1 > e
    <3> DEFINE w == Len(fWaiting)
    <3>0. i \in Int /\ i <= e + w /\ e \in Nat /\ w \in Nat BY <1>2, <1>3
    <3> HIDE DEF w
    <3>4. (i - 1) - e \in 1..w /\ i - e \in 1..w BY <2>4, <3>0
    <3>5. (i - 1) - e < i - e /\ ~(i <= e) /\ ~(i - 1 <= e) BY <2>4, <3>0
    <3>1. /\ (i - 1) - e \in 1..Len(fWaiting) /\ i - e \in 1..Len(fWaiting)
          /\ (i - 1) - e < i - e /\ ~(i <= e) /\ ~(i - 1 <= e)
      BY <3>4, <3>5 DEF w
    <3>2. all[i] = fWaiting[i - e] /\ all[i - 1] = fWaiting[(i - 1) - e] BY <3>1, <2>1, <1>2
    <3>3. QED BY <3>1, <3>2 DEF StreamInv, DataInv, CountInv, AscentInv
  <2>5. QED BY <2>2, <2>3, <2>4, <1>2, <1>3
<1>4. Len(fEmitted) + Len(fWaiting) + fLost = fSent
  BY DEF StreamInv, DataInv, CountInv, AscentInv
<1>5. fStreaming /\ ~fCrossed => fStreams[fNewest] \in {"created", "runs"}
  BY DEF StreamInv, TaskInv, Goes
<1>6. QED BY <1>3, <1>4, <1>5 DEF Feed!StreamIsServed

LEMMA StreamInitHolds == ASSUME Feed!Init PROVE StreamInv
<1>1. 0 \in 0..MaxStreams
  BY PlatformConstants DEF PlatformConstants
<1>2. StreamTyped /\ TaskInv
  BY <1>1 DEF Feed!Init, Feed!Streams, StreamTyped, TaskInv
<1>3. DataInv
  <2>1. Len(fWaiting) <= Capacity
    <3>1. Len(fWaiting) = 0 /\ Capacity \in Nat BY PlatformConstants DEF Feed!Init
    <3>2. QED BY <3>1
  <2>2. QED BY <2>1 DEF Feed!Init, DataInv, CountInv, AscentInv
<1>4. QED BY <1>2, <1>3 DEF StreamInv

(* What moves tasks and flags, and what moves data.                        *)
TasksKept == UNCHANGED <<fStreaming, fStreams, fNewest, fHalting, fCrossed>>

DataKept == UNCHANGED <<fWaiting, fEmitted, fLost, fSent>>

LEMMA Balance ==
  ASSUME NEW e \in Nat, NEW w \in Nat, NEW l \in Nat, NEW s, e + w + l = s
  PROVE  e + (w + 1) + l = s + 1 /\ (e + 1) + (w - 1) + l = s
OBVIOUS

LEMMA BufferHolds == ASSUME StreamInv, Feed!BufferData PROVE DataInv'
<1>1. fSent' = fSent + 1 /\ fEmitted' = fEmitted
  BY DEF Feed!BufferData
<1>0. /\ fEmitted \in Seq(Nat) /\ fWaiting \in Seq(Nat) /\ fLost \in Nat /\ fSent \in Nat
      /\ Len(fEmitted) + Len(fWaiting) + fLost = fSent
      /\ Len(fEmitted) \in Nat /\ Len(fWaiting) \in Nat
  BY DEF StreamInv, DataInv, CountInv
<1>4. /\ \A i \in 1..Len(fEmitted) : fEmitted[i] \in Nat /\ fEmitted[i] < fSent'
      /\ \A i \in 1..Len(fWaiting) : fWaiting[i] \in Nat /\ fWaiting[i] < fSent'
      /\ fSent' \in Nat
  BY <1>0, <1>1 DEF StreamInv, DataInv, AscentInv
<1>2. CASE fWaiting' = Append(fWaiting, fSent + 1) /\ fLost' = fLost
  <2>1. /\ fWaiting' \in Seq(Nat) /\ Len(fWaiting') = Len(fWaiting) + 1
        /\ fWaiting'[Len(fWaiting) + 1] = fSent'
        /\ \A i \in 1..Len(fWaiting) : fWaiting'[i] = fWaiting[i]
    BY <1>0, <1>1, <1>2
  <2>2. \A i \in 1..Len(fWaiting') : i \in 1..Len(fWaiting) \/ i = Len(fWaiting) + 1
    BY <1>0, <2>1
  <2>3. CountInv'
    <3>1. Len(fEmitted) + (Len(fWaiting) + 1) + fLost = fSent + 1 BY <1>0, Balance
    <3>2. Len(fWaiting') <= Capacity
      <4>1. Len(fWaiting) < Capacity
        <5>1. fSent' # fSent /\ fWaiting' # fWaiting BY <1>0, <1>1, <2>1
        <5>2. QED BY <5>1 DEF Feed!BufferData
      <4>2. Capacity \in Nat BY PlatformConstants
      <4>3. QED BY <1>0, <2>1, <4>1, <4>2
    <3>3. QED BY <1>0, <1>1, <1>2, <1>4, <2>1, <3>1, <3>2 DEF CountInv
  <2>4. \A i, j \in 1..Len(fWaiting') : i < j => fWaiting'[i] < fWaiting'[j]
    <3>1. SUFFICES ASSUME NEW i \in 1..Len(fWaiting'), NEW j \in 1..Len(fWaiting'), i < j
                   PROVE  fWaiting'[i] < fWaiting'[j]
      OBVIOUS
    <3>2. i \in 1..Len(fWaiting) BY <1>0, <2>1, <2>2, <3>1
    <3>3. CASE j \in 1..Len(fWaiting)
      BY <2>1, <3>1, <3>2, <3>3 DEF StreamInv, DataInv, AscentInv
    <3>4. CASE j = Len(fWaiting) + 1
      BY <1>4, <2>1, <3>2, <3>4
    <3>5. QED BY <2>2, <3>3, <3>4
  <2>5. \A i \in 1..Len(fEmitted'), j \in 1..Len(fWaiting') : fEmitted'[i] < fWaiting'[j]
    BY <1>1, <1>4, <2>1, <2>2 DEF StreamInv, DataInv, AscentInv
  <2>6. \A i \in 1..Len(fWaiting') : fWaiting'[i] <= fSent'
    BY <1>4, <2>1, <2>2
  <2>7. AscentInv'
    BY <1>1, <1>4, <2>4, <2>5, <2>6 DEF StreamInv, DataInv, AscentInv
  <2>8. QED BY <2>3, <2>7 DEF DataInv
<1>3. CASE fWaiting' = fWaiting /\ fLost' = fLost + 1
  <2>1. Len(fWaiting') <= Capacity BY <1>3 DEF StreamInv, DataInv, CountInv
  <2>3. CountInv' BY <1>0, <1>1, <1>3, <1>4, <2>1 DEF CountInv
  <2>2. AscentInv' BY <1>1, <1>3, <1>4 DEF StreamInv, DataInv, AscentInv
  <2>4. QED BY <2>2, <2>3 DEF DataInv
<1>5. QED BY <1>2, <1>3 DEF Feed!BufferData

LEMMA TakeHolds ==
  ASSUME StreamInv, fWaiting # << >>, UNCHANGED <<fLost, fSent>>,
         fEmitted' = Append(fEmitted, Head(fWaiting)), fWaiting' = Tail(fWaiting)
  PROVE  DataInv'
<1>1. /\ fEmitted \in Seq(Nat) /\ fWaiting \in Seq(Nat) /\ Len(fWaiting) > 0
      /\ Head(fWaiting) = fWaiting[1] /\ 1 \in 1..Len(fWaiting)
  BY DEF StreamInv, DataInv, CountInv, AscentInv
<1>2. /\ fEmitted' \in Seq(Nat) /\ Len(fEmitted') = Len(fEmitted) + 1
      /\ fEmitted'[Len(fEmitted) + 1] = fWaiting[1]
      /\ \A i \in 1..Len(fEmitted) : fEmitted'[i] = fEmitted[i]
  BY <1>1
<1>3. /\ fWaiting' \in Seq(Nat) /\ Len(fWaiting') = Len(fWaiting) - 1
      /\ \A i \in 1..Len(fWaiting') : fWaiting'[i] = fWaiting[i + 1]
                                     /\ i + 1 \in 1..Len(fWaiting) /\ 1 < i + 1
  BY <1>1
<1>4. \A i \in 1..Len(fEmitted') : i \in 1..Len(fEmitted) \/ i = Len(fEmitted) + 1
  BY <1>1, <1>2
<1>5. \A i, j \in 1..Len(fEmitted') : i < j => fEmitted'[i] < fEmitted'[j]
  BY <1>1, <1>2, <1>4 DEF StreamInv, DataInv, CountInv, AscentInv
<1>6. \A i, j \in 1..Len(fWaiting') : i < j => fWaiting'[i] < fWaiting'[j]
  <2>1. SUFFICES ASSUME NEW i \in 1..Len(fWaiting'), NEW j \in 1..Len(fWaiting'), i < j
                 PROVE  fWaiting'[i] < fWaiting'[j]
    OBVIOUS
  <2>2. i + 1 < j + 1 BY <2>1, <1>3
  <2>3. QED BY <2>1, <2>2, <1>3 DEF StreamInv, DataInv, CountInv, AscentInv
<1>7. \A i \in 1..Len(fEmitted'), j \in 1..Len(fWaiting') : fEmitted'[i] < fWaiting'[j]
  BY <1>1, <1>2, <1>3, <1>4 DEF StreamInv, DataInv, CountInv, AscentInv
<1>8. \A i \in 1..Len(fEmitted') : fEmitted'[i] <= fSent'
  BY <1>1, <1>2, <1>4 DEF StreamInv, DataInv, CountInv, AscentInv
<1>9. \A i \in 1..Len(fWaiting') : fWaiting'[i] <= fSent'
  BY <1>1, <1>3 DEF StreamInv, DataInv, CountInv, AscentInv
<1>10. /\ fLost' \in Nat /\ fSent' \in Nat
       /\ Len(fEmitted') + Len(fWaiting') + fLost' = fSent'
  <2>1. /\ Len(fEmitted) + Len(fWaiting) + fLost = fSent /\ fLost \in Nat /\ fSent \in Nat
        /\ Len(fEmitted) \in Nat /\ Len(fWaiting) \in Nat
    BY <1>1 DEF StreamInv, DataInv, CountInv
  <2>2. (Len(fEmitted) + 1) + (Len(fWaiting) - 1) + fLost = fSent BY <2>1, Balance
  <2>3. QED BY <1>2, <1>3, <2>1, <2>2
<1>12. Len(fWaiting') <= Capacity
  <2>1. Len(fWaiting) <= Capacity /\ Capacity \in Nat /\ Len(fWaiting) \in Nat
    BY <1>1, PlatformConstants DEF StreamInv, DataInv, CountInv
  <2>2. QED BY <1>3, <2>1
<1>11. QED
  BY <1>2, <1>3, <1>5, <1>6, <1>7, <1>8, <1>9, <1>10, <1>12 DEF DataInv, CountInv, AscentInv

LEMMA DataStay == ASSUME StreamInv, DataKept PROVE DataInv'
BY DEF StreamInv, DataInv, CountInv, AscentInv, DataKept

LEMMA TasksStay == ASSUME StreamInv, TasksKept PROVE (StreamTyped /\ TaskInv)'
BY DEF StreamInv, StreamTyped, TaskInv, TasksKept

(* A task takes a step: it goes on if the feed streams and ends otherwise. *)
LEMMA TaskStepHolds ==
  ASSUME StreamInv, NEW s \in 1..MaxStreams,
         fStreams' = [fStreams EXCEPT ![s] = IF fStreaming THEN "runs" ELSE "ended"],
         UNCHANGED <<fStreaming, fNewest, fHalting, fCrossed>>
  PROVE  (StreamTyped /\ TaskInv)'
<1>1. CASE fStreaming
  BY <1>1 DEF StreamInv, StreamTyped, TaskInv, Goes
<1>2. CASE ~fStreaming
  BY <1>2 DEF StreamInv, StreamTyped, TaskInv, Goes
<1>3. QED BY <1>1, <1>2

LEMMA StreamStepHolds == ASSUME StreamInv, [Feed!NextStream]_streamVars PROVE StreamInv'
<1> USE DEF Feed!aggregator, Feed!cache
<1>0. MaxStreams \in Nat
  BY PlatformConstants DEF PlatformConstants
<1>1. CASE UNCHANGED streamVars
  <2>1. DataKept /\ TasksKept BY <1>1 DEF streamVars, DataKept, TasksKept
  <2>2. QED BY <2>1, DataStay, TasksStay DEF StreamInv
<1>2. CASE Feed!StartStreaming
  <2>1. DataInv' BY <1>2, DataStay DEF Feed!StartStreaming, DataKept
  <2>2. fNewest \in 0..MaxStreams /\ fNewest < MaxStreams /\ fNewest' = fNewest + 1
    BY <1>2 DEF StreamInv, StreamTyped, Feed!StartStreaming
  <2>3. fNewest' \in 0..MaxStreams /\ fNewest' > 0 /\ fNewest' \in 1..MaxStreams
    BY <1>0, <2>2
  <2>4. /\ fStreams' = [fStreams EXCEPT ![fNewest'] = "created"] /\ fHalting' = fHalting
        /\ fStreaming' = TRUE /\ fCrossed' = (fCrossed \/ fHalting # "no")
    BY <1>2, <2>2 DEF Feed!StartStreaming
  <2>5. StreamTyped' BY <2>3, <2>4 DEF StreamInv, StreamTyped
  <2>6. fStreams'[fNewest'] = "created" BY <2>3, <2>4 DEF StreamInv, StreamTyped
  <2>7. TaskInv' BY <2>3, <2>4, <2>6 DEF StreamInv, StreamTyped, TaskInv, Goes
  <2>8. QED BY <2>1, <2>5, <2>7 DEF StreamInv
<1>3. CASE Feed!StopStreaming
  <2>1. DataInv' BY <1>3, DataStay DEF Feed!StopStreaming, DataKept
  <2>2. (StreamTyped /\ TaskInv)'
    BY <1>3 DEF StreamInv, StreamTyped, TaskInv, Feed!StopStreaming
  <2>3. QED BY <2>1, <2>2 DEF StreamInv
<1>4. CASE Feed!StopBuffer
  <2>1. DataInv' BY <1>4, DataStay DEF Feed!StopBuffer, DataKept
  <2>2. (StreamTyped /\ TaskInv)'
    BY <1>4 DEF StreamInv, StreamTyped, TaskInv, Feed!StopBuffer
  <2>3. QED BY <2>1, <2>2 DEF StreamInv
<1>5. CASE Feed!BufferData
  <2>1. TasksKept BY <1>5 DEF Feed!BufferData, TasksKept
  <2>2. QED BY <1>5, <2>1, BufferHolds, TasksStay DEF StreamInv
<1>6. ASSUME NEW s \in 1..MaxStreams, Feed!Begin(s) \/ Feed!Turn(s)
      PROVE  StreamInv'
  <2>1. (StreamTyped /\ TaskInv)'
    BY <1>6, TaskStepHolds DEF Feed!Begin, Feed!Turn
  <2>2. DataInv'
    <3>1. CASE Feed!Begin(s) BY <3>1, DataStay DEF Feed!Begin, DataKept
    <3>2. CASE Feed!Turn(s) BY <3>2, DataStay, TakeHolds DEF Feed!Turn, DataKept
    <3>3. QED BY <1>6, <3>1, <3>2
  <2>3. QED BY <2>1, <2>2 DEF StreamInv
<1>7. QED BY <1>1, <1>2, <1>3, <1>4, <1>5, <1>6 DEF Feed!NextStream, Feed!Streams

-----------------------------------------------------------------------------
(* Monitoring.                                                             *)

(* The tasks of the loop: the current one is the only one to go on.        *)
AlertTaskInv ==
  /\ lIsOn \in BOOLEAN /\ lCurrent \in Tasks \union {Alerts!NoTask}
  /\ lTasks \in [Tasks -> {"none", "created", "asleep", "cancelled", "ended"}]
  /\ lIsOn => lCurrent \in Tasks /\ lTasks[lCurrent] \in {"created", "asleep"}
  /\ \A l \in Tasks : lTasks[l] \in {"created", "asleep"} => lIsOn /\ l = lCurrent

(* A threshold as it is reached: the alert before was a cooldown before    *)
(* the last.                                                               *)
Paced(t) ==
  /\ t \in [direction : {"above", "below"}, last : (0 .. ClockTime) \union {Alerts!Never},
            before : (0 .. ClockTime) \union {Alerts!Never}]
  /\ t.before # Alerts!Never => t.last # Alerts!Never /\ t.last - t.before >= AlertCooldown

Beyonds(m) == Alerts!LatencySeverity(m) # "none" \/ Alerts!GaugeSeverity(m) # "none"

(* What is beyond its threshold after a check was alerted within the       *)
(* cooldown.                                                               *)
Alerted(m) ==
  /\ lThresholds[m].last # Alerts!Never
  /\ lThresholds[m].last = lTime \/ lTime - lThresholds[m].last < AlertCooldown

PaceInv ==
  /\ lTime \in 0 .. ClockTime /\ lFresh \in BOOLEAN
  /\ \A m \in DOMAIN lThresholds : Paced(lThresholds[m])
  /\ lFresh => \A m \in DOMAIN lThresholds : Beyonds(m) => Alerted(m)

Alert == [metric : Metrics, at : 0 .. ClockTime, resolved : BOOLEAN,
          severity : {"none", "warning", "critical"}]

AlertList == {list \in Seq(Alert) : Len(list) <= MaxAlerts}

MonitorShape ==
  /\ lSamples \in [Metrics -> Seq(Values)] /\ \A m \in Metrics : Len(lSamples[m]) <= Window
  /\ DOMAIN lThresholds \subseteq Metrics /\ IsFiniteSet(DOMAIN lThresholds)
  /\ lAlerts \in AlertList

AlertsInv == AlertTaskInv /\ PaceInv /\ MonitorShape

LEMMA AlertsInTime == ASSUME AlertsInv PROVE Alerts!AlertsAreTimely
<1>1. lIsOn => {l \in Tasks : lTasks[l] \in {"created", "asleep"}} = {lCurrent}
  BY DEF AlertsInv, AlertTaskInv
<1>2. \A m \in DOMAIN lThresholds :
        /\ lThresholds[m].before # Alerts!Never =>
             lThresholds[m].last - lThresholds[m].before >= AlertCooldown
        /\ lFresh /\ Beyonds(m) => Alerted(m)
  BY DEF AlertsInv, PaceInv, Paced
<1>3. QED BY <1>1, <1>2 DEF Alerts!AlertsAreTimely, Beyonds, Alerted

LEMMA AlertsInitHolds == ASSUME Alerts!Init PROVE AlertsInv
<1>1. 0 \in 0 .. ClockTime /\ 0 <= Window /\ 0 <= MaxAlerts BY PlatformConstants
<1>2. AlertTaskInv BY DEF Alerts!Init, AlertTaskInv, Alerts!NoTask
<1>3. PaceInv BY <1>1 DEF Alerts!Init, PaceInv, Alerts!Empty
<1>4. DOMAIN lThresholds = {} BY DEF Alerts!Init, Alerts!Empty
<1>5. lAlerts \in AlertList
  <2>1. lAlerts = << >> /\ lAlerts \in Seq(Alert) /\ Len(lAlerts) = 0 BY DEF Alerts!Init
  <2>2. QED BY <1>1, <2>1 DEF AlertList
<1>6. \A m \in Metrics : lSamples[m] \in Seq(Values) /\ Len(lSamples[m]) <= Window
  <2>1. << >> \in Seq(Values) /\ Len(<< >>) <= Window BY <1>1
  <2>2. QED BY <2>1 DEF Alerts!Init
<1>7. lSamples \in [Metrics -> Seq(Values)]
  <2>1. lSamples = [m \in Metrics |-> << >>] BY DEF Alerts!Init
  <2>2. QED BY <2>1
<1>8. MonitorShape
  BY <1>4, <1>5, <1>6, <1>7, FS_EmptySet DEF MonitorShape
<1>9. QED BY <1>2, <1>3, <1>8 DEF AlertsInv

TaskKept == UNCHANGED <<lIsOn, lTasks, lCurrent>>

LEMMA TaskStays == ASSUME AlertTaskInv, TaskKept PROVE AlertTaskInv'
BY DEF AlertTaskInv, TaskKept

LEMMA PaceStays ==
  ASSUME PaceInv, UNCHANGED <<lTime, lThresholds, lFresh, lSamples, lGauges>>
  PROVE  PaceInv'
<1>1. ASSUME NEW m \in DOMAIN lThresholds PROVE Beyonds(m)' <=> Beyonds(m)
  BY DEF Beyonds, Alerts!LatencySeverity, Alerts!GaugeSeverity, Alerts!Severity,
    Alerts!Beyond, Alerts!SumOf
<1>2. ASSUME NEW m \in DOMAIN lThresholds PROVE Alerted(m)' <=> Alerted(m)
  BY DEF Alerted
<1>3. QED BY <1>1, <1>2 DEF PaceInv

LEMMA Stale ==
  ASSUME PaceInv, lThresholds' = lThresholds, lTime' \in 0 .. ClockTime, lFresh' = FALSE
  PROVE  PaceInv'
BY DEF PaceInv, Paced

LEMMA CheckIsPaced ==
  ASSUME PaceInv, Alerts!CheckThresholds, UNCHANGED <<lTime, lSamples, lGauges>>,
         lFresh' = TRUE
  PROVE  PaceInv'
<1> USE DEF Alerts!Never
<1>0. AlertCooldown \in Nat
  BY PlatformConstants DEF PlatformConstants
<1>1. /\ DOMAIN lThresholds' = DOMAIN lThresholds
      /\ \A m \in DOMAIN lThresholds : lThresholds'[m] =
           IF Alerts!Fires(m)
           THEN [lThresholds[m] EXCEPT !.last = lTime, !.before = lThresholds[m].last]
           ELSE lThresholds[m]
  BY DEF Alerts!CheckThresholds
<1>2. ASSUME NEW m \in DOMAIN lThresholds
      PROVE  Paced(lThresholds'[m]) /\ (Beyonds(m)' => Alerted(m)')
  <2> DEFINE t == lThresholds[m]
             u == lThresholds'[m]
  <2>1. Paced(t) /\ lTime \in 0 .. ClockTime
    BY <1>2 DEF PaceInv
  <2>2. u.direction = t.direction
    BY <1>1, <1>2, <2>1 DEF Paced
  <2>3. Beyonds(m)' <=> Beyonds(m)
    BY <2>2 DEF Beyonds, Alerts!LatencySeverity, Alerts!GaugeSeverity, Alerts!Severity,
      Alerts!Beyond, Alerts!SumOf
  <2>4. CASE Alerts!Fires(m)
    <3>1. u = [t EXCEPT !.last = lTime, !.before = t.last]
      BY <1>1, <1>2, <2>4
    <3>2. ~(t.last # Alerts!Never /\ lTime - t.last < AlertCooldown)
      BY <2>4 DEF Alerts!Fires, Alerts!Cooling
    <3>3. /\ u.direction = t.direction /\ u.last = lTime /\ u.before = t.last
          /\ u = [direction |-> u.direction, last |-> u.last, before |-> u.before]
      BY <2>1, <3>1 DEF Paced
    <3>4. t.last # Alerts!Never => t.last \in Nat /\ lTime - t.last >= AlertCooldown
      BY <1>0, <2>1, <3>2 DEF Paced
    <3>5. lTime # Alerts!Never
      BY <2>1
    <3>6. Paced(u)
      <4> HIDE DEF u
      <4>1. u \in [direction : {"above", "below"}, last : (0 .. ClockTime) \union {Alerts!Never},
                   before : (0 .. ClockTime) \union {Alerts!Never}]
        BY <2>1, <3>3 DEF Paced
      <4>2. QED BY <4>1, <3>3, <3>4, <3>5 DEF Paced
    <3>7. QED BY <2>1, <3>3, <3>6 DEF Alerted
  <2>5. CASE ~Alerts!Fires(m)
    <3>1. u = t BY <1>1, <1>2, <2>5
    <3>2. Beyonds(m) => t.last # Alerts!Never /\ lTime - t.last < AlertCooldown
      BY <2>5 DEF Alerts!Fires, Alerts!Cooling, Beyonds
    <3>3. QED BY <2>1, <2>3, <3>1, <3>2 DEF Alerted
  <2>6. QED BY <2>4, <2>5
<1>3. QED BY <1>1, <1>2 DEF PaceInv

(* The list of alerts forgets its oldest, and a check appends to it.       *)
LEMMA LatestFits ==
  ASSUME NEW list \in Seq(Alert)
  PROVE  Alerts!Latest(list) \in AlertList
<1>0. MaxAlerts \in Nat BY PlatformConstants
<1>1. CASE Len(list) <= MaxAlerts
  BY <1>0, <1>1 DEF Alerts!Latest, AlertList
<1>2. CASE Len(list) > MaxAlerts
  <2> DEFINE m == (Len(list) - MaxAlerts) + 1
             part_ == SubSeq(list, m, Len(list))
  <2>1. m \in Nat /\ m >= 1 /\ Len(list) \in Nat /\ (Len(list) - m) + 1 = MaxAlerts BY <1>0, <1>2
  <2>2. \A i \in m .. Len(list) : list[i] \in Alert BY <2>1
  <2>3. part_ \in Seq(Alert) /\ Len(part_) = IF m <= Len(list) THEN Len(list) - m + 1 ELSE 0
    <3> HIDE DEF m
    <3>1. QED BY <2>1, <2>2, SubSeqProperties
  <2>4. Len(part_) <= MaxAlerts
    <3> HIDE DEF m, part_
    <3>1. QED BY <1>0, <2>1, <2>3
  <2>5. Alerts!Latest(list) = part_ BY <1>0, <1>2 DEF Alerts!Latest
  <2>6. QED BY <2>3, <2>4, <2>5 DEF AlertList
<1>3. QED BY <1>0, <1>1, <1>2

LEMMA CheckFits ==
  ASSUME AlertsInv, Alerts!CheckThresholds
  PROVE  lAlerts' \in AlertList
<1>1. \A S : Alerts!Cardinality(S) = Cardinality(S)
  BY DEF Alerts!Cardinality, Cardinality
<1> DEFINE metrics == DOMAIN lThresholds
           c == Cardinality(metrics)
<1>2. c \in Nat /\ metrics \subseteq Metrics
  BY FS_CardinalityType DEF AlertsInv, MonitorShape
<1>3. PICK order \in [1 .. c -> metrics] :
        lAlerts' = LET found[n \in 0 .. Len(order)] ==
                         IF n = 0 THEN lAlerts
                         ELSE Alerts!Latest(found[n - 1] \o Alerts!Raised(order[n]))
                   IN found[Len(order)]
  BY <1>1 DEF Alerts!CheckThresholds
<1> HIDE DEF c
<1>4. order \in Seq(metrics) /\ Len(order) = c
  BY <1>2, <1>3
<1>5. \A m \in metrics : Alerts!Raised(m) \in Seq(Alert)
  <2>1. SUFFICES ASSUME NEW m \in metrics PROVE Alerts!Raised(m) \in Seq(Alert)
    OBVIOUS
  <2>2. /\ Alerts!LatencySeverity(m) \in {"none", "warning", "critical"}
        /\ Alerts!GaugeSeverity(m) \in {"none", "warning", "critical"}
    BY DEF Alerts!LatencySeverity, Alerts!GaugeSeverity, Alerts!Severity
  <2>3. lTime \in 0 .. ClockTime BY DEF AlertsInv, PaceInv
  <2>4. m \in Metrics BY <1>2
  <2> DEFINE new == [metric |-> m, at |-> lTime, resolved |-> FALSE,
                     severity |-> IF Alerts!LatencySeverity(m) # "none"
                                  THEN Alerts!LatencySeverity(m) ELSE Alerts!GaugeSeverity(m)]
  <2>5. new \in Alert BY <2>2, <2>3, <2>4 DEF Alert
  <2>6. Alerts!Raised(m) = << new >> \/ Alerts!Raised(m) = << >> BY DEF Alerts!Raised
  <2> HIDE DEF new
  <2>7. << new >> \in Seq(Alert) /\ << >> \in Seq(Alert) BY <2>5
  <2>8. QED BY <2>6, <2>7
<1> DEFINE next(v, n) == Alerts!Latest(v \o Alerts!Raised(order[n]))
           step == [p \in (1 .. c) \X AlertList |-> next(p[2], p[1])]
           Good(f) == f = [n \in 0 .. c |-> IF n = 0 THEN lAlerts ELSE next(f[n - 1], n)]
<1>6. \A n \in 1 .. c, v \in AlertList : next(v, n) \in AlertList
  <2>1. \A n \in 1 .. c, v \in AlertList : v \o Alerts!Raised(order[n]) \in Seq(Alert)
    BY <1>3, <1>5, ConcatProperties DEF AlertList
  <2>2. QED BY <2>1, LatestFits
<1>7. lAlerts \in AlertList BY DEF AlertsInv, MonitorShape
<1> HIDE DEF next, metrics
<1>8. \E f : Good(f)
  <2>1. step \in [(1 .. c) \X AlertList -> AlertList] BY <1>6
  <2>2. PICK f \in [0 .. c -> AlertList] : Recurs(f, c, lAlerts, step)
    <3> HIDE DEF step
    <3>1. QED BY <1>2, <1>7, <2>1, RecursionExists DEF c
  <2>3. \A n \in 0 .. c : f[n] = IF n = 0 THEN lAlerts ELSE next(f[n - 1], n)
    <3>1. TAKE n \in 0 .. c
    <3>2. CASE n = 0 BY <2>2, <3>2 DEF Recurs
    <3>3. CASE n # 0
      <4>1. n \in 1 .. c /\ f[n - 1] \in AlertList BY <1>2, <2>2, <3>3 DEF c
      <4>2. f[n] = step[<<n, f[n - 1]>>] BY <2>2, <3>3 DEF Recurs
      <4>3. QED BY <3>3, <4>1, <4>2
    <3>4. QED BY <3>2, <3>3
  <2>4. Good(f) BY <2>2, <2>3
  <2>5. QED BY <2>4
<1>9. ASSUME NEW f, Good(f) PROVE f[c] \in AlertList
  <2> DEFINE T == {n \in Nat : n <= c => f[n] \in AlertList}
  <2>0. \A n \in 0 .. c : f[n] = IF n = 0 THEN lAlerts ELSE next(f[n - 1], n)
    BY <1>9
  <2> HIDE DEF Good
  <2>1. 0 \in T
    <3>1. 0 \in 0 .. c BY <1>2 DEF c
    <3>2. QED BY <1>7, <2>0, <3>1
  <2>2. ASSUME NEW n \in T PROVE n + 1 \in T
    <3>1. CASE n + 1 <= c
      <4>1. n + 1 \in 0 .. c /\ n + 1 \in 1 .. c /\ n + 1 # 0 /\ (n + 1) - 1 = n /\ n <= c
        BY <1>2, <3>1 DEF c
      <4>2. f[n + 1] = next(f[n], n + 1) /\ f[n] \in AlertList BY <2>0, <2>2, <4>1
      <4>3. QED BY <1>6, <4>1, <4>2
    <3>2. CASE ~(n + 1 <= c) BY <3>2
    <3>3. QED BY <3>1, <3>2
  <2>3. T \in SUBSET Nat OBVIOUS
  <2>4. c \in T
    <3> HIDE DEF T
    <3>1. QED BY <1>2, <2>1, <2>2, <2>3, NatSets DEF c
  <2>5. QED BY <2>4, <1>2 DEF c
<1> DEFINE found == CHOOSE f : Good(f)
<1>10. Good(found)
  <2> HIDE DEF Good
  <2>1. QED BY <1>8
<1>11. lAlerts' = found[c]
  BY <1>3, <1>4 DEF next
<1>12. QED
  <2> HIDE DEF found
  <2>1. QED BY <1>9, <1>10, <1>11

LEMMA PaceHolds ==
  ASSUME AlertsInv, [Alerts!Next]_alertsVars
  PROVE  (AlertTaskInv /\ PaceInv)'
<1>1. CASE UNCHANGED alertsVars
  BY <1>1, TaskStays, PaceStays DEF alertsVars, AlertsInv, TaskKept
<1>2. ASSUME NEW m, NEW value, Alerts!RecordLatency(m, value) \/ Alerts!RecordGauge(m, value)
      PROVE  (AlertTaskInv /\ PaceInv)'
  BY <1>2, TaskStays, Stale
  DEF AlertsInv, PaceInv, TaskKept, Alerts!RecordLatency, Alerts!RecordGauge
<1>3. ASSUME NEW m, NEW direction \in {"above", "below"}, Alerts!AddThreshold(m, direction)
      PROVE  (AlertTaskInv /\ PaceInv)'
  <2>1. AlertTaskInv'
    BY <1>3, TaskStays DEF AlertsInv, TaskKept, Alerts!AddThreshold
  <2>2. lTime' = lTime /\ lFresh' = FALSE
    BY <1>3 DEF Alerts!AddThreshold
  <2>3. /\ DOMAIN lThresholds' = DOMAIN lThresholds \union {m}
        /\ \A o \in DOMAIN lThresholds' : lThresholds'[o] =
             IF o = m THEN [direction |-> direction, last |-> Alerts!Never, before |-> Alerts!Never]
             ELSE lThresholds[o]
    BY <1>3 DEF Alerts!AddThreshold
  <2>4. Paced([direction |-> direction, last |-> Alerts!Never, before |-> Alerts!Never])
    BY DEF Paced
  <2>5. QED BY <2>1, <2>2, <2>3, <2>4 DEF AlertsInv, PaceInv
<1>4. ASSUME NEW m, Alerts!RemoveThreshold(m)
      PROVE  (AlertTaskInv /\ PaceInv)'
  <2>1. AlertTaskInv'
    BY <1>4, TaskStays DEF AlertsInv, TaskKept, Alerts!RemoveThreshold
  <2>2. /\ lTime' = lTime /\ lFresh' = FALSE
        /\ DOMAIN lThresholds' \subseteq DOMAIN lThresholds
        /\ \A o \in DOMAIN lThresholds' : lThresholds'[o] = lThresholds[o]
    BY <1>4 DEF Alerts!RemoveThreshold
  <2>3. QED BY <2>1, <2>2 DEF AlertsInv, PaceInv
<1>5. ASSUME NEW i, Alerts!Resolve(i)
      PROVE  (AlertTaskInv /\ PaceInv)'
  BY <1>5, TaskStays, Stale DEF AlertsInv, PaceInv, TaskKept, Alerts!Resolve
<1>6. CASE Alerts!Start
  <2>1. PaceInv'
    BY <1>6, PaceStays DEF AlertsInv, Alerts!Start
  <2>2. PICK l \in Tasks : /\ lTasks[l] = "none" /\ lCurrent' = l
                           /\ lTasks' = [lTasks EXCEPT ![l] = "created"]
    BY <1>6 DEF Alerts!Start
  <2>3. AlertTaskInv'
    BY <1>6, <2>2 DEF AlertsInv, AlertTaskInv, Alerts!Start
  <2>4. QED BY <2>1, <2>3 DEF AlertsInv
<1>7. CASE Alerts!Stop
  <2>1. PaceInv'
    BY <1>7, PaceStays DEF AlertsInv, Alerts!Stop
  <2>2. /\ lIsOn' = FALSE /\ lCurrent' = lCurrent /\ lCurrent \in Tasks
        /\ lTasks' = [lTasks EXCEPT ![lCurrent] =
             IF lTasks[lCurrent] = "created" THEN "ended"
             ELSE IF lTasks[lCurrent] = "asleep" THEN "cancelled" ELSE lTasks[lCurrent]]
    BY <1>7 DEF AlertsInv, AlertTaskInv, Alerts!Stop
  <2>3. AlertTaskInv'
    BY <2>2 DEF AlertsInv, AlertTaskInv
  <2>4. QED BY <2>1, <2>3 DEF AlertsInv
<1>8. CASE Alerts!Wait
  <2>1. lTime' \in 0 .. ClockTime BY <1>8, PlatformConstants DEF AlertsInv, PaceInv, Alerts!Wait
  <2>2. QED BY <1>8, <2>1, TaskStays, Stale DEF AlertsInv, TaskKept, Alerts!Wait
<1>9. ASSUME NEW l \in Tasks, Alerts!LoopTurn(l)
      PROVE  (AlertTaskInv /\ PaceInv)'
  <2>1. PaceInv'
    BY <1>9, CheckIsPaced DEF AlertsInv, Alerts!LoopTurn
  <2>2. AlertTaskInv'
    BY <1>9 DEF AlertsInv, AlertTaskInv, Alerts!LoopTurn
  <2>3. QED BY <2>1, <2>2 DEF AlertsInv
<1>10. ASSUME NEW l \in Tasks, Alerts!LoopBreaks(l)
       PROVE  (AlertTaskInv /\ PaceInv)'
  <2>1. PaceInv'
    BY <1>10, PaceStays DEF AlertsInv, Alerts!LoopBreaks
  <2>2. AlertTaskInv'
    BY <1>10 DEF AlertsInv, AlertTaskInv, Alerts!LoopBreaks
  <2>3. QED BY <2>1, <2>2 DEF AlertsInv
<1>11. QED
  BY <1>1, <1>2, <1>3, <1>4, <1>5, <1>6, <1>7, <1>8, <1>9, <1>10 DEF Alerts!Next

LEMMA ShapeHolds == ASSUME AlertsInv, [Alerts!Next]_alertsVars PROVE MonitorShape'
<1>0. MonitorShape /\ MaxAlerts \in Nat /\ Window \in Nat \ {0}
  BY PlatformConstants DEF AlertsInv
<1>1. /\ lSamples' \in [Metrics -> Seq(Values)]
      /\ \A m \in Metrics : Len(lSamples'[m]) <= Window
  <2>1. CASE UNCHANGED lSamples BY <1>0, <2>1 DEF MonitorShape
  <2>2. ASSUME NEW m \in Metrics, NEW value \in Values, Alerts!RecordLatency(m, value)
        PROVE  /\ lSamples' \in [Metrics -> Seq(Values)]
               /\ \A o \in Metrics : Len(lSamples'[o]) <= Window
    <3> DEFINE all == Append(lSamples[m], value)
               new == IF Len(all) > Window THEN Tail(all) ELSE all
    <3>1. lSamples' = [lSamples EXCEPT ![m] = new] BY <2>2 DEF Alerts!RecordLatency
    <3>2. lSamples[m] \in Seq(Values) /\ Len(lSamples[m]) <= Window
      BY <1>0 DEF MonitorShape
    <3>3. /\ all \in Seq(Values) /\ Len(all) = Len(lSamples[m]) + 1 /\ all # << >>
          /\ Len(lSamples[m]) \in Nat
      BY <3>2, AppendProperties
    <3>4. new \in Seq(Values) /\ Len(new) <= Window
      <4> HIDE DEF all
      <4>1. Tail(all) \in Seq(Values) /\ Len(Tail(all)) = Len(all) - 1
        BY <3>3, HeadTailProperties
      <4>2. QED BY <1>0, <3>2, <3>3, <4>1
    <3> HIDE DEF new
    <3>5. QED BY <1>0, <3>1, <3>4 DEF MonitorShape
  <2>3. QED
    BY <2>1, <2>2
    DEF alertsVars, Alerts!Next, Alerts!RecordGauge, Alerts!AddThreshold,
      Alerts!RemoveThreshold, Alerts!Resolve, Alerts!Start, Alerts!Stop, Alerts!Wait,
      Alerts!LoopTurn, Alerts!LoopBreaks
<1>2. DOMAIN lThresholds' \subseteq Metrics /\ IsFiniteSet(DOMAIN lThresholds')
  <2>1. CASE DOMAIN lThresholds' = DOMAIN lThresholds BY <1>0, <2>1 DEF MonitorShape
  <2>2. ASSUME NEW m \in Metrics, NEW d, Alerts!AddThreshold(m, d)
        PROVE  DOMAIN lThresholds' \subseteq Metrics /\ IsFiniteSet(DOMAIN lThresholds')
    <3>1. DOMAIN lThresholds' = DOMAIN lThresholds \union {m} BY <2>2 DEF Alerts!AddThreshold
    <3>2. QED BY <1>0, <3>1, FS_AddElement DEF MonitorShape
  <2>3. ASSUME NEW m \in Metrics, Alerts!RemoveThreshold(m)
        PROVE  DOMAIN lThresholds' \subseteq Metrics /\ IsFiniteSet(DOMAIN lThresholds')
    <3>1. DOMAIN lThresholds' = DOMAIN lThresholds \ {m} BY <2>3 DEF Alerts!RemoveThreshold
    <3>2. QED BY <1>0, <3>1, FS_RemoveElement DEF MonitorShape
  <2>4. QED
    BY <2>1, <2>2, <2>3
    DEF alertsVars, Alerts!Next, Alerts!RecordGauge, Alerts!RecordLatency,
      Alerts!Resolve, Alerts!Start, Alerts!Stop, Alerts!Wait,
      Alerts!LoopTurn, Alerts!LoopBreaks, Alerts!CheckThresholds
<1>3. lAlerts' \in AlertList
  <2>1. CASE UNCHANGED lAlerts BY <1>0, <2>1 DEF MonitorShape
  <2>2. ASSUME NEW i \in 1 .. MaxAlerts, Alerts!Resolve(i) PROVE lAlerts' \in AlertList
    <3>1. /\ i \in 1 .. Len(lAlerts) /\ lAlerts \in Seq(Alert) /\ Len(lAlerts) <= MaxAlerts
          /\ lAlerts' = [lAlerts EXCEPT ![i] = [lAlerts[i] EXCEPT !.resolved = TRUE]]
      BY <1>0, <2>2 DEF Alerts!Resolve, MonitorShape, AlertList
    <3>2. [lAlerts[i] EXCEPT !.resolved = TRUE] \in Alert
      <4>1. lAlerts[i] \in Alert BY <3>1
      <4>2. QED BY <4>1 DEF Alert
    <3>3. lAlerts' \in Seq(Alert) /\ Len(lAlerts') = Len(lAlerts) BY <3>1, <3>2
    <3>4. QED BY <3>1, <3>3 DEF AlertList
  <2>3. CASE Alerts!CheckThresholds BY <2>3, CheckFits
  <2>4. QED
    BY <2>1, <2>2, <2>3
    DEF alertsVars, Alerts!Next, Alerts!RecordGauge, Alerts!RecordLatency,
      Alerts!AddThreshold, Alerts!RemoveThreshold, Alerts!Start, Alerts!Stop, Alerts!Wait,
      Alerts!LoopTurn, Alerts!LoopBreaks
<1>4. QED BY <1>1, <1>2, <1>3 DEF MonitorShape

LEMMA AlertsStepHolds == ASSUME AlertsInv, [Alerts!Next]_alertsVars PROVE AlertsInv'
BY PaceHolds, ShapeHolds DEF AlertsInv

LEMMA AlertsAreTyped == ASSUME AlertsInv PROVE Alerts!TypeOK
<1>1. \A m \in DOMAIN lThresholds : lThresholds[m] \in Alerts!Threshold
  <2>1. (0 .. ClockTime) \union {Alerts!Never} \subseteq Alerts!Never .. ClockTime
    BY PlatformConstants DEF Alerts!Never
  <2>2. \A m \in DOMAIN lThresholds : Paced(lThresholds[m]) BY DEF AlertsInv, PaceInv
  <2>3. QED BY <2>1, <2>2 DEF Paced, Alerts!Threshold
<1>2. QED
  BY <1>1 DEF AlertsInv, AlertTaskInv, PaceInv, MonitorShape, AlertList, Alerts!TypeOK

-----------------------------------------------------------------------------
(* Bars made of ticks.                                                     *)

Ticks(b) == fBars[b].ticks

(* The tick a bar ends with: the number of ticks in the bars up to it.     *)
EndOf(b) == IF b = 0 THEN 0 ELSE Ticks(b)[Len(Ticks(b))]

Bar == [period : Int, ticks : Seq(Nat)]

BarsShape ==
  /\ fTimeOf \in Seq(Times) /\ Len(fTimeOf) <= MaxTicks
  /\ fBuffer \in Seq(Nat) /\ fFlushed \in BOOLEAN
  /\ fLastTick = IF fTimeOf = << >> THEN 0 ELSE fTimeOf[Len(fTimeOf)]
  /\ fBars \in Seq(Bar)

(* Each bar goes on where the one before it ends, and the pending ticks    *)
(* where the last bar ends.                                                *)
TicksInv ==
  /\ \A b \in 1 .. Len(fBars) :
       /\ Ticks(b) # << >>
       /\ \A i \in 1 .. Len(Ticks(b)) : Ticks(b)[i] = EndOf(b - 1) + i
       /\ EndOf(b) <= Len(fTimeOf)
  /\ \A i \in 1 .. Len(fBuffer) : fBuffer[i] = EndOf(Len(fBars)) + i
  /\ EndOf(Len(fBars)) + Len(fBuffer) = Len(fTimeOf)

(* What is pending is of the period of the last tick, a later one than the *)
(* last bar's unless a flush cut it.                                       *)
PeriodsInv ==
  Feed!InOrder =>
    /\ \A b \in 1 .. Len(fBars) : \A i \in 1 .. Len(Ticks(b)) :
         Feed!PeriodOf(fTimeOf[Ticks(b)[i]]) = fBars[b].period
    /\ \A i \in 1 .. Len(fBuffer) :
         Feed!PeriodOf(fTimeOf[fBuffer[i]]) = Feed!PeriodOf(fLastTick)
    /\ ~fFlushed =>
         /\ \A b \in 2 .. Len(fBars) : fBars[b - 1].period < fBars[b].period
         /\ fBars # << >> => fBars[Len(fBars)].period < Feed!PeriodOf(fLastTick)

BarsInv == BarsShape /\ TicksInv /\ PeriodsInv

LEMMA PeriodsGrow ==
  ASSUME NEW s \in Nat, NEW t \in Nat, s <= t
  PROVE  Feed!PeriodOf(s) \in Nat /\ Feed!PeriodOf(s) <= Feed!PeriodOf(t)
<1> DEFINE a == s \div Period
           b == t \div Period
<1>0. Period \in Nat \ {0} BY PlatformConstants
<1>1. a \in Nat /\ b \in Nat /\ a * Period <= s /\ t < (b + 1) * Period
  BY <1>0
<1>2. a <= b
  <2> HIDE DEF a, b
  <2>1. SUFFICES ASSUME b + 1 <= a PROVE FALSE
    BY <1>1
  <2>2. (b + 1) * Period <= a * Period
    BY <1>0, <1>1, <2>1
  <2>3. (b + 1) * Period \in Nat /\ a * Period \in Nat
    BY <1>0, <1>1
  <2>4. QED BY <1>1, <2>2, <2>3
<1>3. QED BY <1>1, <1>2 DEF Feed!PeriodOf

LEMMA BarsInitHolds == ASSUME Feed!Init PROVE BarsInv
<1>1. MaxTicks \in Nat BY PlatformConstants
<1>2. BarsShape
  <2>1. Len(fTimeOf) <= MaxTicks BY <1>1 DEF Feed!Init
  <2>2. fTimeOf \in Seq(Times) /\ fBuffer \in Seq(Nat) /\ fBars \in Seq(Bar)
    BY DEF Feed!Init
  <2>3. fFlushed \in BOOLEAN /\ fTimeOf = << >> /\ fLastTick = 0 BY DEF Feed!Init
  <2>4. QED BY <2>1, <2>2, <2>3 DEF BarsShape
<1>3. TicksInv BY DEF Feed!Init, TicksInv, EndOf
<1>4. PeriodsInv BY DEF Feed!Init, PeriodsInv
<1>5. QED BY <1>2, <1>3, <1>4 DEF BarsInv

(* Numbers appended to the numbers before them.                            *)
LEMMA NumbersJoin ==
  ASSUME NEW e \in Nat, NEW s \in Seq(Nat), \A i \in 1 .. Len(s) : s[i] = e + i
  PROVE  [i \in 1 .. e |-> i] \o s = [i \in 1 .. e + Len(s) |-> i]
<1> DEFINE left == [i \in 1 .. e |-> i]
           all == left \o s
<1>1. left \in Seq(Nat) /\ Len(left) = e /\ \A i \in 1 .. e : left[i] = i
  <2>1. \A i \in 1 .. e : i \in Nat OBVIOUS
  <2>2. QED BY <2>1
<1> HIDE DEF left
<1>2. /\ all \in Seq(Nat) /\ Len(all) = e + Len(s)
      /\ \A i \in 1 .. e + Len(s) : all[i] = IF i <= e THEN left[i] ELSE s[i - e]
  BY <1>1, ConcatProperties
<1>3. ASSUME NEW i \in 1 .. e + Len(s) PROVE all[i] = i
  <2>1. CASE i <= e BY <1>1, <1>2, <2>1
  <2>2. CASE ~(i <= e)
    <3>1. i - e \in 1 .. Len(s) BY <2>2
    <3>2. QED BY <1>2, <2>2, <3>1
  <2>3. QED BY <2>1, <2>2
<1>4. all = [i \in 1 .. Len(all) |-> all[i]]
  <2> HIDE DEF all
  <2>1. QED BY <1>2
<1>5. QED BY <1>2, <1>3, <1>4 DEF left

(* Joining the bars gives the ticks up to the last bar's end.              *)
LEMMA JoinedTicks ==
  ASSUME BarsInv
  PROVE  Feed!AllTicks = [i \in 1 .. Len(fTimeOf) |-> i]
<1> DEFINE B == Len(fBars)
           Upto(n) == [i \in 1 .. n |-> i]
           Value(f, n) == IF n = 0 THEN << >> ELSE f[n - 1] \o Ticks(n)
           Good(f) == f = [n \in 0 .. B |-> Value(f, n)]
           g == [n \in 0 .. B |-> Upto(EndOf(n))]
<1>1. /\ B \in Nat
      /\ \A b \in 1 .. B :
           /\ Ticks(b) \in Seq(Nat) /\ Len(Ticks(b)) \in Nat \ {0}
           /\ EndOf(b) = Ticks(b)[Len(Ticks(b))]
           /\ b - 1 \in 0 .. B
  <2>1. fBars \in Seq(Bar) BY DEF BarsInv, BarsShape
  <2>2. ASSUME NEW b \in 1 .. B
        PROVE  Ticks(b) \in Seq(Nat) /\ Len(Ticks(b)) \in Nat \ {0}
    <3>1. fBars[b] \in Bar BY <2>1
    <3>2. Ticks(b) \in Seq(Nat) BY <3>1 DEF Ticks, Bar
    <3>3. Ticks(b) # << >> BY DEF BarsInv, TicksInv
    <3>4. QED BY <3>2, <3>3
  <2>3. \A b \in 1 .. B : b # 0 /\ b - 1 \in 0 .. B OBVIOUS
  <2>4. QED BY <2>1, <2>2, <2>3 DEF EndOf
<1>2. \A b \in 0 .. B : EndOf(b) \in Nat
  BY <1>1 DEF EndOf
<1>3. ASSUME NEW b \in 1 .. B
      PROVE  /\ EndOf(b) = EndOf(b - 1) + Len(Ticks(b))
             /\ Upto(EndOf(b - 1)) \o Ticks(b) = Upto(EndOf(b))
  <2>1. /\ EndOf(b - 1) \in Nat /\ EndOf(b) \in Nat
        /\ Ticks(b) \in Seq(Nat) /\ Len(Ticks(b)) \in Nat \ {0}
        /\ \A i \in 1 .. Len(Ticks(b)) : Ticks(b)[i] = EndOf(b - 1) + i
    BY <1>1, <1>2 DEF BarsInv, TicksInv
  <2>2. EndOf(b) = EndOf(b - 1) + Len(Ticks(b))
    <3>1. Len(Ticks(b)) \in 1 .. Len(Ticks(b)) BY <2>1
    <3>2. QED BY <1>1, <2>1, <3>1
  <2>3. QED BY <2>1, <2>2, NumbersJoin
<1>4. Good(g)
  <2>1. ASSUME NEW n \in 0 .. B PROVE Upto(EndOf(n)) = Value(g, n)
    <3>1. CASE n = 0 BY <3>1 DEF EndOf
    <3>2. CASE n # 0
      <4>1. n \in 1 .. B /\ n - 1 \in 0 .. B BY <3>2, <1>1, <2>1
      <4>2. g[n - 1] = Upto(EndOf(n - 1)) BY <4>1
      <4> HIDE DEF g, Upto
      <4>3. QED BY <1>3, <3>2, <4>1, <4>2
    <3>3. QED BY <3>1, <3>2
  <2>2. QED BY <2>1
<1>5. ASSUME NEW f, Good(f) PROVE \A n \in 0 .. B : f[n] = g[n]
  <2> DEFINE T == {n \in Nat : n <= B => f[n] = g[n]}
  <2> HIDE DEF g
  <2>0. /\ \A n \in 0 .. B : f[n] = Value(f, n)
        /\ \A n \in 0 .. B : g[n] = Value(g, n)
    BY <1>4, <1>5
  <2>1. 0 \in T BY <2>0, <1>1
  <2>2. ASSUME NEW n \in T PROVE n + 1 \in T
    <3>1. CASE n + 1 <= B
      <4>1. n <= B /\ n + 1 \in 0 .. B /\ n + 1 # 0 /\ (n + 1) - 1 = n BY <3>1, <1>1
      <4>2. f[n] = g[n] BY <4>1, <2>2
      <4>3. f[n + 1] = Value(f, n + 1) /\ g[n + 1] = Value(g, n + 1) BY <2>0, <4>1
      <4>4. Value(f, n + 1) = f[n] \o Ticks(n + 1) /\ Value(g, n + 1) = g[n] \o Ticks(n + 1)
        BY <4>1
      <4>5. QED BY <4>2, <4>3, <4>4
    <3>2. CASE ~(n + 1 <= B) BY <3>2
    <3>3. QED BY <3>1, <3>2
  <2> HIDE DEF T
  <2>3. T \in SUBSET Nat BY DEF T
  <2>4. T = Nat BY <2>1, <2>2, <2>3, NatSets
  <2>5. QED BY <2>4, <1>1 DEF T
<1> DEFINE joined == CHOOSE f : Good(f)
<1>6. Good(joined)
  <2> HIDE DEF Good, g
  <2>1. \E f : Good(f) BY <1>4
  <2>2. QED BY <2>1
<1>7. Feed!AllTicks = joined[B] \o fBuffer
  BY DEF Feed!AllTicks, Ticks
<1>8. joined[B] = Upto(EndOf(B))
  <2>1. B \in 0 .. B BY <1>1
  <2> HIDE DEF joined
  <2>2. joined[B] = g[B] BY <1>5, <1>6, <2>1
  <2>3. QED BY <2>1, <2>2
<1>9. Upto(EndOf(B)) \o fBuffer = Upto(Len(fTimeOf))
  <2> DEFINE e == EndOf(B)
  <2>1. /\ e \in Nat /\ fBuffer \in Seq(Nat) /\ Len(fBuffer) \in Nat
        /\ e + Len(fBuffer) = Len(fTimeOf)
        /\ \A i \in 1 .. Len(fBuffer) : fBuffer[i] = e + i
    BY <1>1, <1>2 DEF BarsInv, BarsShape, TicksInv
  <2> HIDE DEF e
  <2>2. QED BY <2>1, NumbersJoin DEF e
<1>10. QED BY <1>7, <1>8, <1>9

LEMMA TicksAreExact == ASSUME BarsInv PROVE Feed!EveryTickOnce
BY JoinedTicks DEF BarsInv, PeriodsInv, Feed!EveryTickOnce, Ticks

(* What both a flush and the first tick of a period do with what pends.    *)
ClosesBar ==
  /\ fBuffer # << >>
  /\ fBars' = Append(fBars, [period |-> Feed!PeriodOf(fLastTick), ticks |-> fBuffer])

LEMMA BarCloses ==
  ASSUME BarsInv, ClosesBar, NEW n \in Nat, n = Len(fBars)
  PROVE  /\ fBars' \in Seq(Bar) /\ Len(fBars') = n + 1
         /\ \A b \in 1 .. n : fBars'[b] = fBars[b] /\ b # n + 1
         /\ fBars'[n + 1].period = Feed!PeriodOf(fLastTick)
         /\ fBars'[n + 1].ticks = fBuffer
         /\ \A b \in 1 .. Len(fBars') : b \in 1 .. n \/ b = n + 1
         /\ \A b \in 0 .. n : EndOf(b)' = EndOf(b)
         /\ EndOf(n + 1)' = Len(fTimeOf)
         /\ fBars' # << >>
<1> DEFINE new == [period |-> Feed!PeriodOf(fLastTick), ticks |-> fBuffer]
<1>1. fBars \in Seq(Bar) /\ fBuffer \in Seq(Nat) /\ Len(fBuffer) \in Nat /\ Len(fBars) = n
  BY DEF BarsInv, BarsShape
<1>2. fLastTick \in Nat /\ Period \in Nat \ {0}
  <2>1. Times \subseteq Nat /\ Period \in Nat \ {0} BY PlatformConstants
  <2>2. fTimeOf # << >> => fTimeOf[Len(fTimeOf)] \in Times BY DEF BarsInv, BarsShape
  <2>3. QED BY <2>1, <2>2 DEF BarsInv, BarsShape
<1>3. new \in Bar
  <2>1. Feed!PeriodOf(fLastTick) \in Int BY <1>2 DEF Feed!PeriodOf
  <2>2. QED BY <1>1, <2>1 DEF Bar
<1>4. /\ fBars' \in Seq(Bar) /\ Len(fBars') = n + 1
      /\ \A b \in 1 .. n : fBars'[b] = fBars[b]
      /\ fBars'[n + 1] = new /\ fBars' # << >>
  <2> HIDE DEF new
  <2>1. fBars' = Append(fBars, new) BY DEF ClosesBar, new
  <2>2. QED BY <1>1, <1>3, <2>1, AppendProperties
<1>5. /\ \A b \in 1 .. Len(fBars') : b \in 1 .. n \/ b = n + 1
      /\ \A b \in 1 .. n : b # n + 1
  BY <1>1, <1>4
<1>6. \A b \in 0 .. n : EndOf(b)' = EndOf(b)
  <2>1. \A b \in 0 .. n : b # 0 => b \in 1 .. n BY <1>1
  <2>2. QED BY <1>4, <2>1 DEF EndOf, Ticks
<1>7. EndOf(n + 1)' = Len(fTimeOf)
  <2>1. n + 1 # 0 BY <1>1, <1>4
  <2>2. EndOf(n + 1)' = fBuffer[Len(fBuffer)]
    BY <1>4, <2>1 DEF EndOf, Ticks
  <2>3. Len(fBuffer) \in 1 .. Len(fBuffer) BY <1>1 DEF ClosesBar
  <2>4. QED BY <2>2, <2>3 DEF BarsInv, TicksInv
<1>8. QED BY <1>1, <1>4, <1>5, <1>6, <1>7

LEMMA FlushHolds == ASSUME BarsInv, Feed!Flush PROVE BarsInv'
<1>1. ClosesBar /\ fBuffer' = << >> /\ fFlushed' = TRUE /\ UNCHANGED <<fTimeOf, fLastTick>>
  BY DEF Feed!Flush, ClosesBar
<1>7. PICK B \in Nat : B = Len(fBars)
  BY DEF BarsInv, BarsShape
<1>2. /\ fBars' \in Seq(Bar) /\ Len(fBars') = B + 1 /\ B \in Nat
      /\ \A b \in 1 .. B : fBars'[b] = fBars[b]
      /\ fBars'[B + 1].period = Feed!PeriodOf(fLastTick) /\ fBars'[B + 1].ticks = fBuffer
      /\ \A b \in 1 .. Len(fBars') : b \in 1 .. B \/ b = B + 1
      /\ \A b \in 0 .. B : EndOf(b)' = EndOf(b)
      /\ EndOf(B + 1)' = Len(fTimeOf) /\ fBars' # << >>
  BY <1>1, <1>7, BarCloses
<1>3. BarsShape'
  BY <1>1, <1>2 DEF BarsInv, BarsShape
<1>4. TicksInv'
  <2>1. ASSUME NEW b \in 1 .. Len(fBars')
        PROVE  /\ Ticks(b)' # << >>
               /\ \A i \in 1 .. Len(Ticks(b)') : Ticks(b)'[i] = EndOf(b - 1)' + i
               /\ EndOf(b)' <= Len(fTimeOf')
    <3>1. CASE b \in 1 .. B
      <4>1. Ticks(b)' = Ticks(b) /\ EndOf(b - 1)' = EndOf(b - 1) /\ EndOf(b)' = EndOf(b)
        BY <1>2, <3>1 DEF Ticks
      <4>2. QED BY <1>1, <1>7, <3>1, <4>1 DEF BarsInv, TicksInv
    <3>2. CASE b = B + 1
      <4>1. Ticks(b)' = fBuffer /\ b - 1 = B /\ EndOf(b - 1)' = EndOf(B)
        BY <1>2, <3>2 DEF Ticks
      <4>2. EndOf(b)' = Len(fTimeOf) /\ Len(fTimeOf) \in Nat
        BY <1>2, <3>2 DEF BarsInv, BarsShape
      <4>3. QED BY <1>1, <1>7, <4>1, <4>2 DEF BarsInv, TicksInv, ClosesBar
    <3>3. QED BY <1>2, <2>1, <3>1, <3>2
  <2>2. EndOf(Len(fBars))' + Len(fBuffer)' = Len(fTimeOf)'
    <3>1. EndOf(Len(fBars))' = Len(fTimeOf) BY <1>2 DEF EndOf
    <3>2. Len(fTimeOf) \in Nat /\ Len(fBuffer)' = 0 BY <1>1 DEF BarsInv, BarsShape
    <3>3. QED BY <1>1, <3>1, <3>2
  <2>3. \A i \in 1 .. Len(fBuffer)' : FALSE
    BY <1>1
  <2>4. QED BY <2>1, <2>2, <2>3 DEF TicksInv
<1>5. PeriodsInv'
  <2>1. SUFFICES ASSUME Feed!InOrder' PROVE
          /\ \A b \in 1 .. Len(fBars)' : \A i \in 1 .. Len(Ticks(b))' :
               Feed!PeriodOf(fTimeOf[Ticks(b)[i]])' = fBars[b].period'
          /\ \A i \in 1 .. Len(fBuffer)' : FALSE
          /\ fFlushed'
    BY DEF PeriodsInv
  <2>2. Feed!InOrder
    BY <1>1, <2>1 DEF Feed!InOrder
  <2>3. ASSUME NEW b \in 1 .. Len(fBars)', NEW i \in 1 .. Len(Ticks(b))'
        PROVE  Feed!PeriodOf(fTimeOf[Ticks(b)[i]])' = fBars[b].period'
    <3>1. CASE b \in 1 .. B
      BY <1>1, <1>2, <1>7, <2>2, <2>3, <3>1 DEF BarsInv, PeriodsInv, Ticks, Feed!PeriodOf
    <3>2. CASE b = B + 1
      BY <1>1, <1>2, <2>2, <2>3, <3>2 DEF BarsInv, PeriodsInv, Ticks, Feed!PeriodOf
    <3>3. QED BY <1>2, <2>3, <3>1, <3>2
  <2>4. QED BY <1>1, <2>3
<1>6. QED BY <1>3, <1>4, <1>5 DEF BarsInv

(* A tick more: the ticks before it keep their place and their time.       *)
LEMMA TickAdded ==
  ASSUME BarsInv, NEW t \in Times, NEW n \in Nat, n = Len(fTimeOf),
         fTimeOf' = Append(fTimeOf, t), fLastTick' = t, n < MaxTicks
  PROVE  /\ fTimeOf' \in Seq(Times) /\ Len(fTimeOf') = n + 1 /\ Len(fTimeOf') <= MaxTicks
         /\ \A i \in 1 .. n : fTimeOf'[i] = fTimeOf[i]
         /\ fTimeOf'[n + 1] = t /\ fTimeOf' # << >>
         /\ t \in Nat /\ fLastTick \in Nat
         /\ Feed!InOrder' => Feed!InOrder /\ fLastTick <= t
<1>0. fTimeOf \in Seq(Times) /\ MaxTicks \in Nat /\ Times \subseteq Nat
  BY PlatformConstants DEF BarsInv, BarsShape
<1>1. /\ fTimeOf' \in Seq(Times) /\ Len(fTimeOf') = n + 1 /\ fTimeOf' # << >>
      /\ \A i \in 1 .. n : fTimeOf'[i] = fTimeOf[i]
      /\ fTimeOf'[n + 1] = t
  BY <1>0, AppendProperties
<1>2. n + 1 <= MaxTicks BY <1>0
<1>3. t \in Nat /\ fLastTick \in Nat BY <1>0 DEF BarsInv, BarsShape
<1>4. ASSUME Feed!InOrder' PROVE Feed!InOrder /\ fLastTick <= t
  <2>1. \A i, j \in 1 .. n + 1 : i < j => fTimeOf'[i] <= fTimeOf'[j]
    BY <1>1, <1>4 DEF Feed!InOrder
  <2>2. \A i \in 1 .. n : i \in 1 .. n + 1 /\ n + 1 \in 1 .. n + 1 /\ i < n + 1
    OBVIOUS
  <2>3. Feed!InOrder
    <3>1. \A i, j \in 1 .. n : i < j => fTimeOf[i] <= fTimeOf[j]
      BY <1>1, <2>1, <2>2
    <3>2. QED BY <3>1 DEF Feed!InOrder
  <2>4. fLastTick <= t
    <3>1. CASE n = 0
      <4>1. fTimeOf = << >> BY <1>0, <3>1, EmptySeq
      <4>2. QED BY <1>3, <4>1 DEF BarsInv, BarsShape
    <3>2. CASE n # 0
      <4>1. n \in 1 .. n /\ fTimeOf # << >> BY <3>2
      <4>2. fLastTick = fTimeOf[n] BY <4>1 DEF BarsInv, BarsShape
      <4>3. QED BY <1>1, <2>1, <2>2, <4>1, <4>2
    <3>3. QED BY <3>1, <3>2
  <2>5. QED BY <2>3, <2>4
<1>5. QED BY <1>1, <1>2, <1>3, <1>4

(* The numbers of the ticks in a bar, and of those that pend.              *)
LEMMA TickNumbers ==
  ASSUME BarsInv
  PROVE  /\ \A b \in 1 .. Len(fBars) : \A i \in 1 .. Len(Ticks(b)) :
              Ticks(b)[i] \in 1 .. Len(fTimeOf)
         /\ \A i \in 1 .. Len(fBuffer) : fBuffer[i] \in 1 .. Len(fTimeOf)
         /\ EndOf(Len(fBars)) \in Nat
<1>0. fBars \in Seq(Bar) /\ fBuffer \in Seq(Nat) /\ Len(fTimeOf) \in Nat
  BY DEF BarsInv, BarsShape
<1>1. ASSUME NEW b \in 1 .. Len(fBars)
      PROVE  /\ Ticks(b) \in Seq(Nat) /\ Len(Ticks(b)) \in Nat \ {0}
             /\ EndOf(b) = Ticks(b)[Len(Ticks(b))] /\ EndOf(b) \in Nat
  <2>1. fBars[b] \in Bar BY <1>0
  <2>2. Ticks(b) \in Seq(Nat) BY <2>1 DEF Ticks, Bar
  <2>3. Ticks(b) # << >> BY DEF BarsInv, TicksInv
  <2>4. Len(Ticks(b)) \in Nat \ {0} /\ Len(Ticks(b)) \in 1 .. Len(Ticks(b)) BY <2>2, <2>3
  <2>5. EndOf(b) = Ticks(b)[Len(Ticks(b))] BY DEF EndOf
  <2>6. QED BY <2>2, <2>4, <2>5
<1>2. \A b \in 0 .. Len(fBars) : EndOf(b) \in Nat
  <2>1. EndOf(0) \in Nat BY DEF EndOf
  <2>2. \A b \in 0 .. Len(fBars) : b # 0 => b \in 1 .. Len(fBars) OBVIOUS
  <2>3. QED BY <1>1, <2>1, <2>2
<1>3. ASSUME NEW b \in 1 .. Len(fBars), NEW i \in 1 .. Len(Ticks(b))
      PROVE  Ticks(b)[i] \in 1 .. Len(fTimeOf)
  <2>1. b - 1 \in 0 .. Len(fBars) BY <1>0
  <2>2. EndOf(b - 1) \in Nat BY <1>2, <2>1
  <2>3. Ticks(b)[i] = EndOf(b - 1) + i /\ EndOf(b) <= Len(fTimeOf)
    BY DEF BarsInv, TicksInv
  <2>4. EndOf(b) = EndOf(b - 1) + Len(Ticks(b))
    <3>1. Len(Ticks(b)) \in 1 .. Len(Ticks(b)) BY <1>1
    <3>2. QED BY <1>1, <3>1 DEF BarsInv, TicksInv
  <2>5. QED BY <1>0, <1>1, <2>2, <2>3, <2>4
<1>4. EndOf(Len(fBars)) \in Nat
  <2>1. Len(fBars) \in 0 .. Len(fBars) BY <1>0
  <2>2. QED BY <1>2, <2>1
<1>5. ASSUME NEW i \in 1 .. Len(fBuffer) PROVE fBuffer[i] \in 1 .. Len(fTimeOf)
  <2>1. /\ fBuffer[i] = EndOf(Len(fBars)) + i
        /\ EndOf(Len(fBars)) + Len(fBuffer) = Len(fTimeOf)
    BY DEF BarsInv, TicksInv
  <2>2. QED BY <1>0, <1>4, <2>1
<1>6. QED BY <1>3, <1>4, <1>5

LEMMA JoinHolds ==
  ASSUME BarsInv, NEW t \in Times, Feed!AddTick(t), fBars' = fBars,
         fBuffer' = Append(fBuffer, Len(fTimeOf) + 1),
         fBuffer # << >> => ~(fLastTick # 0 /\ Feed!PeriodOf(t) > Feed!PeriodOf(fLastTick))
  PROVE  BarsInv'
<1>1. PICK n \in Nat : n = Len(fTimeOf)
  BY DEF BarsInv, BarsShape
<1>2. /\ fTimeOf' = Append(fTimeOf, t) /\ fLastTick' = t /\ n < MaxTicks /\ fFlushed' = fFlushed
  BY <1>1 DEF Feed!AddTick
<1>3. /\ fTimeOf' \in Seq(Times) /\ Len(fTimeOf') = n + 1 /\ Len(fTimeOf') <= MaxTicks
      /\ \A i \in 1 .. n : fTimeOf'[i] = fTimeOf[i]
      /\ fTimeOf'[n + 1] = t /\ fTimeOf' # << >> /\ t \in Nat /\ fLastTick \in Nat
      /\ Feed!InOrder' => Feed!InOrder /\ fLastTick <= t
  BY <1>1, <1>2, TickAdded
<1>4. PICK w \in Nat : w = Len(fBuffer)
  BY DEF BarsInv, BarsShape
<1>5. /\ fBuffer' \in Seq(Nat) /\ Len(fBuffer') = w + 1 /\ fBuffer'[w + 1] = n + 1
      /\ \A i \in 1 .. w : fBuffer'[i] = fBuffer[i]
      /\ \A i \in 1 .. w + 1 : i \in 1 .. w \/ i = w + 1
  <2>1. fBuffer \in Seq(Nat) /\ n + 1 \in Nat BY DEF BarsInv, BarsShape
  <2>2. QED BY <1>1, <1>4, <2>1, AppendProperties
<1>6. PICK e \in Nat : e = EndOf(Len(fBars))
  BY TickNumbers
<1>7. e + w = n /\ EndOf(Len(fBars))' = e
  BY <1>1, <1>4, <1>6 DEF BarsInv, TicksInv, EndOf, Ticks
<1>8. BarsShape'
  BY <1>2, <1>3, <1>5 DEF BarsInv, BarsShape
<1>9. TicksInv'
  <2>1. ASSUME NEW b \in 1 .. Len(fBars')
        PROVE  /\ Ticks(b)' # << >>
               /\ \A i \in 1 .. Len(Ticks(b)') : Ticks(b)'[i] = EndOf(b - 1)' + i
               /\ EndOf(b)' <= Len(fTimeOf')
    <3>1. Ticks(b)' = Ticks(b) /\ EndOf(b)' = EndOf(b) /\ EndOf(b - 1)' = EndOf(b - 1)
      BY DEF Ticks, EndOf
    <3>2. EndOf(b) <= n /\ EndOf(b) \in Int
      <4>1. fBars[b] \in Bar /\ Ticks(b) # << >> BY <2>1 DEF BarsInv, BarsShape, TicksInv
      <4>2. Ticks(b) \in Seq(Nat) BY <4>1 DEF Bar, Ticks
      <4>3. Len(Ticks(b)) \in 1 .. Len(Ticks(b)) BY <4>1, <4>2
      <4>4. EndOf(b) \in Nat BY <4>2, <4>3 DEF EndOf
      <4>5. QED BY <1>1, <2>1, <4>4 DEF BarsInv, TicksInv
    <3>3. QED BY <1>3, <2>1, <3>1, <3>2 DEF BarsInv, TicksInv
  <2>2. \A i \in 1 .. Len(fBuffer') : fBuffer'[i] = e + i
    <3>1. \A i \in 1 .. w : fBuffer[i] = e + i
      BY <1>4, <1>6 DEF BarsInv, TicksInv
    <3>2. n + 1 = e + (w + 1) BY <1>7
    <3>3. QED BY <1>5, <3>1, <3>2
  <2>3. e + Len(fBuffer') = Len(fTimeOf')
    <3>1. e + (w + 1) = n + 1 BY <1>7
    <3>2. QED BY <1>3, <1>5, <3>1
  <2>4. QED BY <1>7, <2>1, <2>2, <2>3 DEF TicksInv
<1>10. PeriodsInv'
  <2>0. SUFFICES ASSUME Feed!InOrder' PROVE
          /\ \A b \in 1 .. Len(fBars') : \A i \in 1 .. Len(Ticks(b)') :
               Feed!PeriodOf(fTimeOf'[Ticks(b)'[i]]) = fBars'[b].period
          /\ \A i \in 1 .. Len(fBuffer') :
               Feed!PeriodOf(fTimeOf'[fBuffer'[i]]) = Feed!PeriodOf(fLastTick')
          /\ ~fFlushed' =>
               /\ \A b \in 2 .. Len(fBars') : fBars'[b - 1].period < fBars'[b].period
               /\ fBars' # << >> => fBars'[Len(fBars')].period < Feed!PeriodOf(fLastTick')
    BY DEF PeriodsInv, Feed!PeriodOf
  <2>1. Feed!InOrder /\ fLastTick <= t
    BY <1>3, <2>0
  <2>2. Feed!PeriodOf(fLastTick) <= Feed!PeriodOf(t) /\ Feed!PeriodOf(t) \in Nat
        /\ Feed!PeriodOf(fLastTick) \in Nat
    BY <1>3, <2>1, PeriodsGrow
  <2>3. ASSUME NEW b \in 1 .. Len(fBars'), NEW i \in 1 .. Len(Ticks(b)')
        PROVE  Feed!PeriodOf(fTimeOf'[Ticks(b)'[i]]) = fBars'[b].period
    <3>1. Ticks(b)' = Ticks(b) /\ Ticks(b)[i] \in 1 .. n
      BY <1>1, <2>3, TickNumbers DEF Ticks
    <3>2. fTimeOf'[Ticks(b)[i]] = fTimeOf[Ticks(b)[i]] BY <1>3, <3>1
    <3>3. QED BY <2>1, <2>3, <3>1, <3>2 DEF BarsInv, PeriodsInv
  <2>4. fBuffer # << >> => Feed!PeriodOf(t) = Feed!PeriodOf(fLastTick)
    <3>1. SUFFICES ASSUME fBuffer # << >>, fLastTick = 0 PROVE FALSE
      BY <2>2, <3>1
    <3>2. w > 0 BY <1>4, <3>1 DEF BarsInv, BarsShape
    <3>3. n > 0 BY <1>7, <3>2
    <3>4. fTimeOf # << >> /\ n \in 1 .. n BY <1>1, <3>3
    <3>5. fTimeOf[n] \in Times /\ fLastTick = fTimeOf[n] BY <1>1, <3>4 DEF BarsInv, BarsShape
    <3>6. QED BY <3>1, <3>5, PlatformConstants
  <2>5. ASSUME NEW i \in 1 .. Len(fBuffer')
        PROVE  Feed!PeriodOf(fTimeOf'[fBuffer'[i]]) = Feed!PeriodOf(fLastTick')
    <3>1. CASE i \in 1 .. w
      <4>1. fBuffer'[i] = fBuffer[i] /\ fBuffer[i] \in 1 .. n
        BY <1>1, <1>4, <1>5, <3>1, TickNumbers
      <4>2. fTimeOf'[fBuffer'[i]] = fTimeOf[fBuffer[i]] BY <1>3, <4>1
      <4>3. Feed!PeriodOf(fTimeOf[fBuffer[i]]) = Feed!PeriodOf(fLastTick)
        BY <1>4, <2>1, <3>1 DEF BarsInv, PeriodsInv
      <4>4. fBuffer # << >> BY <1>4, <3>1
      <4>5. QED BY <1>2, <2>4, <4>2, <4>3, <4>4
    <3>2. CASE i = w + 1 BY <1>2, <1>3, <1>5, <3>2
    <3>3. QED BY <1>5, <2>5, <3>1, <3>2
  <2>6. ASSUME ~fFlushed'
        PROVE  /\ \A b \in 2 .. Len(fBars') : fBars'[b - 1].period < fBars'[b].period
               /\ fBars' # << >> => fBars'[Len(fBars')].period < Feed!PeriodOf(fLastTick')
    <3>1. /\ \A b \in 2 .. Len(fBars) : fBars[b - 1].period < fBars[b].period
          /\ fBars # << >> => fBars[Len(fBars)].period < Feed!PeriodOf(fLastTick)
      BY <1>2, <2>1, <2>6 DEF BarsInv, PeriodsInv
    <3>2. fBars # << >> => fBars[Len(fBars)].period \in Int
      <4>1. fBars # << >> => fBars[Len(fBars)] \in Bar BY DEF BarsInv, BarsShape
      <4>2. QED BY <4>1 DEF Bar
    <3>3. QED BY <1>2, <2>2, <3>1, <3>2
  <2>7. QED BY <2>3, <2>5, <2>6
<1>11. QED BY <1>8, <1>9, <1>10 DEF BarsInv

(* The first tick of a later period closes the bar and is pending alone.   *)
LEMMA CloseHolds ==
  ASSUME BarsInv, NEW t \in Times, Feed!AddTick(t), ClosesBar,
         fBuffer' = << Len(fTimeOf) + 1 >>,
         Feed!PeriodOf(t) > Feed!PeriodOf(fLastTick)
  PROVE  BarsInv'
<1>1. PICK n \in Nat : n = Len(fTimeOf)
  BY DEF BarsInv, BarsShape
<1>2. /\ fTimeOf' = Append(fTimeOf, t) /\ fLastTick' = t /\ n < MaxTicks /\ fFlushed' = fFlushed
  BY <1>1 DEF Feed!AddTick
<1>3. /\ fTimeOf' \in Seq(Times) /\ Len(fTimeOf') = n + 1 /\ Len(fTimeOf') <= MaxTicks
      /\ \A i \in 1 .. n : fTimeOf'[i] = fTimeOf[i]
      /\ fTimeOf'[n + 1] = t /\ fTimeOf' # << >> /\ t \in Nat /\ fLastTick \in Nat
      /\ Feed!InOrder' => Feed!InOrder /\ fLastTick <= t
  BY <1>1, <1>2, TickAdded
<1>4. PICK B \in Nat : B = Len(fBars)
  BY DEF BarsInv, BarsShape
<1>5. /\ fBars' \in Seq(Bar) /\ Len(fBars') = B + 1
      /\ \A b \in 1 .. B : fBars'[b] = fBars[b]
      /\ fBars'[B + 1].period = Feed!PeriodOf(fLastTick) /\ fBars'[B + 1].ticks = fBuffer
      /\ \A b \in 1 .. Len(fBars') : b \in 1 .. B \/ b = B + 1
      /\ \A b \in 0 .. B : EndOf(b)' = EndOf(b)
      /\ EndOf(B + 1)' = n /\ fBars' # << >>
  BY <1>1, <1>4, BarCloses
<1>6. /\ fBuffer' \in Seq(Nat) /\ Len(fBuffer') = 1 /\ fBuffer'[1] = n + 1
      /\ \A i \in 1 .. Len(fBuffer') : i = 1
  BY <1>1
<1>7. BarsShape'
  BY <1>2, <1>3, <1>5, <1>6 DEF BarsInv, BarsShape
<1>8. TicksInv'
  <2>1. ASSUME NEW b \in 1 .. Len(fBars')
        PROVE  /\ Ticks(b)' # << >>
               /\ \A i \in 1 .. Len(Ticks(b)') : Ticks(b)'[i] = EndOf(b - 1)' + i
               /\ EndOf(b)' <= Len(fTimeOf')
    <3>1. CASE b \in 1 .. B
      <4>1. Ticks(b)' = Ticks(b) /\ EndOf(b - 1)' = EndOf(b - 1) /\ EndOf(b)' = EndOf(b)
        BY <1>5, <3>1 DEF Ticks
      <4>2. EndOf(b) <= n /\ EndOf(b) \in Int
        <5>1. fBars[b] \in Bar /\ Ticks(b) # << >>
          BY <1>4, <3>1 DEF BarsInv, BarsShape, TicksInv
        <5>2. Ticks(b) \in Seq(Nat) BY <5>1 DEF Bar, Ticks
        <5>3. Len(Ticks(b)) \in 1 .. Len(Ticks(b)) BY <5>1, <5>2
        <5>4. EndOf(b) \in Nat BY <3>1, <5>2, <5>3 DEF EndOf
        <5>5. QED BY <1>1, <1>4, <3>1, <5>4 DEF BarsInv, TicksInv
      <4>3. QED BY <1>3, <1>4, <3>1, <4>1, <4>2 DEF BarsInv, TicksInv
    <3>2. CASE b = B + 1
      <4>1. Ticks(b)' = fBuffer /\ b - 1 = B /\ EndOf(b - 1)' = EndOf(B) /\ EndOf(b)' = n
        BY <1>5, <3>2 DEF Ticks
      <4>2. QED BY <1>3, <1>4, <4>1 DEF BarsInv, TicksInv, ClosesBar
    <3>3. QED BY <1>5, <2>1, <3>1, <3>2
  <2>2. EndOf(Len(fBars))' = n
    <3>1. EndOf(Len(fBars))' = EndOf(B + 1)' BY <1>5 DEF EndOf
    <3>2. QED BY <1>5, <3>1
  <2>3. \A i \in 1 .. Len(fBuffer') : fBuffer'[i] = n + i
    BY <1>6
  <2>4. QED BY <1>3, <1>6, <2>1, <2>2, <2>3 DEF TicksInv
<1>9. PeriodsInv'
  <2>0. SUFFICES ASSUME Feed!InOrder' PROVE
          /\ \A b \in 1 .. Len(fBars') : \A i \in 1 .. Len(Ticks(b)') :
               Feed!PeriodOf(fTimeOf'[Ticks(b)'[i]]) = fBars'[b].period
          /\ \A i \in 1 .. Len(fBuffer') :
               Feed!PeriodOf(fTimeOf'[fBuffer'[i]]) = Feed!PeriodOf(fLastTick')
          /\ ~fFlushed' =>
               /\ \A b \in 2 .. Len(fBars') : fBars'[b - 1].period < fBars'[b].period
               /\ fBars' # << >> => fBars'[Len(fBars')].period < Feed!PeriodOf(fLastTick')
    BY DEF PeriodsInv, Feed!PeriodOf
  <2>1. Feed!InOrder
    BY <1>3, <2>0
  <2>2. ASSUME NEW b \in 1 .. Len(fBars'), NEW i \in 1 .. Len(Ticks(b)')
        PROVE  Feed!PeriodOf(fTimeOf'[Ticks(b)'[i]]) = fBars'[b].period
    <3>1. CASE b \in 1 .. B
      <4>1. Ticks(b)' = Ticks(b) /\ fBars'[b] = fBars[b] BY <1>5, <3>1 DEF Ticks
      <4>2. Ticks(b)[i] \in 1 .. n BY <1>1, <1>4, <2>2, <3>1, <4>1, TickNumbers
      <4>3. fTimeOf'[Ticks(b)[i]] = fTimeOf[Ticks(b)[i]] BY <1>3, <4>2
      <4>4. QED BY <1>4, <2>1, <2>2, <3>1, <4>1, <4>3 DEF BarsInv, PeriodsInv
    <3>2. CASE b = B + 1
      <4>1. Ticks(b)' = fBuffer /\ fBars'[b].period = Feed!PeriodOf(fLastTick)
        BY <1>5, <3>2 DEF Ticks
      <4>2. fBuffer[i] \in 1 .. n BY <1>1, <2>2, <4>1, TickNumbers
      <4>3. fTimeOf'[fBuffer[i]] = fTimeOf[fBuffer[i]] BY <1>3, <4>2
      <4>4. QED BY <2>1, <2>2, <4>1, <4>3 DEF BarsInv, PeriodsInv
    <3>3. QED BY <1>5, <2>2, <3>1, <3>2
  <2>3. \A i \in 1 .. Len(fBuffer') :
          Feed!PeriodOf(fTimeOf'[fBuffer'[i]]) = Feed!PeriodOf(fLastTick')
    BY <1>2, <1>3, <1>6
  <2>4. fBars'[Len(fBars')].period < Feed!PeriodOf(fLastTick')
    BY <1>2, <1>5
  <2>5. ASSUME ~fFlushed', NEW b \in 2 .. Len(fBars')
        PROVE  fBars'[b - 1].period < fBars'[b].period
    <3>1. /\ \A k \in 2 .. B : fBars[k - 1].period < fBars[k].period
          /\ fBars # << >> => fBars[B].period < Feed!PeriodOf(fLastTick)
      BY <1>2, <1>4, <2>1, <2>5 DEF BarsInv, PeriodsInv
    <3>2. CASE b \in 1 .. B
      <4>1. b \in 2 .. B /\ b - 1 \in 1 .. B BY <3>2, <2>5
      <4>2. fBars'[b] = fBars[b] /\ fBars'[b - 1] = fBars[b - 1] BY <1>5, <3>2, <4>1
      <4>3. QED BY <3>1, <4>1, <4>2
    <3>3. CASE b = B + 1
      <4>1. b - 1 = B /\ B \in 1 .. B BY <3>3, <2>5
      <4>2. fBars # << >> BY <1>4, <4>1
      <4>3. QED BY <1>5, <3>1, <3>3, <4>1, <4>2
    <3>4. QED BY <1>5, <2>5, <3>2, <3>3
  <2>6. QED BY <2>2, <2>3, <2>4, <2>5
<1>10. QED BY <1>7, <1>8, <1>9 DEF BarsInv

LEMMA BarsStepHolds == ASSUME BarsInv, [Feed!NextBars]_barsVars PROVE BarsInv'
<1>1. CASE UNCHANGED barsVars
  <2>1. BarsShape' BY <1>1 DEF barsVars, BarsInv, BarsShape
  <2>2. TicksInv' BY <1>1 DEF barsVars, BarsInv, TicksInv, EndOf, Ticks
  <2>3. PeriodsInv'
    BY <1>1 DEF barsVars, BarsInv, PeriodsInv, Ticks, Feed!InOrder, Feed!PeriodOf
  <2>4. QED BY <2>1, <2>2, <2>3 DEF BarsInv
<1>2. CASE Feed!Flush BY <1>2, FlushHolds
<1>3. ASSUME NEW t \in Times, Feed!AddTick(t)
      PROVE  BarsInv'
  <2>1. CASE /\ fLastTick # 0 /\ Feed!PeriodOf(t) > Feed!PeriodOf(fLastTick)
             /\ fBuffer # << >>
    BY <1>3, <2>1, CloseHolds DEF Feed!AddTick, ClosesBar
  <2>2. CASE ~(/\ fLastTick # 0 /\ Feed!PeriodOf(t) > Feed!PeriodOf(fLastTick)
               /\ fBuffer # << >>)
    BY <1>3, <2>2, JoinHolds DEF Feed!AddTick
  <2>3. QED BY <2>1, <2>2
<1>4. QED BY <1>1, <1>2, <1>3 DEF Feed!NextBars

-----------------------------------------------------------------------------
(* The feed's cache.                                                       *)
CacheInv ==
  /\ DOMAIN fStored \subseteq CacheKeys /\ fClock \in 0 .. MaxTime
  /\ IsFiniteSet(DOMAIN fStored) /\ Cardinality(DOMAIN fStored) <= CacheSize

LEMMA FeedCardinality == \A S : Feed!Cardinality(S) = Cardinality(S)
  BY DEF Feed!Cardinality, Cardinality

LEMMA CacheStaysBounded == ASSUME CacheInv PROVE Feed!CacheIsBounded
BY FeedCardinality DEF CacheInv, Feed!CacheIsBounded

LEMMA CacheInitHolds == ASSUME Feed!Init PROVE CacheInv
<1>1. DOMAIN fStored = {} /\ fClock = 0 BY DEF Feed!Init
<1>2. Cardinality({}) = 0 /\ IsFiniteSet({}) BY FS_EmptySet
<1>3. 0 \in 0 .. MaxTime /\ 0 <= CacheSize BY PlatformConstants
<1>4. QED BY <1>1, <1>2, <1>3 DEF CacheInv

(* Keys that are removed make the cache no larger.                         *)
LEMMA FewerKeys ==
  ASSUME CacheInv, NEW gone, DOMAIN fStored' = DOMAIN fStored \ gone, fClock' = fClock
  PROVE  CacheInv'
<1>1. DOMAIN fStored' \subseteq DOMAIN fStored BY Zenon
<1>2. /\ IsFiniteSet(DOMAIN fStored') /\ Cardinality(DOMAIN fStored') \in Nat
      /\ Cardinality(DOMAIN fStored) \in Nat
      /\ Cardinality(DOMAIN fStored') <= Cardinality(DOMAIN fStored)
  BY <1>1, FS_Subset, FS_CardinalityType DEF CacheInv
<1>3. CacheSize \in Nat BY PlatformConstants
<1>4. QED BY <1>1, <1>2, <1>3 DEF CacheInv

LEMMA SetHolds == ASSUME CacheInv, NEW k \in CacheKeys, Feed!Set(k) PROVE CacheInv'
<1> DEFINE keys == DOMAIN fStored
<1>0. /\ CacheSize \in Nat /\ IsFiniteSet(keys) /\ Cardinality(keys) \in Nat
      /\ Cardinality(keys) <= CacheSize /\ keys \subseteq CacheKeys
  BY PlatformConstants, FS_CardinalityType DEF CacheInv
<1>1. PICK oldest \in IF Feed!Evicts(k) THEN keys ELSE {k} :
        fStored' = [o \in (keys \ {oldest}) \union {k} |-> IF o = k THEN fClock ELSE fStored[o]]
  BY DEF Feed!Set
<1>2. DOMAIN fStored' = (keys \ {oldest}) \union {k} /\ fClock' = fClock
  BY <1>1 DEF Feed!Set
<1> DEFINE kept == keys \ {oldest}
<1> HIDE DEF keys
<1>3. IsFiniteSet(kept)
  BY <1>0, FS_RemoveElement
<1>4. CASE Feed!Evicts(k)
  <2>1. Cardinality(kept) = Cardinality(keys) - 1
    BY <1>0, <1>1, <1>4, FS_RemoveElement
  <2>2. k \notin kept
    BY <1>4 DEF Feed!Evicts, keys
  <2>3. Cardinality(kept \union {k}) = Cardinality(kept) + 1 /\ IsFiniteSet(kept \union {k})
    BY <1>3, <2>2, FS_AddElement
  <2>4. Cardinality(kept \union {k}) <= CacheSize
    BY <1>0, <2>1, <2>3
  <2>5. QED BY <1>0, <1>2, <2>3, <2>4 DEF CacheInv
<1>5. CASE ~Feed!Evicts(k)
  <2>1. kept \union {k} = keys \union {k}
    BY <1>1, <1>5
  <2>2. /\ IsFiniteSet(keys \union {k})
        /\ Cardinality(keys \union {k}) =
             IF k \in keys THEN Cardinality(keys) ELSE Cardinality(keys) + 1
    BY <1>0, FS_AddElement
  <2>3. k \notin keys => Cardinality(keys) < CacheSize
    BY <1>0, <1>5, FeedCardinality DEF Feed!Evicts, keys
  <2>4. Cardinality(keys \union {k}) <= CacheSize
    BY <1>0, <2>2, <2>3
  <2>5. QED BY <1>0, <1>2, <2>1, <2>2, <2>4 DEF CacheInv
<1>6. QED BY <1>4, <1>5

LEMMA CacheStepHolds == ASSUME CacheInv, [Feed!NextCache]_cacheVars PROVE CacheInv'
<1>1. CASE UNCHANGED cacheVars
  BY <1>1 DEF cacheVars, CacheInv
<1>2. ASSUME NEW k \in CacheKeys, Feed!Get(k) PROVE CacheInv'
  <2>1. DOMAIN fStored' = DOMAIN fStored \ {k} /\ fClock' = fClock BY <1>2 DEF Feed!Get
  <2>2. QED BY <2>1, FewerKeys
<1>3. ASSUME NEW gone, Feed!Clear(gone) PROVE CacheInv'
  <2>1. DOMAIN fStored' = DOMAIN fStored \ gone /\ fClock' = fClock BY <1>3 DEF Feed!Clear
  <2>2. QED BY <2>1, FewerKeys
<1>4. CASE Feed!ClockTicks
  <2>1. fStored' = fStored /\ fClock' \in 0 .. MaxTime
    BY <1>4, PlatformConstants DEF CacheInv, Feed!ClockTicks
  <2>2. QED BY <2>1 DEF CacheInv
<1>5. QED BY <1>1, <1>2, <1>3, <1>4, SetHolds DEF Feed!NextCache

-----------------------------------------------------------------------------
(* Indicators.                                                             *)

IndicatorEntry == [name : Names, hash : {SeriesHash[d] : d \in Series}, first : 1 .. Ind!Behind,
                   of : Series]

RegistryInv ==
  /\ DOMAIN iSpecs \subseteq Names
  /\ \A n \in DOMAIN iSpecs : iSpecs[n] \in Categories
  /\ iByCategory \in [Categories -> Seq(Names)]
  /\ \A c \in Categories : Len(iByCategory[c]) <= MaxListed
  /\ \A n \in DOMAIN iSpecs : Ind!IsListed(n, iSpecs[n])

(* Cached results lack their warmup, are the series' of their hash, and    *)
(* have a key of their own.                                                *)
ResultsInv ==
  /\ iResults \in Seq(IndicatorEntry) /\ Len(iResults) <= CacheSize
  /\ \A i \in 1 .. Len(iResults) : iResults[i].hash = SeriesHash[iResults[i].of]
  /\ \A i, j \in 1 .. Len(iResults) :
       iResults[i].name = iResults[j].name /\ iResults[i].hash = iResults[j].hash => i = j

AnswerInv ==
  /\ iAnswer.first \in 0 .. Ind!Behind
  /\ iAnswer # Ind!NoAnswer =>
       /\ iAnswer.first > Ind!Least(iAnswer.warmup, Length)
       /\ SeriesHash[iAnswer.data] = SeriesHash[iAnswer.of]

IndicatorsInv == RegistryInv /\ ResultsInv /\ AnswerInv

LEMMA LengthsAreNumbers ==
  /\ Length \in Nat \ {0} /\ CacheSize \in Nat \ {0} /\ MaxListed \in Nat
  /\ \A w \in Warmups : w \in Nat
  BY PlatformConstants

LEMMA IndicatorsTyped == ASSUME IndicatorsInv PROVE Ind!TypeOK /\ Ind!LookupsAreSound
<1>1. \A i \in 1 .. Len(iResults) : iResults[i] \in IndicatorEntry
  BY DEF IndicatorsInv, ResultsInv
<1>2. \A i \in 1 .. Len(iResults) : iResults[i].first \in 1 .. Ind!Behind
  BY <1>1 DEF IndicatorEntry
<1>3. Ind!TypeOK
  BY <1>2 DEF IndicatorsInv, RegistryInv, ResultsInv, AnswerInv, Ind!TypeOK
<1>4. Ind!LookupsAreSound
  BY DEF IndicatorsInv, RegistryInv, ResultsInv, AnswerInv, Ind!LookupsAreSound
<1>5. QED BY <1>3, <1>4

LEMMA NoAnswerYet == iAnswer = Ind!NoAnswer => AnswerInv
<1>1. 0 \in 0 .. Length + 1
  BY LengthsAreNumbers
<1>2. QED BY <1>1 DEF AnswerInv, Ind!NoAnswer, Ind!Behind

LEMMA NoAnswerAfter == iAnswer' = Ind!NoAnswer => AnswerInv'
<1>1. 0 \in 0 .. Length + 1
  BY LengthsAreNumbers
<1>2. QED BY <1>1 DEF AnswerInv, Ind!NoAnswer, Ind!Behind

LEMMA IndicatorsInitHolds == ASSUME Ind!Init PROVE IndicatorsInv
<1>1. iSpecs = [n \in {} |-> 0] /\ iByCategory = [c \in Categories |-> << >>] /\ iResults = << >>
      /\ iAnswer = Ind!NoAnswer
  BY DEF Ind!Init
<1>2. Len(<< >>) = 0 /\ << >> \in Seq(Names) /\ << >> \in Seq(IndicatorEntry)
  OBVIOUS
<1>3. RegistryInv
  BY <1>1, <1>2, LengthsAreNumbers DEF RegistryInv
<1>4. ResultsInv
  BY <1>1, <1>2, LengthsAreNumbers DEF ResultsInv
<1>5. AnswerInv
  BY <1>1, NoAnswerYet
<1>6. QED BY <1>3, <1>4, <1>5 DEF IndicatorsInv

LEMMA RegisterHolds ==
  ASSUME IndicatorsInv, NEW n \in Names, NEW c \in Categories, Ind!Register(n, c)
  PROVE  IndicatorsInv'
<1>1. /\ Len(iByCategory[c]) < MaxListed
      /\ iSpecs' = [o \in DOMAIN iSpecs \union {n} |-> IF o = n THEN c ELSE iSpecs[o]]
      /\ iByCategory' = [iByCategory EXCEPT ![c] = Append(@, n)]
      /\ iAnswer' = Ind!NoAnswer /\ iResults' = iResults
  BY DEF Ind!Register
<1>2. RegistryInv
  BY DEF IndicatorsInv
<1>3. PICK list \in Seq(Names) : list = iByCategory[c]
  BY <1>2 DEF RegistryInv
<1>4. PICK longer \in Seq(Names) : longer = Append(list, n)
  BY <1>3, AppendProperties
<1>5. /\ Len(list) \in Nat /\ Len(longer) = Len(list) + 1 /\ longer[Len(list) + 1] = n
      /\ \A i \in 1 .. Len(list) : longer[i] = list[i]
  BY <1>3, <1>4, AppendProperties
<1>6. iByCategory' = [iByCategory EXCEPT ![c] = longer]
  BY <1>1, <1>3, <1>4
<1>7. RegistryInv'
  <2>1. DOMAIN iSpecs' \subseteq Names /\ \A o \in DOMAIN iSpecs' : iSpecs'[o] \in Categories
    BY <1>1, <1>2 DEF RegistryInv
  <2>2. iByCategory' \in [Categories -> Seq(Names)]
    BY <1>2, <1>6 DEF RegistryInv
  <2>3. \A d \in Categories : Len(iByCategory'[d]) <= MaxListed
    <3>1. TAKE d \in Categories
    <3>2. CASE d = c
      BY <1>1, <1>2, <1>3, <1>5, <1>6, <3>2, LengthsAreNumbers DEF RegistryInv
    <3>3. CASE d # c BY <1>2, <1>6, <3>3 DEF RegistryInv
    <3>4. QED BY <3>2, <3>3
  <2>4. ASSUME NEW o \in DOMAIN iSpecs'
        PROVE  \E i \in 1 .. Len(iByCategory'[iSpecs'[o]]) : iByCategory'[iSpecs'[o]][i] = o
    <3>1. CASE o = n
      <4>1. iSpecs'[o] = c /\ iByCategory'[c] = longer
        BY <1>1, <1>2, <1>6, <3>1 DEF RegistryInv
      <4>2. Len(list) + 1 \in 1 .. Len(longer) BY <1>5
      <4>3. QED BY <1>5, <3>1, <4>1, <4>2
    <3>2. CASE o # n
      <4>1. o \in DOMAIN iSpecs /\ iSpecs'[o] = iSpecs[o] /\ iSpecs[o] \in Categories
        BY <1>1, <1>2, <3>2 DEF RegistryInv
      <4>2. PICK i \in 1 .. Len(iByCategory[iSpecs[o]]) : iByCategory[iSpecs[o]][i] = o
        BY <1>2, <4>1 DEF RegistryInv, Ind!IsListed
      <4>3. CASE iSpecs[o] = c
        <5>1. i \in 1 .. Len(list) /\ i \in 1 .. Len(longer) /\ longer[i] = o
          BY <1>3, <1>5, <4>2, <4>3
        <5>2. iByCategory'[c] = longer BY <1>2, <1>6 DEF RegistryInv
        <5>3. QED BY <4>1, <4>3, <5>1, <5>2
      <4>4. CASE iSpecs[o] # c
        <5>1. iByCategory'[iSpecs[o]] = iByCategory[iSpecs[o]]
          BY <1>2, <1>6, <4>1, <4>4 DEF RegistryInv
        <5>2. QED BY <4>1, <4>2, <5>1
      <4>5. QED BY <4>3, <4>4
    <3>3. QED BY <3>1, <3>2
  <2>5. QED BY <2>1, <2>2, <2>3, <2>4 DEF RegistryInv, Ind!IsListed
<1>8. ResultsInv'
  BY <1>1 DEF IndicatorsInv, ResultsInv
<1>9. AnswerInv'
  BY <1>1, NoAnswerAfter
<1>10. QED BY <1>7, <1>8, <1>9 DEF IndicatorsInv

(* list.remove keeps every other name in the list.                         *)
LEMMA RemoveFirstKeeps ==
  ASSUME NEW list \in Seq(Names), NEW n
  PROVE  /\ Ind!RemoveFirst(list, n) \in Seq(Names)
         /\ Len(Ind!RemoveFirst(list, n)) <= Len(list)
         /\ \A o : o # n /\ (\E i \in 1 .. Len(list) : list[i] = o) =>
              \E i \in 1 .. Len(Ind!RemoveFirst(list, n)) : Ind!RemoveFirst(list, n)[i] = o
<1>1. PICK c \in Nat : c = Len(list)
  OBVIOUS
<1>2. CASE \A i \in 1 .. Len(list) : list[i] # n
  BY <1>1, <1>2 DEF Ind!RemoveFirst
<1>3. CASE \E i \in 1 .. Len(list) : list[i] = n
  <2> DEFINE Places == {i \in 1 .. c : list[i] = n}
             First1(i) == i \in 1 .. Len(list) /\ list[i] = n /\ \A j \in 1 .. (i - 1) : list[j] # n
             at == CHOOSE i \in 1 .. Len(list) : list[i] = n /\ \A j \in 1 .. (i - 1) : list[j] # n
  <2>1. \E i : First1(i)
    <3>1. Places \in SUBSET Nat /\ Places # {} BY <1>1, <1>3
    <3>2. PICK x \in Places : \A y \in Nat : <<y, x>> \in Less => y \notin Places
      <4> HIDE DEF Places
      <4>1. PICK x \in Places : \A y \in Places : <<y, x>> \notin Less
        BY <3>1, LessWellFounded, WFMin
      <4>2. QED BY <4>1
    <3>3. \A j \in 1 .. (x - 1) : j \in Nat /\ j \in 1 .. c /\ <<j, x>> \in Less
      BY <1>1, <3>2 DEF Less
    <3>4. \A j \in 1 .. (x - 1) : list[j] # n
      BY <3>2, <3>3
    <3>5. QED BY <1>1, <3>2, <3>4
  <2>2. at \in 1 .. c /\ list[at] = n
    BY <1>1, <2>1
  <2>3. Ind!RemoveFirst(list, n) = SubSeq(list, 1, at - 1) \o SubSeq(list, at + 1, Len(list))
    BY <1>3 DEF Ind!RemoveFirst
  <2> HIDE DEF at, First1, Places
  <2>4. PICK k \in 1 .. c : k = at
    BY <2>2
  <2> DEFINE u == SubSeq(list, 1, k - 1)
             v == SubSeq(list, k + 1, c)
             w == u \o v
  <2>5. u \in Seq(Names) /\ Len(u) = k - 1 /\ \A i \in 1 .. k - 1 : u[i] = list[i]
    <3>1. k - 1 \in Nat /\ k - 1 <= c /\ 1 \in Nat /\ \A i \in 1 .. k - 1 : i \in 1 .. c
      BY <1>1
    <3>2. u \in Seq(Names) BY <1>1, <3>1
    <3>3. Len(u) = k - 1 BY <1>1, <3>1
    <3>4. \A i \in 1 .. k - 1 : u[i] = list[i] BY <1>1, <3>1
    <3>5. QED BY <3>2, <3>3, <3>4
  <2>6. v \in Seq(Names) /\ Len(v) = c - k /\ \A i \in 1 .. c - k : v[i] = list[k + i]
    <3>1. \A i \in 1 .. c - k : k + i \in 1 .. c /\ (k + 1) + i - 1 = k + i
      BY <1>1
    <3>2. c - k \in Nat /\ c - (k + 1) + 1 = c - k
      BY <1>1
    <3>3. v \in Seq(Names) BY <1>1
    <3>4. Len(v) = c - k BY <1>1, <3>2
    <3>5. \A i \in 1 .. c - k : v[i] = list[k + i] BY <1>1, <3>1, <3>2
    <3>6. QED BY <3>3, <3>4, <3>5
  <2> HIDE DEF u, v
  <2>7. /\ w \in Seq(Names) /\ Len(w) = c - 1
        /\ \A i \in 1 .. k - 1 : w[i] = list[i]
        /\ \A i \in 1 .. c - k : w[(k - 1) + i] = list[k + i]
    <3>1. Len(w) = Len(u) + Len(v) /\ w \in Seq(Names)
      BY <2>5, <2>6, ConcatProperties
    <3>2. \A i \in 1 .. Len(u) : w[i] = u[i]
      BY <2>5, <2>6, ConcatProperties
    <3>3. \A i \in 1 .. Len(v) : w[Len(u) + i] = v[i]
      <4>1. TAKE i \in 1 .. Len(v)
      <4>2. Len(u) + i \in Len(u) + 1 .. Len(u) + Len(v) /\ Len(u) + i - Len(u) = i
        BY <1>1, <2>5, <2>6
      <4>3. QED BY <2>5, <2>6, <4>2, ConcatProperties
    <3>4. (k - 1) + (c - k) = c - 1 BY <1>1
    <3>5. QED BY <2>5, <2>6, <3>1, <3>2, <3>3, <3>4
  <2>8. ASSUME NEW o, o # n, NEW i \in 1 .. c, list[i] = o
        PROVE  \E j \in 1 .. Len(w) : w[j] = o
    <3>1. i # k BY <2>2, <2>4, <2>8
    <3>2. CASE i < k
      <4>1. i \in 1 .. k - 1 /\ i \in 1 .. c - 1 BY <1>1, <3>2
      <4>2. QED BY <2>7, <2>8, <4>1
    <3>3. CASE i > k
      <4>1. i - k \in 1 .. c - k /\ k + (i - k) = i /\ (k - 1) + (i - k) \in 1 .. c - 1
        BY <1>1, <3>3
      <4>2. QED BY <2>7, <2>8, <4>1
    <3>4. QED BY <1>1, <3>1, <3>2, <3>3
  <2>9. Ind!RemoveFirst(list, n) = w
    BY <1>1, <2>3, <2>4 DEF u, v
  <2>10. c - 1 <= c BY <1>1
  <2> HIDE DEF w
  <2>11. QED BY <1>1, <2>7, <2>8, <2>9, <2>10
<1>4. QED BY <1>2, <1>3

LEMMA UnregisterHolds ==
  ASSUME IndicatorsInv, NEW n \in Names, Ind!Unregister(n)
  PROVE  IndicatorsInv'
<1>1. PICK c \in Categories : c = iSpecs[n]
  BY DEF Ind!Unregister, IndicatorsInv, RegistryInv
<1>2. RegistryInv
  BY DEF IndicatorsInv
<1>3. PICK list \in Seq(Names) : list = iByCategory[c]
  BY <1>2 DEF RegistryInv
<1>4. PICK shorter : shorter = Ind!RemoveFirst(list, n)
  OBVIOUS
<1>5. /\ shorter \in Seq(Names) /\ Len(shorter) <= Len(list)
      /\ \A o : o # n /\ (\E i \in 1 .. Len(list) : list[i] = o) =>
           \E i \in 1 .. Len(shorter) : shorter[i] = o
  BY <1>4, RemoveFirstKeeps
<1>6. /\ iSpecs' = [o \in DOMAIN iSpecs \ {n} |-> iSpecs[o]]
      /\ iByCategory' = [iByCategory EXCEPT ![c] = shorter]
      /\ iAnswer' = Ind!NoAnswer /\ iResults' = iResults
  BY <1>1, <1>3, <1>4 DEF Ind!Unregister
<1>7. RegistryInv'
  <2>1. DOMAIN iSpecs' \subseteq Names /\ \A o \in DOMAIN iSpecs' : iSpecs'[o] \in Categories
    BY <1>2, <1>6 DEF RegistryInv
  <2>2. iByCategory' \in [Categories -> Seq(Names)]
    BY <1>2, <1>5, <1>6 DEF RegistryInv
  <2>3. \A d \in Categories : Len(iByCategory'[d]) <= MaxListed
    <3>1. TAKE d \in Categories
    <3>2. CASE d = c
      <4>1. iByCategory'[d] = shorter /\ Len(list) <= MaxListed
        BY <1>2, <1>3, <1>6, <3>2 DEF RegistryInv
      <4>2. Len(shorter) \in Nat /\ Len(list) \in Nat BY <1>3, <1>5
      <4>3. QED BY <1>5, <4>1, <4>2, LengthsAreNumbers
    <3>3. CASE d # c BY <1>2, <1>6, <3>3 DEF RegistryInv
    <3>4. QED BY <3>2, <3>3
  <2>4. ASSUME NEW o \in DOMAIN iSpecs'
        PROVE  \E i \in 1 .. Len(iByCategory'[iSpecs'[o]]) : iByCategory'[iSpecs'[o]][i] = o
    <3>1. o \in DOMAIN iSpecs /\ o # n /\ iSpecs'[o] = iSpecs[o] /\ iSpecs[o] \in Categories
      BY <1>2, <1>6 DEF RegistryInv
    <3>2. PICK i \in 1 .. Len(iByCategory[iSpecs[o]]) : iByCategory[iSpecs[o]][i] = o
      BY <1>2, <3>1 DEF RegistryInv, Ind!IsListed
    <3>3. CASE iSpecs[o] = c
      <4>1. iByCategory'[c] = shorter BY <1>2, <1>6 DEF RegistryInv
      <4>2. iByCategory[iSpecs[o]] = list
        BY <1>3, <3>3
      <4>3. \E k \in 1 .. Len(list) : list[k] = o
        BY <3>2, <4>2
      <4>4. \E k \in 1 .. Len(shorter) : shorter[k] = o
        BY <1>5, <3>1, <4>3
      <4>5. QED BY <3>1, <3>3, <4>1, <4>4
    <3>4. CASE iSpecs[o] # c
      <4>1. iByCategory'[iSpecs[o]] = iByCategory[iSpecs[o]]
        BY <1>2, <1>6, <3>1, <3>4 DEF RegistryInv
      <4>2. QED BY <3>1, <3>2, <4>1
    <3>5. QED BY <3>3, <3>4
  <2>5. QED BY <2>1, <2>2, <2>3, <2>4 DEF RegistryInv, Ind!IsListed
<1>8. ResultsInv'
  BY <1>6 DEF IndicatorsInv, ResultsInv
<1>9. AnswerInv'
  BY <1>6, NoAnswerAfter
<1>10. QED BY <1>7, <1>8, <1>9 DEF IndicatorsInv

(* A tail of values after so many more.                                    *)
LEMMA TailsAreShort ==
  ASSUME NEW first \in 1 .. Ind!Behind, NEW warmup \in Nat
  PROVE  /\ Ind!Least(first + warmup, Ind!Behind) \in 1 .. Ind!Behind
         /\ Ind!Least(first + warmup, Ind!Behind) \in 0 .. Ind!Behind
         /\ Ind!Least(first + warmup, Ind!Behind) > Ind!Least(warmup, Length)
  BY LengthsAreNumbers DEF Ind!Least, Ind!Behind

LEMMA AnswerHolds ==
  ASSUME NEW first \in 1 .. Ind!Behind, NEW warmup \in Nat, NEW d \in Series, NEW of \in Series,
         SeriesHash[d] = SeriesHash[of],
         iAnswer' = [first |-> Ind!Least(first + warmup, Ind!Behind), warmup |-> warmup,
                     data |-> d, of |-> of]
  PROVE  AnswerInv'
<1>1. /\ iAnswer'.first = Ind!Least(first + warmup, Ind!Behind) /\ iAnswer'.warmup = warmup
      /\ iAnswer'.data = d /\ iAnswer'.of = of
  OBVIOUS
<1>2. QED BY <1>1, TailsAreShort DEF AnswerInv

LEMMA ComputeHolds ==
  ASSUME IndicatorsInv, NEW n \in Names, NEW d \in Series, NEW warmup \in Warmups,
         Ind!Compute(n, d, warmup)
  PROVE  IndicatorsInv'
<1>1. warmup \in Nat /\ 1 \in 1 .. Ind!Behind
  BY LengthsAreNumbers DEF Ind!Behind
<1>2. ResultsInv
  BY DEF IndicatorsInv
<1>3. CASE Ind!Hits(n, d) # {}
  <2>1. PICK i \in Ind!Hits(n, d) :
          iAnswer' = [first |-> Ind!Served(iResults[i], warmup), warmup |-> warmup, data |-> d,
                      of |-> iResults[i].of]
    BY <1>3 DEF Ind!Compute
  <2>2. UNCHANGED <<iSpecs, iByCategory, iResults>>
    BY <1>3 DEF Ind!Compute
  <2>3. i \in 1 .. Len(iResults) /\ iResults[i].hash = SeriesHash[d]
    BY DEF Ind!Hits
  <2>4. PICK e \in IndicatorEntry : e = iResults[i]
    BY <1>2, <2>3 DEF ResultsInv
  <2>5. e.first \in 1 .. Ind!Behind /\ e.of \in Series
    BY <2>4 DEF IndicatorEntry
  <2>6. SeriesHash[d] = SeriesHash[e.of]
    BY <1>2, <2>3, <2>4 DEF ResultsInv
  <2>7. AnswerInv'
    BY <1>1, <2>1, <2>4, <2>5, <2>6, AnswerHolds DEF Ind!Served
  <2>8. RegistryInv' /\ ResultsInv'
    BY <2>2 DEF IndicatorsInv, RegistryInv, ResultsInv, Ind!IsListed
  <2>9. QED BY <2>7, <2>8 DEF IndicatorsInv
<1>4. CASE Ind!Hits(n, d) = {}
  <2> DEFINE e == [name |-> n, hash |-> SeriesHash[d], first |-> Ind!Least(1 + warmup, Ind!Behind),
                   of |-> d]
  <2>1. /\ iAnswer' = [first |-> Ind!Least(1 + warmup, Ind!Behind), warmup |-> warmup,
                       data |-> d, of |-> d]
        /\ iResults' = Append(IF Len(iResults) >= CacheSize THEN Tail(iResults) ELSE iResults, e)
        /\ UNCHANGED <<iSpecs, iByCategory>>
    BY <1>4 DEF Ind!Compute, Ind!Stored
  <2>2. AnswerInv'
    BY <1>1, <2>1, AnswerHolds
  <2>3. RegistryInv'
    BY <2>1 DEF IndicatorsInv, RegistryInv, Ind!IsListed
  <2>4. e \in IndicatorEntry /\ e.name = n /\ e.hash = SeriesHash[d] /\ e.of = d
    BY <1>1, TailsAreShort DEF IndicatorEntry
  <2> HIDE DEF e
  <2>5. PICK drop \in {0, 1} :
          drop = IF Len(iResults) >= CacheSize THEN 1 ELSE 0
    OBVIOUS
  <2>6. PICK c \in Nat : c = Len(iResults)
    BY <1>2 DEF ResultsInv
  <2>7. c <= CacheSize /\ (drop = 1 => c # 0) /\ c - drop \in Nat /\ c - drop < CacheSize
    BY <1>2, <2>5, <2>6, LengthsAreNumbers DEF ResultsInv
  <2>8. PICK kept \in Seq(IndicatorEntry) :
          /\ kept = IF Len(iResults) >= CacheSize THEN Tail(iResults) ELSE iResults
          /\ Len(kept) = c - drop /\ \A i \in 1 .. c - drop : kept[i] = iResults[i + drop]
    <3>1. iResults \in Seq(IndicatorEntry) BY <1>2 DEF ResultsInv
    <3>2. CASE drop = 0
      <4>1. \A i \in 1 .. c - 0 : i + 0 = i BY <2>6
      <4>2. c - 0 = c BY <2>6
      <4>3. QED BY <2>5, <2>6, <3>1, <3>2, <4>1, <4>2
    <3>3. CASE drop = 1
      <4>1. iResults # << >> BY <2>6, <2>7, <3>3
      <4>2. /\ Tail(iResults) \in Seq(IndicatorEntry) /\ Len(Tail(iResults)) = Len(iResults) - 1
            /\ \A i \in 1 .. Len(Tail(iResults)) : Tail(iResults)[i] = iResults[i + 1]
        BY <3>1, <4>1, HeadTailProperties
      <4>3. Len(Tail(iResults)) = c - drop BY <2>6, <3>3, <4>2
      <4>4. \A i \in 1 .. c - drop : Tail(iResults)[i] = iResults[i + drop]
        BY <3>3, <4>2, <4>3
      <4>5. Len(iResults) >= CacheSize BY <2>5, <3>3
      <4>6. QED BY <4>2, <4>3, <4>4, <4>5
    <3>4. QED BY <3>2, <3>3
  <2>9. PICK m \in Nat : m = c - drop
    BY <2>7
  <2>10. PICK r \in Seq(IndicatorEntry) :
           /\ r = iResults' /\ Len(r) = m + 1 /\ r[m + 1] = e
           /\ \A i \in 1 .. m : r[i] = iResults[i + drop]
    <3>1. Append(kept, e) \in Seq(IndicatorEntry) /\ Len(Append(kept, e)) = Len(kept) + 1
          /\ Append(kept, e)[Len(kept) + 1] = e
          /\ \A i \in 1 .. Len(kept) : Append(kept, e)[i] = kept[i]
      BY <2>4, AppendProperties
    <3>2. Append(kept, e) = iResults' /\ Len(kept) = m
      BY <2>1, <2>8, <2>9
    <3>3. \A i \in 1 .. m : kept[i] = iResults[i + drop]
      BY <2>8, <2>9
    <3>4. QED BY <3>1, <3>2, <3>3
  <2>11. \A i \in 1 .. m : i + drop \in 1 .. c
    BY <2>6, <2>9
  <2>12. \A i \in 1 .. m + 1 : i \in 1 .. m \/ i = m + 1
    OBVIOUS
  <2>13. \A i \in 1 .. c : ~(iResults[i].name = n /\ iResults[i].hash = SeriesHash[d])
    BY <1>4, <2>6 DEF Ind!Hits
  <2>14. \A i \in 1 .. m + 1 : r[i].hash = SeriesHash[r[i].of]
    BY <1>2, <2>4, <2>6, <2>10, <2>11, <2>12 DEF ResultsInv
  <2>15. \A i, j \in 1 .. m + 1 : r[i].name = r[j].name /\ r[i].hash = r[j].hash => i = j
    <3>1. TAKE i, j \in 1 .. m + 1
    <3>2. HAVE r[i].name = r[j].name /\ r[i].hash = r[j].hash
    <3>3. CASE i \in 1 .. m /\ j \in 1 .. m
      <4>1. i + drop \in 1 .. Len(iResults) /\ j + drop \in 1 .. Len(iResults)
        BY <2>6, <2>11, <3>3
      <4>2. i + drop = j + drop
        BY <1>2, <2>10, <3>2, <3>3, <4>1 DEF ResultsInv
      <4>3. QED BY <4>2
    <3>4. CASE i \in 1 .. m /\ j = m + 1
      BY <2>4, <2>10, <2>11, <2>13, <3>2, <3>4
    <3>5. CASE i = m + 1 /\ j \in 1 .. m
      BY <2>4, <2>10, <2>11, <2>13, <3>2, <3>5
    <3>6. CASE i = m + 1 /\ j = m + 1
      BY <3>6
    <3>7. QED BY <2>12, <3>3, <3>4, <3>5, <3>6
  <2>16. m + 1 <= CacheSize
    BY <2>7, <2>9, LengthsAreNumbers
  <2>17. ResultsInv'
    BY <2>10, <2>14, <2>15, <2>16 DEF ResultsInv
  <2>18. QED BY <2>2, <2>3, <2>17 DEF IndicatorsInv
<1>5. QED BY <1>3, <1>4

LEMMA SameSelectedResults == \A list, keep : Ind!Selected(list, keep) = Selected(list, keep)
  BY DEF Ind!Selected, Selected

LEMMA InvalidateHolds ==
  ASSUME IndicatorsInv, NEW gone, Ind!Invalidate(gone)
  PROVE  IndicatorsInv'
<1>1. PICK keep : iResults' = Selected(iResults, keep)
  BY SameSelectedResults DEF Ind!Invalidate
<1>2. iAnswer' = Ind!NoAnswer /\ UNCHANGED <<iSpecs, iByCategory>>
  BY DEF Ind!Invalidate
<1>3. ResultsInv
  BY DEF IndicatorsInv
<1>4. PICK q \in Seq(IndicatorEntry) : q = iResults
  BY <1>3 DEF ResultsInv
<1>5. PICK r \in Seq(IndicatorEntry) : r = iResults' /\ SelectedAs(r, q, keep, Len(q))
  BY <1>1, <1>4, SelectedProperties
<1>6. PICK at : Ascends(at, Len(r), Len(q)) /\ \A i \in 1 .. Len(r) : r[i] = q[at[i]]
  BY <1>5 DEF SelectedAs
<1>7. Len(r) <= Len(q)
  <2>1. PICK m \in Nat : m = Len(r) BY <1>5
  <2>2. PICK n \in Nat : n = Len(q) BY <1>4
  <2>3. at \in [1 .. m -> 1 .. n] /\ \A i, j \in 1 .. m : i < j => at[i] < at[j]
    BY <1>6, <2>1, <2>2 DEF Ascends
  <2>4. QED BY <2>1, <2>2, <2>3, AscentIsShort
<1>8. \A i \in 1 .. Len(r) : at[i] \in 1 .. Len(q)
  BY <1>6 DEF Ascends
<1>9. \A i, j \in 1 .. Len(r) : at[i] = at[j] => i = j
  <2>1. TAKE i, j \in 1 .. Len(r)
  <2>2. HAVE at[i] = at[j]
  <2>3. ~(i < j) /\ ~(j < i) BY <1>6, <1>8, <2>2 DEF Ascends
  <2>4. QED BY <2>3
<1>10. ResultsInv'
  <2>1. Len(r) <= CacheSize
    BY <1>3, <1>4, <1>5, <1>7, LengthsAreNumbers DEF ResultsInv
  <2>2. \A i \in 1 .. Len(r) : r[i].hash = SeriesHash[r[i].of]
    BY <1>3, <1>4, <1>6, <1>8 DEF ResultsInv
  <2>3. \A i, j \in 1 .. Len(r) : r[i].name = r[j].name /\ r[i].hash = r[j].hash => i = j
    <3>1. TAKE i, j \in 1 .. Len(r)
    <3>2. HAVE r[i].name = r[j].name /\ r[i].hash = r[j].hash
    <3>3. at[i] \in 1 .. Len(iResults) /\ at[j] \in 1 .. Len(iResults)
      BY <1>4, <1>8
    <3>4. iResults[at[i]] = r[i] /\ iResults[at[j]] = r[j]
      BY <1>4, <1>6
    <3>5. at[i] = at[j]
      BY <1>3, <3>2, <3>3, <3>4 DEF ResultsInv
    <3>6. QED BY <1>9, <3>5
  <2>4. QED BY <1>5, <2>1, <2>2, <2>3 DEF ResultsInv
<1>11. RegistryInv' /\ AnswerInv'
  BY <1>2, NoAnswerAfter DEF IndicatorsInv, RegistryInv, Ind!IsListed
<1>12. QED BY <1>10, <1>11 DEF IndicatorsInv

LEMMA IndicatorsStepHolds == ASSUME IndicatorsInv, [Ind!Next]_indicatorsVars PROVE IndicatorsInv'
<1>1. CASE UNCHANGED indicatorsVars
  BY <1>1 DEF indicatorsVars, IndicatorsInv, RegistryInv, ResultsInv, AnswerInv, Ind!IsListed
<1>2. CASE Ind!Next
  BY <1>2, RegisterHolds, UnregisterHolds, ComputeHolds, InvalidateHolds DEF Ind!Next
<1>3. QED BY <1>1, <1>2

-----------------------------------------------------------------------------
(* Backtest.                                                               *)

(* A sequence that climbs from place to place climbs altogether.           *)
LEMMA Climbs ==
  ASSUME NEW n \in Nat, NEW h \in [1 .. n -> Nat], NEW gap \in Nat,
         \A i \in 1 .. n - 1 : h[i] + gap <= h[i + 1]
  PROVE  \A i, j \in 1 .. n : i < j => h[i] + gap <= h[j]
<1> DEFINE T == {d \in Nat : \A i \in 1 .. n : i + d + 1 <= n => h[i] + gap <= h[i + d + 1]}
<1>1. 0 \in T
  <2>1. \A i \in 1 .. n : i + 0 + 1 <= n => i \in 1 .. n - 1 /\ i + 0 + 1 = i + 1
    OBVIOUS
  <2>2. QED BY <2>1
<1>2. ASSUME NEW d \in T PROVE d + 1 \in T
  <2>1. ASSUME NEW i \in 1 .. n, i + (d + 1) + 1 <= n
        PROVE  h[i] + gap <= h[i + (d + 1) + 1]
    <3>1. PICK j \in Nat : j = i + d + 1
      BY <1>2
    <3>2. j \in 1 .. n - 1 /\ j \in 1 .. n /\ j + 1 \in 1 .. n /\ i + (d + 1) + 1 = j + 1
      BY <1>2, <2>1, <3>1
    <3>3. h[i] + gap <= h[j]
      BY <1>2, <3>1, <3>2
    <3>4. h[j] + gap <= h[j + 1] /\ h[i] \in Nat /\ h[j] \in Nat /\ h[j + 1] \in Nat
      BY <3>2
    <3>5. h[i] + gap <= h[j + 1] BY <3>3, <3>4
    <3>6. QED BY <3>2, <3>5
  <2>2. d + 1 \in Nat BY <1>2
  <2>3. QED BY <2>1, <2>2
<1>3. T = Nat
  <2>1. T \in SUBSET Nat OBVIOUS
  <2> HIDE DEF T
  <2>2. QED BY <1>1, <1>2, <2>1, NatSets
<1>4. ASSUME NEW i \in 1 .. n, NEW j \in 1 .. n, i < j
      PROVE  h[i] + gap <= h[j]
  <2>1. PICK d \in Nat : d = j - i - 1
    BY <1>4
  <2>2. i + d + 1 = j /\ i + d + 1 <= n
    BY <2>1
  <2>3. d \in T BY <1>3
  <2>4. QED BY <2>2, <2>3
<1>5. QED BY <1>4

(* Bars at strictly increasing times.                                      *)
Increasing(h) == \A i \in 2 .. Len(h) : h[i - 1] < h[i]

BacktestShape ==
  /\ Test!TypeOK
  /\ tPosition \in [Symbols -> Nat] /\ tHeard \in [Symbols -> Nat]
  /\ tReplayed = tPosition

(* Before the first run after a load nothing is replayed, and before the   *)
(* first run of all no strategy has stopped; after a run all is.           *)
ReplayInv ==
  /\ \A s \in Symbols : ~tRan[s] => tPosition[s] = 0 /\ tHeard[s] = 0
  /\ tStrategy # "STOPPED" => \A s \in Symbols : ~tRan[s]
  /\ \A s \in Symbols : tRan[s] /\ Increasing(tHistory[s]) =>
       tPosition[s] = Len(tHistory[s]) /\ tHeard[s] \in {0, tPosition[s]}

BacktestInv == BacktestShape /\ ReplayInv

LEMMA TimesAreNumbers == MaxTime \in Nat /\ MaxBars \in Nat
  BY PlatformConstants

LEMMA BarsAreReplayed == ASSUME BacktestInv PROVE Test!EveryBarReplayed
<1>1. SUFFICES ASSUME NEW s \in Symbols
               PROVE  /\ tReplayed[s] <= Len(tHistory[s])
                      /\ tRan[s] /\ Increasing(tHistory[s]) =>
                           tReplayed[s] = Len(tHistory[s]) /\ tHeard[s] \in {0, tReplayed[s]}
  BY DEF Test!EveryBarReplayed, Increasing
<1>2. tReplayed[s] = tPosition[s] /\ tPosition[s] \in 0 .. Len(tHistory[s])
  BY DEF BacktestInv, BacktestShape, Test!TypeOK
<1>3. tReplayed[s] <= Len(tHistory[s])
  BY <1>2
<1>4. QED BY <1>2, <1>3 DEF BacktestInv, ReplayInv

LEMMA BacktestInitHolds == ASSUME Test!Init PROVE BacktestInv
<1>1. Len(<< >>) = 0 /\ 0 \in 0 .. 0 /\ 0 \in Nat
  OBVIOUS
<1>2. tHistory = [s \in Symbols |-> << >>] /\ tStrategy = "INITIALIZED"
      /\ tRan = [s \in Symbols |-> FALSE]
      /\ tPosition = [s \in Symbols |-> 0] /\ tReplayed = tPosition /\ tHeard = tPosition
  BY DEF Test!Init, Test!Zero, Test!Nobody
<1>3. BacktestShape
  BY <1>1, <1>2 DEF BacktestShape, Test!TypeOK
<1>4. ReplayInv
  BY <1>2 DEF ReplayInv
<1>5. QED BY <1>3, <1>4 DEF BacktestInv

(* What Sorted has: sequences of times that do not fall.                   *)
LEMMA SortedBars ==
  ASSUME NEW h \in Test!Sorted \union {<< >>}
  PROVE  /\ h \in Seq(1 .. MaxTime) /\ Len(h) \in 0 .. MaxBars /\ h \in [1 .. Len(h) -> 1 .. MaxTime]
         /\ \A i, j \in 1 .. Len(h) : i < j => h[i] <= h[j]
<1>1. CASE h = << >>
  BY <1>1, TimesAreNumbers
<1>2. CASE h \in Test!Sorted
  <2>1. PICK n \in 1 .. MaxBars : h \in [1 .. n -> 1 .. MaxTime]
    BY <1>2 DEF Test!Sorted
  <2>2. n \in Nat /\ n \in 0 .. MaxBars
    BY TimesAreNumbers
  <2>3. h \in Seq(1 .. MaxTime) /\ Len(h) = n
    <3>1. h \in Seq(1 .. MaxTime)
      BY <2>1, <2>2, SeqDef
    <3>2. Len(h) \in Nat /\ DOMAIN h = 1 .. Len(h) /\ DOMAIN h = 1 .. n
      BY <2>1, <3>1, LenProperties
    <3>3. \A m \in Nat : 1 .. m = 1 .. n => m = n
      BY <2>2
    <3>4. QED BY <3>1, <3>2, <3>3
  <2>4. \A i \in 1 .. n - 1 : h[i] + 0 <= h[i + 1]
    <3>1. \A i \in 1 .. n - 1 : h[i] <= h[i + 1]
      BY <1>2, <2>3 DEF Test!Sorted
    <3>2. \A i \in 1 .. n - 1 : i \in 1 .. n /\ h[i] \in Nat
      BY <2>1, <2>2
    <3>3. QED BY <3>1, <3>2
  <2>5. h \in [1 .. n -> Nat]
    BY <2>1
  <2>6. \A i, j \in 1 .. n : i < j => h[i] + 0 <= h[j]
    BY <2>2, <2>4, <2>5, Climbs
  <2>7. \A i, j \in 1 .. n : i < j => h[i] <= h[j]
    BY <2>5, <2>6
  <2>8. QED BY <2>1, <2>2, <2>3, <2>7
<1>3. QED BY <1>1, <1>2

LEMMA SelectedIsSorted ==
  ASSUME NEW h \in Test!Sorted \union {<< >>}, NEW keep
  PROVE  Selected(h, keep) \in Test!Sorted \union {<< >>}
<1> DEFINE r == Selected(h, keep)
<1>1. /\ h \in Seq(1 .. MaxTime) /\ Len(h) \in 0 .. MaxBars
      /\ \A i, j \in 1 .. Len(h) : i < j => h[i] <= h[j]
  BY SortedBars
<1>2. r \in Seq(1 .. MaxTime) /\ SelectedAs(r, h, keep, Len(h))
  BY <1>1, SelectedProperties
<1> HIDE DEF r
<1>3. PICK at : Ascends(at, Len(r), Len(h)) /\ \A i \in 1 .. Len(r) : r[i] = h[at[i]]
  BY <1>2 DEF SelectedAs
<1>4. PICK m \in Nat : m = Len(r)
  BY <1>2
<1>5. PICK n \in Nat : n = Len(h)
  BY <1>1
<1>6. at \in [1 .. m -> 1 .. n] /\ \A i, j \in 1 .. m : i < j => at[i] < at[j]
  BY <1>3, <1>4, <1>5 DEF Ascends
<1>7. m <= n
  BY <1>4, <1>5, <1>6, AscentIsShort
<1>8. \A i \in 1 .. m - 1 : r[i] <= r[i + 1]
  <2>1. TAKE i \in 1 .. m - 1
  <2>2. i \in 1 .. m /\ i + 1 \in 1 .. m /\ i < i + 1
    BY <1>4
  <2>3. at[i] < at[i + 1] /\ at[i] \in 1 .. n /\ at[i + 1] \in 1 .. n
    BY <1>6, <2>2
  <2>4. QED BY <1>1, <1>3, <1>4, <1>5, <2>2, <2>3
<1>9. CASE m = 0
  BY <1>2, <1>4, <1>9, EmptySeq DEF r
<1>10. CASE m # 0
  <2>1. m \in 1 .. MaxBars /\ r \in [1 .. m -> 1 .. MaxTime]
    BY <1>1, <1>2, <1>4, <1>5, <1>7, <1>10, TimesAreNumbers
  <2>2. r \in Test!Sorted
    BY <1>4, <1>8, <2>1 DEF Test!Sorted
  <2>3. QED BY <2>2 DEF r
<1>11. QED BY <1>9, <1>10

(* The replay of a symbol goes on over its bars, and over all of them if   *)
(* it starts at the first and each bar has a time of its own.              *)
LEMMA ReplayAdvances ==
  ASSUME BacktestInv, NEW s \in Symbols
  PROVE  /\ Test!Replay(s) \in tPosition[s] .. Len(tHistory[s])
         /\ tPosition[s] = 0 /\ Increasing(tHistory[s]) => Test!Replay(s) = Len(tHistory[s])
<1> DEFINE Good(f) == f = [time \in 0 .. MaxTime |->
                 IF time = 0 THEN tPosition[s]
                 ELSE IF Test!Reaches(s, f[time - 1], time) THEN f[time - 1] + 1 ELSE f[time - 1]]
<1>1. PICK h : h = tHistory[s]
  OBVIOUS
<1>2. PICK c \in Nat : c = Len(h)
  <2>1. h \in Test!Sorted \union {<< >>}
    BY <1>1 DEF BacktestInv, BacktestShape, Test!TypeOK
  <2>2. Len(h) \in 0 .. MaxBars
    BY <2>1, SortedBars
  <2>3. QED BY <2>2
<1>3. PICK p \in 0 .. c : p = tPosition[s]
  BY <1>1, <1>2 DEF BacktestInv, BacktestShape, Test!TypeOK
<1>4. h \in [1 .. c -> 1 .. MaxTime]
  <2>1. h \in Test!Sorted \union {<< >>}
    BY <1>1 DEF BacktestInv, BacktestShape, Test!TypeOK
  <2>2. QED BY <1>2, <2>1, SortedBars
<1> DEFINE V == p .. c
           step == [x \in (1 .. MaxTime) \X V |->
                      IF x[2] < c /\ h[x[2] + 1] = x[1] THEN x[2] + 1 ELSE x[2]]
<1>5. MaxTime \in Nat /\ p \in V
  BY TimesAreNumbers, <1>3
<1>6. step \in [(1 .. MaxTime) \X V -> V]
  <2>1. \A x \in V : (x < c => x + 1 \in V)
    BY <1>3
  <2> HIDE DEF V
  <2>2. QED BY <2>1
<1>7. PICK f \in [0 .. MaxTime -> V] : Recurs(f, MaxTime, p, step)
  <2> HIDE DEF V, step
  <2>1. QED BY <1>5, <1>6, RecursionExists
<1>8. \A t \in 1 .. MaxTime, x \in V : step[<<t, x>>] = IF x < c /\ h[x + 1] = t THEN x + 1 ELSE x
  OBVIOUS
<1>9. \A t \in 0 .. MaxTime : f[t] =
        IF t = 0 THEN p ELSE IF f[t - 1] < c /\ h[f[t - 1] + 1] = t THEN f[t - 1] + 1 ELSE f[t - 1]
  <2> HIDE DEF V, step
  <2>1. TAKE t \in 0 .. MaxTime
  <2>2. CASE t = 0 BY <1>7, <2>2 DEF Recurs
  <2>3. CASE t # 0
    <3>1. t \in 1 .. MaxTime /\ t - 1 \in 0 .. MaxTime BY <1>5, <2>3
    <3>2. f[t] = step[<<t, f[t - 1]>>] BY <1>7, <2>3 DEF Recurs
    <3>3. f[t - 1] \in V BY <1>7, <3>1
    <3>4. QED BY <1>8, <2>3, <3>1, <3>2, <3>3
  <2>4. QED BY <2>2, <2>3
<1>10. Good(f)
  BY <1>1, <1>2, <1>3, <1>7, <1>9 DEF Test!Reaches
<1>11. ASSUME NEW g, Good(g)
       PROVE  /\ g[MaxTime] \in V
              /\ p = 0 /\ Increasing(h) => g[MaxTime] = c
  <2>1. \A t \in 0 .. MaxTime : g[t] =
          IF t = 0 THEN p ELSE IF g[t - 1] < c /\ h[g[t - 1] + 1] = t THEN g[t - 1] + 1 ELSE g[t - 1]
    BY <1>1, <1>2, <1>3, <1>11 DEF Test!Reaches
  <2> HIDE DEF Good, step
  <2> DEFINE Passed(t, m) == \A i \in 1 .. c : i <= m <=> h[i] <= t
             T == {t \in Nat : t <= MaxTime =>
                     g[t] \in V /\ (p = 0 /\ Increasing(h) => Passed(t, g[t]))}
  <2>2. 0 \in T
    <3>1. g[0] = p BY <1>5, <2>1
    <3>2. p = 0 => Passed(0, p) BY <1>4
    <3>3. QED BY <1>5, <3>1, <3>2
  <2>3. Increasing(h) => \A i, j \in 1 .. c : i < j => h[i] + 1 <= h[j]
    <3>1. SUFFICES ASSUME Increasing(h)
                   PROVE  \A i, j \in 1 .. c : i < j => h[i] + 1 <= h[j]
      OBVIOUS
    <3>2. h \in [1 .. c -> Nat] BY <1>4
    <3>3. \A i \in 1 .. c - 1 : h[i] + 1 <= h[i + 1]
      <4>1. TAKE i \in 1 .. c - 1
      <4>2. i + 1 \in 2 .. c /\ (i + 1) - 1 = i /\ i \in 1 .. c /\ i + 1 \in 1 .. c
        BY <1>2
      <4>3. h[i] < h[i + 1] BY <1>2, <3>1, <4>2 DEF Increasing
      <4>4. h[i] \in Nat /\ h[i + 1] \in Nat BY <3>2, <4>2
      <4>5. QED BY <4>3, <4>4
    <3>4. 1 \in Nat OBVIOUS
    <3>5. QED BY <1>2, <3>2, <3>3, <3>4, Climbs
  <2>4. ASSUME NEW t \in T PROVE t + 1 \in T
    <3>1. SUFFICES ASSUME t + 1 <= MaxTime
                   PROVE  g[t + 1] \in V /\ (p = 0 /\ Increasing(h) => Passed(t + 1, g[t + 1]))
      BY <2>4
    <3>2. t \in Nat /\ t + 1 \in 0 .. MaxTime /\ t + 1 # 0 /\ (t + 1) - 1 = t /\ t <= MaxTime
      BY <1>5, <2>4, <3>1
    <3>3. PICK m \in V : m = g[t] /\ (p = 0 /\ Increasing(h) => Passed(t, m))
      BY <2>4, <3>2
    <3>4. g[t + 1] = IF m < c /\ h[m + 1] = t + 1 THEN m + 1 ELSE m
      BY <2>1, <3>2, <3>3
    <3>5. m \in 0 .. c /\ g[t + 1] \in V
      BY <1>3, <3>3, <3>4
    <3>6. ASSUME p = 0, Increasing(h) PROVE Passed(t + 1, g[t + 1])
      <4>1. \A i \in 1 .. c : i <= m <=> h[i] <= t
        BY <3>3, <3>6
      <4>2. \A i, j \in 1 .. c : i < j => h[i] + 1 <= h[j]
        BY <2>3, <3>6
      <4>3. CASE m < c /\ h[m + 1] = t + 1
        <5>1. m + 1 \in 1 .. c BY <3>5, <4>3
        <5>2. \A i \in 1 .. c : i <= m + 1 <=> h[i] <= t + 1
          <6>1. TAKE i \in 1 .. c
          <6>2. h[i] \in Nat BY <1>4
          <6>3. CASE i <= m BY <3>2, <4>1, <6>2, <6>3, <3>5
          <6>4. CASE i = m + 1 BY <3>2, <4>3, <6>4, <3>5
          <6>5. CASE i > m + 1 BY <3>2, <3>5, <4>2, <4>3, <5>1, <6>2, <6>5
          <6>6. QED BY <3>5, <6>3, <6>4, <6>5
        <5>3. QED BY <3>4, <4>3, <5>2
      <4>4. CASE ~(m < c /\ h[m + 1] = t + 1)
        <5>1. \A i \in 1 .. c : i <= m <=> h[i] <= t + 1
          <6>1. TAKE i \in 1 .. c
          <6>2. h[i] \in Nat BY <1>4
          <6>3. CASE i <= m BY <3>2, <4>1, <6>2, <6>3, <3>5
          <6>4. CASE i = m + 1
            <7>1. h[i] # t + 1 /\ ~(h[i] <= t) BY <3>5, <4>1, <4>4, <6>4
            <7>2. QED BY <3>2, <3>5, <6>2, <6>4, <7>1
          <6>5. CASE i > m + 1
            <7>1. m + 1 \in 1 .. c /\ m + 1 < i BY <3>5, <6>5
            <7>2. h[m + 1] + 1 <= h[i] /\ h[m + 1] \in Nat BY <1>4, <4>2, <7>1
            <7>3. ~(h[m + 1] <= t) BY <3>5, <4>1, <7>1
            <7>4. QED BY <3>2, <3>5, <6>2, <6>5, <7>2, <7>3
          <6>6. QED BY <3>5, <6>3, <6>4, <6>5
        <5>2. QED BY <3>4, <4>4, <5>1
      <4>5. QED BY <4>3, <4>4
    <3>7. QED BY <3>5, <3>6
  <2>5. T = Nat
    <3>1. T \in SUBSET Nat OBVIOUS
    <3> HIDE DEF T
    <3>2. QED BY <2>2, <2>4, <3>1, NatSets
  <2>6. g[MaxTime] \in V /\ (p = 0 /\ Increasing(h) => Passed(MaxTime, g[MaxTime]))
    BY <1>5, <2>5
  <2>7. ASSUME p = 0, Increasing(h) PROVE g[MaxTime] = c
    <3>1. PICK m \in 0 .. c : m = g[MaxTime] BY <1>3, <2>6
    <3>2. CASE c = 0 BY <3>1, <3>2
    <3>3. CASE c # 0
      <4>1. c \in 1 .. c /\ h[c] \in 1 .. MaxTime BY <1>4, <3>3
      <4>2. c <= m BY <1>5, <2>6, <2>7, <3>1, <4>1
      <4>3. QED BY <3>1, <4>2
    <3>4. QED BY <3>2, <3>3
  <2>8. QED BY <2>6, <2>7
<1> DEFINE after == CHOOSE g : Good(g)
<1>12. Good(after)
  <2> HIDE DEF Good
  <2>1. QED BY <1>10
<1>13. Test!Replay(s) = after[MaxTime]
  BY DEF Test!Replay
<1>14. QED
  <2> HIDE DEF after, Good
  <2>1. QED BY <1>1, <1>2, <1>3, <1>11, <1>12, <1>13

LEMMA SameSelected == \A list, keep : Test!Selected(list, keep) = Selected(list, keep)
  BY DEF Test!Selected, Selected

LEMMA LoadHoldsBars ==
  ASSUME BacktestInv, NEW s \in Symbols, NEW bars \in Test!Sorted, Test!Load(s, bars)
  PROVE  BacktestInv'
<1>1. PICK h : h = Selected(bars, First .. Last)
  OBVIOUS
<1>2. h \in Test!Sorted \union {<< >>}
  BY <1>1, SelectedIsSorted
<1>3. Len(h) \in Nat
  BY <1>2, SortedBars
<1>4. /\ tHistory \in [Symbols -> Test!Sorted \union {<< >>}]
      /\ \A o \in Symbols : tPosition[o] \in 0 .. Len(tHistory[o])
      /\ tStrategy \in {"INITIALIZED", "RUNNING", "STOPPED"} /\ tRan \in [Symbols -> BOOLEAN]
      /\ tPosition \in [Symbols -> Nat] /\ tHeard \in [Symbols -> Nat] /\ tReplayed = tPosition
  BY DEF BacktestInv, BacktestShape, Test!TypeOK
<1>5. /\ tHistory' = [tHistory EXCEPT ![s] = h]
      /\ tPosition' = [tPosition EXCEPT ![s] = 0] /\ tReplayed' = tPosition'
      /\ tHeard' = [tHeard EXCEPT ![s] = 0] /\ tRan' = [tRan EXCEPT ![s] = FALSE]
      /\ tStrategy' = tStrategy
  BY <1>1, <1>4, SameSelected DEF Test!Load
<1>6. BacktestShape'
  <2>1. tHistory' \in [Symbols -> Test!Sorted \union {<< >>}]
    BY <1>2, <1>4, <1>5
  <2>2. \A o \in Symbols : tPosition'[o] \in 0 .. Len(tHistory'[o])
    <3>1. TAKE o \in Symbols
    <3>2. CASE o = s BY <1>3, <1>4, <1>5, <3>2
    <3>3. CASE o # s BY <1>4, <1>5, <3>3
    <3>4. QED BY <3>2, <3>3
  <2>3. tPosition' \in [Symbols -> Nat] /\ tHeard' \in [Symbols -> Nat]
    BY <1>4, <1>5
  <2>4. QED BY <1>4, <1>5, <2>1, <2>2, <2>3 DEF BacktestShape, Test!TypeOK, Test!Sorted
<1>7. ReplayInv'
  <2>1. \A o \in Symbols : ~tRan'[o] => tPosition'[o] = 0 /\ tHeard'[o] = 0
    <3>1. TAKE o \in Symbols
    <3>2. CASE o = s BY <1>4, <1>5, <3>2
    <3>3. CASE o # s BY <1>4, <1>5, <3>3 DEF BacktestInv, ReplayInv
    <3>4. QED BY <3>2, <3>3
  <2>2. tStrategy' # "STOPPED" => \A o \in Symbols : ~tRan'[o]
    BY <1>4, <1>5 DEF BacktestInv, ReplayInv
  <2>3. ASSUME NEW o \in Symbols, tRan'[o], Increasing(tHistory'[o])
        PROVE  tPosition'[o] = Len(tHistory'[o]) /\ tHeard'[o] \in {0, tPosition'[o]}
    <3>1. o # s BY <1>4, <1>5, <2>3
    <3>2. QED BY <1>4, <1>5, <2>3, <3>1 DEF BacktestInv, ReplayInv
  <2>4. QED BY <2>1, <2>2, <2>3 DEF ReplayInv, Increasing
<1>8. QED BY <1>6, <1>7 DEF BacktestInv

LEMMA RunHolds == ASSUME BacktestInv, Test!Run PROVE BacktestInv'
<1>1. /\ tHistory \in [Symbols -> Test!Sorted \union {<< >>}]
      /\ \A o \in Symbols : tPosition[o] \in 0 .. Len(tHistory[o])
      /\ tPosition \in [Symbols -> Nat] /\ tHeard \in [Symbols -> Nat] /\ tReplayed = tPosition
  BY DEF BacktestInv, BacktestShape, Test!TypeOK
<1>2. ASSUME NEW s \in Symbols
      PROVE  /\ tPosition'[s] \in tPosition[s] .. Len(tHistory[s]) /\ tPosition'[s] \in Nat
             /\ tPosition'[s] \in 0 .. Len(tHistory[s])
             /\ tReplayed'[s] = tPosition'[s]
             /\ tHeard'[s] = IF tStrategy = "STOPPED" THEN tHeard[s]
                             ELSE tHeard[s] + (tPosition'[s] - tPosition[s])
             /\ tHeard'[s] \in Nat
  <2>1. PICK r \in tPosition[s] .. Len(tHistory[s]) : r = Test!Replay(s)
    BY ReplayAdvances
  <2>2. /\ tPosition'[s] = r
        /\ tReplayed'[s] = tReplayed[s] + r - tPosition[s]
        /\ tHeard'[s] = tHeard[s] + IF tStrategy = "STOPPED" THEN 0 ELSE r - tPosition[s]
    BY <2>1 DEF Test!Run
  <2>3. PICK p \in Nat : p = tPosition[s]
    BY <1>1
  <2>4. PICK k \in Nat : k = tHeard[s]
    BY <1>1
  <2>5. tReplayed[s] = p /\ r \in p .. Len(tHistory[s]) /\ r \in Nat /\ r - p \in Nat
    BY <1>1, <2>1, <2>3
  <2>6. p + r - p = r /\ k + 0 = k /\ k + (r - p) \in Nat
    BY <2>5
  <2>7. r \in 0 .. Len(tHistory[s])
    BY <2>5
  <2>8. QED BY <2>2, <2>3, <2>4, <2>5, <2>6, <2>7
<1>3. /\ tHistory' = tHistory /\ tStrategy' = "STOPPED" /\ tRan' = [s \in Symbols |-> TRUE]
      /\ tPosition' = [s \in Symbols |-> tPosition'[s]]
      /\ tReplayed' = [s \in Symbols |-> tReplayed'[s]]
      /\ tHeard' = [s \in Symbols |-> tHeard'[s]]
  BY DEF Test!Run
<1>4. BacktestShape'
  <2>1. tPosition' \in [Symbols -> Nat] /\ tHeard' \in [Symbols -> Nat] /\ tReplayed' = tPosition'
    BY <1>2, <1>3
  <2>2. tRan' \in [Symbols -> BOOLEAN]
    BY <1>3
  <2>3. QED BY <1>1, <1>2, <1>3, <2>1, <2>2 DEF BacktestShape, Test!TypeOK, Test!Sorted
<1>5. ASSUME NEW s \in Symbols, Increasing(tHistory[s])
      PROVE  tPosition'[s] = Len(tHistory[s]) /\ tHeard'[s] \in {0, tPosition'[s]}
  <2>1. CASE tRan[s]
    <3>1. tPosition[s] = Len(tHistory[s]) /\ tHeard[s] \in {0, tPosition[s]}
          /\ tStrategy = "STOPPED"
      BY <1>5, <2>1 DEF BacktestInv, ReplayInv
    <3>2. tPosition'[s] = tPosition[s]
      BY <1>1, <1>2, <3>1
    <3>3. QED BY <1>2, <3>1, <3>2
  <2>2. CASE ~tRan[s]
    <3>1. tPosition[s] = 0 /\ tHeard[s] = 0
      BY <2>2 DEF BacktestInv, ReplayInv
    <3>2. tPosition'[s] = Len(tHistory[s])
      <4>1. tPosition'[s] = Test!Replay(s) BY DEF Test!Run
      <4>2. QED BY <1>5, <3>1, <4>1, ReplayAdvances
    <3>3. tHeard'[s] \in {0, tPosition'[s]}
      BY <1>2, <3>1
    <3>4. QED BY <3>2, <3>3
  <2>3. QED BY <2>1, <2>2
<1>6. ReplayInv'
  BY <1>3, <1>5 DEF ReplayInv, Increasing
<1>7. QED BY <1>4, <1>6 DEF BacktestInv

LEMMA BacktestStepHolds == ASSUME BacktestInv, [Test!Next]_backtestVars PROVE BacktestInv'
<1>1. CASE UNCHANGED backtestVars
  BY <1>1 DEF backtestVars, BacktestInv, BacktestShape, ReplayInv, Increasing, Test!TypeOK,
              Test!Sorted
<1>2. ASSUME NEW s \in Symbols, NEW bars \in Test!Sorted, Test!Load(s, bars)
      PROVE  BacktestInv'
  BY <1>2, LoadHoldsBars
<1>3. CASE Test!Run
  BY <1>3, RunHolds
<1>4. CASE Test!RunWithoutData
  <2>1. UNCHANGED <<tHistory, tPosition, tReplayed, tHeard, tRan>>
        /\ tStrategy' \in {"INITIALIZED", "RUNNING", "STOPPED"}
        /\ (tStrategy' # "STOPPED" => tStrategy # "STOPPED")
    BY <1>4 DEF Test!RunWithoutData, BacktestInv, BacktestShape, Test!TypeOK
  <2>2. BacktestShape'
    BY <2>1 DEF BacktestInv, BacktestShape, Test!TypeOK, Test!Sorted
  <2>3. ReplayInv'
    BY <2>1 DEF BacktestInv, ReplayInv, Increasing
  <2>4. QED BY <2>2, <2>3 DEF BacktestInv
<1>5. CASE Test!Reset
  <2>1. /\ tHistory' = [s \in Symbols |-> << >>] /\ tRan' = [s \in Symbols |-> FALSE]
        /\ tPosition' = [s \in Symbols |-> 0] /\ tReplayed' = tPosition' /\ tHeard' = tPosition'
        /\ tStrategy' = tStrategy
    BY <1>5 DEF Test!Reset, Test!Zero, Test!Nobody
  <2>2. Len(<< >>) = 0 /\ 0 \in 0 .. 0 /\ 0 \in Nat
    OBVIOUS
  <2>3. tStrategy \in {"INITIALIZED", "RUNNING", "STOPPED"}
    BY DEF BacktestInv, BacktestShape, Test!TypeOK
  <2>4. BacktestShape'
    BY <2>1, <2>2, <2>3 DEF BacktestShape, Test!TypeOK, Test!Sorted
  <2>5. ReplayInv'
    BY <2>1 DEF ReplayInv
  <2>6. QED BY <2>4, <2>5 DEF BacktestInv
<1>6. QED BY <1>1, <1>2, <1>3, <1>4, <1>5 DEF Test!Next

-----------------------------------------------------------------------------
(* The platform: each part's invariant, whatever part is explored.         *)
PlatformInv ==
  /\ part \in Parts
  /\ IInv /\ StoreInv /\ CoreInv /\ ClockInv /\ StrategiesInv /\ PluginsInv /\ BooksInv
  /\ RiskInv /\ AlertsInv /\ BarsInv /\ CacheInv /\ StreamInv /\ LiveInv /\ IndicatorsInv
  /\ BacktestInv

LEMMA PlatformInitHolds == ASSUME PlatformInit PROVE PlatformInv
<1>1. /\ part \in Parts /\ Init /\ Store!Init /\ Core!Init /\ Clock!Init /\ Algo!Init
      /\ Plug!Init /\ Books!Init /\ Risk!Init /\ Alerts!Init /\ Feed!Init /\ Live!Init
      /\ Ind!Init /\ Test!Init
  BY DEF PlatformInit
<1>2. IInv /\ StoreInv /\ CoreInv /\ ClockInv /\ StrategiesInv
  BY <1>1, InitHolds, StoreInitHolds, CoreInitHolds, ClockInitHolds, StrategiesInitHolds
<1>3. PluginsInv /\ BooksInv /\ RiskInv /\ AlertsInv
  BY <1>1, PluginsInitHolds, BooksInitHolds, RiskInitHolds, AlertsInitHolds
<1>4. BarsInv /\ CacheInv /\ StreamInv /\ LiveInv
  BY <1>1, BarsInitHolds, CacheInitHolds, StreamInitHolds, LiveInitHolds
<1>5. IndicatorsInv /\ BacktestInv
  BY <1>1, IndicatorsInitHolds, BacktestInitHolds
<1>6. QED BY <1>1, <1>2, <1>3, <1>4, <1>5 DEF PlatformInv

(* A step of the platform is a step of one part, and the others stutter.   *)
LEMMA PartsStep ==
  ASSUME [PlatformNext]_allVars
  PROVE  /\ part' = part
         /\ [Next]_vars /\ [Store!Next]_storeVars /\ [Core!Next]_coreVars
         /\ [Clock!Next]_clockVars /\ [Algo!Next]_strategiesVars /\ [Plug!Next]_pluginsVars
         /\ [Books!Next]_accountsVars /\ [Risk!Next]_riskVars /\ [Alerts!Next]_alertsVars
         /\ [Feed!NextBars]_barsVars /\ [Feed!NextCache]_cacheVars
         /\ [Feed!NextStream]_streamVars /\ [Live!Next]_liveVars /\ [Ind!Next]_indicatorsVars
         /\ [Test!Next]_backtestVars
<1>1. CASE UNCHANGED allVars
  BY <1>1 DEF allVars, queueVars
<1>2. CASE PlatformNext
  <2>1. /\ part' = part /\ [Next]_vars /\ [Store!Next]_storeVars /\ [Core!Next]_coreVars
    BY <1>2 DEF PlatformNext, OthersIdle, queueVars
  <2>2. [Clock!Next]_clockVars /\ [Algo!Next]_strategiesVars /\ [Plug!Next]_pluginsVars
    BY <1>2 DEF PlatformNext, OthersIdle
  <2>3. [Books!Next]_accountsVars /\ [Risk!Next]_riskVars /\ [Alerts!Next]_alertsVars
    BY <1>2 DEF PlatformNext, OthersIdle
  <2>4. [Feed!NextBars]_barsVars /\ [Feed!NextCache]_cacheVars /\ [Feed!NextStream]_streamVars
    BY <1>2 DEF PlatformNext, OthersIdle
  <2>5. [Live!Next]_liveVars /\ [Ind!Next]_indicatorsVars /\ [Test!Next]_backtestVars
    BY <1>2 DEF PlatformNext, OthersIdle
  <2>6. QED BY <2>1, <2>2, <2>3, <2>4, <2>5
<1>3. QED BY <1>1, <1>2

LEMMA PlatformStepHolds == ASSUME PlatformInv, [PlatformNext]_allVars PROVE PlatformInv'
<1>1. IInv' /\ StoreInv' /\ CoreInv' /\ ClockInv' /\ StrategiesInv'
  BY PartsStep, NextHolds, StoreStepHolds, CoreStepHolds, ClockStepHolds, StrategiesStepHolds
  DEF PlatformInv
<1>2. PluginsInv' /\ BooksInv' /\ RiskInv' /\ AlertsInv'
  BY PartsStep, PluginsStepHolds, BooksStepHolds, RiskStepHolds, AlertsStepHolds
  DEF PlatformInv
<1>3. BarsInv' /\ CacheInv' /\ StreamInv' /\ LiveInv'
  BY PartsStep, BarsStepHolds, CacheStepHolds, StreamStepHolds, LiveStepHolds DEF PlatformInv
<1>4. IndicatorsInv' /\ BacktestInv'
  BY PartsStep, IndicatorsStepHolds, BacktestStepHolds DEF PlatformInv
<1>5. (part \in Parts)'
  BY PartsStep DEF PlatformInv, Parts
<1>6. QED BY <1>1, <1>2, <1>3, <1>4, <1>5 DEF PlatformInv

LEMMA FeedIsTyped == ASSUME BarsInv, CacheInv, StreamInv PROVE Feed!TypeOK
<1>1. Len(fTimeOf) <= MaxTicks /\ fFlushed \in BOOLEAN
  BY DEF BarsInv, BarsShape
<1>2. fLastTick \in Times \union {0}
  BY DEF BarsInv, BarsShape
<1>3. DOMAIN fStored \subseteq CacheKeys /\ fClock \in 0 .. MaxTime
  BY DEF CacheInv
<1>4. /\ fStreaming \in BOOLEAN /\ fNewest \in 0 .. MaxStreams /\ fHalting \in {"no", "stream"}
      /\ fStreams \in [1 .. MaxStreams -> {"none", "created", "runs", "ended"}]
      /\ Len(fWaiting) <= Capacity
  BY DEF StreamInv, StreamTyped, DataInv, CountInv
<1>5. QED BY <1>1, <1>2, <1>3, <1>4 DEF Feed!TypeOK, Feed!Streams

(* The invariant holds in every reachable state of the platform.           *)
THEOREM PlatformInvariance == PlatformSpec => []PlatformInv
<1>1. QED BY PlatformInitHolds, PlatformStepHolds, PTL DEF PlatformSpec

(* Every part keeps the shape of its state, whatever its constants are.    *)
THEOREM PlatformTyped == PlatformSpec => []PlatformTypeOK
<1>1. PlatformInv => PlatformTypeOK
  <2> SUFFICES ASSUME PlatformInv PROVE PlatformTypeOK
    OBVIOUS
  <2>1. TypeOK /\ Store!TypeOK /\ Core!TypeOK /\ Clock!TypeOK
    <3>1. TypeOK
      BY DEF PlatformInv, IInv, QueueInv, SeenInv, TypeOK, Producer, BackpressureAgrees,
             SizeIsExact
    <3>2. QED BY <3>1, StoreIsTyped DEF PlatformInv, CoreInv, ClockInv
  <2>2. Algo!TypeOK /\ Plug!TypeOK /\ Books!TypeOK /\ Risk!TypeOK
    BY StrategiesHear DEF PlatformInv, PluginsInv, BooksInv, RiskInv
  <2>3. Alerts!TypeOK /\ Feed!TypeOK /\ Live!TypeOK
    BY AlertsAreTyped, FeedIsTyped, LiveIsTyped DEF PlatformInv
  <2>4. Ind!TypeOK /\ Test!TypeOK
    BY IndicatorsTyped DEF PlatformInv, BacktestInv, BacktestShape
  <2>5. part \in Parts
    BY DEF PlatformInv
  <2>6. QED BY <2>1, <2>2, <2>3, <2>4, <2>5 DEF PlatformTypeOK, Parts
<1>2. QED BY PlatformInvariance, <1>1, PTL

(* Cash, positions and reconciled books agree with the fills and with the  *)
(* broker's answer, and an order that was booked alone and checked on the  *)
(* safe side keeps the risk limits, for any sizes, prices, tolerances and  *)
(* number of orders.                                                       *)
THEOREM AccountsAlwaysBalance == PlatformSpec => []AccountsBalance
<1>1. PlatformInv => AccountsBalance
  BY DEF PlatformInv, BooksInv, RiskInv, AccountsBalance
<1>2. QED BY PlatformInvariance, <1>1, PTL

(* What is stored is found again, complete, once and in order: cached data *)
(* and ticks, ticks in bars, cached indicator results, replayed bars.      *)
THEOREM StoredDataAlwaysExact == PlatformSpec => []StoredDataIsExact
<1>1. PlatformInv => StoredDataIsExact
  BY EntriesFound, WindowRecent, TicksAreExact, CacheStaysBounded, IndicatorsTyped,
     BarsAreReplayed
  DEF PlatformInv, StoredDataIsExact
<1>2. QED BY PlatformInvariance, <1>1, PTL

(* Engine, time keeper, strategies and plugins say of themselves what      *)
(* their loops, schedules, handlers and objects are, for any number of     *)
(* callers, listeners and plugins.                                         *)
THEOREM EngineAlwaysServed == PlatformSpec => []EngineIsServed
<1>1. PlatformInv => EngineIsServed
  BY StrategiesHear DEF PlatformInv, CoreInv, ClockInv, PluginsInv, EngineIsServed
<1>2. QED BY PlatformInvariance, <1>1, PTL

(* Alerts keep their cooldown, a streaming feed has its buffer task unless *)
(* it was started while a stop waited, and loses data at a full buffer     *)
(* only, the live engine's pending orders are the open ones and its        *)
(* health, once start has its answer, is that of its link, for any number  *)
(* of orders and faults.                                                   *)
THEOREM LiveStateAlwaysTrue == PlatformSpec => []LiveStateIsTrue
<1>1. PlatformInv => LiveStateIsTrue
  BY AlertsInTime, StreamIsInOrder DEF PlatformInv, LiveInv, LiveStateIsTrue
<1>2. QED BY PlatformInvariance, <1>1, PTL

(* Backpressure agrees with its queue beside the other parts as well.      *)
THEOREM QueueAlwaysAgrees == PlatformSpec => []BackpressureAgrees
<1>1. PlatformInv => BackpressureAgrees
  BY DEF PlatformInv, IInv, QueueInv
<1>2. QED BY PlatformInvariance, <1>1, PTL
=============================================================================
