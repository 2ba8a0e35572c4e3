------------------------ MODULE PlatformPartsProofs -------------------------
(***************************************************************************)
(* Proofs about the parts of Platform, for any constants: the stream queue *)
(* with its refinement of LossyChannel, and inductive invariants for the   *)
(* stream cache, the risk limits, the accounts, the engine, the time       *)
(* keeper, the plugins and the strategies.  PlatformProofs has the others. *)
(***************************************************************************)
EXTENDS Lists, Platform, SequenceTheorems, FiniteSetTheorems, FunctionTheorems,
        WellFoundedInduction, TLAPS

-----------------------------------------------------------------------------
(* Stream queue, for any number of producers, data, capacities, watermarks. *)

Producer == {Idle} \union [at : {"waiting", "woken"}, datum : Data]

(* What the deduplication and the background task keep does not touch the  *)
(* queue, and the queue's part does not depend on it.                      *)
QueueInv ==
  /\ queue \in Seq(Data)
  /\ policy \in Policies /\ capacity \in MaxQueues
  /\ throttling \in BOOLEAN /\ open \in BOOLEAN
  /\ producer \in [Producers -> Producer]
  /\ BackpressureAgrees

SeenInv == seen \in Seq(Data) /\ Len(seen) <= SeenMax

IInv == QueueInv /\ SeenInv /\ running \in BOOLEAN /\ puts \in 0..MaxPuts

-----------------------------------------------------------------------------
(* Lemmas about the drop policies and the watermarks.                      *)

(* The oldest fifth of a queue is less than the queue.                     *)
LEMMA DropsLess == \A n \in Nat \ {0} : Drops(n) \in Nat /\ Drops(n) < n
  BY DEF Drops

(* A queue that got one more and lost its k oldest is a sequence still,    *)
(* and it does not matter which happened first.                            *)
LEMMA DropThenAppend ==
  ASSUME NEW q \in Seq(Data), NEW d \in Data, NEW k \in 0..Len(q)
  PROVE  /\ SubSeq(Append(q, d), k + 1, Len(q) + 1) = Append(SubSeq(q, k + 1, Len(q)), d)
         /\ SubSeq(Append(q, d), k + 1, Len(q) + 1) \in Seq(Data)
         /\ Len(SubSeq(Append(q, d), k + 1, Len(q) + 1)) = Len(q) + 1 - k
<1> DEFINE all == Append(q, d)
           kept == SubSeq(q, k + 1, Len(q))
<1>1. /\ all \in Seq(Data) /\ Len(all) = Len(q) + 1
      /\ \A i \in 1..Len(q) + 1 : all[i] = IF i = Len(q) + 1 THEN d ELSE q[i]
  OBVIOUS
<1>2. \A i \in k + 1..Len(q) : q[i] \in Data
  BY ElementOfSeq
<1>3. /\ kept \in Seq(Data) /\ Len(kept) = Len(q) - k
      /\ \A i \in 1..Len(q) - k : kept[i] = q[k + i]
  <2>1. k + 1 \in Int /\ Len(q) \in Int
    OBVIOUS
  <2>2. /\ kept \in Seq(Data)
        /\ Len(kept) = IF k + 1 <= Len(q) THEN Len(q) - (k + 1) + 1 ELSE 0
        /\ \A i \in 1..Len(q) - (k + 1) + 1 : kept[i] = q[k + 1 + i - 1]
    BY <1>2, <2>1, SubSeqProperties
  <2>3. QED BY <2>2
<1>4. \A i \in k + 1..Len(q) + 1 : all[i] \in Data
  BY <1>1, ElementOfSeq
<1>5. /\ SubSeq(all, k + 1, Len(q) + 1) \in Seq(Data)
      /\ Len(SubSeq(all, k + 1, Len(q) + 1)) = Len(q) + 1 - k
      /\ \A i \in 1..Len(q) + 1 - k : SubSeq(all, k + 1, Len(q) + 1)[i] = all[k + i]
  <2>1. k + 1 \in Int /\ Len(q) + 1 \in Int
    OBVIOUS
  <2>2. /\ SubSeq(all, k + 1, Len(q) + 1) \in Seq(Data)
        /\ Len(SubSeq(all, k + 1, Len(q) + 1))
             = IF k + 1 <= Len(q) + 1 THEN Len(q) + 1 - (k + 1) + 1 ELSE 0
        /\ \A i \in 1..Len(q) + 1 - (k + 1) + 1 :
             SubSeq(all, k + 1, Len(q) + 1)[i] = all[k + 1 + i - 1]
    BY <1>4, <2>1, SubSeqProperties
  <2>3. QED BY <2>2
<1>6. /\ Append(kept, d) \in Seq(Data) /\ Len(Append(kept, d)) = Len(q) + 1 - k
      /\ \A i \in 1..Len(q) + 1 - k :
           Append(kept, d)[i] = IF i = Len(q) + 1 - k THEN d ELSE q[k + i]
  BY <1>3
<1>7. \A i \in 1..Len(q) + 1 - k : SubSeq(all, k + 1, Len(q) + 1)[i] = Append(kept, d)[i]
  <2>1. TAKE i \in 1..Len(q) + 1 - k
  <2>2. k + i \in 1..Len(q) + 1 /\ (k + i = Len(q) + 1 <=> i = Len(q) + 1 - k)
    OBVIOUS
  <2>3. QED BY <1>1, <1>5, <1>6, <2>2
<1>8. SubSeq(all, k + 1, Len(q) + 1) = Append(kept, d)
  BY <1>5, <1>6, <1>7, SeqEqual
<1>9. QED BY <1>5, <1>8

(* A queue that is not below a watermark above zero is not empty.          *)
LEMMA WatermarkAboveZero ==
  ASSUME NEW n \in Nat, NEW percent \in 1..100, capacity \in Nat \ {0}, AtLeast(n, percent)
  PROVE  n > 0
<1>1. percent * capacity >= 1
  BY SMT
<1>2. QED BY <1>1 DEF AtLeast

(* The halves of a deque of hashes, and its bound.                         *)
LEMMA RememberBounded ==
  ASSUME SeenInv, NEW d \in Data, Remember(d)
  PROVE  SeenInv'
<1>1. CASE Len(seen) < SeenMax
  BY <1>1, QueueConstants DEF SeenInv, Remember
<1>2. CASE ~(Len(seen) < SeenMax)
  <2>1. seen # << >>
    BY <1>2, QueueConstants DEF SeenInv
  <2>2. Tail(seen) \in Seq(Data) /\ Len(Tail(seen)) = Len(seen) - 1
    BY <2>1, HeadTailProperties DEF SeenInv
  <2>3. QED BY <1>2, <2>2, QueueConstants DEF SeenInv, Remember
<1>3. QED BY <1>1, <1>2

-----------------------------------------------------------------------------
(* Enqueue: put_nowait and _handle_queue_full.                             *)

(* It keeps queue, counter, flag and event in agreement, and never opens   *)
(* the event.  What it does to the queue is what LossyChannel allows.      *)
LEMMA EnqueueAgrees ==
  ASSUME QueueInv, NEW d \in Data, Enqueue(d), capacity' = capacity
  PROVE  /\ queue' \in Seq(Data)
         /\ throttling' \in BOOLEAN /\ open' \in BOOLEAN
         /\ SizeIsExact'
         /\ open' = ~throttling' /\ (throttling' => queue' # << >>)
         /\ ~open => ~open'
         /\ Channel!Put(d) \/ queue' = queue
<1> DEFINE n == size + 1
<1>1. /\ queue \in Seq(Data) /\ size = Len(queue) /\ Len(queue) \in Nat
      /\ Len(queue) <= capacity /\ capacity \in Nat \ {0}
      /\ throttling \in BOOLEAN /\ open = ~throttling
      /\ throttling => queue # << >>
  BY QueueConstants DEF QueueInv, BackpressureAgrees, SizeIsExact, PauseHasAnEnd
<1>2. CASE Len(queue) < capacity
  <2>1. n \in Nat \ {0} /\ n = Len(queue) + 1
    BY <1>1
  <2>2. Drops(n) \in Nat /\ Drops(n) < n
    BY <2>1, DropsLess
  <2>3. Drops(n) \in 0..Len(queue)
    BY <2>1, <2>2, <1>1
  <2>4. Admit(d)
    BY <1>2 DEF Enqueue
  <2>5. queue' = SubSeq(Append(queue, d), Drops(n) + 1, Len(queue) + 1)
    BY <2>4 DEF Admit
  <2>6. /\ queue' = Append(SubSeq(queue, Drops(n) + 1, Len(queue)), d)
        /\ queue' \in Seq(Data)
        /\ Len(queue') = Len(queue) + 1 - Drops(n)
    BY <1>1, <2>3, <2>5, DropThenAppend
  <2>7. size' = n - Drops(n)
    BY <2>4 DEF Admit
  <2>8. SizeIsExact'
    BY <1>1, <1>2, <2>1, <2>2, <2>6, <2>7 DEF SizeIsExact
  <2>9. queue' # << >>
    BY <2>6, <2>2, <2>1, <1>1, EmptySeq
  <2>10. Channel!Put(d)
    <3>1. Len(queue') <= capacity
      BY <1>1, <1>2, <2>2, <2>6
    <3>2. QED BY <2>3, <2>6, <3>1 DEF Channel!Put
  <2>11. /\ throttling' = (throttling \/ (~throttling /\ AtLeast(n, High)))
         /\ open' = (open /\ ~(~throttling /\ AtLeast(n, High)))
    BY <2>4 DEF Admit
  <2>12. /\ throttling' \in BOOLEAN /\ open' \in BOOLEAN /\ open' = ~throttling'
         /\ ~open => ~open'
    BY <1>1, <2>11 DEF AtLeast
  <2>13. QED BY <2>6, <2>8, <2>9, <2>10, <2>12
<1>3. CASE ~(Len(queue) < capacity)
  <2>1. Overflow(d) /\ UNCHANGED <<size, throttling, open>>
    BY <1>3 DEF Enqueue, Overflow
  <2>2. CASE policy = "oldest"
    <3>1. queue # << >> /\ 1 \in 0..Len(queue)
      BY <1>1, <1>3
    <3>2. queue' = Append(Tail(queue), d)
      BY <2>1, <2>2 DEF Overflow, Replace
    <3>3. Tail(queue) = SubSeq(queue, 2, Len(queue)) /\ Tail(queue) \in Seq(Data)
          /\ Len(Tail(queue)) = Len(queue) - 1
      BY <1>1, <3>1, TailIsSubSeq, HeadTailProperties
    <3>4. queue' \in Seq(Data) /\ Len(queue') = Len(queue) /\ queue' # << >>
      <4>1. queue' \in Seq(Data) /\ Len(queue') = Len(Tail(queue)) + 1
        BY <3>2, <3>3
      <4>2. QED BY <4>1, <3>3, <3>1, <1>1, EmptySeq
    <3>5. SizeIsExact'
      BY <1>1, <2>1, <3>4 DEF SizeIsExact
    <3>6. Channel!Put(d)
      <4>1. Len(queue') <= capacity
        BY <1>1, <3>4
      <4>2. queue' = Append(SubSeq(queue, 1 + 1, Len(queue)), d)
        BY <3>2, <3>3
      <4>3. QED BY <3>1, <4>1, <4>2 DEF Channel!Put
    <3>7. QED BY <1>1, <2>1, <3>4, <3>5, <3>6
  <2>3. CASE policy # "oldest"
    <3>1. queue' = queue
      BY <2>1, <2>3 DEF Overflow
    <3>2. QED BY <1>1, <2>1, <3>1 DEF SizeIsExact
  <2>4. QED BY <2>2, <2>3
<1>4. QED BY <1>2, <1>3

(* _resume_streaming with a queue that stays one.                          *)
LEMMA ResumeAgrees ==
  ASSUME QueueInv, Resume
  PROVE  /\ throttling' = FALSE /\ open' = TRUE
         /\ producer' \in [Producers -> Producer]
         /\ \A p \in Producers : producer'[p].at # "waiting"
<1>1. ASSUME NEW p \in Producers
      PROVE  producer'[p] \in Producer /\ producer'[p].at # "waiting"
  <2>1. producer[p] \in Producer
    BY DEF QueueInv
  <2>2. producer'[p] = IF producer[p].at = "waiting" THEN [producer[p] EXCEPT !.at = "woken"]
                       ELSE producer[p]
    BY DEF Resume
  <2>3. QED BY <2>1, <2>2 DEF Producer, Idle
<1>2. QED BY <1>1 DEF Resume

-----------------------------------------------------------------------------
(* Every operation preserves the invariant.                                *)

LEMMA InitHolds == Init => IInv
<1> SUFFICES ASSUME Init PROVE IInv
  OBVIOUS
<1>2. << >> \in Seq(Data) /\ Len(<< >>) = 0
  BY EmptySeq
<1>3. SizeIsExact
  BY <1>2, QueueConstants DEF Init, SizeIsExact
<1>4. producer \in [Producers -> Producer] /\ \A p \in Producers : producer[p].at = "idle"
  BY DEF Init, Producer, Idle
<1>5. PauseHasAnEnd
  BY <1>4 DEF Init, PauseHasAnEnd
<1>6. SeenInv
  BY <1>2, QueueConstants DEF Init, SeenInv
<1>7. puts \in 0..MaxPuts
  BY QueueConstants DEF Init
<1>8. QueueInv
  BY <1>2, <1>3, <1>4, <1>5 DEF Init, QueueInv, BackpressureAgrees
<1>9. running \in BOOLEAN
  BY DEF Init
<1>10. QED BY <1>6, <1>7, <1>8, <1>9 DEF IInv

(* An enqueuing step after which nobody waits who did not wait before.     *)
LEMMA EnqueueHolds ==
  ASSUME QueueInv, NEW d \in Data, Enqueue(d), UNCHANGED <<policy, capacity>>,
         producer' \in [Producers -> Producer],
         \A p \in Producers : producer'[p].at = "waiting" => producer[p].at = "waiting"
  PROVE  QueueInv'
<1>1. /\ queue' \in Seq(Data) /\ throttling' \in BOOLEAN /\ open' \in BOOLEAN /\ SizeIsExact'
      /\ open' = ~throttling' /\ (throttling' => queue' # << >>) /\ (~open => ~open')
  BY EnqueueAgrees
<1>2. \A p \in Producers : producer'[p].at = "waiting" => ~open'
  BY <1>1 DEF QueueInv, BackpressureAgrees, PauseHasAnEnd
<1>3. PauseHasAnEnd'
  BY <1>1, <1>2 DEF PauseHasAnEnd
<1>4. QED BY <1>1, <1>3 DEF QueueInv, BackpressureAgrees

LEMMA PutHolds ==
  ASSUME IInv, NEW p \in Producers, NEW d \in Data, Put(p, d)
  PROVE  IInv'
<1>1. puts' \in 0..MaxPuts /\ running' \in BOOLEAN
  BY QueueConstants DEF IInv, Put
<1>2. CASE \E i \in 1..Len(seen) : seen[i] = d
  <2>1. UNCHANGED <<queue, size, throttling, open, producer, seen, policy, capacity>>
    BY <1>2 DEF Put
  <2>2. QED
    BY <1>1, <2>1
       DEF IInv, QueueInv, SeenInv, BackpressureAgrees, SizeIsExact, PauseHasAnEnd
<1>3. CASE ~ \E i \in 1..Len(seen) : seen[i] = d
  <2>1. SeenInv'
    BY <1>3, RememberBounded DEF IInv, Put
  <2>2. CASE open
    <3>1. Enqueue(d) /\ UNCHANGED <<producer, policy, capacity>>
      BY <1>3, <2>2 DEF Put
    <3>2. QueueInv'
      BY <3>1, EnqueueHolds DEF IInv, QueueInv
    <3>3. QED BY <1>1, <2>1, <3>2 DEF IInv
  <2>3. CASE ~open
    <3>1. /\ producer' = [producer EXCEPT ![p] = [at |-> "waiting", datum |-> d]]
          /\ UNCHANGED <<queue, size, throttling, open, policy, capacity>>
      BY <1>3, <2>3 DEF Put
    <3>2. producer' \in [Producers -> Producer]
      BY <3>1 DEF IInv, QueueInv, Producer
    <3>3. BackpressureAgrees'
      BY <2>3, <3>1 DEF IInv, QueueInv, BackpressureAgrees, SizeIsExact, PauseHasAnEnd
    <3>4. QED BY <1>1, <2>1, <3>1, <3>2, <3>3 DEF IInv, QueueInv
  <2>4. QED BY <2>2, <2>3
<1>4. QED BY <1>2, <1>3

LEMMA ProceedHolds ==
  ASSUME IInv, NEW p \in Producers, Proceed(p)
  PROVE  IInv'
<1>1. producer[p].datum \in Data
  <2>1. producer[p] \in Producer /\ producer[p].at = "woken"
    BY DEF IInv, QueueInv, Proceed
  <2>2. QED BY <2>1 DEF Producer, Idle
<1>2. /\ producer' \in [Producers -> Producer]
      /\ \A o \in Producers : producer'[o].at = "waiting" => producer[o].at = "waiting"
  BY DEF IInv, QueueInv, Proceed, Producer, Idle
<1>3. Enqueue(producer[p].datum) /\ UNCHANGED <<seen, running, policy, capacity, puts>>
  BY DEF Proceed
<1>4. QueueInv'
  BY <1>1, <1>2, <1>3, EnqueueHolds DEF IInv
<1>5. QED BY <1>3, <1>4 DEF IInv, SeenInv

(* A get that does not resume leaves something to get: the queue is not    *)
(* below a low watermark that is above zero.                               *)
LEMMA GetHolds ==
  ASSUME IInv, Get
  PROVE  IInv'
<1>1. /\ queue \in Seq(Data) /\ queue # << >> /\ size = Len(queue) /\ Len(queue) <= capacity
      /\ capacity \in Nat \ {0}
  BY QueueConstants DEF IInv, QueueInv, BackpressureAgrees, SizeIsExact, Get
<1>2. /\ Len(queue) \in Nat \ {0}
      /\ Tail(queue) \in Seq(Data) /\ Len(Tail(queue)) = Len(queue) - 1
  BY <1>1, EmptySeq, HeadTailProperties
<1>3. /\ queue' = Tail(queue) /\ size' = size - 1
      /\ UNCHANGED <<seen, running, policy, capacity, puts>>
  BY DEF Get
<1>4. SizeIsExact'
  BY <1>1, <1>2, <1>3 DEF SizeIsExact
<1>5. /\ throttling' \in BOOLEAN /\ open' \in BOOLEAN
      /\ producer' \in [Producers -> Producer]
      /\ PauseHasAnEnd'
  <2>1. CASE throttling /\ ResumesAt(size - 1)
    <3>1. Resume
      BY <2>1 DEF Get
    <3>2. /\ throttling' = FALSE /\ open' = TRUE
          /\ producer' \in [Producers -> Producer]
          /\ \A p \in Producers : producer'[p].at # "waiting"
      BY <3>1, ResumeAgrees DEF IInv
    <3>3. QED BY <3>2 DEF PauseHasAnEnd
  <2>2. CASE ~(throttling /\ ResumesAt(size - 1))
    <3>1. UNCHANGED <<throttling, open, producer>>
      BY <2>2 DEF Get
    <3>2. ASSUME throttling PROVE queue' # << >>
      <4>1. AtLeast(size - 1, Low) /\ size - 1 \in Nat /\ Low \in 1..100
        BY <1>1, <1>2, <2>2, <3>2, QueueConstants DEF ResumesAt
      <4>2. size - 1 > 0
        BY <1>1, <4>1, WatermarkAboveZero
      <4>3. queue' \in Seq(Data) /\ Len(queue') > 0
        BY <1>1, <1>2, <1>3, <4>2
      <4>4. QED BY <4>3, EmptySeq
    <3>3. QED
      BY <3>1, <3>2 DEF IInv, QueueInv, BackpressureAgrees, PauseHasAnEnd
  <2>3. QED BY <2>1, <2>2
<1>6. QED BY <1>2, <1>3, <1>4, <1>5 DEF IInv, QueueInv, SeenInv, BackpressureAgrees

(* The cleanup loop, clear, start and stop.                                *)
LEMMA OthersHold ==
  ASSUME IInv, Clear \/ Trim \/ Start \/ Stop \/ UNCHANGED vars
  PROVE  IInv'
<1>1. CASE UNCHANGED <<queue, size, throttling, open, producer, policy, capacity, puts>>
           /\ running' \in BOOLEAN /\ SeenInv'
  BY <1>1 DEF IInv, QueueInv, BackpressureAgrees, SizeIsExact, PauseHasAnEnd
<1>2. CASE Clear
  <2>1. SeenInv'
    BY <1>2, EmptySeq, QueueConstants DEF Clear, SeenInv
  <2>2. QED BY <1>1, <1>2, <2>1 DEF Clear, IInv
<1>3. CASE Trim
  <2>1. Len(seen) \in Nat /\ Len(seen) \div 2 \in Nat /\ Len(seen) \div 2 <= Len(seen)
    BY DEF IInv, SeenInv
  <2>2. \A i \in (Len(seen) \div 2) + 1..Len(seen) : seen[i] \in Data
    BY <2>1, ElementOfSeq DEF IInv, SeenInv
  <2>3. (Len(seen) \div 2) + 1 \in Int /\ Len(seen) \in Int
    BY <2>1
  <2>4. /\ SubSeq(seen, (Len(seen) \div 2) + 1, Len(seen)) \in Seq(Data)
        /\ Len(SubSeq(seen, (Len(seen) \div 2) + 1, Len(seen)))
             = IF (Len(seen) \div 2) + 1 <= Len(seen)
               THEN Len(seen) - ((Len(seen) \div 2) + 1) + 1 ELSE 0
    BY <2>2, <2>3, SubSeqProperties
  <2>5. SeenInv'
    BY <1>3, <2>1, <2>4, QueueConstants DEF Trim, IInv, SeenInv
  <2>6. QED BY <1>1, <1>3, <2>5 DEF Trim, IInv
<1>4. CASE Start \/ UNCHANGED vars
  BY <1>1, <1>4 DEF Start, vars, IInv, SeenInv
<1>5. CASE Stop
  <2>1. /\ throttling' = FALSE /\ open' = TRUE
        /\ producer' \in [Producers -> Producer]
        /\ \A p \in Producers : producer'[p].at # "waiting"
    BY <1>5, ResumeAgrees DEF Stop, IInv
  <2>2. running' = FALSE /\ UNCHANGED <<queue, size, seen, policy, capacity, puts>>
    BY <1>5 DEF Stop
  <2>3. PauseHasAnEnd' /\ SizeIsExact'
    BY <2>1, <2>2 DEF PauseHasAnEnd, SizeIsExact, IInv, QueueInv, BackpressureAgrees
  <2>4. QED BY <2>1, <2>2, <2>3 DEF IInv, QueueInv, SeenInv, BackpressureAgrees
<1>6. QED BY <1>2, <1>3, <1>4, <1>5

LEMMA NextHolds == IInv /\ [Next]_vars => IInv'
  BY PutHolds, ProceedHolds, GetHolds, OthersHold DEF Next

(* The queue and what is known of it agree in every reachable state.       *)
THEOREM Invariance == Spec => []IInv
  BY InitHolds, NextHolds, PTL DEF Spec

-----------------------------------------------------------------------------
(* Every variable keeps its type, also the bounded deque of hashes.        *)
THEOREM TypeCorrect == Spec => []TypeOK
<1>1. IInv => TypeOK
  BY DEF IInv, QueueInv, SeenInv, TypeOK, Producer, BackpressureAgrees, SizeIsExact
<1>2. QED BY <1>1, Invariance, PTL

(* Backpressure never loses count, never outgrows the queue, and never     *)
(* holds a producer back with nothing left whose consumption would free    *)
(* it.                                                                     *)
THEOREM BackpressureAlwaysAgrees == Spec => []BackpressureAgrees
<1>1. IInv => BackpressureAgrees
  BY DEF IInv, QueueInv
<1>2. QED BY <1>1, Invariance, PTL

-----------------------------------------------------------------------------
(* Every step is a step of the lossy channel or leaves it alone.           *)
LEMMA RefinesInit == Init => Channel!Init
  BY DEF Init, Channel!Init

LEMMA RefinesNext == IInv /\ [Next]_vars => [Channel!Next]_<<queue, capacity>>
<1>1. SUFFICES ASSUME IInv, [Next]_vars
               PROVE  Channel!Next \/ UNCHANGED <<queue, capacity>>
  OBVIOUS
<1>2. ASSUME NEW p \in Producers, NEW d \in Data, Put(p, d)
      PROVE  Channel!Put(d) \/ UNCHANGED <<queue, capacity>>
  <2>1. capacity' = capacity
    BY <1>2 DEF Put
  <2>2. Enqueue(d) \/ queue' = queue
    BY <1>2 DEF Put
  <2>3. QED BY <1>1, <2>1, <2>2, EnqueueAgrees DEF IInv
<1>3. ASSUME NEW p \in Producers, Proceed(p)
      PROVE  (\E d \in Data : Channel!Put(d)) \/ UNCHANGED <<queue, capacity>>
  <2>1. producer[p].datum \in Data
    <3>1. producer[p] \in Producer /\ producer[p].at = "woken"
      BY <1>1, <1>3 DEF IInv, QueueInv, Proceed
    <3>2. QED BY <3>1 DEF Producer, Idle
  <2>2. Enqueue(producer[p].datum) /\ capacity' = capacity
    BY <1>3 DEF Proceed
  <2>3. QED BY <1>1, <2>1, <2>2, EnqueueAgrees DEF IInv
<1>4. CASE Get
  BY <1>4 DEF Get, Channel!Next, Channel!Take
<1>5. CASE Clear \/ Trim \/ Start \/ Stop \/ UNCHANGED vars
  BY <1>5 DEF Clear, Trim, Start, Stop, vars
<1>6. QED BY <1>1, <1>2, <1>3, <1>4, <1>5 DEF Next, Channel!Next

(* put_async, get_async and the drop policies implement LossyChannel: data *)
(* come out in the order in which they went in, and only the newcomer or   *)
(* the oldest are lost, for every policy and every pause.                  *)
THEOREM ImplementsChannel == Spec => IsLossyChannel
<1>1. Spec => []IInv /\ Init /\ [][Next]_vars
  BY Invariance DEF Spec
<1>2. QED BY <1>1, RefinesInit, RefinesNext, PTL DEF IsLossyChannel, Channel!Spec

-----------------------------------------------------------------------------
(* Numbers, finite sets and lists: what the parts need of induction.       *)

Less == {p \in Nat \X Nat : p[1] < p[2]}

LEMMA LessWellFounded == IsWellFoundedOn(Less, Nat)
  BY NatLessThanWellFounded DEF OpToRel, Less

LEMMA NatSets ==
  ASSUME NEW T \in SUBSET Nat, 0 \in T, \A n \in T : n + 1 \in T
  PROVE  T = Nat
<1>1. SUFFICES ASSUME Nat \ T # {} PROVE FALSE
  OBVIOUS
<1>2. PICK x \in Nat \ T : \A y \in Nat \ T : <<y, x>> \notin Less
  BY <1>1, LessWellFounded, WFMin
<1>3. x # 0 /\ x - 1 \in Nat /\ x - 1 < x
  BY <1>2
<1>4. x - 1 \in T
  BY <1>2, <1>3 DEF Less
<1>5. QED BY <1>2, <1>3, <1>4

(* A recursive function on the numbers up to a bound exists; its step is   *)
(* given by a function of the number and the value before.                 *)
Recurs(f, N, a, step) ==
  \A n \in 0 .. N : f[n] = IF n = 0 THEN a ELSE step[<<n, f[n - 1]>>]

LEMMA RecursionExists ==
  ASSUME NEW N \in Nat, NEW V, NEW a \in V, NEW step \in [(1 .. N) \X V -> V]
  PROVE  \E f \in [0 .. N -> V] : Recurs(f, N, a, step)
<1> DEFINE T == {m \in Nat : m <= N => \E f \in [0 .. m -> V] : Recurs(f, m, a, step)}
<1>1. 0 \in T
  <2>1. [n \in 0 .. 0 |-> a] \in [0 .. 0 -> V] /\ Recurs([n \in 0 .. 0 |-> a], 0, a, step)
    BY DEF Recurs
  <2>2. QED BY <2>1
<1>2. ASSUME NEW m \in T PROVE m + 1 \in T
  <2>1. SUFFICES ASSUME m + 1 <= N
                 PROVE  \E f \in [0 .. m + 1 -> V] : Recurs(f, m + 1, a, step)
    OBVIOUS
  <2>2. PICK f \in [0 .. m -> V] : Recurs(f, m, a, step)
    BY <2>1
  <2> DEFINE g == [n \in 0 .. m + 1 |-> IF n <= m THEN f[n] ELSE step[<<m + 1, f[m]>>]]
  <2>3. step[<<m + 1, f[m]>>] \in V /\ m + 1 # 0 /\ (m + 1) - 1 = m
    <3>1. m + 1 \in 1 .. N /\ f[m] \in V BY <2>1, <2>2
    <3>2. <<m + 1, f[m]>> \in (1 .. N) \X V BY <3>1
    <3>3. QED BY <3>2
  <2>4. g \in [0 .. m + 1 -> V]
    <3>1. \A n \in 0 .. m + 1 : n <= m => n \in 0 .. m OBVIOUS
    <3>2. QED BY <2>2, <2>3, <3>1
  <2>5. ASSUME NEW n \in 0 .. m + 1
        PROVE  g[n] = IF n = 0 THEN a ELSE step[<<n, g[n - 1]>>]
    <3>1. CASE n <= m
      <4>1. n \in 0 .. m /\ (n # 0 => n - 1 \in 0 .. m /\ n - 1 <= m) BY <3>1
      <4>2. g[n] = f[n] /\ (n # 0 => g[n - 1] = f[n - 1]) BY <4>1
      <4> HIDE DEF g
      <4>3. QED BY <2>2, <4>1, <4>2 DEF Recurs
    <3>2. CASE n = m + 1
      <4>1. n # 0 /\ n - 1 = m /\ ~(n <= m) /\ m \in 0 .. m + 1 /\ m <= m BY <3>2
      <4>2. g[n] = step[<<n, f[m]>>] /\ g[m] = f[m] BY <3>2, <4>1
      <4> HIDE DEF g
      <4>3. QED BY <4>1, <4>2
    <3>3. QED BY <3>1, <3>2
  <2> HIDE DEF g
  <2>6. QED BY <2>4, <2>5 DEF Recurs
<1>3. T \in SUBSET Nat
  OBVIOUS
<1>4. N \in T
  <2> HIDE DEF T
  <2>1. QED BY <1>1, <1>2, <1>3, NatSets
<1>5. QED BY <1>4

(* The places of a list that a selection keeps, in their order.            *)
Ascends(at, m, n) ==
  /\ at \in [1 .. m -> 1 .. n]
  /\ \A i, j \in 1 .. m : i < j => at[i] < at[j]

SelectedAs(r, list, keep, n) ==
  \E at : /\ Ascends(at, Len(r), n)
          /\ \A i \in 1 .. Len(r) : r[i] = list[at[i]] /\ list[at[i]] \in keep
          /\ \A j \in 1 .. n : list[j] \in keep => \E i \in 1 .. Len(r) : at[i] = j

(* One element more, which is kept or not.                                 *)
LEMMA SelectedOneMore ==
  ASSUME NEW S, NEW list \in Seq(S), NEW keep, NEW r \in Seq(S), NEW n \in Nat,
         n + 1 \in 1 .. Len(list), SelectedAs(r, list, keep, n)
  PROVE  /\ list[n + 1] \in keep => SelectedAs(Append(r, list[n + 1]), list, keep, n + 1)
         /\ list[n + 1] \notin keep => SelectedAs(r, list, keep, n + 1)
<1>1. PICK at : /\ Ascends(at, Len(r), n)
                /\ \A i \in 1 .. Len(r) : r[i] = list[at[i]] /\ list[at[i]] \in keep
                /\ \A j \in 1 .. n : list[j] \in keep => \E i \in 1 .. Len(r) : at[i] = j
  BY DEF SelectedAs
<1>2. PICK m \in Nat : m = Len(r)
  OBVIOUS
<1>3. /\ at \in [1 .. m -> 1 .. n] /\ \A i, j \in 1 .. m : i < j => at[i] < at[j]
      /\ \A i \in 1 .. m : r[i] = list[at[i]] /\ list[at[i]] \in keep
      /\ \A j \in 1 .. n : list[j] \in keep => \E i \in 1 .. m : at[i] = j
  BY <1>1, <1>2 DEF Ascends
<1>4. \A i \in 1 .. m : at[i] \in 1 .. n /\ at[i] \in 1 .. n + 1 /\ at[i] < n + 1
  BY <1>3
<1>5. \A j \in 1 .. n + 1 : j \in 1 .. n \/ j = n + 1
  OBVIOUS
<1>6. ASSUME list[n + 1] \in keep
      PROVE  SelectedAs(Append(r, list[n + 1]), list, keep, n + 1)
  <2> DEFINE q == Append(r, list[n + 1])
             to == [i \in 1 .. m + 1 |-> IF i <= m THEN at[i] ELSE n + 1]
  <2>1. /\ q \in Seq(S) /\ Len(q) = m + 1 /\ q[m + 1] = list[n + 1]
        /\ \A i \in 1 .. m : q[i] = r[i]
    BY <1>2, AppendProperties
  <2>2. /\ \A i \in 1 .. m : to[i] = at[i] /\ i \in 1 .. m + 1
        /\ to[m + 1] = n + 1 /\ m + 1 \in 1 .. m + 1
        /\ \A i \in 1 .. m + 1 : i \in 1 .. m \/ i = m + 1
    OBVIOUS
  <2>3. to \in [1 .. m + 1 -> 1 .. n + 1]
    BY <1>4, <2>2
  <2> HIDE DEF q, to
  <2>4. \A i, j \in 1 .. m + 1 : i < j => to[i] < to[j]
    <3>1. SUFFICES ASSUME NEW i \in 1 .. m + 1, NEW j \in 1 .. m + 1, i < j
                   PROVE  to[i] < to[j]
      OBVIOUS
    <3>2. i \in 1 .. m BY <3>1
    <3>3. CASE j \in 1 .. m BY <1>3, <2>2, <3>1, <3>2, <3>3
    <3>4. CASE j = m + 1 BY <1>4, <2>2, <3>2, <3>4
    <3>5. QED BY <2>2, <3>3, <3>4
  <2>5. \A i \in 1 .. m + 1 : q[i] = list[to[i]] /\ list[to[i]] \in keep
    BY <1>3, <1>6, <2>1, <2>2
  <2>6. \A j \in 1 .. n + 1 : list[j] \in keep => \E i \in 1 .. m + 1 : to[i] = j
    BY <1>3, <1>5, <2>2
  <2>7. /\ Ascends(to, Len(q), n + 1)
        /\ \A i \in 1 .. Len(q) : q[i] = list[to[i]] /\ list[to[i]] \in keep
        /\ \A j \in 1 .. n + 1 : list[j] \in keep => \E i \in 1 .. Len(q) : to[i] = j
    BY <2>1, <2>3, <2>4, <2>5, <2>6 DEF Ascends
  <2>8. SelectedAs(q, list, keep, n + 1)
    BY <2>7 DEF SelectedAs
  <2>9. QED BY <2>8 DEF q
<1>7. ASSUME list[n + 1] \notin keep
      PROVE  SelectedAs(r, list, keep, n + 1)
  <2>1. at \in [1 .. m -> 1 .. n + 1]
    BY <1>3, <1>4
  <2>2. \A j \in 1 .. n + 1 : list[j] \in keep => \E i \in 1 .. m : at[i] = j
    BY <1>3, <1>5, <1>7
  <2>3. QED BY <1>2, <1>3, <2>1, <2>2 DEF SelectedAs, Ascends
<1>8. QED BY <1>6, <1>7

LEMMA SelectedProperties ==
  ASSUME NEW S, NEW list \in Seq(S), NEW keep
  PROVE  /\ Selected(list, keep) \in Seq(S)
         /\ SelectedAs(Selected(list, keep), list, keep, Len(list))
<1> DEFINE c == Len(list)
           next(v, n) == IF list[n] \in keep THEN Append(v, list[n]) ELSE v
           step == [p \in (1 .. c) \X Seq(S) |-> next(p[2], p[1])]
           Good(f) == f = [n \in 0 .. c |-> IF n = 0 THEN << >> ELSE next(f[n - 1], n)]
<1>1. c \in Nat OBVIOUS
<1>2. \A n \in 1 .. c, v \in Seq(S) : next(v, n) \in Seq(S)
  OBVIOUS
<1>3. \E f : Good(f)
  <2> HIDE DEF next
  <2>1. step \in [(1 .. c) \X Seq(S) -> Seq(S)] BY <1>2
  <2>2. << >> \in Seq(S) OBVIOUS
  <2>3. PICK f \in [0 .. c -> Seq(S)] : Recurs(f, c, << >>, step)
    <3> HIDE DEF step, c
    <3>1. QED BY <1>1, <2>1, <2>2, RecursionExists
  <2>4. \A n \in 0 .. c : f[n] = IF n = 0 THEN << >> ELSE next(f[n - 1], n)
    <3>1. TAKE n \in 0 .. c
    <3>2. CASE n = 0 BY <2>3, <3>2 DEF Recurs
    <3>3. CASE n # 0
      <4>1. n \in 1 .. c /\ n - 1 \in 0 .. c BY <1>1, <3>3
      <4>2. f[n - 1] \in Seq(S) BY <2>3, <4>1
      <4>3. f[n] = step[<<n, f[n - 1]>>] BY <2>3, <3>3 DEF Recurs
      <4>4. QED BY <3>3, <4>1, <4>2, <4>3
    <3>4. QED BY <3>2, <3>3
  <2>5. Good(f) BY <2>3, <2>4
  <2>6. QED BY <2>5
<1>4. ASSUME NEW f, Good(f)
      PROVE  f[c] \in Seq(S) /\ SelectedAs(f[c], list, keep, c)
  <2> DEFINE T == {n \in Nat : n <= c => f[n] \in Seq(S) /\ SelectedAs(f[n], list, keep, n)}
  <2>0. \A n \in 0 .. c : f[n] = IF n = 0 THEN << >> ELSE next(f[n - 1], n)
    BY <1>4
  <2> HIDE DEF Good
  <2>1. 0 \in T
    <3>1. f[0] = << >> BY <1>1, <2>0
    <3>2. Ascends([i \in 1 .. 0 |-> 1], 0, 0) BY DEF Ascends
    <3>3. SelectedAs(<< >>, list, keep, 0)
      <4> DEFINE none == [i \in 1 .. 0 |-> 1]
      <4>1. Len(<< >>) = 0 /\ (\A i \in 1 .. 0 : FALSE) OBVIOUS
      <4>2. Ascends(none, Len(<< >>), 0) BY <3>2, <4>1
      <4> HIDE DEF none
      <4>3. QED BY <4>1, <4>2 DEF SelectedAs
    <3>4. << >> \in Seq(S) OBVIOUS
    <3>5. f[0] \in Seq(S) /\ SelectedAs(f[0], list, keep, 0) BY <3>1, <3>3, <3>4
    <3>6. QED BY <3>5
  <2>2. ASSUME NEW n \in T PROVE n + 1 \in T
    <3>1. CASE n + 1 <= c
      <4>1. /\ n + 1 \in 0 .. c /\ n + 1 \in 1 .. c /\ n + 1 # 0 /\ (n + 1) - 1 = n /\ n <= c
            /\ n \in Nat
        BY <1>1, <3>1
      <4>2. f[n + 1] = next(f[n], n + 1) /\ f[n] \in Seq(S) /\ SelectedAs(f[n], list, keep, n)
        BY <2>0, <2>2, <4>1
      <4>3. next(f[n], n + 1) \in Seq(S) BY <1>2, <4>1, <4>2
      <4>4. SelectedAs(next(f[n], n + 1), list, keep, n + 1)
        BY <4>1, <4>2, SelectedOneMore
      <4> HIDE DEF next
      <4>5. f[n + 1] \in Seq(S) /\ SelectedAs(f[n + 1], list, keep, n + 1)
        BY <4>2, <4>3, <4>4
      <4>6. n + 1 \in Nat BY <4>1
      <4>7. QED BY <4>5, <4>6
    <3>2. CASE ~(n + 1 <= c) BY <3>2
    <3>3. QED BY <3>1, <3>2
  <2>3. T \in SUBSET Nat OBVIOUS
  <2>4. c \in T
    <3> HIDE DEF T, c
    <3>1. QED BY <1>1, <2>1, <2>2, <2>3, NatSets
  <2>5. QED BY <1>1, <2>4
<1> DEFINE kept == CHOOSE f : Good(f)
<1>5. Good(kept)
  <2> HIDE DEF Good
  <2>1. QED BY <1>3
<1>6. Selected(list, keep) = kept[c]
  BY DEF Selected
<1>7. QED
  <2> HIDE DEF kept
  <2>1. QED BY <1>4, <1>5, <1>6

(* Ascending places are no more than there are.                            *)
LEMMA AscentIsShort ==
  ASSUME NEW m \in Nat, NEW n \in Nat, NEW at \in [1 .. m -> 1 .. n],
         \A i, j \in 1 .. m : i < j => at[i] < at[j]
  PROVE  m <= n
<1> DEFINE T == {i \in Nat : i \in 1 .. m => i <= at[i]}
<1>1. 0 \in T
  OBVIOUS
<1>2. ASSUME NEW i \in T PROVE i + 1 \in T
  <2>1. CASE i = 0 /\ i + 1 \in 1 .. m
    <3>1. at[i + 1] \in 1 .. n BY <2>1
    <3>2. QED BY <2>1, <3>1
  <2>2. CASE i # 0 /\ i + 1 \in 1 .. m
    <3>1. i \in 1 .. m /\ i < i + 1 BY <2>2
    <3>2. at[i] < at[i + 1] /\ at[i] \in Nat /\ at[i + 1] \in Nat /\ i <= at[i]
      BY <1>2, <2>2, <3>1
    <3>3. QED BY <1>2, <3>2
  <2>3. CASE i + 1 \notin 1 .. m
    BY <1>2, <2>3
  <2>4. QED BY <2>1, <2>2, <2>3
<1>3. T = Nat
  <2>1. T \in SUBSET Nat OBVIOUS
  <2> HIDE DEF T
  <2>2. QED BY <1>1, <1>2, <2>1, NatSets
<1>4. m \in T BY <1>3
<1>5. CASE m = 0 BY <1>5
<1>6. CASE m # 0
  <2>1. m \in 1 .. m BY <1>6
  <2>2. m <= at[m] /\ at[m] \in 1 .. n BY <1>4, <2>1
  <2>3. QED BY <2>2
<1>7. QED BY <1>5, <1>6

(* A sequence whose elements are all of a set.                             *)
LEMMA SeqOfSubset ==
  ASSUME NEW S, NEW T, NEW list \in Seq(S), \A i \in 1 .. Len(list) : list[i] \in T
  PROVE  list \in Seq(T)
<1>1. Len(list) \in Nat /\ list \in [1 .. Len(list) -> S]
  BY LenProperties
<1>2. list \in [1 .. Len(list) -> T]
  BY <1>1
<1>3. QED BY <1>1, <1>2, SeqDef

-----------------------------------------------------------------------------
(* Stream cache and tick window.                                           *)

(* Every element of the set once.                                          *)
Enumerates(list, S) ==
  /\ list \in Seq(S)
  /\ \A i, j \in 1 .. Len(list) : list[i] = list[j] => i = j
  /\ \A x \in S : \E i \in 1 .. Len(list) : list[i] = x

EntriesInv ==
  /\ sPolicy \in CachePolicies /\ sDedup \in BOOLEAN /\ sOps \in 0 .. MaxOps
  /\ IsFiniteSet(DOMAIN sEntries) /\ Cardinality(DOMAIN sEntries) <= CacheSize
  /\ \A k \in DOMAIN sEntries : sEntries[k] \in Items /\ KeyOf[sEntries[k]] = k
  /\ sExpired \subseteq DOMAIN sEntries
  /\ Enumerates(sOrder, DOMAIN sEntries)

IndexInv ==
  /\ DOMAIN sIndex \subseteq Symbols
  /\ \A k \in DOMAIN sEntries :
       SymbolOf[sEntries[k]] \in DOMAIN sIndex /\ k \in sIndex[SymbolOf[sEntries[k]]]

WindowInv ==
  /\ sTicks \in Seq(Nat) /\ Len(sTicks) <= CacheSize /\ Len(sTicks) <= sAdded
  /\ sAdded \in 0 .. WindowTicks
  /\ \A i \in 1 .. Len(sTicks) : sTicks[i] = sAdded - Len(sTicks) + i

StoreInv == EntriesInv /\ IndexInv /\ WindowInv

LEMMA StoreBounds ==
  /\ CacheSize \in Nat \ {0} /\ MaxOps \in Nat /\ WindowTicks \in Nat /\ Dedup \subseteq BOOLEAN
  /\ \A d \in Items : SymbolOf[d] \in Symbols
  BY PlatformConstants

LEMMA StoreCardinality == \A S : Store!Cardinality(S) = Cardinality(S)
  BY DEF Store!Cardinality, Cardinality

LEMMA StoreSelects == \A list, keep : Store!Selected(list, keep) = Selected(list, keep)
  BY DEF Store!Selected, Selected

LEMMA StoreIsTyped == ASSUME StoreInv PROVE Store!TypeOK
<1>1. sPolicy \in CachePolicies /\ sDedup \in BOOLEAN /\ sOps \in 0 .. MaxOps
      /\ sExpired \subseteq DOMAIN sEntries /\ DOMAIN sIndex \subseteq Symbols
      /\ Len(sTicks) <= CacheSize /\ sAdded \in 0 .. WindowTicks
  BY DEF StoreInv, EntriesInv, IndexInv, WindowInv
<1>2. Store!Range(sEntries) \subseteq Items
  BY DEF StoreInv, EntriesInv, Store!Range
<1>3. DOMAIN sOrder = 1 .. Len(sOrder) /\ \A i \in 1 .. Len(sOrder) : sOrder[i] \in DOMAIN sEntries
  BY DEF StoreInv, EntriesInv, Enumerates
<1>4. Store!IsInjective(sOrder)
  BY <1>3 DEF StoreInv, EntriesInv, Enumerates, Store!IsInjective
<1>5. Store!ToSet(sOrder) = DOMAIN sEntries
  <2>1. \A k \in DOMAIN sEntries : \E i \in DOMAIN sOrder : sOrder[i] = k
    BY <1>3 DEF StoreInv, EntriesInv, Enumerates
  <2>2. \A i \in DOMAIN sOrder : sOrder[i] \in DOMAIN sEntries
    BY <1>3
  <2>3. Store!ToSet(sOrder) = {sOrder[i] : i \in DOMAIN sOrder}
    BY DEF Store!ToSet
  <2>4. QED BY <2>1, <2>2, <2>3
<1>6. QED BY <1>1, <1>2, <1>4, <1>5 DEF Store!TypeOK

LEMMA EntriesFound == ASSUME StoreInv PROVE Store!EntriesAreFound
  BY StoreCardinality DEF StoreInv, EntriesInv, IndexInv, Store!EntriesAreFound, Store!Keys

LEMMA WindowRecent == ASSUME StoreInv PROVE Store!WindowIsRecent
<1>1. PICK c \in Nat : c = Len(sTicks) /\ c <= sAdded
  BY DEF StoreInv, WindowInv
<1>2. sTicks \in Seq(Nat) /\ sAdded \in Nat /\ \A i \in 1 .. c : sTicks[i] = sAdded - c + i
  BY <1>1, StoreBounds DEF StoreInv, WindowInv
<1>3. ASSUME NEW count \in 1 .. CacheSize
      PROVE  /\ Len(Store!GetTicks(count)) = IF c < count THEN c ELSE count
             /\ \A i \in 1 .. Len(Store!GetTicks(count)) :
                  Store!GetTicks(count)[i] = sAdded - Len(Store!GetTicks(count)) + i
  <2>1. CASE count >= c
    <3>1. Store!GetTicks(count) = sTicks
      BY <1>1, <2>1 DEF Store!GetTicks
    <3>2. QED BY <1>1, <1>2, <1>3, <2>1, <3>1
  <2>2. CASE ~(count >= c)
    <3>1. PICK n \in Nat : n = count /\ n >= 1 /\ n < c
      BY <1>1, <1>3, <2>2, StoreBounds
    <3>2. Store!GetTicks(count) = SubSeq(sTicks, c - n + 1, c)
      BY <1>1, <2>2, <3>1 DEF Store!GetTicks
    <3> DEFINE got == SubSeq(sTicks, c - n + 1, c)
    <3>3. \A i \in 1 .. n : (c - n + 1) + i - 1 = c - n + i /\ c - n + i \in 1 .. c
      BY <1>1, <3>1
    <3>4. Len(got) = n /\ \A i \in 1 .. n : got[i] = sTicks[c - n + i]
      <4>1. c - n + 1 \in 1 .. c + 1 /\ c \in 0 .. c /\ c - (c - n + 1) + 1 = n /\ c - n + 1 \in Int
        BY <1>1, <3>1
      <4>2. c - n + 1 <= c BY <1>1, <3>1
      <4>3. Len(got) = n BY <1>1, <1>2, <3>1, <4>1, <4>2, SubSeqProperties
      <4>4. \A i \in 1 .. n : got[i] = sTicks[(c - n + 1) + i - 1]
        BY <1>1, <1>2, <3>1, <4>1, <4>2, SubSeqProperties
      <4>5. QED BY <3>3, <4>3, <4>4
    <3>5. \A i \in 1 .. n : sTicks[c - n + i] = sAdded - n + i
      <4>1. ASSUME NEW i \in 1 .. n PROVE sTicks[c - n + i] = sAdded - n + i
        <5>1. PICK k \in 1 .. c : k = c - n + i
          BY <3>3
        <5>2. sTicks[k] = sAdded - c + k
          BY <1>2, <5>1
        <5>3. sAdded - c + k = sAdded - n + i
          BY <1>2, <3>1, <5>1
        <5>4. QED BY <5>1, <5>2, <5>3
      <4>2. QED BY <4>1
    <3> HIDE DEF got
    <3>6. QED BY <1>1, <3>1, <3>2, <3>4, <3>5 DEF got
  <2>3. QED BY <2>1, <2>2
<1>4. QED BY <1>1, <1>3 DEF Store!WindowIsRecent

LEMMA StoreInitHolds == ASSUME Store!Init PROVE StoreInv
<1>1. /\ sPolicy \in CachePolicies /\ sDedup \in Dedup /\ sEntries = << >> /\ sOrder = << >>
      /\ sExpired = {} /\ sIndex = << >> /\ sTicks = << >> /\ sAdded = 0 /\ sOps = 0
  BY DEF Store!Init
<1>2. Len(<< >>) = 0 /\ DOMAIN << >> = {} /\ << >> \in Seq({}) /\ << >> \in Seq(Nat)
  OBVIOUS
<1>3. Enumerates(<< >>, {})
  BY <1>2 DEF Enumerates
<1>4. EntriesInv
  <2>1. IsFiniteSet({}) /\ Cardinality({}) = 0
    BY FS_EmptySet
  <2>2. QED BY <1>1, <1>2, <1>3, <2>1, StoreBounds DEF EntriesInv
<1>5. IndexInv
  BY <1>1, <1>2 DEF IndexInv
<1>6. WindowInv
  BY <1>1, <1>2, StoreBounds DEF WindowInv
<1>7. QED BY <1>4, <1>5, <1>6 DEF StoreInv

-----------------------------------------------------------------------------
(* The order list: without keys, with a key more, followed by another.     *)
LEMMA EnumeratedLess ==
  ASSUME NEW S, NEW list, Enumerates(list, S), NEW keys
  PROVE  Enumerates(Store!Others(list, keys), S \ keys)
<1> DEFINE keep == Store!ToSet(list) \ keys
           r == Selected(list, keep)
<1>1. Store!Others(list, keys) = r
  BY StoreSelects DEF Store!Others
<1>2. list \in Seq(S) /\ DOMAIN list = 1 .. Len(list)
  BY DEF Enumerates
<1>3. \A i \in 1 .. Len(list) : list[i] \in keep <=> list[i] \notin keys
  BY <1>2 DEF Store!ToSet
<1>4. r \in Seq(S) /\ SelectedAs(r, list, keep, Len(list))
  BY <1>2, SelectedProperties
<1> HIDE DEF r, keep
<1>5. PICK at : /\ Ascends(at, Len(r), Len(list))
                /\ \A i \in 1 .. Len(r) : r[i] = list[at[i]] /\ list[at[i]] \in keep
                /\ \A j \in 1 .. Len(list) : list[j] \in keep => \E i \in 1 .. Len(r) : at[i] = j
  BY <1>4 DEF SelectedAs
<1>6. \A i \in 1 .. Len(r) : at[i] \in 1 .. Len(list)
  BY <1>5 DEF Ascends
<1>7. \A i \in 1 .. Len(r) : r[i] \in S \ keys
  BY <1>2, <1>3, <1>5, <1>6
<1>8. r \in Seq(S \ keys)
  BY <1>4, <1>7, SeqOfSubset
<1>9. \A i, j \in 1 .. Len(r) : r[i] = r[j] => i = j
  <2>1. TAKE i, j \in 1 .. Len(r)
  <2>2. HAVE r[i] = r[j]
  <2>3. at[i] = at[j]
    <3>1. list[at[i]] = list[at[j]] /\ at[i] \in 1 .. Len(list) /\ at[j] \in 1 .. Len(list)
      BY <1>5, <1>6, <2>2
    <3>2. QED BY <3>1 DEF Enumerates
  <2>4. ~(i < j) /\ ~(j < i)
    BY <1>5, <1>6, <2>3 DEF Ascends
  <2>5. QED BY <2>4
<1>10. ASSUME NEW x \in S \ keys PROVE \E i \in 1 .. Len(r) : r[i] = x
  <2>1. PICK j \in 1 .. Len(list) : list[j] = x
    BY DEF Enumerates
  <2>2. PICK i \in 1 .. Len(r) : at[i] = j
    BY <1>3, <1>5, <2>1
  <2>3. QED BY <1>5, <2>1, <2>2
<1>11. QED BY <1>1, <1>8, <1>9, <1>10 DEF Enumerates

LEMMA EnumeratedMore ==
  ASSUME NEW S, NEW list, Enumerates(list, S), NEW k, k \notin S
  PROVE  Enumerates(Append(list, k), S \union {k})
<1> DEFINE q == Append(list, k)
           T == S \union {k}
<1>1. list \in Seq(S) /\ \A i \in 1 .. Len(list) : list[i] \in S /\ list[i] # k
  BY DEF Enumerates
<1>2. list \in Seq(T)
  BY <1>1, SeqOfSubset
<1>3. PICK m \in Nat : m = Len(list)
  BY <1>1
<1>4. q \in Seq(T) /\ Len(q) = m + 1 /\ q[m + 1] = k /\ \A i \in 1 .. m : q[i] = list[i]
  BY <1>2, <1>3, AppendProperties
<1>5. \A i \in 1 .. m + 1 : i \in 1 .. m \/ i = m + 1
  OBVIOUS
<1>6. m + 1 \in 1 .. m + 1 /\ \A i \in 1 .. m : i \in 1 .. m + 1
  OBVIOUS
<1> HIDE DEF q
<1>7. \A i, j \in 1 .. m + 1 : q[i] = q[j] => i = j
  <2>1. \A i, j \in 1 .. m : q[i] = q[j] => i = j
    BY <1>3, <1>4 DEF Enumerates
  <2>2. \A i \in 1 .. m : q[i] # q[m + 1]
    BY <1>1, <1>3, <1>4
  <2>3. QED BY <1>5, <2>1, <2>2
<1>8. \A x \in T : \E i \in 1 .. m + 1 : q[i] = x
  <2>1. \A x \in S : \E i \in 1 .. m : q[i] = x
    BY <1>3, <1>4 DEF Enumerates
  <2>2. QED BY <1>4, <1>6, <2>1
<1>9. QED BY <1>4, <1>7, <1>8 DEF Enumerates, q

LEMMA EnumeratedTogether ==
  ASSUME NEW S, NEW T, S \intersect T = {}, NEW a, NEW b, Enumerates(a, S), Enumerates(b, T)
  PROVE  Enumerates(a \o b, S \union T)
<1> DEFINE q == a \o b
           U == S \union T
<1>1. a \in Seq(S) /\ b \in Seq(T)
  BY DEF Enumerates
<1>2. a \in Seq(U) /\ b \in Seq(U)
  <2>1. \A i \in 1 .. Len(a) : a[i] \in U BY <1>1
  <2>2. \A i \in 1 .. Len(b) : b[i] \in U BY <1>1
  <2>3. QED BY <1>1, <2>1, <2>2, SeqOfSubset
<1>3. PICK m \in Nat, n \in Nat : m = Len(a) /\ n = Len(b)
  BY <1>1
<1>4. q \in Seq(U) /\ Len(q) = m + n /\ \A i \in 1 .. m : q[i] = a[i]
  BY <1>2, <1>3, ConcatProperties
<1>5. \A i \in 1 .. n : q[m + i] = b[i]
  <2>1. \A i \in 1 .. n : m + i \in m + 1 .. m + n /\ (m + i) - m = i
    OBVIOUS
  <2>2. QED BY <1>2, <1>3, <2>1, ConcatProperties
<1> HIDE DEF q
<1>6. \A i \in 1 .. m + n : i \in 1 .. m \/ \E j \in 1 .. n : i = m + j
  <2>1. TAKE i \in 1 .. m + n
  <2>2. CASE i <= m BY <2>2
  <2>3. CASE i > m
    <3>1. i - m \in 1 .. n /\ i = m + (i - m) BY <2>3
    <3>2. QED BY <3>1
  <2>4. QED BY <2>2, <2>3
<1>7. \A i, j \in 1 .. m + n : q[i] = q[j] => i = j
  <2>1. TAKE i, j \in 1 .. m + n
  <2>2. HAVE q[i] = q[j]
  <2>3. \A x \in 1 .. m : a[x] \in S
    BY <1>1, <1>3
  <2>4. \A x \in 1 .. n : b[x] \in T
    BY <1>1, <1>3
  <2>5. CASE i \in 1 .. m /\ j \in 1 .. m
    BY <1>3, <1>4, <2>2, <2>5 DEF Enumerates
  <2>6. CASE i \notin 1 .. m /\ j \notin 1 .. m
    <3>1. PICK x \in 1 .. n, y \in 1 .. n : i = m + x /\ j = m + y
      BY <1>6, <2>6
    <3>2. x = y
      BY <1>3, <1>5, <2>2, <3>1 DEF Enumerates
    <3>3. QED BY <3>1, <3>2
  <2>7. CASE i \in 1 .. m /\ j \notin 1 .. m
    <3>1. PICK y \in 1 .. n : j = m + y
      BY <1>6, <2>7
    <3>2. q[i] \in S /\ q[j] \in T
      BY <1>4, <1>5, <2>3, <2>4, <2>7, <3>1
    <3>3. QED BY <2>2, <3>2
  <2>8. CASE i \notin 1 .. m /\ j \in 1 .. m
    <3>1. PICK x \in 1 .. n : i = m + x
      BY <1>6, <2>8
    <3>2. q[j] \in S /\ q[i] \in T
      BY <1>4, <1>5, <2>3, <2>4, <2>8, <3>1
    <3>3. QED BY <2>2, <3>2
  <2>9. QED BY <2>5, <2>6, <2>7, <2>8
<1>8. ASSUME NEW x \in U PROVE \E i \in 1 .. m + n : q[i] = x
  <2>1. CASE x \in S
    <3>1. PICK i \in 1 .. m : a[i] = x BY <1>3, <2>1 DEF Enumerates
    <3>2. i \in 1 .. m + n OBVIOUS
    <3>3. QED BY <1>4, <3>1, <3>2
  <2>2. CASE x \in T
    <3>1. PICK i \in 1 .. n : b[i] = x BY <1>3, <2>2 DEF Enumerates
    <3>2. m + i \in 1 .. m + n OBVIOUS
    <3>3. QED BY <1>5, <3>1, <3>2
  <2>3. QED BY <2>1, <2>2
<1>9. QED BY <1>4, <1>7, <1>8 DEF Enumerates, q

(* As many places as elements: every element once.                         *)
LEMMA PermutationEnumerates ==
  ASSUME NEW S, IsFiniteSet(S), NEW seq \in [1 .. Cardinality(S) -> S],
         \A x \in S : \E i \in 1 .. Cardinality(S) : seq[i] = x
  PROVE  Enumerates(seq, S)
<1>1. PICK n \in Nat : n = Cardinality(S)
  BY FS_CardinalityType
<1>2. seq \in Surjection(1 .. n, S)
  BY <1>1, Fun_IsSurj
<1>3. IsFiniteSet(1 .. n) /\ Cardinality(1 .. n) = n
  <2>1. 1 \in Int /\ n \in Int /\ (1 > n => n = 0) /\ n - 1 + 1 = n
    OBVIOUS
  <2>2. QED BY <2>1, FS_Interval
<1>4. seq \in Injection(1 .. n, S)
  BY <1>1, <1>2, <1>3, FS_SurjSameCardinalityImpliesInj
<1>5. \A i, j \in 1 .. n : seq[i] = seq[j] => i = j
  BY <1>4, Fun_InjectionProperties
<1>6. seq \in Seq(S) /\ Len(seq) = n
  <2>1. seq \in Seq(S)
    BY <1>1, SeqDef
  <2>2. Len(seq) \in Nat /\ DOMAIN seq = 1 .. Len(seq) /\ DOMAIN seq = 1 .. n
    BY <1>1, <2>1, LenProperties
  <2>3. \A m \in Nat : 1 .. m = 1 .. n => m = n
    OBVIOUS
  <2>4. QED BY <2>1, <2>2, <2>3
<1>7. QED BY <1>1, <1>5, <1>6 DEF Enumerates

-----------------------------------------------------------------------------
(* An entry is stored, in the place of the victim if there is one.         *)
LEMMA StoredIsFound ==
  ASSUME EntriesInv, NEW d \in Items, NEW victims \in SUBSET DOMAIN sEntries, NEW ix,
         Cardinality(DOMAIN sEntries \ victims) < CacheSize,
         DOMAIN ix \subseteq Symbols,
         \A k \in DOMAIN sEntries \ victims :
           SymbolOf[sEntries[k]] \in DOMAIN ix /\ k \in ix[SymbolOf[sEntries[k]]],
         sEntries' = [x \in (DOMAIN sEntries \ victims) \union {KeyOf[d]} |->
                        IF x = KeyOf[d] THEN d ELSE sEntries[x]],
         sOrder' = IF sPolicy = "COUNT" /\ Store!Contains(Store!Others(sOrder, victims), KeyOf[d])
                   THEN Store!Others(sOrder, victims)
                   ELSE Append(Store!Others(Store!Others(sOrder, victims), {KeyOf[d]}), KeyOf[d]),
         sExpired' = sExpired \ (victims \union {KeyOf[d]}),
         sIndex' = Store!WithKeys(ix, SymbolOf[d],
                     (IF SymbolOf[d] \in DOMAIN ix THEN ix[SymbolOf[d]] ELSE {}) \union {KeyOf[d]}),
         sOps' \in 0 .. MaxOps, UNCHANGED <<sPolicy, sDedup>>
  PROVE  EntriesInv' /\ IndexInv'
<1> DEFINE S == DOMAIN sEntries \ victims
           rest == Store!Others(sOrder, victims)
<1>1. PICK k : k = KeyOf[d]
  OBVIOUS
<1>2. PICK s \in Symbols : s = SymbolOf[d]
  BY StoreBounds
<1>3. DOMAIN sEntries' = S \union {k} /\ sEntries'[k] = d
      /\ \A x \in S : x # k => sEntries'[x] = sEntries[x]
  BY <1>1
<1>4. IsFiniteSet(DOMAIN sEntries') /\ Cardinality(DOMAIN sEntries') <= CacheSize
  <2>1. IsFiniteSet(S)
    BY FS_Subset DEF EntriesInv
  <2>2. PICK n \in Nat : n = Cardinality(S) /\ n < CacheSize
    BY <2>1, FS_CardinalityType
  <2>3. PICK T : T = S \union {k}
    OBVIOUS
  <2> HIDE DEF S
  <2>4. IsFiniteSet(T) /\ Cardinality(T) = IF k \in S THEN n ELSE n + 1
    BY <2>1, <2>2, <2>3, FS_AddElement
  <2>5. (IF k \in S THEN n ELSE n + 1) <= CacheSize
    BY <2>2, StoreBounds
  <2>6. DOMAIN sEntries' = T
    BY <1>3, <2>3
  <2>7. QED BY <2>4, <2>5, <2>6
<1>5. \A x \in DOMAIN sEntries' : sEntries'[x] \in Items /\ KeyOf[sEntries'[x]] = x
  BY <1>1, <1>3 DEF EntriesInv
<1>6. sExpired' \subseteq DOMAIN sEntries'
  BY <1>1, <1>3 DEF EntriesInv
<1>7. Enumerates(rest, S)
  BY EnumeratedLess DEF EntriesInv
<1>8. Enumerates(sOrder', DOMAIN sEntries')
  <2> HIDE DEF rest
  <2>1. CASE sPolicy = "COUNT" /\ Store!Contains(rest, k)
    <3>1. k \in S
      BY <1>7, <2>1 DEF Store!Contains, Enumerates
    <3>2. S \union {k} = S
      BY <3>1
    <3>3. sOrder' = rest
      BY <1>1, <2>1 DEF rest
    <3>4. QED BY <1>3, <1>7, <3>2, <3>3
  <2>2. CASE ~(sPolicy = "COUNT" /\ Store!Contains(rest, k))
    <3>1. sOrder' = Append(Store!Others(rest, {k}), k)
      BY <1>1, <2>2 DEF rest
    <3>2. Enumerates(Store!Others(rest, {k}), S \ {k})
      BY <1>7, EnumeratedLess
    <3>3. Enumerates(Append(Store!Others(rest, {k}), k), (S \ {k}) \union {k})
      BY <3>2, EnumeratedMore
    <3>4. (S \ {k}) \union {k} = S \union {k}
      OBVIOUS
    <3>5. QED BY <1>3, <3>1, <3>3, <3>4
  <2>3. QED BY <2>1, <2>2
<1>9. EntriesInv'
  BY <1>4, <1>5, <1>6, <1>8 DEF EntriesInv
<1>10. /\ DOMAIN sIndex' = DOMAIN ix \union {s} /\ k \in sIndex'[s]
       /\ s \in DOMAIN ix => ix[s] \subseteq sIndex'[s]
       /\ \A o \in DOMAIN ix : o # s => sIndex'[o] = ix[o]
  BY <1>1, <1>2 DEF Store!WithKeys
<1>11. DOMAIN sIndex' \subseteq Symbols
  BY <1>2, <1>10
<1>12. ASSUME NEW x \in DOMAIN sEntries'
       PROVE  SymbolOf[sEntries'[x]] \in DOMAIN sIndex' /\ x \in sIndex'[SymbolOf[sEntries'[x]]]
  <2>1. CASE x = k
    BY <1>2, <1>3, <1>10, <2>1
  <2>2. CASE x # k
    <3>1. x \in S /\ sEntries'[x] = sEntries[x]
      BY <1>3, <2>2
    <3>2. PICK o : o = SymbolOf[sEntries[x]]
      OBVIOUS
    <3>3. o \in DOMAIN ix /\ x \in ix[o]
      BY <3>1, <3>2
    <3>4. o \in DOMAIN sIndex' /\ x \in sIndex'[o]
      BY <1>10, <3>3
    <3>5. QED BY <3>1, <3>2, <3>4
  <2>3. QED BY <2>1, <2>2
<1>13. QED BY <1>9, <1>11, <1>12 DEF IndexInv

(* What the index says of the others once an entry is evicted.             *)
LEMMA EvictedIndexKeeps ==
  ASSUME EntriesInv, IndexInv, NEW v \in DOMAIN sEntries
  PROVE  /\ DOMAIN Store!EvictedIndex(v) \subseteq Symbols
         /\ \A k \in DOMAIN sEntries \ {v} :
              /\ SymbolOf[sEntries[k]] \in DOMAIN Store!EvictedIndex(v)
              /\ k \in Store!EvictedIndex(v)[SymbolOf[sEntries[k]]]
<1>1. PICK s \in Symbols : s = SymbolOf[sEntries[v]]
  BY StoreBounds DEF EntriesInv
<1>2. s \in DOMAIN sIndex /\ Store!Keys(s) = sIndex[s]
  BY <1>1 DEF IndexInv, Store!Keys
<1>3. PICK keys : keys = sIndex[s] \ {v}
  OBVIOUS
<1>4. PICK ix : ix = Store!EvictedIndex(v)
  OBVIOUS
<1>5. CASE keys = {}
  <2>1. ix = Store!Without(sIndex, {s})
    BY <1>1, <1>2, <1>3, <1>4, <1>5 DEF Store!EvictedIndex
  <2>2. DOMAIN ix = DOMAIN sIndex \ {s} /\ \A o \in DOMAIN ix : ix[o] = sIndex[o]
    BY <2>1 DEF Store!Without, Store!Restrict
  <2>3. ASSUME NEW k \in DOMAIN sEntries \ {v}
        PROVE  SymbolOf[sEntries[k]] \in DOMAIN ix /\ k \in ix[SymbolOf[sEntries[k]]]
    <3>1. SymbolOf[sEntries[k]] \in DOMAIN sIndex /\ k \in sIndex[SymbolOf[sEntries[k]]]
      BY DEF IndexInv
    <3>2. SymbolOf[sEntries[k]] # s
      BY <1>3, <1>5, <3>1
    <3>3. QED BY <2>2, <3>1, <3>2
  <2>4. DOMAIN ix \subseteq Symbols
    BY <2>2 DEF IndexInv
  <2>5. QED BY <1>4, <2>3, <2>4
<1>6. CASE keys # {}
  <2>1. ix = Store!WithKeys(sIndex, s, keys)
    BY <1>1, <1>2, <1>3, <1>4, <1>6 DEF Store!EvictedIndex
  <2>2. /\ DOMAIN ix = DOMAIN sIndex \union {s} /\ ix[s] = keys
        /\ \A o \in DOMAIN sIndex : o # s => ix[o] = sIndex[o]
    BY <2>1 DEF Store!WithKeys
  <2>3. ASSUME NEW k \in DOMAIN sEntries \ {v}
        PROVE  SymbolOf[sEntries[k]] \in DOMAIN ix /\ k \in ix[SymbolOf[sEntries[k]]]
    <3>1. PICK o : o = SymbolOf[sEntries[k]]
      OBVIOUS
    <3>2. o \in DOMAIN sIndex /\ k \in sIndex[o]
      BY <3>1 DEF IndexInv
    <3>3. o \in DOMAIN ix /\ k \in ix[o]
      BY <1>3, <2>2, <3>2
    <3>4. QED BY <3>1, <3>3
  <2>4. DOMAIN ix \subseteq Symbols
    BY <1>1, <2>2 DEF IndexInv
  <2>5. QED BY <1>4, <2>3, <2>4
<1>7. QED BY <1>5, <1>6

LEMMA OpsCount == ASSUME StoreInv, Store!Op PROVE sOps' \in 0 .. MaxOps
  BY StoreBounds DEF Store!Op, StoreInv, EntriesInv

LEMMA WindowStays == ASSUME StoreInv, UNCHANGED <<sTicks, sAdded>> PROVE WindowInv'
  BY DEF StoreInv, WindowInv

LEMMA StoreStays ==
  ASSUME StoreInv, UNCHANGED <<sPolicy, sDedup, sEntries, sOrder, sExpired, sIndex>>,
         sOps' \in 0 .. MaxOps
  PROVE  EntriesInv' /\ IndexInv'
<1>1. EntriesInv'
  BY DEF StoreInv, EntriesInv, Enumerates
<1>2. IndexInv'
  BY DEF StoreInv, IndexInv
<1>3. QED BY <1>1, <1>2

LEMMA PutHoldsStore == ASSUME StoreInv, NEW d \in Items, Store!Put(d) PROVE StoreInv'
<1>1. EntriesInv /\ IndexInv /\ WindowInv
  BY DEF StoreInv
<1>2. Store!Op /\ UNCHANGED <<sPolicy, sDedup, sTicks, sAdded>>
  BY DEF Store!Put
<1>3. sOps' \in 0 .. MaxOps
  BY <1>2, OpsCount
<1>4. CASE sDedup /\ HashOf[d] \in sSeen
  <2>1. UNCHANGED <<sEntries, sOrder, sExpired, sIndex>>
    BY <1>4 DEF Store!Put, Store!store
  <2>2. EntriesInv' /\ IndexInv'
    BY <1>2, <1>3, <2>1, StoreStays
  <2>3. QED BY <1>2, <2>2, WindowStays DEF StoreInv
<1>5. CASE ~(sDedup /\ HashOf[d] \in sSeen)
  <2> DEFINE Choices == IF Store!Cardinality(DOMAIN sEntries) >= CacheSize
                        THEN {{v} : v \in Store!Victims} ELSE {{}}
             Ix(victims) == IF victims = {} THEN sIndex
                            ELSE Store!EvictedIndex(CHOOSE v \in victims : TRUE)
  <2>1. PICK victims \in Choices :
          LET k == KeyOf[d]
              s == SymbolOf[d]
              kept == Store!Without(sEntries, victims)
              ix == Ix(victims)
              rest == Store!Others(sOrder, victims)
          IN /\ sEntries' = [x \in DOMAIN kept \union {k} |-> IF x = k THEN d ELSE kept[x]]
             /\ sOrder' = IF sPolicy = "COUNT" /\ Store!Contains(rest, k) THEN rest
                          ELSE Append(Store!Others(rest, {k}), k)
             /\ sExpired' = sExpired \ (victims \union {k})
             /\ sIndex' = Store!WithKeys(ix, s, (IF s \in DOMAIN ix THEN ix[s] ELSE {}) \union {k})
    BY <1>5 DEF Store!Put
  <2>2. \/ victims = {} /\ Cardinality(DOMAIN sEntries) < CacheSize
        \/ \E v \in DOMAIN sEntries : victims = {v}
    <3>1. PICK n \in Nat : n = Cardinality(DOMAIN sEntries)
      BY <1>1, FS_CardinalityType DEF EntriesInv
    <3>2. CASE n >= CacheSize
      <4>1. PICK v \in Store!Victims : victims = {v}
        BY <2>1, <3>1, <3>2, StoreCardinality
      <4>2. CASE sPolicy = "TTL" /\ sExpired # {}
        BY <1>1, <4>1, <4>2 DEF Store!Victims, EntriesInv
      <4>3. CASE ~(sPolicy = "TTL" /\ sExpired # {})
        <5>1. v = sOrder[1]
          BY <4>1, <4>3 DEF Store!Victims
        <5>2. DOMAIN sEntries # {}
          BY <3>1, <3>2, FS_EmptySet, StoreBounds
        <5>3. 1 \in 1 .. Len(sOrder)
          <6>1. PICK i \in 1 .. Len(sOrder) : TRUE
            BY <1>1, <5>2 DEF EntriesInv, Enumerates
          <6>2. QED BY <6>1
        <5>4. sOrder[1] \in DOMAIN sEntries
          BY <1>1, <5>3 DEF EntriesInv, Enumerates
        <5>5. QED BY <4>1, <5>1, <5>4
      <4>4. QED BY <4>2, <4>3
    <3>3. CASE ~(n >= CacheSize)
      BY <2>1, <3>1, <3>3, StoreCardinality, StoreBounds
    <3>4. QED BY <3>2, <3>3
  <2>3. victims \in SUBSET DOMAIN sEntries
    BY <2>2
  <2>4. /\ DOMAIN Store!Without(sEntries, victims) = DOMAIN sEntries \ victims
        /\ \A x \in DOMAIN sEntries \ victims : Store!Without(sEntries, victims)[x] = sEntries[x]
    BY DEF Store!Without, Store!Restrict
  <2>5. sEntries' = [x \in (DOMAIN sEntries \ victims) \union {KeyOf[d]} |->
                       IF x = KeyOf[d] THEN d ELSE sEntries[x]]
    BY <2>1, <2>4
  <2>6. /\ Cardinality(DOMAIN sEntries \ victims) < CacheSize
        /\ DOMAIN Ix(victims) \subseteq Symbols
        /\ \A k \in DOMAIN sEntries \ victims :
             SymbolOf[sEntries[k]] \in DOMAIN Ix(victims) /\ k \in Ix(victims)[SymbolOf[sEntries[k]]]
    <3>1. CASE victims = {} /\ Cardinality(DOMAIN sEntries) < CacheSize
      <4>1. DOMAIN sEntries \ victims = DOMAIN sEntries /\ Ix(victims) = sIndex
        BY <3>1
      <4> HIDE DEF Ix
      <4>2. QED BY <1>1, <3>1, <4>1 DEF IndexInv
    <3>2. CASE \E v \in DOMAIN sEntries : victims = {v}
      <4>1. PICK v \in DOMAIN sEntries : victims = {v}
        BY <3>2
      <4>2. Ix(victims) = Store!EvictedIndex(v)
        BY <4>1
      <4> HIDE DEF Ix
      <4>3. Cardinality(DOMAIN sEntries \ {v}) < CacheSize
        <5>1. Cardinality(DOMAIN sEntries \ {v}) = Cardinality(DOMAIN sEntries) - 1
          BY <1>1, FS_RemoveElement DEF EntriesInv
        <5>2. Cardinality(DOMAIN sEntries) \in Nat /\ Cardinality(DOMAIN sEntries) <= CacheSize
          BY <1>1, FS_CardinalityType DEF EntriesInv
        <5>3. QED BY <5>1, <5>2, StoreBounds
      <4>4. QED BY <1>1, <4>1, <4>2, <4>3, EvictedIndexKeeps
    <3>3. QED BY <2>2, <3>1, <3>2
  <2>7. PICK ix : ix = Ix(victims)
    OBVIOUS
  <2> HIDE DEF Ix, Choices
  <2>8. EntriesInv' /\ IndexInv'
    BY <1>1, <1>2, <1>3, <2>1, <2>3, <2>5, <2>6, <2>7, StoredIsFound
  <2>9. QED BY <1>2, <2>8, WindowStays DEF StoreInv
<1>6. QED BY <1>4, <1>5

(* Reading touches some keys: they become the last in the order.           *)
LEMMA TouchHolds ==
  ASSUME StoreInv, NEW keys \in SUBSET DOMAIN sEntries, Store!Touch(keys)
  PROVE  Enumerates(sOrder', DOMAIN sEntries)
<1>1. Enumerates(sOrder, DOMAIN sEntries) /\ IsFiniteSet(DOMAIN sEntries)
  BY DEF StoreInv, EntriesInv
<1>2. CASE sOrder' = sOrder
  BY <1>1, <1>2
<1>3. CASE \E seq \in [1 .. Store!Cardinality(keys) -> keys] :
             Store!ToSet(seq) = keys /\ sOrder' = Store!Others(sOrder, keys) \o seq
  <2>1. PICK seq \in [1 .. Cardinality(keys) -> keys] :
          Store!ToSet(seq) = keys /\ sOrder' = Store!Others(sOrder, keys) \o seq
    BY <1>3, StoreCardinality
  <2>2. IsFiniteSet(keys)
    BY <1>1, FS_Subset
  <2>3. \A x \in keys : \E i \in 1 .. Cardinality(keys) : seq[i] = x
    <3>1. DOMAIN seq = 1 .. Cardinality(keys) /\ keys = {seq[i] : i \in DOMAIN seq}
      BY <2>1 DEF Store!ToSet
    <3>2. QED BY <3>1
  <2>4. Enumerates(seq, keys)
    BY <2>1, <2>2, <2>3, PermutationEnumerates
  <2>5. Enumerates(Store!Others(sOrder, keys), DOMAIN sEntries \ keys)
    BY <1>1, EnumeratedLess
  <2>6. (DOMAIN sEntries \ keys) \intersect keys = {}
        /\ (DOMAIN sEntries \ keys) \union keys = DOMAIN sEntries
    OBVIOUS
  <2>7. Enumerates(sOrder', (DOMAIN sEntries \ keys) \union keys)
    BY <2>1, <2>4, <2>5, <2>6, EnumeratedTogether
  <2>8. QED BY <2>6, <2>7
<1>4. QED BY <1>2, <1>3 DEF Store!Touch

LEMMA ReadHolds ==
  ASSUME StoreInv, Store!Op, Enumerates(sOrder', DOMAIN sEntries),
         UNCHANGED <<sPolicy, sDedup, sEntries, sExpired, sIndex, sTicks, sAdded>>
  PROVE  StoreInv'
<1>1. EntriesInv'
  BY OpsCount DEF StoreInv, EntriesInv
<1>2. IndexInv'
  BY DEF StoreInv, IndexInv
<1>3. QED BY <1>1, <1>2, WindowStays DEF StoreInv

LEMMA GetHoldsStore ==
  ASSUME StoreInv, NEW s \in Symbols, Store!Get(s) \/ Store!GetLatest(s)
  PROVE  StoreInv'
<1>1. /\ Store!Op
      /\ UNCHANGED <<sPolicy, sDedup, sEntries, sExpired, sIndex, sTicks, sAdded>>
  BY DEF Store!Get, Store!GetLatest
<1>2. Store!Fresh(s) \in SUBSET DOMAIN sEntries
  BY DEF Store!Fresh
<1>3. Enumerates(sOrder', DOMAIN sEntries)
  <2>1. CASE Store!Get(s)
    BY <1>2, <2>1, TouchHolds DEF Store!Get
  <2>2. CASE Store!GetLatest(s) /\ Store!Fresh(s) = {}
    BY <2>2 DEF Store!GetLatest, StoreInv, EntriesInv
  <2>3. CASE Store!GetLatest(s) /\ Store!Fresh(s) # {}
    <3>1. PICK k \in Store!Fresh(s) : Store!Touch({k})
      BY <2>3 DEF Store!GetLatest
    <3>2. {k} \in SUBSET DOMAIN sEntries
      BY <1>2
    <3>3. QED BY <3>1, <3>2, TouchHolds
  <2>4. QED BY <2>1, <2>2, <2>3
<1>4. QED BY <1>1, <1>3, ReadHolds

(* Entries are removed: clear_symbol, and the removal of what has expired. *)
LEMMA RemovedHolds ==
  ASSUME StoreInv, NEW gone, Store!Op,
         sEntries' = Store!Without(sEntries, gone), sOrder' = Store!Others(sOrder, gone),
         sExpired' \subseteq sExpired \ gone, DOMAIN sIndex' \subseteq DOMAIN sIndex,
         \A k \in DOMAIN sEntries \ gone :
           /\ SymbolOf[sEntries[k]] \in DOMAIN sIndex'
           /\ k \in sIndex'[SymbolOf[sEntries[k]]],
         UNCHANGED <<sPolicy, sDedup, sTicks, sAdded>>
  PROVE  StoreInv'
<1>1. EntriesInv /\ IndexInv
  BY DEF StoreInv
<1>2. /\ DOMAIN sEntries' = DOMAIN sEntries \ gone
      /\ \A k \in DOMAIN sEntries \ gone : sEntries'[k] = sEntries[k]
  BY DEF Store!Without, Store!Restrict
<1>3. IsFiniteSet(DOMAIN sEntries') /\ Cardinality(DOMAIN sEntries') <= CacheSize
  <2>1. PICK D : D = DOMAIN sEntries' /\ D \in SUBSET DOMAIN sEntries
    BY <1>2
  <2>2. /\ IsFiniteSet(D) /\ Cardinality(D) <= Cardinality(DOMAIN sEntries)
        /\ Cardinality(DOMAIN sEntries) \in Nat /\ Cardinality(D) \in Nat
    BY <1>1, <2>1, FS_Subset, FS_CardinalityType DEF EntriesInv
  <2>3. QED BY <1>1, <2>1, <2>2, StoreBounds DEF EntriesInv
<1>4. Enumerates(sOrder', DOMAIN sEntries')
  BY <1>1, <1>2, EnumeratedLess DEF EntriesInv
<1>5. sExpired' \subseteq DOMAIN sEntries'
  BY <1>1, <1>2 DEF EntriesInv
<1>6. \A k \in DOMAIN sEntries' : sEntries'[k] \in Items /\ KeyOf[sEntries'[k]] = k
  BY <1>1, <1>2 DEF EntriesInv
<1>7. EntriesInv'
  BY <1>1, <1>3, <1>4, <1>5, <1>6, OpsCount DEF EntriesInv
<1>8. IndexInv'
  BY <1>1, <1>2 DEF IndexInv
<1>9. QED BY <1>7, <1>8, WindowStays DEF StoreInv

LEMMA ClearSymbolHolds == ASSUME StoreInv, NEW s \in Symbols, Store!ClearSymbol(s) PROVE StoreInv'
<1>1. /\ Store!Op /\ s \in DOMAIN sIndex /\ sEntries' = Store!Without(sEntries, sIndex[s])
      /\ sOrder' = Store!Others(sOrder, sIndex[s]) /\ sExpired' = sExpired \ sIndex[s]
      /\ sIndex' = Store!Without(sIndex, {s}) /\ UNCHANGED <<sPolicy, sDedup, sTicks, sAdded>>
  BY DEF Store!ClearSymbol
<1>2. DOMAIN sIndex' = DOMAIN sIndex \ {s} /\ \A o \in DOMAIN sIndex \ {s} : sIndex'[o] = sIndex[o]
  BY <1>1 DEF Store!Without, Store!Restrict
<1>3. ASSUME NEW k \in DOMAIN sEntries \ sIndex[s]
      PROVE  /\ SymbolOf[sEntries[k]] \in DOMAIN sIndex'
             /\ k \in sIndex'[SymbolOf[sEntries[k]]]
  <2>1. PICK o : o = SymbolOf[sEntries[k]]
    OBVIOUS
  <2>2. o \in DOMAIN sIndex /\ k \in sIndex[o]
    BY <2>1 DEF StoreInv, IndexInv
  <2>3. o # s
    BY <2>2
  <2>4. QED BY <1>2, <2>1, <2>2, <2>3
<1>4. PICK gone : gone = sIndex[s]
  OBVIOUS
<1>5. sExpired' \subseteq sExpired \ gone /\ DOMAIN sIndex' \subseteq DOMAIN sIndex
  BY <1>1, <1>2, <1>4
<1>6. QED BY <1>1, <1>3, <1>4, <1>5, RemovedHolds

LEMMA CleanupHolds == ASSUME StoreInv, Store!CleanupExpired PROVE StoreInv'
<1>1. /\ Store!Op /\ sEntries' = Store!Without(sEntries, sExpired)
      /\ sOrder' = Store!Others(sOrder, sExpired) /\ sExpired' = {}
      /\ sIndex' = [s \in DOMAIN sIndex |->
           {k \in sIndex[s] : k \in sExpired => SymbolOf[sEntries[k]] # s}]
      /\ UNCHANGED <<sPolicy, sDedup, sTicks, sAdded>>
  BY DEF Store!CleanupExpired
<1>2. ASSUME NEW k \in DOMAIN sEntries \ sExpired
      PROVE  /\ SymbolOf[sEntries[k]] \in DOMAIN sIndex'
             /\ k \in sIndex'[SymbolOf[sEntries[k]]]
  <2>1. PICK o : o = SymbolOf[sEntries[k]]
    OBVIOUS
  <2>2. o \in DOMAIN sIndex /\ k \in sIndex[o] /\ k \notin sExpired
    BY <2>1 DEF StoreInv, IndexInv
  <2>3. QED BY <1>1, <2>1, <2>2
<1>3. sExpired' \subseteq sExpired \ sExpired /\ DOMAIN sIndex' \subseteq DOMAIN sIndex
  BY <1>1
<1>4. QED BY <1>1, <1>2, <1>3, RemovedHolds

LEMMA ClearHoldsStore == ASSUME StoreInv, Store!Clear PROVE StoreInv'
<1>1. /\ Store!Op /\ sEntries' = << >> /\ sOrder' = << >> /\ sExpired' = {} /\ sIndex' = << >>
      /\ UNCHANGED <<sPolicy, sDedup, sTicks, sAdded>>
  BY DEF Store!Clear
<1>2. Len(<< >>) = 0 /\ DOMAIN << >> = {} /\ << >> \in Seq({})
  OBVIOUS
<1>3. Enumerates(<< >>, {})
  BY <1>2 DEF Enumerates
<1>4. EntriesInv'
  <2>1. IsFiniteSet({}) /\ Cardinality({}) = 0
    BY FS_EmptySet
  <2>2. QED BY <1>1, <1>2, <1>3, <2>1, OpsCount, StoreBounds DEF EntriesInv, StoreInv
<1>5. IndexInv'
  BY <1>1, <1>2 DEF IndexInv
<1>6. QED BY <1>1, <1>4, <1>5, WindowStays DEF StoreInv

LEMMA AddTickHolds == ASSUME StoreInv, Store!AddTick PROVE StoreInv'
<1>1. /\ sAdded < WindowTicks /\ sAdded' = sAdded + 1
      /\ sTicks' = IF Len(sTicks) < CacheSize THEN Append(sTicks, sAdded + 1)
                   ELSE Append(Tail(sTicks), sAdded + 1)
      /\ UNCHANGED <<sPolicy, sDedup, sEntries, sOrder, sExpired, sIndex, sOps>>
  BY DEF Store!AddTick, Store!store
<1>2. EntriesInv' /\ IndexInv'
  BY <1>1, StoreStays DEF StoreInv, EntriesInv
<1>3. PICK c \in Nat : c = Len(sTicks)
  BY DEF StoreInv, WindowInv
<1>4. /\ sTicks \in Seq(Nat) /\ c <= CacheSize /\ c <= sAdded /\ sAdded \in Nat
      /\ \A i \in 1 .. c : sTicks[i] = sAdded - c + i
  BY <1>3, StoreBounds DEF StoreInv, WindowInv
<1>5. sAdded' \in 0 .. WindowTicks /\ sAdded' \in Nat
  BY <1>1, <1>4, StoreBounds
<1>6. CASE c < CacheSize
  <2>1. sTicks' = Append(sTicks, sAdded + 1)
    BY <1>1, <1>3, <1>6
  <2>2. /\ sTicks' \in Seq(Nat) /\ Len(sTicks') = c + 1 /\ sTicks'[c + 1] = sAdded + 1
        /\ \A i \in 1 .. c : sTicks'[i] = sTicks[i]
    <3>1. PICK x \in Nat : x = sAdded + 1
      BY <1>4
    <3>2. /\ Append(sTicks, x) \in Seq(Nat) /\ Len(Append(sTicks, x)) = Len(sTicks) + 1
          /\ Append(sTicks, x)[Len(sTicks) + 1] = x
          /\ \A i \in 1 .. Len(sTicks) : Append(sTicks, x)[i] = sTicks[i]
      BY <1>4, AppendProperties
    <3>3. sTicks' = Append(sTicks, x)
      BY <2>1, <3>1
    <3>4. QED BY <1>3, <3>1, <3>2, <3>3
  <2>3. ASSUME NEW i \in 1 .. c + 1 PROVE sTicks'[i] = sAdded' - (c + 1) + i
    <3>1. CASE i \in 1 .. c
      <4>1. sTicks'[i] = sAdded - c + i BY <1>4, <2>2, <3>1
      <4>2. sAdded - c + i = (sAdded + 1) - (c + 1) + i BY <1>4
      <4>3. QED BY <1>1, <4>1, <4>2
    <3>2. CASE i = c + 1 BY <1>1, <1>4, <2>2, <3>2
    <3>3. QED BY <3>1, <3>2
  <2>4. c + 1 <= CacheSize /\ c + 1 <= sAdded'
    BY <1>1, <1>4, <1>6, StoreBounds
  <2>5. QED BY <1>2, <1>5, <2>2, <2>3, <2>4 DEF StoreInv, WindowInv
<1>7. CASE ~(c < CacheSize)
  <2>1. sTicks' = Append(Tail(sTicks), sAdded + 1) /\ c = CacheSize /\ c # 0 /\ sTicks # << >>
    BY <1>1, <1>3, <1>4, <1>7, StoreBounds
  <2>2. PICK m \in Nat : m = c - 1 /\ m + 1 = c
    BY <2>1
  <2>3. PICK rest \in Seq(Nat) : rest = Tail(sTicks) /\ Len(rest) = m
                               /\ \A i \in 1 .. m : rest[i] = sTicks[i + 1]
    <3>1. /\ Tail(sTicks) \in Seq(Nat) /\ Len(Tail(sTicks)) = Len(sTicks) - 1
          /\ \A i \in 1 .. Len(Tail(sTicks)) : Tail(sTicks)[i] = sTicks[i + 1]
      BY <1>4, <2>1, HeadTailProperties
    <3>2. Len(Tail(sTicks)) = m
      BY <1>3, <2>2, <3>1
    <3>3. QED BY <3>1, <3>2
  <2>4. /\ sTicks' \in Seq(Nat) /\ Len(sTicks') = m + 1 /\ sTicks'[m + 1] = sAdded + 1
        /\ \A i \in 1 .. m : sTicks'[i] = rest[i]
    BY <1>1, <1>5, <2>1, <2>3, AppendProperties
  <2>5. ASSUME NEW i \in 1 .. m + 1 PROVE sTicks'[i] = sAdded' - (m + 1) + i
    <3>1. CASE i \in 1 .. m
      <4>1. i + 1 \in 1 .. c BY <2>2, <3>1
      <4>2. sTicks'[i] = sAdded - c + (i + 1) BY <1>4, <2>3, <2>4, <3>1, <4>1
      <4>3. sAdded - c + (i + 1) = (sAdded + 1) - c + i BY <1>4, <3>1
      <4>4. QED BY <1>1, <2>2, <4>2, <4>3
    <3>2. CASE i = m + 1 BY <1>1, <1>4, <2>4, <3>2
    <3>3. QED BY <3>1, <3>2
  <2>6. m + 1 <= CacheSize /\ m + 1 <= sAdded'
    BY <1>1, <1>4, <2>1, <2>2
  <2>7. QED BY <1>2, <1>5, <2>4, <2>5, <2>6 DEF StoreInv, WindowInv
<1>8. QED BY <1>6, <1>7

LEMMA StoreStepHolds == ASSUME StoreInv, [Store!Next]_storeVars PROVE StoreInv'
<1>1. CASE UNCHANGED storeVars
  <2>1. UNCHANGED <<sPolicy, sDedup, sEntries, sOrder, sExpired, sIndex, sTicks, sAdded, sOps>>
    BY <1>1 DEF storeVars
  <2>2. QED BY <2>1, StoreStays, WindowStays DEF StoreInv, EntriesInv
<1>2. ASSUME NEW d \in Items, Store!Put(d) PROVE StoreInv'
  BY <1>2, PutHoldsStore
<1>3. ASSUME NEW s \in Symbols, Store!Get(s) \/ Store!GetLatest(s) \/ Store!ClearSymbol(s)
      PROVE  StoreInv'
  BY <1>3, GetHoldsStore, ClearSymbolHolds
<1>4. ASSUME NEW k \in DOMAIN sEntries \ sExpired, Store!Age(k) PROVE StoreInv'
  <2>1. /\ Store!Op /\ sExpired' = sExpired \union {k}
        /\ UNCHANGED <<sPolicy, sDedup, sEntries, sOrder, sIndex, sTicks, sAdded>>
    BY <1>4 DEF Store!Age
  <2>2. EntriesInv'
    BY <1>4, <2>1, OpsCount DEF StoreInv, EntriesInv, Enumerates
  <2>3. IndexInv'
    BY <2>1 DEF StoreInv, IndexInv
  <2>4. QED BY <2>1, <2>2, <2>3, WindowStays DEF StoreInv
<1>5. CASE Store!Clear
  BY <1>5, ClearHoldsStore
<1>6. CASE Store!CleanupExpired
  BY <1>6, CleanupHolds
<1>7. CASE Store!AddTick
  BY <1>7, AddTickHolds
<1>8. CASE Store!ClearTicks
  <2>1. /\ Store!Op /\ sTicks' = << >> /\ sAdded' = 0
        /\ UNCHANGED <<sPolicy, sDedup, sEntries, sOrder, sExpired, sIndex>>
    BY <1>8 DEF Store!ClearTicks, Store!store
  <2>2. Len(<< >>) = 0 /\ << >> \in Seq(Nat)
    OBVIOUS
  <2>3. WindowInv'
    BY <2>1, <2>2, StoreBounds DEF WindowInv
  <2>4. QED BY <2>1, <2>3, OpsCount, StoreStays DEF StoreInv
<1>9. QED BY <1>1, <1>2, <1>3, <1>4, <1>5, <1>6, <1>7, <1>8 DEF Store!Next

Member(S) == CHOOSE x \in S : TRUE

LEMMA SubsetSets ==
  ASSUME NEW All, IsFiniteSet(All), NEW T \in SUBSET SUBSET All, {} \in T,
         \A S \in (SUBSET All) \ {{}} : S \ {Member(S)} \in T => S \in T
  PROVE  T = SUBSET All
<1> DEFINE Good == {n \in Nat : \A S \in SUBSET All : Cardinality(S) = n => S \in T}
<1>1. \A S \in SUBSET All : IsFiniteSet(S) /\ Cardinality(S) \in Nat
  BY FS_Subset, FS_CardinalityType
<1>2. 0 \in Good
  BY <1>1, FS_EmptySet
<1>3. ASSUME NEW n \in Good PROVE n + 1 \in Good
  <2>1. ASSUME NEW S \in SUBSET All, Cardinality(S) = n + 1 PROVE S \in T
    <3>1. S # {}
      <4>1. Cardinality({}) = 0 /\ n \in Nat
        BY FS_EmptySet
      <4>2. QED BY <2>1, <4>1
    <3>2. Member(S) \in S
      BY <3>1 DEF Member
    <3>3. Cardinality(S \ {Member(S)}) = n
      BY <1>1, <2>1, <3>2, FS_RemoveElement
    <3>4. S \ {Member(S)} \in T
      BY <3>3
    <3>5. QED BY <3>1, <3>4
  <2>2. QED BY <2>1
<1>4. Good = Nat
  BY <1>2, <1>3, NatSets
<1>5. QED BY <1>1, <1>4

(* The sum of the values of a function exists, and follows its function.   *)
Sums(f, sum, All) ==
  sum = [S \in SUBSET All |-> IF S = {} THEN 0 ELSE f[Member(S)] + sum[S \ {Member(S)}]]

LEMMA SumsExist ==
  ASSUME NEW All, IsFiniteSet(All), NEW f
  PROVE  \E sum : Sums(f, sum, All)
<1> DEFINE Small(n) == {S \in SUBSET All : Cardinality(S) <= n}
           Value(g, S) == IF S = {} THEN 0 ELSE f[Member(S)] + g[S \ {Member(S)}]
           Good == {n \in Nat : \E g : g = [S \in Small(n) |-> Value(g, S)]}
<1>1. \A S \in SUBSET All : IsFiniteSet(S) /\ Cardinality(S) \in Nat
  BY FS_Subset, FS_CardinalityType
<1>2. 0 \in Good
  <2>1. \A S \in Small(0) : S = {}
    BY <1>1, FS_EmptySet
  <2>2. [S \in Small(0) |-> 0] = [S \in Small(0) |-> Value([R \in Small(0) |-> 0], S)]
    BY <2>1
  <2>3. QED BY <2>2
<1>3. ASSUME NEW n \in Good PROVE n + 1 \in Good
  <2>1. PICK g : g = [S \in Small(n) |-> Value(g, S)]
    OBVIOUS
  <2> DEFINE h == [S \in Small(n + 1) |-> Value(g, S)]
  <2>2. ASSUME NEW S \in Small(n + 1) PROVE h[S] = Value(h, S)
    <3>1. CASE S = {}
      BY <3>1
    <3>2. CASE S # {}
      <4>1. Member(S) \in S
        BY <3>2 DEF Member
      <4>2. Cardinality(S \ {Member(S)}) = Cardinality(S) - 1
        BY <1>1, <4>1, FS_RemoveElement
      <4>3. S \ {Member(S)} \in Small(n) /\ S \ {Member(S)} \in Small(n + 1)
        BY <1>1, <4>2
      <4>4. h[S \ {Member(S)}] = g[S \ {Member(S)}]
        BY <2>1, <4>3
      <4>5. QED BY <3>2, <4>4
    <3>3. QED BY <3>1, <3>2
  <2>3. h = [S \in Small(n + 1) |-> Value(h, S)]
    BY <2>2
  <2>4. \E k : k = [S \in Small(n + 1) |-> Value(k, S)]
    <3> HIDE DEF h
    <3>1. QED BY <2>3
  <2>5. n + 1 \in Nat
    OBVIOUS
  <2> HIDE DEF Small, Value
  <2>6. QED BY <2>4, <2>5
<1>4. Cardinality(All) \in Good
  BY <1>1, <1>2, <1>3, NatSets
<1>5. Small(Cardinality(All)) = SUBSET All
  BY <1>1, FS_Subset
<1>6. QED BY <1>4, <1>5 DEF Sums

LEMMA SumsAreNumbers ==
  ASSUME NEW All, IsFiniteSet(All), NEW f \in [All -> Int], NEW sum, Sums(f, sum, All)
  PROVE  \A S \in SUBSET All : sum[S] \in Int
<1> DEFINE Good == {S \in SUBSET All : sum[S] \in Int}
<1>1. {} \in Good
  BY DEF Sums
<1>2. ASSUME NEW S \in (SUBSET All) \ {{}}, S \ {Member(S)} \in Good PROVE S \in Good
  <2>1. Member(S) \in S
    BY DEF Member
  <2>2. sum[S] = f[Member(S)] + sum[S \ {Member(S)}]
    BY DEF Sums
  <2>3. QED BY <1>2, <2>1, <2>2
<1>3. /\ Good \in SUBSET SUBSET All
      /\ \A S \in (SUBSET All) \ {{}} : S \ {Member(S)} \in Good => S \in Good
  BY <1>2
<1>4. Good = SUBSET All
  <2> HIDE DEF Good
  <2>1. QED BY <1>1, <1>3, SubsetSets
<1>5. QED BY <1>4

LEMMA SumsFollow ==
  ASSUME NEW All, IsFiniteSet(All), NEW f \in [All -> Int], NEW s \in All, NEW d \in Int,
         NEW g \in [All -> Int], \A x \in All : g[x] = f[x] + IF x = s THEN d ELSE 0,
         NEW sum, Sums(f, sum, All), NEW other, Sums(g, other, All)
  PROVE  \A S \in SUBSET All : other[S] = sum[S] + IF s \in S THEN d ELSE 0
<1> DEFINE Good == {S \in SUBSET All : other[S] = sum[S] + IF s \in S THEN d ELSE 0}
<1>1. {} \in Good
  BY DEF Sums
<1>2. ASSUME NEW S \in (SUBSET All) \ {{}}, S \ {Member(S)} \in Good PROVE S \in Good
  <2>1. Member(S) \in S
    BY DEF Member
  <2>2. /\ sum[S] = f[Member(S)] + sum[S \ {Member(S)}]
        /\ other[S] = g[Member(S)] + other[S \ {Member(S)}]
    BY DEF Sums
  <2>3. /\ sum[S \ {Member(S)}] \in Int /\ other[S \ {Member(S)}] \in Int
    BY SumsAreNumbers
  <2>4. f[Member(S)] \in Int /\ g[Member(S)] = f[Member(S)] + IF Member(S) = s THEN d ELSE 0
    BY <2>1
  <2>5. other[S \ {Member(S)}] = sum[S \ {Member(S)}] + IF s \in S \ {Member(S)} THEN d ELSE 0
    BY <1>2
  <2>6. QED BY <2>1, <2>2, <2>3, <2>4, <2>5
<1>3. /\ Good \in SUBSET SUBSET All
      /\ \A S \in (SUBSET All) \ {{}} : S \ {Member(S)} \in Good => S \in Good
  BY <1>2
<1>4. Good = SUBSET All
  <2> HIDE DEF Good
  <2>1. QED BY <1>1, <1>3, SubsetSets
<1>5. QED BY <1>4

-----------------------------------------------------------------------------
LEMMA TotalUnfolds ==
  ASSUME NEW f
  PROVE  \E sum : Sums(f, sum, Symbols) /\ Risk!TotalOf(f) = sum[Symbols]
<1> DEFINE sum == CHOOSE g : Sums(f, g, Symbols)
<1>1. Sums(f, sum, Symbols)
  BY SumsExist, PlatformConstants
<1>2. Risk!TotalOf(f) = sum[Symbols]
  BY DEF Risk!TotalOf, Sums, Member
<1>3. QED BY <1>1, <1>2

LEMMA TotalFollows ==
  ASSUME NEW f \in [Symbols -> Int], NEW s \in Symbols, NEW d \in Int
  PROVE  /\ Risk!TotalOf(f) \in Int
         /\ Risk!TotalOf([f EXCEPT ![s] = @ + d]) = Risk!TotalOf(f) + d
<1> DEFINE g == [f EXCEPT ![s] = @ + d]
<1>1. PICK sum : Sums(f, sum, Symbols) /\ Risk!TotalOf(f) = sum[Symbols]
  BY TotalUnfolds
<1>2. PICK other : Sums(g, other, Symbols) /\ Risk!TotalOf(g) = other[Symbols]
  BY TotalUnfolds
<1>3. g \in [Symbols -> Int]
  OBVIOUS
<1>4. sum[Symbols] \in Int
  BY <1>1, SumsAreNumbers, PlatformConstants
<1>7. IsFiniteSet(Symbols) /\ Symbols \in SUBSET Symbols
  BY PlatformConstants
<1>5. \A S \in SUBSET Symbols : other[S] = sum[S] + IF s \in S THEN d ELSE 0
  <2>1. \A x \in Symbols : g[x] = f[x] + IF x = s THEN d ELSE 0
    OBVIOUS
  <2> HIDE DEF g
  <2>2. QED BY <1>1, <1>2, <1>3, <1>7, <2>1, SumsFollow
<1>6. QED BY <1>1, <1>2, <1>4, <1>5

-----------------------------------------------------------------------------
(* Risk limits.                                                            *)

(* An order that nothing came after would still pass.                      *)
StillPasses ==
  \A o \in rAdmitted :
    o.alone => Risk!Passes(o.symbol, o.side, o.quantity, Risk!CheckedAt(o.limit))

RiskInv == Risk!TypeOK /\ StillPasses /\ Risk!LimitsHold

LEMMA RiskInitHolds == ASSUME Risk!Init PROVE RiskInv
<1> USE PlatformConstants
<1>1. Risk!TypeOK
  BY DEF Risk!Init, Risk!TypeOK, Risk!Nothing
<1>2. QED BY <1>1 DEF RiskInv, StillPasses, Risk!Init, Risk!LimitsHold, Risk!Nothing

LEMMA ValuesAreNumbers ==
  ASSUME Risk!TypeOK
  PROVE  /\ [x \in Symbols |-> rHeld[x] * rPrice[x]] \in [Symbols -> Int]
         /\ (Symbols # {} => Risk!PositionsValue \in Int /\ Risk!TotalValue \in Int)
<1>1. [x \in Symbols |-> rHeld[x] * rPrice[x]] \in [Symbols -> Int]
  BY PlatformConstants DEF Risk!TypeOK
<1>2. Symbols # {} => Risk!PositionsValue \in Int
  BY <1>1, TotalFollows DEF Risk!PositionsValue
<1>3. QED BY <1>1, <1>2 DEF Risk!TypeOK, Risk!TotalValue

LEMMA LargerProduct ==
  ASSUME NEW n \in Nat, NEW a \in Nat, NEW b \in Nat, a <= b
  PROVE  n * a \in Nat /\ n * b \in Nat /\ n * a <= n * b
<1>1. n * (b - a) \in Nat /\ n * (b - a) = n * b - n * a
  OBVIOUS
<1>2. QED BY <1>1

(* A purchase, and a sale, that are filled no worse than the new mark; the *)
(* mark did not fall, and is no higher than the price of the check.        *)
LEMMA PurchaseFits ==
  ASSUME NEW cash \in Int, NEW value \in Int, NEW h \in Nat, NEW q \in Nat, NEW p \in Nat,
         NEW fill \in Nat, NEW mark \in Nat, NEW old \in Nat, NEW initial \in Nat \ {0},
         old <= mark, mark <= p, fill <= mark, q * p <= cash,
         (initial - (cash + value)) * 100 < 20 * initial,
         cash + value <= 0 \/ (h + q) * p * 100 <= 25 * (cash + value),
         NEW cash1, cash1 = cash - q * fill,
         NEW value1, value1 = value + ((h + q) * mark - h * old)
  PROVE  /\ cash1 >= 0
         /\ (h + q) * mark * 100 <= 25 * (cash1 + value1)
         /\ value1 * 100 <= 100 * (cash1 + value1)
         /\ (initial - (cash1 + value1)) * 100 < 20 * initial
<1>1. /\ q * fill \in Nat /\ q * mark \in Nat /\ q * p \in Nat /\ q * fill <= q * mark /\ q * mark <= q * p
      /\ h * old \in Nat /\ h * mark \in Nat /\ h * old <= h * mark
  BY LargerProduct
<1>2. (h + q) * mark \in Nat /\ (h + q) * p \in Nat /\ (h + q) * mark <= (h + q) * p
  BY LargerProduct
<1>3. (h + q) * mark = h * mark + q * mark
  OBVIOUS
<1>4. cash + value > 0
  OBVIOUS
<1>5. /\ cash1 \in Int /\ value1 \in Int /\ cash1 >= 0
      /\ cash1 + value1 >= cash + value
  BY <1>1, <1>2, <1>3
<1>6. (h + q) * mark * 100 <= 25 * (cash1 + value1)
  BY <1>2, <1>4, <1>5
<1>7. QED BY <1>4, <1>5, <1>6

LEMMA SaleFits ==
  ASSUME NEW cash \in Int, NEW value \in Int, NEW h \in Nat, NEW q \in Nat, NEW p \in Nat,
         NEW fill \in Nat, NEW mark \in Nat, NEW old \in Nat, NEW initial \in Nat \ {0}, q <= h,
         old <= mark, mark <= p, fill >= mark, q * p <= cash,
         (initial - (cash + value)) * 100 < 20 * initial,
         cash + value <= 0 \/ (h + 0) * p * 100 <= 25 * (cash + value),
         NEW cash1, cash1 = cash + q * fill,
         NEW value1, value1 = value + ((h - q) * mark - h * old)
  PROVE  /\ cash1 >= 0
         /\ (h - q) * mark * 100 <= 25 * (cash1 + value1)
         /\ value1 * 100 <= 100 * (cash1 + value1)
         /\ (initial - (cash1 + value1)) * 100 < 20 * initial
<1>1. /\ q * fill \in Nat /\ q * mark \in Nat /\ q * p \in Nat /\ q * mark <= q * fill
      /\ h * old \in Nat /\ h * mark \in Nat /\ h * p \in Nat /\ h * old <= h * mark /\ h * mark <= h * p
  BY LargerProduct
<1>2. (h - q) * mark = h * mark - q * mark /\ h + 0 = h
  OBVIOUS
<1>3. cash + value > 0
  OBVIOUS
<1>4. /\ cash1 \in Int /\ value1 \in Int /\ cash1 >= 0
      /\ cash1 + value1 >= cash + value
  BY <1>1, <1>2
<1>5. (h - q) * mark * 100 <= 25 * (cash1 + value1)
  BY <1>1, <1>2, <1>3, <1>4
<1>6. QED BY <1>3, <1>4, <1>5

LEMMA OrdersDisturbed ==
  ASSUME NEW S \in SUBSET Risk!Order, NEW o \in {[x EXCEPT !.alone = FALSE] : x \in S}
  PROVE  o \in Risk!Order /\ o.alone = FALSE
<1>1. PICK x \in Risk!Order : o = [x EXCEPT !.alone = FALSE]
  OBVIOUS
<1>2. QED BY <1>1 DEF Risk!Order

LEMMA CheckHolds ==
  ASSUME RiskInv, NEW s \in Symbols, NEW side \in {"BUY", "SELL"}, NEW quantity \in OrderSizes,
         NEW limit \in MarketPrices \union {0}, Risk!Check(s, side, quantity, limit)
  PROVE  RiskInv'
<1> USE PlatformConstants
<1> DEFINE new == [symbol |-> s, side |-> side, quantity |-> quantity, limit |-> limit,
                   number |-> rChecked + 1, alone |-> rAdmitted = {}]
           at == Risk!CheckedAt(limit)
<1>1. /\ rAdmitted' = Risk!Disturbed \union {new} /\ rChecked < MaxOrders
      /\ rChecked' = rChecked + 1 /\ Risk!Passes(s, side, quantity, at)
      /\ UNCHANGED <<rCash, rHeld, rPrice, rFits>>
  BY DEF Risk!Check
<1>2. Risk!TypeOK /\ rChecked \in 0 .. MaxOrders /\ rAdmitted \subseteq Risk!Order
  BY DEF RiskInv, Risk!TypeOK
<1>3. \A o \in Risk!Disturbed : o \in Risk!Order /\ o.alone = FALSE
  BY <1>2, OrdersDisturbed DEF Risk!Disturbed
<1>4. new \in Risk!Order
  BY <1>1, <1>2 DEF Risk!Order
<1>5. Risk!TypeOK'
  BY <1>1, <1>2, <1>3, <1>4 DEF Risk!TypeOK
<1>6. /\ (Risk!LimitsHold)' = Risk!LimitsHold
      /\ Risk!Passes(s, side, quantity, at)'
  BY <1>1 DEF Risk!LimitsHold, Risk!Passes, Risk!DrawdownFits, Risk!SizeFits, Risk!ConcentrationFits,
              Risk!ExposureFits, Risk!Affordable, Risk!Within, Risk!TotalValue,
              Risk!PositionsValue
<1>7. StillPasses'
  BY <1>1, <1>3, <1>6 DEF StillPasses
<1>8. QED BY <1>5, <1>6, <1>7 DEF RiskInv

LEMMA BookHolds ==
  ASSUME RiskInv, NEW order \in rAdmitted, NEW fill \in MarketPrices,
         NEW mark \in MarketPrices \union {0}, Risk!Book(order, fill, mark)
  PROVE  RiskInv'
<1> USE PlatformConstants
<1> DEFINE s == order.symbol
           q == order.quantity
           p == Risk!CheckedAt(order.limit)
           sign == IF order.side = "BUY" THEN 1 ELSE -1
           left == rHeld[s] + sign * q
           last == IF left = 0 THEN 0 ELSE mark
           safe == Risk!SafeSide(order, fill, mark)
<1>1. /\ left >= 0
      /\ rHeld' = [rHeld EXCEPT ![s] = left]
      /\ rCash' = rCash - sign * q * fill
      /\ rPrice' = [rPrice EXCEPT ![s] = last]
      /\ rAdmitted' = {[o EXCEPT !.alone = FALSE] : o \in rAdmitted \ {order}}
      /\ rFits' = IF safe THEN s ELSE Risk!Nothing
      /\ UNCHANGED rChecked
  BY DEF Risk!Book
<1>2. /\ Risk!TypeOK /\ rCash \in Int /\ rHeld \in [Symbols -> Nat]
      /\ rPrice \in [Symbols -> MarketPrices \union {0}] /\ rAdmitted \subseteq Risk!Order
  BY DEF RiskInv, Risk!TypeOK
<1>3. /\ s \in Symbols /\ q \in Nat \ {0} /\ order.limit \in MarketPrices \union {0}
      /\ order.side \in {"BUY", "SELL"} /\ order.alone \in BOOLEAN /\ sign \in {1, -1}
  BY <1>2 DEF Risk!Order
<1>4. \A o \in rAdmitted' : o \in Risk!Order /\ o.alone = FALSE
  <2>1. rAdmitted \ {order} \in SUBSET Risk!Order
    BY <1>2
  <2>2. QED BY <1>1, <2>1, OrdersDisturbed
<1>5. /\ fill \in Nat /\ mark \in Nat /\ p \in Nat /\ rHeld[s] \in Nat /\ rPrice[s] \in Nat /\ Cash \in Nat \ {0}
      /\ last \in MarketPrices \union {0}
  BY <1>2, <1>3 DEF Risk!CheckedAt, Risk!Estimate
<1>6. /\ left \in Nat
      /\ IF order.side = "BUY" THEN left = rHeld[s] + q ELSE left = rHeld[s] - q /\ q <= rHeld[s]
      /\ rCash' \in Int
      /\ IF order.side = "BUY" THEN rCash' = rCash - q * fill ELSE rCash' = rCash + q * fill
  <2> HIDE DEF s, q
  <2>1. CASE order.side = "BUY"
    BY <1>1, <1>2, <1>3, <1>5, <2>1
  <2>2. CASE order.side = "SELL"
    BY <1>1, <1>2, <1>3, <1>5, <2>2
  <2>3. QED BY <1>3, <2>1, <2>2
<1> HIDE DEF left, safe, sign, p, last
<1>7. Risk!TypeOK'
  <2>1. rPrice' \in [Symbols -> MarketPrices \union {0}] /\ rHeld' \in [Symbols -> Nat]
    BY <1>1, <1>2, <1>3, <1>5, <1>6
  <2>2. rFits' \in Symbols \union {Risk!Nothing}
    BY <1>1, <1>3
  <2>3. rAdmitted' \subseteq Risk!Order /\ rChecked' \in 0 .. MaxOrders
    BY <1>1, <1>4 DEF RiskInv, Risk!TypeOK
  <2>4. QED BY <1>6, <2>1, <2>2, <2>3 DEF Risk!TypeOK
<1>8. StillPasses'
  BY <1>4 DEF StillPasses
<1>9. Risk!LimitsHold'
  <2>1. CASE ~safe
    BY <1>1, <2>1 DEF Risk!LimitsHold
  <2>2. CASE safe
    <3> DEFINE f == [x \in Symbols |-> rHeld[x] * rPrice[x]]
               value == Risk!PositionsValue
               more == left * mark - rHeld[s] * rPrice[s]
    <3>1. /\ Risk!Passes(s, order.side, q, p)
          /\ rPrice[s] <= mark /\ mark <= p
          /\ IF order.side = "BUY" THEN fill <= mark ELSE fill >= mark
      BY <2>2 DEF RiskInv, StillPasses, Risk!SafeSide, safe, p
    <3>2. f \in [Symbols -> Int] /\ value \in Int /\ value = Risk!TotalOf(f)
          /\ Risk!TotalValue = rCash + value
      BY <1>2, <1>3, ValuesAreNumbers DEF Risk!PositionsValue, Risk!TotalValue
    <3>3. /\ q * p <= rCash
          /\ (Cash - (rCash + value)) * 100 < 20 * Cash
          /\ \/ rCash + value <= 0
             \/ (rHeld[s] + IF order.side = "BUY" THEN q ELSE 0) * p * 100 <= 25 * (rCash + value)
      BY <3>1, <3>2 DEF Risk!Passes, Risk!DrawdownFits, Risk!ConcentrationFits,
         Risk!Affordable, Risk!Within, Risk!MaxConcentration, Risk!MaxDrawdown
    <3>4. Risk!PositionsValue' = value + more /\ rHeld'[s] = left /\ rHeld'[s] * rPrice'[s] = left * mark
      <4> DEFINE g == [f EXCEPT ![s] = @ + more]
      <4>1. rHeld'[s] = left /\ rPrice'[s] = last
        BY <1>1, <1>2, <1>3
      <4>2. left * last = left * mark
        BY <1>5, <1>6 DEF last
      <4>3. [x \in Symbols |-> rHeld'[x] * rPrice'[x]] = g
        <5>1. left * mark \in Int /\ rHeld[s] * rPrice[s] \in Int
          BY <1>5, <1>6
        <5>2. f[s] + more = left * mark
          BY <1>3, <5>1
        <5>3. \A x \in Symbols : x # s => rHeld'[x] = rHeld[x] /\ rPrice'[x] = rPrice[x]
          BY <1>1, <1>2
        <5>4. QED BY <4>1, <4>2, <5>2, <5>3
      <4>4. Risk!PositionsValue' = Risk!TotalOf([x \in Symbols |-> rHeld'[x] * rPrice'[x]])
        BY DEF Risk!PositionsValue, Risk!TotalOf
      <4>5. more \in Int
        BY <1>5, <1>6
      <4>6. QED BY <1>3, <3>2, <4>1, <4>2, <4>3, <4>4, <4>5, TotalFollows
    <3>5. Risk!TotalValue' = rCash' + Risk!PositionsValue'
      BY DEF Risk!TotalValue
    <3>6. /\ rCash' >= 0
          /\ left * mark * 100 <= 25 * (rCash' + Risk!PositionsValue')
          /\ Risk!PositionsValue' * 100 <= 100 * (rCash' + Risk!PositionsValue')
          /\ (Cash - (rCash' + Risk!PositionsValue')) * 100 < 20 * Cash
      <4> DEFINE h == rHeld[s]
                 old == rPrice[s]
                 value1 == Risk!PositionsValue'
      <4>1. /\ rCash \in Int /\ value \in Int /\ h \in Nat /\ q \in Nat /\ p \in Nat /\ fill \in Nat
            /\ mark \in Nat /\ old \in Nat /\ Cash \in Nat \ {0} /\ old <= mark /\ mark <= p
        BY <1>2, <1>3, <1>5, <3>1, <3>2
      <4>2. CASE order.side = "BUY"
        <5>1. /\ left = h + q /\ rCash' = rCash - q * fill /\ fill <= mark
              /\ value1 = value + ((h + q) * mark - h * old)
              /\ rCash + value <= 0 \/ (h + q) * p * 100 <= 25 * (rCash + value)
          BY <1>6, <3>1, <3>3, <3>4, <4>2
        <5> HIDE DEF h, old, value1, value, q, s, f, more
        <5>2. /\ rCash' >= 0
              /\ (h + q) * mark * 100 <= 25 * (rCash' + value1)
              /\ value1 * 100 <= 100 * (rCash' + value1)
              /\ (Cash - (rCash' + value1)) * 100 < 20 * Cash
          BY <3>3, <4>1, <5>1, PurchaseFits
        <5>3. QED BY <5>1, <5>2 DEF value1
      <4>3. CASE order.side = "SELL"
        <5>1. /\ left = h - q /\ q <= h /\ rCash' = rCash + q * fill /\ fill >= mark
              /\ value1 = value + ((h - q) * mark - h * old)
              /\ rCash + value <= 0 \/ (h + 0) * p * 100 <= 25 * (rCash + value)
          BY <1>6, <3>1, <3>3, <3>4, <4>3
        <5> HIDE DEF h, old, value1, value, q, s, f, more
        <5>2. /\ rCash' >= 0
              /\ (h - q) * mark * 100 <= 25 * (rCash' + value1)
              /\ value1 * 100 <= 100 * (rCash' + value1)
              /\ (Cash - (rCash' + value1)) * 100 < 20 * Cash
          BY <3>3, <4>1, <5>1, SaleFits
        <5>3. QED BY <5>1, <5>2 DEF value1
      <4>4. QED BY <1>3, <4>2, <4>3
    <3>7. rFits' = s
      BY <1>1, <2>2
    <3>8. QED BY <3>4, <3>5, <3>6, <3>7 DEF Risk!LimitsHold, Risk!DrawdownFits, Risk!MaxConcentration,
                 Risk!MaxExposure, Risk!MaxDrawdown
  <2>3. QED BY <2>1, <2>2
<1>10. QED BY <1>7, <1>8, <1>9 DEF RiskInv

LEMMA MoveHolds ==
  ASSUME RiskInv, NEW s \in Symbols, NEW new \in MarketPrices, Risk!Move(s, new)
  PROVE  RiskInv'
<1>1. \A o \in rAdmitted' : o \in Risk!Order /\ o.alone = FALSE
  BY DEF Risk!Move, Risk!Disturbed, Risk!Order, RiskInv, Risk!TypeOK
<1>2. Risk!TypeOK'
  BY <1>1 DEF Risk!Move, RiskInv, Risk!TypeOK
<1>3. StillPasses' /\ (Risk!LimitsHold)'
  BY <1>1 DEF StillPasses, Risk!Move, Risk!LimitsHold
<1>4. QED BY <1>2, <1>3 DEF RiskInv

LEMMA RiskStepHolds == ASSUME RiskInv, [Risk!Next]_riskVars PROVE RiskInv'
<1>1. CASE Risk!Next
  BY <1>1, CheckHolds, BookHolds, MoveHolds DEF Risk!Next
<1>2. CASE UNCHANGED riskVars
  BY <1>2 DEF riskVars, RiskInv, StillPasses, Risk!TypeOK, Risk!LimitsHold, Risk!Passes,
     Risk!DrawdownFits, Risk!SizeFits, Risk!ConcentrationFits, Risk!ExposureFits,
     Risk!Affordable, Risk!Within, Risk!TotalValue, Risk!PositionsValue
<1>3. QED BY <1>1, <1>2

-----------------------------------------------------------------------------
(* Accounts: fills and reconciliations.                                    *)

BooksInv == Books!TypeOK /\ Books!BooksBalance /\ Books!ReconciledAgree

(* A division without remainder, and the terms of a fill.                  *)
LEMMA ExactDivision ==
  ASSUME NEW a \in Nat \ {0}, NEW b \in Nat \ {0}, a % b = 0
  PROVE  (a \div b) * b = a /\ a \div b \in Nat \ {0}
<1>1. (a \div b) * b = a /\ a \div b \in Int
  OBVIOUS
<1>2. ASSUME NEW k \in Int, k * b = a PROVE k > 0
  BY <1>2
<1>3. QED BY <1>1, <1>2

LEMMA SignedProducts ==
  ASSUME NEW x \in Int, NEW y \in Int
  PROVE  1 * x * y = 1 * (x * y) /\ -1 * x * y = -1 * (x * y)
  OBVIOUS

LEMMA FillBalances ==
  ASSUME NEW r \in Int, NEW c \in Int, NEW n \in Int, NEW a \in Int,
         NEW q \in Int, NEW p \in Int
  PROVE  /\ r = c + n * a => r + q * (p - a) = (c + q * p) + (n - q) * a
         /\ r = c + (-n) * a => r + (-q) * (p - a) = (c - q * p) + (-(n - q)) * a
OBVIOUS

LEMMA BooksInitHolds == ASSUME Books!Init PROVE BooksInv
<1> USE DEF Books!Init, Books!Nobody
<1>1. DOMAIN bBooks = {} /\ DOMAIN bAgreed = {}
  OBVIOUS
<1>2. Books!TypeOK
  BY <1>1, PlatformConstants DEF Books!TypeOK
<1>3. Books!BooksBalance
  BY <1>1 DEF Books!BooksBalance, Books!Held
<1>4. Books!ReconciledAgree
  BY <1>1 DEF Books!ReconciledAgree
<1>5. QED BY <1>2, <1>3, <1>4 DEF BooksInv

LEMMA FillHolds ==
  ASSUME BooksInv, NEW s \in Symbols, NEW side \in Books!Sides, NEW quantity \in FillSizes,
         NEW price \in FillPrices, Books!Fill(s, side, quantity, price)
  PROVE  BooksInv'
<1> USE PlatformConstants
<1>1. /\ quantity \in Nat \ {0} /\ price \in Nat \ {0}
      /\ \A o \in DOMAIN bBooks : o \in Symbols /\ bBooks[o] \in Books!Position
      /\ bCash \in [Symbols -> Int] /\ bRealized \in [Symbols -> Int]
      /\ bExact \in [Symbols -> BOOLEAN] /\ bCalls \in Nat
  BY DEF BooksInv, Books!TypeOK
<1>2. /\ bPolicy' = bPolicy /\ bCalls' \in 0 .. MaxOrders
      /\ bCash' = [bCash EXCEPT ![s] = @ - Books!Sign(side) * quantity * price]
  BY <1>1 DEF Books!Fill
<1>3. Books!ReconciledAgree'
  BY DEF Books!Fill, Books!Nobody, Books!ReconciledAgree
<1>4. bCash' \in [Symbols -> Int]
  BY <1>1, <1>2 DEF Books!Sign
<1>5. CASE s \in DOMAIN bBooks /\ bBooks[s].side # side
  <2> DEFINE position == bBooks[s]
  <2> DEFINE left == position.quantity - Books!Least(quantity, position.quantity)
  <2>1. /\ bRealized' = [bRealized EXCEPT ![s] = @ + Books!Profit(position, quantity, price)]
        /\ bBooks' = IF left = 0 THEN [o \in DOMAIN bBooks \ {s} |-> bBooks[o]]
                     ELSE [bBooks EXCEPT ![s].quantity = left]
        /\ bExact' = [bExact EXCEPT ![s] = @ /\ quantity <= position.quantity]
    BY <1>5 DEF Books!Fill, Books!Reduce
  <2>2. /\ position.side \in {"BUY", "SELL"} /\ position.quantity \in Nat \ {0}
        /\ position.average \in Nat \ {0}
    BY <1>1, <1>5 DEF Books!Position, Books!Sides
  <2>3. left \in Nat /\ (quantity <= position.quantity => left = position.quantity - quantity)
    BY <1>1, <2>2 DEF Books!Least
  <2>4. Books!TypeOK'
    <3>1. bRealized' \in [Symbols -> Int] /\ bExact' \in [Symbols -> BOOLEAN]
      BY <1>1, <2>1, <2>2 DEF Books!Profit, Books!Sign
    <3>2. DOMAIN bBooks' \subseteq Symbols
      BY <1>1, <2>1
    <3>3. \A o \in DOMAIN bBooks' : bBooks'[o] \in Books!Position
      BY <1>1, <2>1, <2>2, <2>3 DEF Books!Position, Books!Sides
    <3>4. QED BY <1>2, <1>4, <3>1, <3>2, <3>3 DEF BooksInv, Books!TypeOK
  <2>5. Books!BooksBalance'
    <3>1. ASSUME NEW o \in Symbols, o # s, bExact'[o] PROVE bRealized'[o] = bCash'[o] + Books!Held(o)'
      BY <1>1, <1>2, <2>1, <3>1 DEF BooksInv, Books!BooksBalance, Books!Held
    <3>2. ASSUME bExact'[s] PROVE bRealized'[s] = bCash'[s] + Books!Held(s)'
      <4>1. bExact[s] /\ quantity <= position.quantity
        BY <1>1, <2>1, <3>2
      <4>2. bRealized[s] = bCash[s] + Books!Sign(position.side) * position.quantity * position.average
        BY <1>5, <4>1 DEF BooksInv, Books!BooksBalance, Books!Held
      <4>3. Books!Held(s)' = Books!Sign(position.side) * (position.quantity - quantity) * position.average
        BY <1>1, <1>5, <2>1, <2>2, <2>3, <4>1 DEF Books!Held, Books!Sign
      <4>4. Books!Sign(side) = -Books!Sign(position.side)
        BY <1>5, <2>2 DEF Books!Sign, Books!Sides
      <4>5. /\ bRealized'[s] = bRealized[s]
                 + Books!Sign(position.side) * quantity * (price - position.average)
            /\ bCash'[s] = bCash[s] - Books!Sign(side) * quantity * price
        BY <1>1, <1>2, <2>1 DEF Books!Profit
      <4>6. CASE position.side = "BUY"
        <5>1. Books!Sign(position.side) = 1 /\ Books!Sign(side) = -1
          BY <4>4, <4>6 DEF Books!Sign
        <5>2. /\ bRealized[s] = bCash[s] + position.quantity * position.average
              /\ bRealized'[s] = bRealized[s] + quantity * (price - position.average)
              /\ bCash'[s] = bCash[s] + quantity * price
              /\ Books!Held(s)' = (position.quantity - quantity) * position.average
          BY <1>1, <2>2, <4>2, <4>3, <4>5, <5>1
        <5>3. QED BY <1>1, <2>2, <5>2, FillBalances
      <4>7. CASE position.side = "SELL"
        <5>1. Books!Sign(position.side) = -1 /\ Books!Sign(side) = 1
          BY <4>4, <4>7 DEF Books!Sign
        <5>2. /\ bRealized[s] = bCash[s] + (-position.quantity) * position.average
              /\ bRealized'[s] = bRealized[s] + (-quantity) * (price - position.average)
              /\ bCash'[s] = bCash[s] - quantity * price
              /\ Books!Held(s)' = (-(position.quantity - quantity)) * position.average
          BY <1>1, <2>2, <4>2, <4>3, <4>5, <5>1
        <5>3. QED BY <1>1, <2>2, <5>2, FillBalances
      <4>8. QED BY <2>2, <4>6, <4>7
    <3>3. QED BY <3>1, <3>2 DEF Books!BooksBalance
  <2>6. QED BY <1>3, <2>4, <2>5 DEF BooksInv
<1>6. CASE ~(s \in DOMAIN bBooks /\ bBooks[s].side # side)
  <2>1. /\ s \in DOMAIN bBooks => Books!Divides(bBooks[s], quantity, price)
        /\ bBooks' = [o \in DOMAIN bBooks \union {s} |->
             IF o # s THEN bBooks[o]
             ELSE IF s \in DOMAIN bBooks THEN Books!Enlarged(bBooks[s], quantity, price)
             ELSE [side |-> side, quantity |-> quantity, average |-> price]]
        /\ UNCHANGED <<bRealized, bExact>>
    BY <1>6 DEF Books!Fill, Books!Enlarge
  <2>2. DOMAIN bBooks' = DOMAIN bBooks \union {s}
    BY <2>1
  <2>3. ASSUME NEW o \in DOMAIN bBooks, o # s PROVE bBooks'[o] = bBooks[o]
    BY <2>1, <2>3
  <2>4. CASE s \in DOMAIN bBooks
    <3> DEFINE position == bBooks[s]
    <3> DEFINE total == position.quantity + quantity
    <3> DEFINE worth == position.quantity * position.average + quantity * price
    <3>1. /\ position.side = side /\ position.quantity \in Nat \ {0}
          /\ position.average \in Nat \ {0} /\ position \in Books!Position
      BY <1>1, <1>6, <2>4 DEF Books!Position
    <3>2. worth \in Nat \ {0} /\ total \in Nat \ {0}
      <4>1. /\ position.quantity * position.average \in Nat
            /\ quantity * price \in Nat \ {0}
        BY <1>1, <3>1
      <4>2. QED BY <1>1, <3>1, <4>1
    <3>3. worth % total = 0
      BY <2>1, <2>4 DEF Books!Divides
    <3>4. (worth \div total) * total = worth /\ worth \div total \in Nat \ {0}
      BY <3>2, <3>3, ExactDivision
    <3>5. bBooks'[s] = [position EXCEPT !.quantity = total, !.average = worth \div total]
      BY <2>1, <2>4, <3>1 DEF Books!Enlarged, Books!Averaged, Books!Position
    <3>6. /\ bBooks'[s] \in Books!Position /\ bBooks'[s].side = side
          /\ bBooks'[s].quantity = total /\ bBooks'[s].average = worth \div total
      BY <3>1, <3>2, <3>4, <3>5 DEF Books!Position
    <3>7. Books!TypeOK'
      BY <1>1, <1>2, <1>4, <2>1, <2>2, <2>3, <3>6 DEF BooksInv, Books!TypeOK
    <3>8. ASSUME bExact[s] PROVE bRealized[s] = bCash'[s] + Books!Held(s)'
      <4>1. bRealized[s] = bCash[s] + Books!Sign(side) * position.quantity * position.average
        BY <2>4, <3>1, <3>8 DEF BooksInv, Books!BooksBalance, Books!Held
      <4>2. Books!Held(s)' = Books!Sign(side) * total * (worth \div total)
        BY <2>2, <3>6 DEF Books!Held
      <4>3. bCash'[s] = bCash[s] - Books!Sign(side) * quantity * price
        BY <1>1, <1>2
      <4>4. PICK old \in Int, more \in Int :
              /\ old = position.quantity * position.average /\ more = quantity * price
              /\ total * (worth \div total) = old + more
        BY <1>1, <3>1, <3>2, <3>4
      <4>5. CASE side = "BUY"
        <5>1. Books!Sign(side) = 1
          BY <4>5 DEF Books!Sign
        <5>2. /\ Books!Sign(side) * position.quantity * position.average = 1 * old
              /\ Books!Sign(side) * quantity * price = 1 * more
              /\ Books!Sign(side) * total * (worth \div total) = 1 * (old + more)
          BY <1>1, <3>1, <3>2, <3>4, <4>4, <5>1, SignedProducts
        <5>3. QED BY <1>1, <4>1, <4>2, <4>3, <4>4, <5>2
      <4>6. CASE side = "SELL"
        <5>1. Books!Sign(side) = -1
          BY <4>6 DEF Books!Sign
        <5>2. /\ Books!Sign(side) * position.quantity * position.average = -1 * old
              /\ Books!Sign(side) * quantity * price = -1 * more
              /\ Books!Sign(side) * total * (worth \div total) = -1 * (old + more)
          BY <1>1, <3>1, <3>2, <3>4, <4>4, <5>1, SignedProducts
        <5>3. QED BY <1>1, <4>1, <4>2, <4>3, <4>4, <5>2
      <4>7. QED BY <4>5, <4>6 DEF Books!Sides
    <3>9. Books!BooksBalance'
      BY <1>1, <1>2, <2>1, <2>2, <2>3, <3>8 DEF BooksInv, Books!BooksBalance, Books!Held
    <3>10. QED BY <1>3, <3>7, <3>9 DEF BooksInv
  <2>5. CASE s \notin DOMAIN bBooks
    <3>1. bBooks'[s] = [side |-> side, quantity |-> quantity, average |-> price]
      BY <2>1, <2>5
    <3>2. Books!TypeOK'
      BY <1>1, <1>2, <1>4, <2>1, <2>2, <2>3, <3>1 DEF BooksInv, Books!TypeOK, Books!Position
    <3>3. ASSUME bExact[s] PROVE bRealized[s] = bCash'[s] + Books!Held(s)'
      <4>1. bRealized[s] = bCash[s]
        BY <1>1, <2>5, <3>3 DEF BooksInv, Books!BooksBalance, Books!Held
      <4>2. /\ Books!Held(s)' = Books!Sign(side) * quantity * price
            /\ bCash'[s] = bCash[s] - Books!Sign(side) * quantity * price
        BY <1>1, <1>2, <2>2, <3>1 DEF Books!Held
      <4>3. Books!Sign(side) * quantity * price \in Int
        BY <1>1 DEF Books!Sign
      <4>4. QED BY <1>1, <4>1, <4>2, <4>3
    <3>4. Books!BooksBalance'
      BY <1>1, <1>2, <2>1, <2>2, <2>3, <3>3 DEF BooksInv, Books!BooksBalance, Books!Held
    <3>5. QED BY <1>3, <3>2, <3>4 DEF BooksInv
  <2>6. QED BY <2>4, <2>5
<1>7. QED BY <1>5, <1>6

(* What a reconciliation leaves does not differ from the broker's answer.  *)
LEMMA SyncHolds ==
  ASSUME BooksInv, NEW broker \in Books!Views, Books!Sync(broker)
  PROVE  BooksInv'
<1> USE PlatformConstants
<1>1. /\ DOMAIN broker \subseteq Symbols
      /\ \A s \in DOMAIN broker : broker[s] \in Books!Position
  BY DEF Books!Views, Books!Position, Books!Sides
<1>2. /\ bCalls' \in 0 .. MaxOrders /\ UNCHANGED <<bPolicy, bCash, bRealized>>
  BY DEF Books!Sync, BooksInv, Books!TypeOK
<1>3. CASE UNCHANGED <<bBooks, bExact>> /\ bAgreed' = Books!Nobody
  BY <1>2, <1>3 DEF BooksInv, Books!TypeOK, Books!BooksBalance, Books!Held,
                    Books!ReconciledAgree, Books!Nobody
<1>4. CASE Books!Reconciles(broker)
  <2> DEFINE both == DOMAIN bBooks \intersect DOMAIN broker
  <2> DEFINE found(s) == Books!Differences(s, bBooks, broker)
  <2>1. /\ bBooks' = [s \in DOMAIN bBooks |->
                       IF s \in both THEN Books!Corrected(bBooks[s], broker[s], found(s))
                       ELSE bBooks[s]]
        /\ bExact' = [s \in Symbols |-> bExact[s] /\ (s \in both => found(s) = {})]
        /\ bAgreed' = broker
    BY <1>4 DEF Books!Sync
  <2>2. /\ DOMAIN bBooks' = DOMAIN bBooks
        /\ \A s \in DOMAIN bBooks \ both : bBooks'[s] = bBooks[s]
        /\ \A s \in both : bBooks'[s] = Books!Corrected(bBooks[s], broker[s], found(s))
    BY <2>1
  <2>3. \A s \in both : /\ bBooks[s].side \in {"BUY", "SELL"} /\ broker[s].side \in {"BUY", "SELL"}
                        /\ bBooks[s].quantity \in Nat \ {0} /\ broker[s].quantity \in Nat \ {0}
                        /\ bBooks[s].average \in Nat \ {0} /\ broker[s].average \in Nat \ {0}
    BY <1>1 DEF BooksInv, Books!TypeOK, Books!Position, Books!Sides
  <2>4. \A s \in both : bBooks'[s] \in Books!Position
    BY <2>2, <2>3 DEF Books!Corrected, Books!Position, Books!Sides
  <2>5. Books!TypeOK'
    BY <1>2, <2>1, <2>2, <2>4 DEF BooksInv, Books!TypeOK
  <2>6. ASSUME NEW s \in both PROVE Books!Differences(s, bBooks', bAgreed') = {}
    <3>1. s \in DOMAIN bBooks' /\ s \in DOMAIN bAgreed' /\ bAgreed'[s] = broker[s]
      BY <2>1, <2>2
    <3>2. found(s) = {kind \in {"SIDE", "QUANTITY", "PRICE"} :
             CASE kind = "SIDE" -> bBooks[s].side # broker[s].side
               [] kind = "QUANTITY" -> bBooks[s].quantity # broker[s].quantity
               [] kind = "PRICE" -> Books!Distance(bBooks[s].average, broker[s].average) * 100
                                      > PriceTolerance * broker[s].average}
      BY DEF Books!Differences
    <3>6. bBooks'[s] = Books!Corrected(bBooks[s], broker[s], found(s))
      BY <2>2
    <3>7. bBooks'[s].side = broker[s].side
      <4>1. "SIDE" \in found(s) <=> bBooks[s].side # broker[s].side
        BY <3>2
      <4>2. bBooks'[s].side = IF "SIDE" \in found(s) THEN broker[s].side ELSE bBooks[s].side
        BY <3>6 DEF Books!Corrected
      <4>3. QED BY <4>1, <4>2
    <3>8. bBooks'[s].quantity = broker[s].quantity
      <4>1. "QUANTITY" \in found(s) <=> bBooks[s].quantity # broker[s].quantity
        BY <3>2
      <4>2. bBooks'[s].quantity = IF "QUANTITY" \in found(s) THEN broker[s].quantity
                                  ELSE bBooks[s].quantity
        BY <3>6 DEF Books!Corrected
      <4>3. QED BY <4>1, <4>2
    <3>3. bBooks'[s].side = broker[s].side /\ bBooks'[s].quantity = broker[s].quantity
      BY <3>7, <3>8
    <3>4. ~(Books!Distance(bBooks'[s].average, broker[s].average) * 100
              > PriceTolerance * broker[s].average)
      <4>1. CASE "PRICE" \in found(s)
        <5>1. bBooks'[s].average = broker[s].average
          BY <2>2, <4>1 DEF Books!Corrected
        <5>2. PriceTolerance * broker[s].average \in Nat
          BY <2>3
        <5>3. QED BY <2>3, <5>1, <5>2 DEF Books!Distance
      <4>2. CASE "PRICE" \notin found(s)
        <5>1. bBooks'[s].average = bBooks[s].average
          BY <2>2, <4>2 DEF Books!Corrected
        <5>2. QED BY <3>2, <4>2, <5>1
      <4>3. QED BY <4>1, <4>2
    <3>5. QED BY <3>1, <3>3, <3>4 DEF Books!Differences
  <2>7. Books!ReconciledAgree'
    BY <2>1, <2>2, <2>6 DEF Books!ReconciledAgree
  <2>8. ASSUME NEW s \in Symbols, bExact'[s] PROVE bRealized'[s] = bCash'[s] + Books!Held(s)'
    <3>1. bExact[s] /\ (s \in both => found(s) = {})
      BY <2>1, <2>8
    <3>2. s \in DOMAIN bBooks => bBooks'[s] = bBooks[s]
      BY <2>2, <2>3, <3>1 DEF Books!Corrected, BooksInv, Books!TypeOK, Books!Position
    <3>3. Books!Held(s)' = Books!Held(s)
      BY <2>2, <3>2 DEF Books!Held
    <3>4. QED BY <1>2, <3>1, <3>3 DEF BooksInv, Books!BooksBalance
  <2>9. QED BY <2>5, <2>7, <2>8 DEF BooksInv, Books!BooksBalance
<1>5. QED BY <1>3, <1>4 DEF Books!Sync

LEMMA BooksStepHolds == ASSUME BooksInv, [Books!Next]_accountsVars PROVE BooksInv'
<1>1. CASE Books!Next
  BY <1>1, FillHolds, SyncHolds DEF Books!Next
<1>2. CASE UNCHANGED accountsVars
  BY <1>2 DEF accountsVars, BooksInv, Books!TypeOK, Books!BooksBalance, Books!Held,
              Books!ReconciledAgree
<1>3. QED BY <1>1, <1>2

-----------------------------------------------------------------------------
(* Core engine.                                                            *)

(* A running engine has its flag; the starts are used in their order, one  *)
(* for each algorithm at most; and while a stop waits, the loops there are *)
(* belong to starts that came meanwhile.                                   *)
Used(m) == \A k \in Core!Starts : k \in Core!Started <=> k <= m

CoreInv ==
  /\ Core!TypeOK /\ Core!EngineServed /\ Core!StopIsClean
  /\ eState \in {"RUNNING", "PAUSED"} => eRunning
  /\ \E m \in 0 .. eMade : Used(m)
  /\ \A c \in Tasks : eCall[c] = "disconnect" =>
       \A k \in Core!Starts, kind \in Core!Kinds :
         eLoops[k][kind] \in {"created", "running"} => k \in eLate

LEMMA BoundsAreNumbers ==
  /\ MaxStarts \in Nat /\ ClockTime \in Nat /\ MaxHandlers \in Nat /\ MaxObjects \in Nat
  /\ MaxAlerts \in Nat /\ MaxData \in Nat /\ MaxStreams \in Nat /\ MaxFaults \in Nat
  BY PlatformConstants

LEMMA CoreInitHolds == ASSUME Core!Init PROVE CoreInv
<1>1. Core!TypeOK
  <2>1. MaxStarts \in Nat
    BY BoundsAreNumbers
  <2>2. eState \in Core!States /\ eRunning \in BOOLEAN /\ eClockOn \in BOOLEAN /\ eBusOn \in BOOLEAN
        /\ eLate \subseteq Core!Starts /\ eMade \in 0 .. MaxStarts /\ eTerminated \subseteq 1 .. eMade
    <3>1. eMade = 0 /\ eTerminated = {} /\ 0 \in 0 .. MaxStarts
      BY <2>1 DEF Core!Init
    <3>2. QED BY <3>1 DEF Core!Init, Core!States
  <2>3. /\ eCall \in [Tasks -> {"none", "connect", "disconnect"}]
        /\ eLoops \in [Core!Starts -> [Core!Kinds -> {"none", "created", "running", "ended"}]]
    BY DEF Core!Init
  <2>4. QED BY <2>2, <2>3 DEF Core!TypeOK
<1>2. Used(0)
  BY DEF Core!Init, Used, Core!Started, Core!Starts, Core!Kinds
<1>3. QED BY <1>1, <1>2 DEF CoreInv, Core!Init, Core!EngineServed, Core!StopIsClean, Core!Kinds

(* A step that leaves loops, flags and what stop has terminated.           *)
LEMMA CallsHold ==
  ASSUME CoreInv,
         eState' \in Core!States,
         eState' \in {"RUNNING", "PAUSED"} => eState \in {"RUNNING", "PAUSED"},
         eState' = "STOPPED" => eState = "STOPPED",
         eCall' \in [Tasks -> {"none", "connect", "disconnect"}],
         \A c \in Tasks : eCall'[c] = "disconnect" => eCall[c] = "disconnect",
         UNCHANGED <<eRunning, eMade, eTerminated, eLoops, eClockOn, eBusOn, eLate>>
  PROVE  CoreInv'
<1>1. Core!TypeOK'
  BY DEF CoreInv, Core!TypeOK
<1>2. Core!EngineServed' /\ Core!StopIsClean'
  BY DEF CoreInv, Core!EngineServed, Core!StopIsClean, Core!Alive, Core!On
<1>3. (\E m \in 0 .. eMade : Used(m))'
  BY DEF CoreInv, Used, Core!Started
<1>4. QED BY <1>1, <1>2, <1>3 DEF CoreInv

LEMMA ConnectedHolds == ASSUME CoreInv, NEW c \in Tasks, Core!Connected(c) PROVE CoreInv'
<1> USE PlatformConstants
<1>1. /\ eMade < MaxStarts /\ eMade' = eMade + 1 /\ eMade \in 0 .. MaxStarts
      /\ eCall' = [eCall EXCEPT ![c] = "none"] /\ eCall' \in [Tasks -> {"none", "connect", "disconnect"}]
      /\ UNCHANGED <<eTerminated, eClockOn, eBusOn>>
      /\ eTerminated \subseteq 1 .. eMade
  BY DEF CoreInv, Core!TypeOK, Core!Connected
<1>2. PICK m \in 0 .. eMade : Used(m)
  BY DEF CoreInv
<1>3. CASE eState' = "ERROR" /\ UNCHANGED <<eRunning, eLoops, eLate>>
  <2>1. Core!TypeOK'
    BY <1>1, <1>3 DEF CoreInv, Core!TypeOK, Core!States
  <2>2. Used(m)' /\ m \in 0 .. eMade'
    BY <1>1, <1>2, <1>3 DEF Used, Core!Started
  <2>3. \A d \in Tasks : eCall'[d] = "disconnect" => eCall[d] = "disconnect"
    BY <1>1 DEF CoreInv, Core!TypeOK
  <2>4. QED BY <1>3, <2>1, <2>2, <2>3 DEF CoreInv, Core!EngineServed, Core!StopIsClean
<1>4. CASE ~(eState' = "ERROR" /\ UNCHANGED <<eRunning, eLoops, eLate>>)
  <2> DEFINE first == CHOOSE i \in Core!Starts \ Core!Started :
                        \A j \in Core!Starts \ Core!Started : i <= j
  <2>1. /\ eState' = "RUNNING" /\ eRunning' = TRUE
        /\ eLoops' = [eLoops EXCEPT ![first] = [kind \in Core!Kinds |-> "created"]]
        /\ eLate' = IF Core!Waiting("disconnect") = {} THEN eLate ELSE eLate \union {first}
    BY <1>4 DEF Core!Connected
  <2>2. first = m + 1 /\ first \in Core!Starts
    <3>1. /\ m + 1 \in Core!Starts \ Core!Started
          /\ \A j \in Core!Starts \ Core!Started : m + 1 <= j
      BY <1>1, <1>2 DEF Used, Core!Starts
    <3>2. first \in Core!Starts \ Core!Started /\ \A j \in Core!Starts \ Core!Started : first <= j
      BY <3>1
    <3>3. QED BY <3>1, <3>2 DEF Core!Starts
  <2> HIDE DEF first
  <2>3. eLoops' \in [Core!Starts -> [Core!Kinds -> {"none", "created", "running", "ended"}]]
        /\ eLoops'[first] = [kind \in Core!Kinds |-> "created"]
        /\ \A k \in Core!Starts \ {first} : eLoops'[k] = eLoops[k]
    BY <2>1, <2>2 DEF CoreInv, Core!TypeOK
  <2>4. Core!TypeOK'
    BY <1>1, <2>1, <2>2, <2>3 DEF CoreInv, Core!TypeOK, Core!States
  <2>5. Core!EngineServed'
    BY <1>1, <2>2, <2>3 DEF Core!EngineServed, Core!Alive
  <2>6. Core!StopIsClean'
    BY <2>1 DEF Core!StopIsClean
  <2>7. Used(m + 1)' /\ m + 1 \in 0 .. eMade'
    <3>1. "clock" \in Core!Kinds
      BY DEF Core!Kinds
    <3>2. \A k \in Core!Starts : eLoops'[k]["clock"] # "none" <=>
                                   eLoops[k]["clock"] # "none" \/ k = first
      BY <2>2, <2>3, <3>1
    <3>3. \A k \in Core!Starts : eLoops[k]["clock"] # "none" <=> k <= m
      BY <1>2 DEF Used, Core!Started
    <3>4. \A k \in Core!Starts : eLoops'[k]["clock"] # "none" <=> k <= m + 1
      BY <2>2, <3>2, <3>3 DEF Core!Starts
    <3>5. QED BY <1>1, <3>4 DEF Used, Core!Started
  <2>8. ASSUME NEW d \in Tasks, eCall'[d] = "disconnect",
               NEW k \in Core!Starts, NEW kind \in Core!Kinds,
               eLoops'[k][kind] \in {"created", "running"}
        PROVE  k \in eLate'
    <3>1. eCall[d] = "disconnect"
      BY <1>1, <2>8 DEF CoreInv, Core!TypeOK
    <3>2. eLate' = eLate \union {first}
      BY <2>1, <3>1 DEF Core!Waiting
    <3>3. QED BY <2>3, <2>8, <3>1, <3>2 DEF CoreInv
  <2>9. QED BY <2>1, <2>4, <2>5, <2>6, <2>7, <2>8 DEF CoreInv
<1>5. QED BY <1>3, <1>4

LEMMA StopHolds == ASSUME CoreInv, NEW c \in Tasks, Core!Stop(c) PROVE CoreInv'
<1>1. Core!TypeOK'
  BY DEF Core!Stop, CoreInv, Core!TypeOK, Core!States
<1>2. \A k \in Core!Starts, kind \in Core!Kinds : /\ eLoops'[k][kind] \in {"none", "ended"}
                                                   /\ eLoops'[k][kind] = "none" <=> eLoops[k][kind] = "none"
  BY DEF Core!Stop, CoreInv, Core!TypeOK
<1>3. PICK m \in 0 .. eMade : Used(m)
  BY DEF CoreInv
<1>4. Used(m)' /\ m \in 0 .. eMade'
  BY <1>2, <1>3 DEF Used, Core!Started, Core!Kinds, Core!Stop
<1>5. QED BY <1>1, <1>2, <1>4 DEF CoreInv, Core!Stop, Core!EngineServed, Core!StopIsClean

LEMMA DisconnectedHolds == ASSUME CoreInv, NEW c \in Tasks, Core!Disconnected(c) PROVE CoreInv'
<1>1. Core!TypeOK'
  <2>1. eTerminated' \subseteq 1 .. eMade'
    <3>1. eMade \in Nat /\ eTerminated \subseteq 1 .. eMade
      BY PlatformConstants DEF CoreInv, Core!TypeOK
    <3>2. eMade' = eMade /\ eTerminated' \subseteq eTerminated \union (IF eMade = 0 THEN {} ELSE {eMade})
      BY DEF Core!Disconnected
    <3>3. (IF eMade = 0 THEN {} ELSE {eMade}) \subseteq 1 .. eMade BY <3>1
    <3>4. QED BY <3>1, <3>2, <3>3
  <2>2. QED BY <2>1 DEF Core!Disconnected, CoreInv, Core!TypeOK, Core!States
<1>2. (\E m \in 0 .. eMade : Used(m))'
  BY DEF CoreInv, Used, Core!Started, Core!Disconnected
<1>3. Core!StopIsClean' /\ Core!EngineServed'
  BY DEF CoreInv, Core!StopIsClean, Core!EngineServed, Core!Disconnected
<1>4. \A d \in Tasks : eCall'[d] = "disconnect" => eCall[d] = "disconnect"
  BY DEF Core!Disconnected, CoreInv, Core!TypeOK
<1>5. QED BY <1>1, <1>2, <1>3, <1>4 DEF CoreInv, Core!Disconnected

(* A loop that begins or ends leaves a loop of its kind that goes on.      *)
LEMMA LoopsHold ==
  ASSUME CoreInv, NEW k \in Core!Starts, NEW kind \in Core!Kinds,
         Core!Begin(k, kind) \/ Core!LoopEnds(k, kind)
  PROVE  CoreInv'
<1>1. /\ eLoops[k][kind] \in {"created", "running"}
      /\ \E to \in {"running", "ended"} : eLoops' = [eLoops EXCEPT ![k][kind] = to]
      /\ UNCHANGED <<eState, eRunning, eCall, eMade, eTerminated, eLate>>
      /\ eClockOn' \in BOOLEAN /\ eBusOn' \in BOOLEAN
      /\ eClockOn => eClockOn'
      /\ eBusOn => eBusOn'
  BY DEF Core!Begin, Core!LoopEnds, CoreInv, Core!TypeOK
<1>2. /\ eLoops' \in [Core!Starts -> [Core!Kinds -> {"none", "created", "running", "ended"}]]
      /\ \A j \in Core!Starts, other \in Core!Kinds :
           /\ (j # k \/ other # kind) => eLoops'[j][other] = eLoops[j][other]
           /\ eLoops'[j][other] = "none" <=> eLoops[j][other] = "none"
           /\ eLoops'[j][other] \in {"created", "running"}
                => eLoops[j][other] \in {"created", "running"}
  BY <1>1 DEF CoreInv, Core!TypeOK
<1>3. Core!TypeOK'
  BY <1>1, <1>2 DEF CoreInv, Core!TypeOK
<1>4. Core!EngineServed'
  <2>1. SUFFICES ASSUME eState' \in {"RUNNING", "PAUSED"}, NEW other \in Core!Kinds,
                        NEW j \in Core!Starts, Core!Alive(j, other)
                 PROVE  Core!Alive(j, other)'
    BY <1>1 DEF CoreInv, Core!EngineServed
  <2>2. Core!On(other) => Core!On(other)'
    BY <1>1 DEF Core!On
  <2>3. CASE j # k \/ other # kind
    BY <1>2, <2>1, <2>2, <2>3 DEF Core!Alive
  <2>4. CASE j = k /\ other = kind
    <3>1. eRunning
      BY <1>1, <2>1 DEF CoreInv
    <3>2. CASE Core!Begin(k, kind)
      <4>1. eLoops'[k][kind] = "running"
        BY <3>1, <3>2 DEF Core!Begin, CoreInv, Core!TypeOK
      <4>2. Core!On(kind)'
        <5>1. kind \in {"clock", "bus", "feed"} /\ eRunning' = eRunning
          BY <1>1 DEF Core!Kinds
        <5>2. eClockOn' = (eClockOn \/ kind = "clock") /\ eBusOn' = (eBusOn \/ kind = "bus")
          BY <3>2 DEF Core!Begin
        <5>3. (kind = "clock" => eClockOn') /\ (kind = "bus" => eBusOn') /\ eRunning'
          BY <3>1, <5>1, <5>2
        <5>4. QED BY <5>1, <5>3 DEF Core!On
      <4>3. QED BY <2>4, <4>1, <4>2 DEF Core!Alive
    <3>3. CASE Core!LoopEnds(k, kind)
      BY <2>1, <2>4, <3>3 DEF Core!LoopEnds, Core!Alive
    <3>4. QED BY <3>2, <3>3
  <2>5. QED BY <2>3, <2>4
<1>5. Core!StopIsClean'
  BY <1>1, <1>2 DEF CoreInv, Core!StopIsClean
<1>6. (\E m \in 0 .. eMade : Used(m))'
  BY <1>1, <1>2 DEF CoreInv, Used, Core!Started, Core!Kinds
<1>7. QED BY <1>1, <1>2, <1>3, <1>4, <1>5, <1>6 DEF CoreInv

LEMMA CoreStepHolds == ASSUME CoreInv, [Core!Next]_coreVars PROVE CoreInv'
<1>1. ASSUME NEW c \in Tasks, Core!Start(c) \/ Core!ConnectFails(c) \/ Core!DisconnectFails(c)
      PROVE  CoreInv'
  <2>1. /\ eState' \in Core!States
        /\ eState' \in {"RUNNING", "PAUSED"} => eState \in {"RUNNING", "PAUSED"}
        /\ eState' = "STOPPED" => eState = "STOPPED"
        /\ eCall' \in [Tasks -> {"none", "connect", "disconnect"}]
        /\ \A d \in Tasks : eCall'[d] = "disconnect" => eCall[d] = "disconnect"
        /\ UNCHANGED <<eRunning, eMade, eTerminated, eLoops, eClockOn, eBusOn, eLate>>
    BY <1>1 DEF Core!Start, Core!ConnectFails, Core!DisconnectFails, CoreInv, Core!TypeOK,
                Core!States
  <2>2. QED BY <2>1, CallsHold
<1>2. ASSUME Core!Pause \/ Core!Resume \/ UNCHANGED coreVars PROVE CoreInv'
  <2>1. /\ eState' \in Core!States
        /\ eState' \in {"RUNNING", "PAUSED"} => eState \in {"RUNNING", "PAUSED"}
        /\ eState' = "STOPPED" => eState = "STOPPED"
        /\ UNCHANGED <<eCall, eRunning, eMade, eTerminated, eLoops, eClockOn, eBusOn, eLate>>
    BY <1>2 DEF Core!Pause, Core!Resume, coreVars, CoreInv, Core!TypeOK, Core!States
  <2>2. eCall' \in [Tasks -> {"none", "connect", "disconnect"}]
    BY <2>1 DEF CoreInv, Core!TypeOK
  <2>3. QED BY <2>1, <2>2, CallsHold
<1>3. CASE Core!Next
  <2>1. CASE Core!Pause \/ Core!Resume
    BY <1>2, <2>1
  <2>2. CASE \E c \in Tasks :
               \/ Core!Start(c) \/ Core!Connected(c) \/ Core!ConnectFails(c)
               \/ Core!Stop(c) \/ Core!Disconnected(c) \/ Core!DisconnectFails(c)
    BY <1>1, <2>2, ConnectedHolds, StopHolds, DisconnectedHolds
  <2>3. CASE \E k \in Core!Starts, kind \in Core!Kinds :
               Core!Begin(k, kind) \/ Core!LoopEnds(k, kind)
    BY <2>3, LoopsHold
  <2>4. QED BY <1>3, <2>1, <2>2, <2>3 DEF Core!Next
<1>4. QED BY <1>2, <1>3

-----------------------------------------------------------------------------
(* Time keeper.                                                            *)

ClockInv == Clock!TypeOK /\ Clock!RunsOnTime

LEMMA ClockInitHolds == ASSUME Clock!Init PROVE ClockInv
<1>1. ClockTime \in Nat /\ DOMAIN kSchedules = {}
  BY BoundsAreNumbers DEF Clock!Init
<1>2. kNow = 0 /\ kOn \in BOOLEAN
  BY DEF Clock!Init
<1>3. kLoop \in [Tasks -> {"none", "turn", "wait", "ended"}]
  BY DEF Clock!Init
<1>4. kNow \in 0 .. ClockTime
  BY <1>1, <1>2
<1>5. QED BY <1>1, <1>2, <1>3, <1>4 DEF ClockInv, Clock!TypeOK, Clock!RunsOnTime

(* A schedule as it may be at a time.                                      *)
OnTime(s, time) ==
  /\ s \in Clock!Schedule
  /\ s.interval = 0 => s.runs = 0
  /\ s.next = s.first + s.runs * s.interval
  /\ s.next <= time + s.interval \/ s.runs = 0

LEMMA ClockIsOnTime ==
  ClockInv <=> /\ kNow \in 0 .. ClockTime /\ DOMAIN kSchedules \subseteq Names
               /\ \A i \in DOMAIN kSchedules : OnTime(kSchedules[i], kNow)
               /\ kOn \in BOOLEAN /\ kLoop \in [Tasks -> {"none", "turn", "wait", "ended"}]
  BY DEF ClockInv, Clock!TypeOK, Clock!RunsOnTime, OnTime

LEMMA RunMovesOn ==
  ASSUME NEW s, NEW time \in Nat, OnTime(s, time), s.next <= time, s.interval > 0
  PROVE  OnTime([s EXCEPT !.next = @ + s.interval, !.runs = @ + 1], time)
<1>1. /\ s.first \in 0 .. ClockTime /\ s.next \in Nat /\ s.interval \in Nat /\ s.runs \in Nat
      /\ s.next = s.first + s.runs * s.interval /\ s \in Clock!Schedule
  BY PlatformConstants DEF OnTime, Clock!Schedule
<1>2. s.next + s.interval = s.first + (s.runs + 1) * s.interval
  BY <1>1
<1>3. s.next + s.interval <= time + s.interval
  BY <1>1
<1>4. [s EXCEPT !.next = @ + s.interval, !.runs = @ + 1] \in Clock!Schedule
  <2>1. s.next + s.interval \in Nat /\ s.runs + 1 \in Nat
    BY <1>1
  <2>2. QED BY <1>1, <2>1 DEF Clock!Schedule
<1>5. QED BY <1>1, <1>2, <1>3, <1>4 DEF OnTime, Clock!Schedule

(* A new schedule.                                                         *)
LEMMA NewIsOnTime ==
  ASSUME NEW at \in 0 .. ClockTime, NEW interval \in Intervals \union {0}, NEW time \in Nat
  PROVE  OnTime([first |-> at, next |-> at, interval |-> interval, runs |-> 0], time)
  BY PlatformConstants DEF OnTime, Clock!Schedule

LEMMA ClockStepHolds == ASSUME ClockInv, [Clock!Next]_clockVars PROVE ClockInv'
<1> USE PlatformConstants
<1>0. /\ kNow \in 0 .. ClockTime /\ DOMAIN kSchedules \subseteq Names
      /\ \A i \in DOMAIN kSchedules : OnTime(kSchedules[i], kNow)
      /\ kOn \in BOOLEAN /\ kLoop \in [Tasks -> {"none", "turn", "wait", "ended"}]
  BY ClockIsOnTime
<1>1. SUFFICES /\ kNow' \in 0 .. ClockTime /\ DOMAIN kSchedules' \subseteq Names
               /\ \A i \in DOMAIN kSchedules' : OnTime(kSchedules'[i], kNow')
               /\ kOn' \in BOOLEAN /\ kLoop' \in [Tasks -> {"none", "turn", "wait", "ended"}]
  BY DEF ClockInv, Clock!TypeOK, Clock!RunsOnTime, OnTime
<1>2. ASSUME NEW id \in Names, NEW at \in kNow .. ClockTime, NEW interval \in Intervals,
             Clock!Plan(id, at, interval)
      PROVE  /\ UNCHANGED <<kNow, kLoop, kOn>> /\ DOMAIN kSchedules' \subseteq Names
             /\ \A i \in DOMAIN kSchedules' : OnTime(kSchedules'[i], kNow)
  <2>1. OnTime([first |-> at, next |-> at, interval |-> interval, runs |-> 0], kNow)
    BY <1>0, <1>2, NewIsOnTime
  <2>2. QED BY <1>0, <1>2, <2>1 DEF Clock!Plan, Clock!With
<1>3. ASSUME NEW id \in Names, Clock!Unschedule(id)
      PROVE  /\ UNCHANGED <<kNow, kLoop, kOn>> /\ DOMAIN kSchedules' \subseteq Names
             /\ \A i \in DOMAIN kSchedules' : OnTime(kSchedules'[i], kNow)
  BY <1>0, <1>3 DEF Clock!Unschedule
<1>4. ASSUME NEW l \in Tasks, Clock!LoopTurn(l)
      PROVE  /\ UNCHANGED <<kNow, kOn>> /\ DOMAIN kSchedules' \subseteq Names
             /\ kLoop' \in [Tasks -> {"none", "turn", "wait", "ended"}]
             /\ \A i \in DOMAIN kSchedules' : OnTime(kSchedules'[i], kNow)
  <2>1. PICK again \in SUBSET Clock!Due : (kNow < ClockTime \/ again = {}) /\ Clock!Turn(again)
    BY <1>4 DEF Clock!LoopTurn
  <2>2. ASSUME NEW i \in DOMAIN kSchedules, i \in Clock!Due => kSchedules[i].interval > 0
        PROVE  OnTime(IF i \notin Clock!Due THEN kSchedules[i]
                      ELSE IF i \in again
                        THEN [first |-> kNow + 1, next |-> kNow + 1, interval |-> 0, runs |-> 0]
                      ELSE [kSchedules[i] EXCEPT !.next = @ + kSchedules[i].interval,
                                                 !.runs = @ + 1], kNow)
    <3>1. CASE i \notin Clock!Due
      BY <1>0, <3>1
    <3>2. CASE i \in Clock!Due /\ i \in again
      <4>1. kNow + 1 \in 0 .. ClockTime /\ kNow \in Nat
        BY <1>0, <2>1, <3>2
      <4>2. QED BY <3>2, <4>1, NewIsOnTime
    <3>3. CASE i \in Clock!Due /\ i \notin again
      <4>1. kSchedules[i].next <= kNow /\ kNow \in Nat /\ OnTime(kSchedules[i], kNow)
        BY <1>0, <3>3 DEF Clock!Due
      <4>2. OnTime([kSchedules[i] EXCEPT !.next = @ + kSchedules[i].interval,
                                         !.runs = @ + 1], kNow)
        BY <2>2, <3>3, <4>1, RunMovesOn
      <4>3. QED BY <3>3, <4>2
    <3>4. QED BY <3>1, <3>2, <3>3
  <2>3. QED BY <1>0, <1>4, <2>1, <2>2 DEF Clock!LoopTurn, Clock!Turn, Clock!TurnOf
<1>5. ASSUME NEW l \in Tasks, Clock!Run(l) \/ Clock!LoopWakes(l) \/ Clock!LoopLeaves(l)
      PROVE  /\ UNCHANGED <<kNow, kSchedules>> /\ kOn' \in BOOLEAN
             /\ kLoop' \in [Tasks -> {"none", "turn", "wait", "ended"}]
  BY <1>0, <1>5 DEF Clock!Run, Clock!LoopWakes, Clock!LoopLeaves
<1>6. ASSUME Clock!TimePasses
      PROVE  /\ UNCHANGED <<kSchedules, kLoop, kOn>> /\ kNow' \in 0 .. ClockTime
             /\ \A i \in DOMAIN kSchedules' : OnTime(kSchedules'[i], kNow')
  <2>1. ASSUME NEW s, OnTime(s, kNow) PROVE OnTime(s, kNow + 1)
    BY <1>0, <2>1 DEF OnTime, Clock!Schedule
  <2>2. QED BY <1>0, <1>6, <2>1 DEF Clock!TimePasses
<1>7. ASSUME Clock!Stop \/ UNCHANGED clockVars
      PROVE  UNCHANGED <<kNow, kSchedules, kLoop>> /\ kOn' \in BOOLEAN
  BY <1>0, <1>7 DEF Clock!Stop, clockVars
<1>8. CASE Clock!Next
  BY <1>0, <1>2, <1>3, <1>4, <1>5, <1>6, <1>7, <1>8 DEF Clock!Next
<1>9. QED BY <1>0, <1>7, <1>8

-----------------------------------------------------------------------------
(* Plugins.                                                                *)

PluginObject ==
  [name : Names \union {0},
   state : {"NONE", "LOADED", "VALIDATED", "INITIALIZED", "RUNNING", "PAUSED", "STOPPED",
            "ERROR", "UNLOADED"},
   ready : BOOLEAN, active : BOOLEAN, hurt : BOOLEAN]

(* Only a plugin whose hook raised is active in a state that unloading     *)
(* does not stop, and the registry names no unloaded plugin.               *)
PluginsInv ==
  /\ Plug!TypeOK /\ Plug!PluginsAccounted
  /\ pObject \in [Plug!Objects -> PluginObject]
  /\ \A o \in Plug!Objects :
       /\ pObject[o].active => pObject[o].hurt \/ Plug!NeedsStop(pObject[o].state)
       /\ pObject[o].ready => pObject[o].name \in Names

LEMMA PluginsInitHolds == ASSUME Plug!Init PROVE PluginsInv
<1>1. MaxObjects \in Nat
  BY BoundsAreNumbers
<1>2. \A o \in Plug!Objects : pObject[o] = Plug!Unborn /\ o > 0
  BY <1>1 DEF Plug!Init, Plug!Objects
<1>3. pObject \in [Plug!Objects -> PluginObject]
  BY DEF Plug!Init, PluginObject, Plug!Unborn, Plug!Fresh
<1>4. Plug!TypeOK
  <2>1. pInstances \in [Names -> 0 .. pMade] /\ pMade \in 0 .. MaxObjects
    BY <1>1 DEF Plug!Init
  <2>2. QED BY <1>2, <2>1 DEF Plug!Init, Plug!TypeOK, Plug!Unborn, Plug!Fresh
<1>5. QED BY <1>2, <1>3, <1>4 DEF PluginsInv, Plug!PluginsAccounted, Plug!Init, Plug!Unborn, Plug!Fresh

(* A hook, or a stop of some: what it makes of an object keeps its name    *)
(* and whether it is ready, and leaves no object active that did not raise *)
(* in a state that unloading does not stop.                                *)
Keeps(before, after) ==
  /\ after \in PluginObject /\ after.name = before.name /\ after.ready = before.ready
  /\ after.active => after.hurt \/ Plug!NeedsStop(after.state)

LEMMA HooksHold ==
  ASSUME PluginsInv,
         \A o \in Plug!Objects :
           \/ pObject'[o] = pObject[o]
           \/ (\E n \in Names : pInstances[n] = o) /\ Keeps(pObject[o], pObject'[o]),
         DOMAIN pObject' = DOMAIN pObject,
         pObject' = [o \in DOMAIN pObject' |-> pObject'[o]],
         UNCHANGED <<pDiscovered, pFactories, pErrors, pInstances, pMade, pReplaced>>
  PROVE  PluginsInv'
<1>1. /\ pInstances \in [Names -> 0 .. pMade] /\ pMade \in 0 .. MaxObjects
      /\ pObject \in [Plug!Objects -> PluginObject]
      /\ \A o \in Plug!Objects : pObject[o] = Plug!Unborn <=> o > pMade
      /\ \A n \in Names : pInstances[n] # 0 => pInstances[n] \in Plug!Objects
                                             /\ pObject[pInstances[n]].name = n
                                             /\ pObject[pInstances[n]].ready
  BY BoundsAreNumbers DEF PluginsInv, Plug!TypeOK, Plug!PluginsAccounted, Plug!Of, Plug!Objects
<1>2. \A o \in Plug!Objects : pObject'[o] \in PluginObject /\ pObject'[o].name = pObject[o].name
                               /\ pObject'[o].ready = pObject[o].ready
  BY <1>1 DEF Keeps
<1>3. pObject' \in [Plug!Objects -> PluginObject]
  BY <1>1, <1>2
<1>4. \A o \in Plug!Objects : pObject'[o] = Plug!Unborn <=> o > pMade
  <2>1. \A o \in Plug!Objects : (\E n \in Names : pInstances[n] = o) => o <= pMade
    BY <1>1
  <2>2. Plug!Unborn.ready = FALSE
    BY DEF Plug!Unborn, Plug!Fresh
  <2>3. QED BY <1>1, <2>1, <2>2 DEF Keeps, Plug!Objects
<1>5. Plug!TypeOK'
  BY <1>2, <1>4 DEF PluginsInv, Plug!TypeOK, PluginObject
<1>6. \A o \in Plug!Objects :
        /\ pObject'[o].active => pObject'[o].hurt \/ Plug!NeedsStop(pObject'[o].state)
        /\ pObject'[o].ready => pObject'[o].name \in Names
  BY <1>2 DEF Keeps, PluginsInv
<1>7. Plug!PluginsAccounted'
  <2>1. ASSUME NEW n \in Names, pInstances[n] # 0
        PROVE  Plug!Of(n)'.name = n /\ Plug!Of(n)'.ready
    BY <1>1, <1>2, <2>1 DEF Plug!Of
  <2>2. ASSUME NEW o \in Plug!Objects, pObject'[o].ready
        PROVE  \/ pObject'[o].state = "UNLOADED" \/ o \in pReplaced
               \/ pInstances[pObject'[o].name] = o
    <3>1. CASE pObject'[o] = pObject[o]
      BY <2>2, <3>1 DEF PluginsInv, Plug!PluginsAccounted
    <3>2. ASSUME NEW n \in Names, pInstances[n] = o PROVE pInstances[pObject'[o].name] = o
      <4>1. pInstances[n] # 0
        BY <3>2, BoundsAreNumbers DEF Plug!Objects
      <4>2. QED BY <1>1, <1>2, <3>2, <4>1
    <3>3. QED BY <3>1, <3>2
  <2>3. ASSUME NEW o \in Plug!Objects, pObject'[o].state = "UNLOADED", pObject'[o].active
        PROVE  pObject'[o].hurt
    BY <1>6, <2>3 DEF Plug!NeedsStop
  <2>4. QED BY <2>1, <2>2, <2>3 DEF Plug!PluginsAccounted
<1>8. QED BY <1>3, <1>5, <1>6, <1>7 DEF PluginsInv

LEMMA BecomesHolds ==
  ASSUME PluginsInv, NEW n \in Names, pInstances[n] # 0, NEW result,
         Keeps(Plug!Of(n), result), Plug!Becomes(n, result)
  PROVE  PluginsInv'
<1>1. pObject \in [Plug!Objects -> PluginObject] /\ pInstances[n] \in Plug!Objects
  BY BoundsAreNumbers DEF PluginsInv, Plug!TypeOK, Plug!Objects
<1>2. pObject' = [pObject EXCEPT ![pInstances[n]] = result]
      /\ UNCHANGED <<pDiscovered, pFactories, pErrors, pInstances, pMade, pReplaced>>
  BY DEF Plug!Becomes
<1>3. \A o \in Plug!Objects :
        \/ pObject'[o] = pObject[o]
        \/ (\E m \in Names : pInstances[m] = o) /\ Keeps(pObject[o], pObject'[o])
  BY <1>1, <1>2 DEF Plug!Of
<1>4. DOMAIN pObject' = DOMAIN pObject /\ pObject' = [o \in DOMAIN pObject' |-> pObject'[o]]
  BY <1>1, <1>2
<1>5. QED BY <1>2, <1>3, <1>4, HooksHold

(* A loaded plugin's object.                                               *)
LEMMA LoadedObject ==
  ASSUME PluginsInv, NEW n \in Names, pInstances[n] # 0
  PROVE  /\ pInstances[n] \in Plug!Objects /\ pInstances[n] <= pMade
         /\ Plug!Of(n) = pObject[pInstances[n]] /\ Plug!Of(n) \in PluginObject
         /\ Plug!Of(n).name = n /\ Plug!Of(n).ready
         /\ Plug!Of(n).active => Plug!Of(n).hurt \/ Plug!NeedsStop(Plug!Of(n).state)
<1>1. pInstances[n] \in Plug!Objects /\ pInstances[n] <= pMade
  BY BoundsAreNumbers DEF PluginsInv, Plug!TypeOK, Plug!Objects
<1>2. QED BY <1>1 DEF PluginsInv, Plug!Of, Plug!PluginsAccounted

LEMMA CallHolds ==
  ASSUME PluginsInv, NEW n \in Names,
         Plug!Start(n) \/ Plug!PauseOrResume(n) \/ Plug!Stop(n) \/ Plug!UnloadFails(n)
  PROVE  PluginsInv'
<1>1. pInstances[n] # 0
  BY DEF Plug!Start, Plug!PauseOrResume, Plug!Stop, Plug!UnloadFails
<1> DEFINE it == Plug!Of(n)
<1>2. /\ it \in PluginObject /\ it.active \in BOOLEAN /\ it.hurt \in BOOLEAN
      /\ it.active => it.hurt \/ Plug!NeedsStop(it.state)
  BY <1>1, LoadedObject DEF PluginObject
<1> HIDE DEF it
<1>3. /\ Keeps(it, [it EXCEPT !.state = "RUNNING", !.active = TRUE])
      /\ Keeps(it, [it EXCEPT !.state = "ERROR", !.hurt = TRUE])
      /\ \A state \in {"PAUSED", "RUNNING"} : Keeps(it, [it EXCEPT !.state = state])
  BY <1>2 DEF Keeps, PluginObject, Plug!NeedsStop
<1>4. /\ Keeps(it, [it EXCEPT !.state = "STOPPED", !.active = FALSE])
      /\ Keeps(it, [it EXCEPT !.hurt = TRUE])
      /\ Keeps(it, [it EXCEPT !.active = @ /\ ~Plug!NeedsStop(it.state)])
  BY <1>2 DEF Keeps, PluginObject, Plug!NeedsStop
<1>5. \E result : Keeps(it, result) /\ Plug!Becomes(n, result)
  BY <1>3, <1>4 DEF it, Plug!Start, Plug!PauseOrResume, Plug!Stop, Plug!UnloadFails, Plug!Stopped
<1>6. QED BY <1>1, <1>5, BecomesHolds DEF it

LEMMA StopAllHolds == ASSUME PluginsInv, NEW raising, Plug!StopAll(raising) PROVE PluginsInv'
<1>1. pObject \in [Plug!Objects -> PluginObject]
  BY DEF PluginsInv
<1>2. /\ pObject' = [o \in Plug!Objects |->
            IF \E n \in Names : pInstances[n] = o
            THEN IF pObject[o].name \in raising THEN [pObject[o] EXCEPT !.hurt = TRUE]
                 ELSE [pObject[o] EXCEPT !.state = "STOPPED", !.active = FALSE]
            ELSE pObject[o]]
      /\ UNCHANGED <<pDiscovered, pFactories, pErrors, pInstances, pMade, pReplaced>>
  BY DEF Plug!StopAll, Plug!Stopped
<1>3. ASSUME NEW it \in PluginObject
      PROVE  /\ Keeps(it, [it EXCEPT !.hurt = TRUE])
             /\ Keeps(it, [it EXCEPT !.state = "STOPPED", !.active = FALSE])
  BY DEF Keeps, PluginObject
<1>4. \A o \in Plug!Objects :
        \/ pObject'[o] = pObject[o]
        \/ (\E m \in Names : pInstances[m] = o) /\ Keeps(pObject[o], pObject'[o])
  BY <1>1, <1>2, <1>3
<1>5. DOMAIN pObject' = DOMAIN pObject /\ pObject' = [o \in DOMAIN pObject' |-> pObject'[o]]
  BY <1>1, <1>2
<1>6. QED BY <1>2, <1>4, <1>5, HooksHold

LEMMA LoadHolds == ASSUME PluginsInv, NEW n \in Names, Plug!Load(n) PROVE PluginsInv'
<1>1. PICK state \in {"LOADED", "VALIDATED", "INITIALIZED"}, ready \in BOOLEAN :
        (ready => state = "INITIALIZED") /\ Plug!Initialize(n, pMade + 1, state, ready)
  BY DEF Plug!Load
<1> DEFINE o == pMade + 1
           new == [name |-> n, state |-> state, ready |-> ready, active |-> FALSE, hurt |-> FALSE]
<1>2. /\ pMade < MaxObjects /\ pMade' = o /\ UNCHANGED <<pDiscovered, pFactories, pErrors>>
      /\ MaxObjects \in Nat /\ pMade \in 0 .. MaxObjects
      /\ pObject \in [Plug!Objects -> PluginObject] /\ pInstances \in [Names -> 0 .. pMade]
      /\ pReplaced \subseteq 1 .. pMade
      /\ \A k \in Plug!Objects : pObject[k] = Plug!Unborn <=> k > pMade
  BY BoundsAreNumbers DEF Plug!Load, PluginsInv, Plug!TypeOK
<1>3. /\ pObject' = [pObject EXCEPT ![o] = new]
      /\ ready => /\ pInstances' = [pInstances EXCEPT ![n] = o]
                  /\ pReplaced' = pReplaced \union ({pInstances[n]} \ {0})
      /\ ~ready => UNCHANGED <<pInstances, pReplaced>>
  <2>2. pObject' = [pObject EXCEPT ![o] = new]
    BY <1>1 DEF Plug!Initialize, Plug!Fresh
  <2>3. CASE ready
    BY <1>1, <2>2, <2>3 DEF Plug!Initialize
  <2>4. CASE ~ready
    BY <1>1, <2>2, <2>4 DEF Plug!Initialize
  <2>5. QED BY <2>3, <2>4
<1>4. o \in Plug!Objects /\ new \in PluginObject /\ new # Plug!Unborn
  <2>1. new.name = n /\ new.state = state /\ Plug!Unborn.state = "NONE"
    BY DEF Plug!Unborn, Plug!Fresh
  <2>2. QED BY <1>2, <2>1 DEF Plug!Objects, PluginObject
<1> HIDE DEF new
<1>5. /\ pObject' \in [Plug!Objects -> PluginObject] /\ pObject'[o] = new
      /\ \A k \in Plug!Objects \ {o} : pObject'[k] = pObject[k]
  BY <1>2, <1>3, <1>4
<1>6. /\ pInstances' \in [Names -> 0 .. pMade'] /\ pReplaced' \subseteq 1 .. pMade'
      /\ pMade' \in 0 .. MaxObjects
  <2>1. CASE ready
    <3>1. pInstances' = [pInstances EXCEPT ![n] = o] /\ pInstances[n] \in 0 .. pMade
      BY <1>2, <1>3, <2>1
    <3>2. pReplaced' = pReplaced \union ({pInstances[n]} \ {0})
      BY <1>3, <2>1
    <3>3. pReplaced' \subseteq 1 .. pMade'
      <4>1. \A k \in 1 .. pMade : k \in 1 .. pMade'
        BY <1>2
      <4>2. pInstances[n] = 0 \/ pInstances[n] \in 1 .. pMade
        BY <1>2, <3>1
      <4>3. QED BY <1>2, <3>2, <4>1, <4>2
    <3>4. o \in 0 .. pMade' /\ \A k \in 0 .. pMade : k \in 0 .. pMade'
      BY <1>2
    <3>7. pInstances' = [m \in Names |-> IF m = n THEN o ELSE pInstances[m]]
      BY <1>2, <3>1
    <3>5. pInstances' \in [Names -> 0 .. pMade']
      BY <1>2, <3>4, <3>7
    <3>6. QED BY <1>2, <3>3, <3>5
  <2>2. CASE ~ready
    <3>1. pInstances' = pInstances /\ pReplaced' = pReplaced
      BY <1>3, <2>2
    <3>2. /\ \A k \in 0 .. pMade : k \in 0 .. pMade'
          /\ \A k \in 1 .. pMade : k \in 1 .. pMade'
      BY <1>2
    <3>3. QED BY <1>2, <3>1, <3>2
  <2>3. QED BY <2>1, <2>2
<1>7. Plug!TypeOK'
  <2>1. \A k \in Plug!Objects : pObject'[k] = Plug!Unborn <=> k > pMade'
    BY <1>2, <1>4, <1>5 DEF Plug!Objects
  <2>2. QED BY <1>2, <1>5, <1>6, <2>1 DEF PluginsInv, Plug!TypeOK, PluginObject
<1>8. \A k \in Plug!Objects :
        /\ pObject'[k].active => pObject'[k].hurt \/ Plug!NeedsStop(pObject'[k].state)
        /\ pObject'[k].ready => pObject'[k].name \in Names
  BY <1>5 DEF PluginsInv, new
<1>9. Plug!PluginsAccounted'
  <2>1. ASSUME NEW m \in Names, pInstances'[m] # 0
        PROVE  Plug!Of(m)'.name = m /\ Plug!Of(m)'.ready
    <3>1. CASE m = n /\ ready
      BY <1>2, <1>3, <1>5, <3>1 DEF Plug!Of, new
    <3>2. CASE ~(m = n /\ ready)
      <4>1. pInstances'[m] = pInstances[m] /\ pInstances[m] # o /\ pInstances[m] # 0
        BY <1>2, <1>3, <2>1, <3>2
      <4>2. pInstances[m] \in Plug!Objects /\ Plug!Of(m) = pObject[pInstances[m]]
            /\ Plug!Of(m).name = m /\ Plug!Of(m).ready
        BY <4>1, LoadedObject
      <4>3. QED BY <1>5, <4>1, <4>2 DEF Plug!Of
    <3>3. QED BY <3>1, <3>2
  <2>2. ASSUME NEW k \in Plug!Objects, pObject'[k].ready
        PROVE  \/ pObject'[k].state = "UNLOADED" \/ k \in pReplaced'
               \/ pInstances'[pObject'[k].name] = k
    <3>1. CASE k = o
      BY <1>2, <1>3, <1>5, <2>2, <3>1 DEF new
    <3>2. CASE k # o
      <4>1. pObject'[k] = pObject[k] /\ pObject[k].ready
        BY <1>5, <2>2, <3>2
      <4>2. \/ pObject[k].state = "UNLOADED" \/ k \in pReplaced \/ pInstances[pObject[k].name] = k
        BY <4>1 DEF PluginsInv, Plug!PluginsAccounted
      <4>3. k # 0
        BY <1>2 DEF Plug!Objects
      <4>4. CASE ready /\ pObject[k].name = n
        BY <1>3, <4>1, <4>2, <4>3, <4>4
      <4>5. CASE ~(ready /\ pObject[k].name = n)
        <5>1. pInstances'[pObject[k].name] = pInstances[pObject[k].name]
              \/ pInstances[pObject[k].name] # k
          <6>1. CASE ~ready
            BY <1>3, <6>1
          <6>2. CASE ready /\ pObject[k].name # n
            <7>1. pObject[k].name \in Names
              BY <4>1 DEF PluginsInv
            <7>2. QED BY <1>2, <1>3, <6>2, <7>1
          <6>3. QED BY <4>5, <6>1, <6>2
        <5>2. \A x \in pReplaced : x \in pReplaced'
          BY <1>3
        <5>3. QED BY <4>1, <4>2, <5>1, <5>2
      <4>6. QED BY <4>4, <4>5
    <3>3. QED BY <3>1, <3>2
  <2>3. ASSUME NEW k \in Plug!Objects, pObject'[k].state = "UNLOADED", pObject'[k].active
        PROVE  pObject'[k].hurt
    BY <1>8, <2>3 DEF Plug!NeedsStop
  <2>4. QED BY <2>1, <2>2, <2>3 DEF Plug!PluginsAccounted
<1>10. QED BY <1>5, <1>7, <1>8, <1>9 DEF PluginsInv

LEMMA UnloadHolds == ASSUME PluginsInv, NEW n \in Names, Plug!Unload(n) PROVE PluginsInv'
<1>1. pInstances[n] # 0
  BY DEF Plug!Unload
<1> DEFINE o == pInstances[n]
           gone == [pObject[o] EXCEPT !.state = "UNLOADED",
                                      !.active = @ /\ ~Plug!NeedsStop(pObject[o].state)]
<1>2. /\ o \in Plug!Objects /\ o <= pMade /\ pObject[o] \in PluginObject
      /\ pObject[o].name = n /\ pObject[o].ready
      /\ pObject[o].active => pObject[o].hurt \/ Plug!NeedsStop(pObject[o].state)
  BY <1>1, LoadedObject
<1>3. /\ pObject \in [Plug!Objects -> PluginObject] /\ pInstances \in [Names -> 0 .. pMade]
      /\ \A k \in Plug!Objects : pObject[k] = Plug!Unborn <=> k > pMade
      /\ MaxObjects \in Nat /\ pMade \in 0 .. MaxObjects
  BY BoundsAreNumbers DEF PluginsInv, Plug!TypeOK
<1>4. pObject' = [pObject EXCEPT ![o] = gone]
  BY <1>2, <1>3 DEF Plug!Unload, Plug!Of, PluginObject
<1>5. /\ pInstances' = [pInstances EXCEPT ![n] = 0] /\ pFactories' = pFactories \ {n}
      /\ UNCHANGED <<pDiscovered, pErrors, pMade, pReplaced>>
  BY DEF Plug!Unload
<1>6. /\ gone \in PluginObject /\ gone.name = n /\ gone.ready /\ gone.state = "UNLOADED"
      /\ gone.active => gone.hurt
  BY <1>2 DEF PluginObject
<1> HIDE DEF gone
<1>7. /\ pObject' \in [Plug!Objects -> PluginObject] /\ pObject'[o] = gone
      /\ \A k \in Plug!Objects \ {o} : pObject'[k] = pObject[k]
  BY <1>2, <1>3, <1>4, <1>6
<1>8. Plug!TypeOK'
  <2>1. gone # Plug!Unborn
    BY <1>6 DEF Plug!Unborn, Plug!Fresh
  <2>2. \A k \in Plug!Objects : pObject'[k] = Plug!Unborn <=> k > pMade'
    BY <1>2, <1>3, <1>5, <1>7, <2>1 DEF Plug!Objects
  <2>3. pInstances' \in [Names -> 0 .. pMade']
    BY <1>3, <1>5
  <2>4. QED BY <1>5, <1>7, <2>2, <2>3 DEF PluginsInv, Plug!TypeOK, PluginObject
<1>9. \A k \in Plug!Objects :
        /\ pObject'[k].active => pObject'[k].hurt \/ Plug!NeedsStop(pObject'[k].state)
        /\ pObject'[k].ready => pObject'[k].name \in Names
  BY <1>6, <1>7 DEF PluginsInv
<1>10. Plug!PluginsAccounted'
  <2>1. ASSUME NEW m \in Names, pInstances'[m] # 0
        PROVE  Plug!Of(m)'.name = m /\ Plug!Of(m)'.ready
    <3>1. m # n /\ pInstances'[m] = pInstances[m]
      BY <1>3, <1>5, <2>1
    <3>2. /\ pInstances[m] \in Plug!Objects /\ pObject[pInstances[m]].name = m
          /\ pObject[pInstances[m]].ready
      BY <2>1, <3>1, LoadedObject
    <3>3. pInstances[m] # o
      BY <1>2, <3>1, <3>2
    <3>4. QED BY <1>7, <3>1, <3>2, <3>3 DEF Plug!Of
  <2>2. ASSUME NEW k \in Plug!Objects, pObject'[k].ready
        PROVE  \/ pObject'[k].state = "UNLOADED" \/ k \in pReplaced'
               \/ pInstances'[pObject'[k].name] = k
    <3>1. CASE k = o
      BY <1>6, <1>7, <3>1
    <3>2. CASE k # o
      <4>1. pObject'[k] = pObject[k] /\ pObject[k].ready
        BY <1>7, <2>2, <3>2
      <4>2. \/ pObject[k].state = "UNLOADED" \/ k \in pReplaced \/ pInstances[pObject[k].name] = k
        BY <4>1 DEF PluginsInv, Plug!PluginsAccounted
      <4>3. CASE pInstances[pObject[k].name] = k
        BY <1>3, <1>5, <3>2, <4>1, <4>3
      <4>4. QED BY <1>5, <4>1, <4>2, <4>3
    <3>3. QED BY <3>1, <3>2
  <2>3. ASSUME NEW k \in Plug!Objects, pObject'[k].state = "UNLOADED", pObject'[k].active
        PROVE  pObject'[k].hurt
    BY <1>9, <2>3 DEF Plug!NeedsStop
  <2>4. QED BY <2>1, <2>2, <2>3 DEF Plug!PluginsAccounted
<1>11. QED BY <1>7, <1>8, <1>9, <1>10 DEF PluginsInv

LEMMA RegistryClearHolds == ASSUME PluginsInv, Plug!Clear PROVE PluginsInv'
<1>1. /\ pDiscovered' = {} /\ pFactories' = {} /\ pErrors' = {}
      /\ pInstances' = [n \in Names |-> 0] /\ UNCHANGED <<pObject, pMade>>
      /\ pReplaced' = pReplaced \union ({pInstances[n] : n \in Names} \ {0})
  BY DEF Plug!Clear
<1>2. pInstances \in [Names -> 0 .. pMade] /\ pMade \in 0 .. MaxObjects /\ MaxObjects \in Nat
  BY BoundsAreNumbers DEF PluginsInv, Plug!TypeOK
<1>3. Plug!TypeOK'
  <2>1. pInstances' \in [Names -> 0 .. pMade]
    BY <1>1, <1>2
  <2>2. {pInstances[n] : n \in Names} \ {0} \subseteq 1 .. pMade
    BY <1>2
  <2>3. pReplaced' \subseteq 1 .. pMade
    BY <1>1, <2>2 DEF PluginsInv, Plug!TypeOK
  <2>4. QED BY <1>1, <2>1, <2>3 DEF PluginsInv, Plug!TypeOK
<1>4. Plug!PluginsAccounted'
  <2>1. \A n \in Names : pInstances'[n] = 0
    BY <1>1
  <2>2. ASSUME NEW o \in Plug!Objects, pObject[o].ready
        PROVE  pObject[o].state = "UNLOADED" \/ o \in pReplaced'
    <3>1. \/ pObject[o].state = "UNLOADED" \/ o \in pReplaced
          \/ pInstances[pObject[o].name] = o
      BY <2>2 DEF PluginsInv, Plug!PluginsAccounted
    <3>2. pObject[o].name \in Names /\ o # 0
      BY <2>2, <1>2 DEF PluginsInv, Plug!Objects
    <3>3. QED BY <1>1, <3>1, <3>2
  <2>3. QED BY <1>1, <2>1, <2>2 DEF PluginsInv, Plug!PluginsAccounted
<1>5. QED BY <1>1, <1>3, <1>4 DEF PluginsInv

LEMMA PluginsStepHolds == ASSUME PluginsInv, [Plug!Next]_pluginsVars PROVE PluginsInv'
<1>1. ASSUME UNCHANGED pluginsVars PROVE PluginsInv'
  BY <1>1 DEF pluginsVars, PluginsInv, Plug!TypeOK, Plug!PluginsAccounted, Plug!Of
<1>2. ASSUME NEW S \in SUBSET Names, NEW F \in SUBSET S, Plug!Discover(S, F) PROVE PluginsInv'
  BY <1>2 DEF Plug!Discover, PluginsInv, Plug!TypeOK, Plug!PluginsAccounted, Plug!Of
<1>3. ASSUME NEW n \in Names, Plug!Unresolved(n) PROVE PluginsInv'
  BY <1>3 DEF Plug!Unresolved, PluginsInv, Plug!TypeOK, Plug!PluginsAccounted, Plug!Of
<1>4. ASSUME NEW n \in Names, Plug!ClearError(n) PROVE PluginsInv'
  BY <1>4 DEF Plug!ClearError, PluginsInv, Plug!TypeOK, Plug!PluginsAccounted, Plug!Of
<1>5. ASSUME Plug!Next PROVE PluginsInv'
  BY <1>2, <1>3, <1>4, <1>5, RegistryClearHolds, StopAllHolds, CallHolds, LoadHolds, UnloadHolds DEF Plug!Next
<1>6. QED BY <1>1, <1>5

-----------------------------------------------------------------------------
(* Strategies.                                                             *)

LEMMA LeastExists ==
  ASSUME NEW T \in SUBSET Nat, T # {}
  PROVE  \E x \in T : \A y \in T : x <= y
<1>1. PICK x \in T : \A y \in T : <<y, x>> \notin Less
  BY LessWellFounded, WFMin
<1>2. \A y \in T : ~(y < x)
  BY <1>1 DEF Less
<1>3. QED BY <1>1, <1>2

(* The places of a value in a list.                                        *)
At(list, x) == {i \in 1 .. Len(list) : list[i] = x}

Count(list, x) == Cardinality(At(list, x))

Once(list, x) == \A i, j \in 1 .. Len(list) : list[i] = x /\ list[j] = x => i = j

Lists(list, x) == \E i \in 1 .. Len(list) : list[i] = x

Distinct(list) == \A i, j \in 1 .. Len(list) : list[i] = list[j] => i = j

LEMMA CountIsBounded ==
  ASSUME NEW S, NEW list \in Seq(S), NEW x
  PROVE  IsFiniteSet(At(list, x)) /\ Count(list, x) \in 0 .. Len(list)
<1>1. Len(list) \in Nat /\ At(list, x) \in SUBSET (1 .. Len(list))
  BY DEF At
<1>2. IsFiniteSet(1 .. Len(list)) /\ Cardinality(1 .. Len(list)) = Len(list)
  <2>1. Len(list) \in Int /\ 1 \in Int
    BY <1>1
  <2>2. /\ IsFiniteSet(1 .. Len(list))
        /\ Cardinality(1 .. Len(list)) = IF 1 > Len(list) THEN 0 ELSE Len(list) - 1 + 1
    BY <2>1, FS_Interval
  <2>3. QED BY <1>1, <2>2
<1>3. QED BY <1>1, <1>2, FS_Subset, FS_CardinalityType DEF Count

(* A sequence without one of its places.                                   *)
LEMMA WithoutProperties ==
  ASSUME NEW S, NEW list \in Seq(S), NEW x, \E i \in 1 .. Len(list) : list[i] = x
  PROVE  \E k \in 1 .. Len(list) :
           /\ list[k] = x
           /\ Algo!Without(list, x) \in Seq(S)
           /\ Len(Algo!Without(list, x)) = Len(list) - 1
           /\ \A i \in 1 .. Len(list) - 1 :
                Algo!Without(list, x)[i] = IF i < k THEN list[i] ELSE list[i + 1]
<1> DEFINE Leads(i) == list[i] = x /\ \A j \in 1 .. (i - 1) : list[j] # x
           k == CHOOSE i \in 1 .. Len(list) : Leads(i)
           front == SubSeq(list, 1, k - 1)
           back == SubSeq(list, k + 1, Len(list))
<1>1. \E i \in 1 .. Len(list) : Leads(i)
  <2>1. At(list, x) \in SUBSET Nat /\ At(list, x) # {}
    BY DEF At
  <2>2. PICK i \in At(list, x) : \A j \in At(list, x) : i <= j
    BY <2>1, LeastExists
  <2>3. \A j \in 1 .. (i - 1) : list[j] # x
    BY <2>2 DEF At
  <2>4. QED BY <2>2, <2>3 DEF At
<1>2. k \in 1 .. Len(list) /\ list[k] = x
  <2>1. k \in 1 .. Len(list) /\ Leads(k)
    BY <1>1
  <2>2. QED BY <2>1
<1> HIDE DEF k
<1>3. Algo!Without(list, x) = front \o back
  BY DEF Algo!Without, k
<1>4. /\ front \in Seq(S) /\ Len(front) = k - 1
      /\ \A i \in 1 .. k - 1 : front[i] = list[i]
  <2>1. \A i \in 1 .. k - 1 : list[i] \in S
    BY <1>2
  <2>2. QED BY <1>2, <2>1, SubSeqProperties
<1>5. /\ back \in Seq(S) /\ Len(back) = Len(list) - k
      /\ \A i \in 1 .. Len(list) - k : back[i] = list[k + i]
  <2>1. \A i \in k + 1 .. Len(list) : list[i] \in S
    BY <1>2
  <2>2. Len(list) \in Nat
    OBVIOUS
  <2>3. /\ back \in Seq(S)
        /\ Len(back) = IF k + 1 <= Len(list) THEN Len(list) - (k + 1) + 1 ELSE 0
        /\ \A i \in 1 .. Len(list) - (k + 1) + 1 : back[i] = list[(k + 1) + i - 1]
    BY <1>2, <2>1, <2>2, SubSeqProperties
  <2>4. QED BY <1>2, <2>2, <2>3
<1> HIDE DEF front, back
<1>6. /\ front \o back \in Seq(S) /\ Len(front \o back) = Len(list) - 1
      /\ \A i \in 1 .. Len(list) - 1 :
           (front \o back)[i] = IF i <= k - 1 THEN front[i] ELSE back[i - (k - 1)]
  <2>1. /\ front \o back \in Seq(S) /\ Len(front \o back) = Len(front) + Len(back)
        /\ \A i \in 1 .. Len(front) + Len(back) :
             (front \o back)[i] = IF i <= Len(front) THEN front[i] ELSE back[i - Len(front)]
    BY <1>4, <1>5, ConcatProperties
  <2>2. Len(list) \in Nat /\ Len(front) + Len(back) = Len(list) - 1
    BY <1>2, <1>4, <1>5
  <2>3. QED BY <1>4, <2>1, <2>2
<1>7. ASSUME NEW i \in 1 .. Len(list) - 1
      PROVE  (front \o back)[i] = IF i < k THEN list[i] ELSE list[i + 1]
  <2>1. CASE i <= k - 1
    BY <1>2, <1>4, <1>6, <2>1
  <2>2. CASE ~(i <= k - 1)
    <3>1. i - (k - 1) \in 1 .. Len(list) - k /\ k + (i - (k - 1)) = i + 1
      BY <1>2, <2>2
    <3>2. back[i - (k - 1)] = list[k + (i - (k - 1))]
      BY <1>5, <3>1
    <3>3. QED BY <1>2, <1>6, <2>2, <3>1, <3>2
  <2>3. QED BY <2>1, <2>2
<1>8. QED BY <1>2, <1>3, <1>6, <1>7

(* Leaving changes how often no other value is in the list.                *)
LEMMA WithoutCounts ==
  ASSUME NEW S, NEW list \in Seq(S), NEW x, Lists(list, x)
  PROVE  /\ Algo!Without(list, x) \in Seq(S)
         /\ Len(Algo!Without(list, x)) = Len(list) - 1
         /\ \A y : y # x => Count(Algo!Without(list, x), y) = Count(list, y)
         /\ \A y : Once(list, y) => Once(Algo!Without(list, x), y)
         /\ Distinct(list) =>
              /\ Distinct(Algo!Without(list, x))
              /\ \A y : Lists(Algo!Without(list, x), y) <=> y # x /\ Lists(list, y)
<1> DEFINE rest == Algo!Without(list, x)
<1>1. PICK k \in 1 .. Len(list) :
           /\ list[k] = x
           /\ rest \in Seq(S)
           /\ Len(rest) = Len(list) - 1
           /\ \A i \in 1 .. Len(list) - 1 : rest[i] = IF i < k THEN list[i] ELSE list[i + 1]
  BY WithoutProperties DEF Lists
<1> HIDE DEF rest
<1> DEFINE Old(i) == IF i < k THEN i ELSE i + 1
<1>2. \A i \in 1 .. Len(rest) : Old(i) \in 1 .. Len(list) /\ Old(i) # k /\ rest[i] = list[Old(i)]
  BY <1>1
<1>3. \A i, j \in 1 .. Len(rest) : Old(i) = Old(j) => i = j
  BY <1>1
<1>4. \A m \in 1 .. Len(list) : m # k => \E i \in 1 .. Len(rest) : Old(i) = m
  <2>1. SUFFICES ASSUME NEW m \in 1 .. Len(list), m # k PROVE \E i \in 1 .. Len(rest) : Old(i) = m
    OBVIOUS
  <2>2. CASE m < k
    BY <1>1, <2>2
  <2>3. CASE m > k
    <3>1. m - 1 \in 1 .. Len(rest) /\ Old(m - 1) = m
      BY <1>1, <2>3
    <3>2. QED BY <3>1
  <2>4. QED BY <2>1, <2>2, <2>3
<1>5. ASSUME NEW y, y # x PROVE Count(rest, y) = Count(list, y)
  <2> DEFINE f == [i \in At(rest, y) |-> Old(i)]
  <2>1. f \in [At(rest, y) -> At(list, y)]
    BY <1>2 DEF At
  <2>2. \A a, b \in At(rest, y) : f[a] = f[b] => a = b
    BY <1>3 DEF At
  <2>3. \A m \in At(list, y) : \E i \in At(rest, y) : f[i] = m
    <3>1. SUFFICES ASSUME NEW m \in At(list, y) PROVE \E i \in At(rest, y) : f[i] = m
      OBVIOUS
    <3>2. m \in 1 .. Len(list) /\ list[m] = y /\ m # k
      BY <1>1, <1>5 DEF At
    <3>3. PICK i \in 1 .. Len(rest) : Old(i) = m
      BY <1>4, <3>2
    <3>4. i \in At(rest, y)
      BY <1>2, <3>2, <3>3 DEF At
    <3>5. QED BY <3>3, <3>4
  <2>4. f \in Bijection(At(rest, y), At(list, y))
    <3> HIDE DEF f
    <3>1. QED BY <2>1, <2>2, <2>3, Fun_IsBij
  <2>5. IsFiniteSet(At(rest, y))
    BY <1>1, CountIsBounded
  <2>6. QED BY <2>4, <2>5, FS_Bijection DEF ExistsBijection, Count
<1>6. ASSUME NEW y, Once(list, y) PROVE Once(rest, y)
  BY <1>2, <1>3, <1>6 DEF Once
<1>7. ASSUME Distinct(list)
      PROVE  /\ Distinct(rest)
             /\ \A y : Lists(rest, y) <=> y # x /\ Lists(list, y)
  <2>1. Distinct(rest)
    BY <1>2, <1>3, <1>7 DEF Distinct
  <2>2. ASSUME NEW i \in 1 .. Len(rest)
        PROVE  rest[i] # x /\ Lists(list, rest[i])
    BY <1>1, <1>2, <1>7 DEF Distinct, Lists
  <2>3. ASSUME NEW m \in 1 .. Len(list), list[m] # x
        PROVE  Lists(rest, list[m])
    <3>1. PICK i \in 1 .. Len(rest) : Old(i) = m
      BY <1>1, <1>4, <2>3
    <3>2. QED BY <1>2, <3>1 DEF Lists
  <2>4. QED BY <2>1, <2>2, <2>3 DEF Lists
<1>8. QED BY <1>1, <1>5, <1>6, <1>7 DEF rest

(* Values appended once each.                                              *)
LEMMA ConcatCounts ==
  ASSUME NEW S, NEW list \in Seq(S), NEW more \in Seq(S), Distinct(more)
  PROVE  /\ list \o more \in Seq(S) /\ Len(list \o more) = Len(list) + Len(more)
         /\ \A x : Count(list \o more, x) =
              Count(list, x) + IF Lists(more, x) THEN 1 ELSE 0
         /\ \A x : Once(list, x) /\ (At(list, x) = {} \/ At(more, x) = {})
                     => Once(list \o more, x)
<1> DEFINE all == list \o more
<1>1. /\ all \in Seq(S) /\ Len(all) = Len(list) + Len(more)
      /\ \A i \in 1 .. Len(list) + Len(more) : all[i] = IF i <= Len(list) THEN list[i]
                                                       ELSE more[i - Len(list)]
  BY ConcatProperties
<1>2. Len(list) \in Nat /\ Len(more) \in Nat
  OBVIOUS
<1> HIDE DEF all
<1>3. ASSUME NEW x, NEW j \in 1 .. Len(more), more[j] = x
      PROVE  Count(all, x) = Count(list, x) + 1
  <2>1. At(all, x) = At(list, x) \union {Len(list) + j}
    <3>1. ASSUME NEW i \in At(all, x) PROVE i \in At(list, x) \union {Len(list) + j}
      <4>1. CASE i <= Len(list)
        BY <1>1, <1>2, <4>1 DEF At
      <4>2. CASE ~(i <= Len(list))
        <5>1. i - Len(list) \in 1 .. Len(more) /\ more[i - Len(list)] = x
          BY <1>1, <1>2, <4>2 DEF At
        <5>2. i - Len(list) = j
          BY <1>3, <5>1 DEF Distinct
        <5>3. QED BY <1>2, <5>1, <5>2 DEF At
      <4>3. QED BY <4>1, <4>2
    <3>2. \A i \in At(list, x) : i \in At(all, x)
      BY <1>1, <1>2 DEF At
    <3>3. Len(list) + j \in At(all, x)
      <4>1. Len(list) + j \in 1 .. Len(list) + Len(more) /\ ~(Len(list) + j <= Len(list))
            /\ (Len(list) + j) - Len(list) = j
        BY <1>2
      <4>2. QED BY <1>1, <1>3, <4>1 DEF At
    <3>4. QED BY <3>1, <3>2, <3>3
  <2>2. Len(list) + j \notin At(list, x) /\ IsFiniteSet(At(list, x))
    <3>1. Len(list) + j \notin At(list, x)
      BY <1>2 DEF At
    <3>2. QED BY <3>1, CountIsBounded
  <2>3. QED BY <2>1, <2>2, FS_AddElement DEF Count
<1>4. ASSUME NEW x, At(more, x) = {} PROVE Count(all, x) = Count(list, x)
  <2>1. At(all, x) = At(list, x)
    <3>1. ASSUME NEW i \in At(all, x) PROVE i \in At(list, x)
      <4>1. CASE i <= Len(list)
        BY <1>1, <1>2, <4>1 DEF At
      <4>2. CASE ~(i <= Len(list))
        <5>1. i - Len(list) \in 1 .. Len(more) /\ more[i - Len(list)] = x
          BY <1>1, <1>2, <4>2 DEF At
        <5>2. QED BY <1>4, <5>1 DEF At
      <4>3. QED BY <4>1, <4>2
    <3>2. \A i \in At(list, x) : i \in At(all, x)
      BY <1>1, <1>2 DEF At
    <3>3. QED BY <3>1, <3>2
  <2>2. QED BY <2>1 DEF Count
<1>5. ASSUME NEW x PROVE Count(all, x) =
        Count(list, x) + IF Lists(more, x) THEN 1 ELSE 0
  <2>1. CASE \E j \in 1 .. Len(more) : more[j] = x
    BY <1>3, <2>1 DEF Lists
  <2>2. CASE ~(\E j \in 1 .. Len(more) : more[j] = x)
    <3>1. At(more, x) = {} /\ ~Lists(more, x)
      BY <2>2 DEF At, Lists
    <3>2. Count(list, x) \in Nat
      BY CountIsBounded
    <3>3. QED BY <1>4, <3>1, <3>2
  <2>3. QED BY <2>1, <2>2
<1>6. ASSUME NEW x, Once(list, x), At(list, x) = {} \/ At(more, x) = {} PROVE Once(all, x)
  <2>1. SUFFICES ASSUME NEW i \in 1 .. Len(all), NEW j \in 1 .. Len(all), all[i] = x, all[j] = x
                 PROVE  i = j
    BY DEF Once
  <2>2. CASE At(more, x) = {}
    <3>1. \A m \in 1 .. Len(all) : all[m] = x => m \in 1 .. Len(list) /\ list[m] = x
      <4>1. SUFFICES ASSUME NEW m \in 1 .. Len(all), all[m] = x
                     PROVE  m \in 1 .. Len(list) /\ list[m] = x
        OBVIOUS
      <4>2. CASE m <= Len(list)
        BY <1>1, <1>2, <4>1, <4>2
      <4>3. CASE ~(m <= Len(list))
        <5>1. m - Len(list) \in 1 .. Len(more) /\ more[m - Len(list)] = x
          BY <1>1, <1>2, <4>1, <4>3
        <5>2. QED BY <2>2, <5>1 DEF At
      <4>4. QED BY <4>2, <4>3
    <3>2. QED BY <1>6, <2>1, <3>1 DEF Once
  <2>3. CASE At(list, x) = {}
    <3>1. \A m \in 1 .. Len(all) : all[m] = x =>
            m - Len(list) \in 1 .. Len(more) /\ more[m - Len(list)] = x
      BY <1>1, <1>2, <2>3 DEF At
    <3>2. i - Len(list) = j - Len(list)
      BY <2>1, <3>1 DEF Distinct
    <3>3. QED BY <1>1, <1>2, <3>2
  <2>4. QED BY <1>6, <2>2, <2>3
<1>7. QED BY <1>1, <1>5, <1>6 DEF all

(* The manager's strategies, the handler list, and the last emission.      *)
KnownInv ==
  /\ aKnown \in Seq(Names) /\ Distinct(aKnown) /\ Cardinality(Algo!Managed) = Len(aKnown)
  /\ IsFiniteSet(Algo!Managed) /\ aConfigs \subseteq Algo!Managed
  /\ aPhase \in [Names -> {"INITIALIZED", "RUNNING", "PAUSED", "STOPPED"}]
  /\ \A s \in Names : aPhase[s] \in {"RUNNING", "PAUSED"} => s \in Algo!Managed

HandlersInv ==
  /\ aHandlers \in Seq(Names \union Listeners) /\ Len(aHandlers) <= MaxHandlers
  /\ aStarts \in [Names -> Nat]
  /\ \A s \in Names : Count(aHandlers, s) = aStarts[s]
  /\ \A l \in Listeners : Once(aHandlers, l)

Missed == [s \in Names |-> IF aPhase[s] = "RUNNING" THEN aStarts[s] - aHeard[s] ELSE 0]

HeardInv ==
  /\ aHeard \in [Names -> 0 .. MaxHandlers]
  /\ \A s \in Names : aHeard[s] > 0 => aPhase[s] = "RUNNING"
  /\ aHeard # Algo!None =>
       Missed = Algo!None \/ \E s \in Names : Missed = [Algo!None EXCEPT ![s] = 1]

StrategiesInv == KnownInv /\ HandlersInv /\ HeardInv

LEMMA SameCardinality == \A S : Algo!Cardinality(S) = Cardinality(S)
  BY DEF Algo!Cardinality, Cardinality

LEMMA StrategiesHear == StrategiesInv => Algo!TypeOK /\ Algo!BarsAreHeard
<1>1. SUFFICES ASSUME StrategiesInv PROVE Algo!TypeOK /\ Algo!BarsAreHeard
  OBVIOUS
<1>2. aStarts \in [Names -> 0 .. MaxHandlers]
  <2>1. \A s \in Names : aStarts[s] \in 0 .. Len(aHandlers) /\ Len(aHandlers) <= MaxHandlers
    BY <1>1, CountIsBounded DEF StrategiesInv, HandlersInv
  <2>2. Len(aHandlers) \in Nat /\ MaxHandlers \in Nat
    BY <1>1, BoundsAreNumbers DEF StrategiesInv, HandlersInv
  <2>3. QED BY <1>1, <2>1, <2>2 DEF StrategiesInv, HandlersInv
<1>3. Algo!TypeOK
  <2>1. KnownInv /\ HandlersInv /\ aHeard \in [Names -> 0 .. MaxHandlers]
    BY <1>1 DEF StrategiesInv, HeardInv
  <2>2. /\ aKnown \in Seq(Names) /\ Cardinality(Algo!Managed) = Len(aKnown)
        /\ aConfigs \subseteq Algo!Managed
        /\ aPhase \in [Names -> {"INITIALIZED", "RUNNING", "PAUSED", "STOPPED"}]
    BY <2>1 DEF KnownInv
  <2>3. aHandlers \in Seq(Names \union Listeners) /\ Len(aHandlers) <= MaxHandlers
    BY <2>1 DEF HandlersInv
  <2>4. QED BY <1>2, <2>1, <2>2, <2>3, SameCardinality DEF Algo!TypeOK
<1>4. Algo!BarsAreHeard
  <2>1. KnownInv /\ HandlersInv /\ HeardInv
    BY <1>1 DEF StrategiesInv
  <2>2. ASSUME NEW s \in Names
        PROVE  /\ Cardinality({i \in 1 .. Len(aHandlers) : aHandlers[i] = s}) = aStarts[s]
               /\ aHeard[s] > 0 => aPhase[s] = "RUNNING"
               /\ aPhase[s] \in {"RUNNING", "PAUSED"} => s \in Algo!Managed
    <3>1. {i \in 1 .. Len(aHandlers) : aHandlers[i] = s} = At(aHandlers, s)
      BY DEF At
    <3>2. QED BY <2>1, <3>1 DEF KnownInv, HandlersInv, HeardInv, Count
  <2>3. aHeard # Algo!None =>
          Missed = Algo!None \/ \E s \in Names : Missed = [Algo!None EXCEPT ![s] = 1]
    BY <2>1 DEF HeardInv
  <2>4. QED BY <2>2, <2>3, SameCardinality DEF Algo!BarsAreHeard, Missed
<1>5. QED BY <1>3, <1>4

LEMMA QuietInv ==
  ASSUME aHeard' = Algo!None
  PROVE  HeardInv'
<1>1. MaxHandlers \in Nat
  BY BoundsAreNumbers
<1>2. QED BY <1>1 DEF HeardInv, Algo!None

LEMMA NamesApart ==
  /\ 0 \notin Names /\ 0 \notin Listeners /\ \A l \in Listeners : l \notin Names
  BY PlatformConstants

LEMMA StrategiesInitHolds == ASSUME Algo!Init PROVE StrategiesInv
<1>1. /\ aKnown = << >> /\ aConfigs = {} /\ aPhase = [s \in Names |-> "INITIALIZED"]
      /\ aHandlers = << >> /\ aHeard = Algo!None /\ aStarts = Algo!None
  BY DEF Algo!Init
<1>2. Len(<< >>) = 0 /\ << >> \in Seq(Names) /\ << >> \in Seq(Names \union Listeners)
  BY EmptySeq
<1>3. Algo!Managed = {} /\ IsFiniteSet({}) /\ Cardinality({}) = 0
  BY <1>1, <1>2, FS_EmptySet DEF Algo!Managed
<1>4. KnownInv
  BY <1>1, <1>2, <1>3 DEF KnownInv, Distinct
<1>5. HandlersInv
  <2>1. \A s : Count(aHandlers, s) = 0 /\ Once(aHandlers, s)
    BY <1>1, <1>2, <1>3 DEF Count, At, Once
  <2>2. MaxHandlers \in Nat
    BY BoundsAreNumbers
  <2>3. QED BY <1>1, <1>2, <2>1, <2>2 DEF HandlersInv, Algo!None
<1>6. HeardInv
  BY <1>1, BoundsAreNumbers DEF HeardInv, Algo!None
<1>7. QED BY <1>4, <1>5, <1>6 DEF StrategiesInv

(* Steps that leave the handler list alone.                                *)
LEMMA CreateHolds == ASSUME StrategiesInv, NEW s \in Names, Algo!Create(s) PROVE StrategiesInv'
<1>1. /\ s \notin Algo!Managed /\ aHeard' = Algo!None /\ aKnown' = Append(aKnown, s)
      /\ aConfigs' \subseteq aConfigs \union {s} /\ UNCHANGED <<aPhase, aHandlers, aStarts>>
  BY DEF Algo!Create, Algo!Quiet
<1>2. aKnown \in Seq(Names) /\ Distinct(aKnown)
  BY DEF StrategiesInv, KnownInv
<1>3. /\ aKnown' \in Seq(Names) /\ Len(aKnown') = Len(aKnown) + 1 /\ Len(aKnown) \in Nat
      /\ \A i \in 1 .. Len(aKnown) : aKnown'[i] = aKnown[i]
      /\ aKnown'[Len(aKnown) + 1] = s
  BY <1>1, <1>2, AppendProperties
<1>4. Algo!Managed' = Algo!Managed \union {s}
  <2>1. \A m \in Algo!Managed' : m \in Algo!Managed \union {s}
    BY <1>3 DEF Algo!Managed
  <2>2. \A m \in Algo!Managed \union {s} : m \in Algo!Managed'
    BY <1>3 DEF Algo!Managed
  <2>3. QED BY <2>1, <2>2
<1>5. Distinct(aKnown')
  BY <1>1, <1>2, <1>3 DEF Distinct, Algo!Managed
<1>6. Cardinality(Algo!Managed') = Len(aKnown') /\ IsFiniteSet(Algo!Managed')
  BY <1>1, <1>3, <1>4, FS_AddElement DEF StrategiesInv, KnownInv
<1>7. KnownInv'
  BY <1>1, <1>3, <1>4, <1>5, <1>6 DEF StrategiesInv, KnownInv
<1>8. HandlersInv'
  BY <1>1 DEF StrategiesInv, HandlersInv
<1>9. QED BY <1>1, <1>7, <1>8, QuietInv DEF StrategiesInv

LEMMA RemoveHolds == ASSUME StrategiesInv, NEW s \in Names, Algo!Remove(s) PROVE StrategiesInv'
<1>1. /\ s \in Algo!Managed /\ aHeard' = Algo!None /\ aKnown' = Algo!Without(aKnown, s)
      /\ aConfigs' = aConfigs \ {s} /\ UNCHANGED <<aHandlers, aStarts>>
      /\ aPhase' = [n \in Names |-> IF n \in {s} THEN "STOPPED" ELSE aPhase[n]]
  BY DEF Algo!Remove, Algo!Quiet, Algo!Halt
<1>2. aKnown \in Seq(Names) /\ Distinct(aKnown) /\ \E i \in 1 .. Len(aKnown) : aKnown[i] = s
  BY <1>1 DEF StrategiesInv, KnownInv, Algo!Managed
<1>3. /\ aKnown' \in Seq(Names) /\ Len(aKnown') = Len(aKnown) - 1 /\ Distinct(aKnown')
      /\ Algo!Managed' = Algo!Managed \ {s}
  <2>1. /\ aKnown' \in Seq(Names) /\ Len(aKnown') = Len(aKnown) - 1 /\ Distinct(aKnown')
        /\ \A y : Lists(aKnown', y) <=> y # s /\ Lists(aKnown, y)
    <3>1. Lists(aKnown, s)
      BY <1>2 DEF Lists
    <3>2. QED BY <1>1, <1>2, <3>1, WithoutCounts
  <2>2. \A y : y \in Algo!Managed' <=> Lists(aKnown', y)
    BY DEF Algo!Managed, Lists
  <2>3. \A y : y \in Algo!Managed <=> Lists(aKnown, y)
    BY DEF Algo!Managed, Lists
  <2>4. QED BY <2>1, <2>2, <2>3
<1>4. Cardinality(Algo!Managed') = Len(aKnown') /\ IsFiniteSet(Algo!Managed')
  BY <1>1, <1>3, FS_RemoveElement DEF StrategiesInv, KnownInv
<1>5. KnownInv'
  BY <1>1, <1>3, <1>4 DEF StrategiesInv, KnownInv
<1>6. HandlersInv'
  BY <1>1 DEF StrategiesInv, HandlersInv
<1>7. QED BY <1>1, <1>5, <1>6, QuietInv DEF StrategiesInv

LEMMA PhasesHold ==
  ASSUME StrategiesInv, aHeard' = Algo!None, UNCHANGED <<aKnown, aConfigs, aHandlers, aStarts>>,
         aPhase' \in [Names -> {"INITIALIZED", "RUNNING", "PAUSED", "STOPPED"}],
         \A s \in Names : aPhase'[s] \in {"RUNNING", "PAUSED"} => s \in Algo!Managed
  PROVE  StrategiesInv'
<1>1. KnownInv'
  BY DEF StrategiesInv, KnownInv, Algo!Managed
<1>2. HandlersInv'
  BY DEF StrategiesInv, HandlersInv
<1>3. QED BY <1>1, <1>2, QuietInv DEF StrategiesInv

LEMMA StopsHold ==
  ASSUME StrategiesInv, NEW S \in SUBSET Algo!Managed, aHeard' = Algo!None,
         UNCHANGED <<aKnown, aConfigs, aHandlers, aStarts>>, aPhase' = Algo!Halt(S)
  PROVE  StrategiesInv'
<1>1. /\ aPhase' \in [Names -> {"INITIALIZED", "RUNNING", "PAUSED", "STOPPED"}]
      /\ \A s \in Names : aPhase'[s] \in {"RUNNING", "PAUSED"} => s \in Algo!Managed
  BY DEF Algo!Halt, StrategiesInv, KnownInv
<1>2. QED BY <1>1, PhasesHold

LEMMA MovesHold ==
  ASSUME StrategiesInv, NEW S \in SUBSET Algo!Managed,
         NEW from \in {"RUNNING", "PAUSED"}, NEW to \in {"RUNNING", "PAUSED"},
         Algo!Move(S, from, to)
  PROVE  StrategiesInv'
<1>1. /\ aHeard' = Algo!None /\ UNCHANGED <<aKnown, aConfigs, aHandlers, aStarts>>
      /\ aPhase' = [s \in Names |-> IF s \in S /\ aPhase[s] = from THEN to ELSE aPhase[s]]
  BY DEF Algo!Move, Algo!Quiet
<1>2. /\ aPhase' \in [Names -> {"INITIALIZED", "RUNNING", "PAUSED", "STOPPED"}]
      /\ \A s \in Names : aPhase'[s] \in {"RUNNING", "PAUSED"} => s \in Algo!Managed
  BY <1>1 DEF StrategiesInv, KnownInv
<1>3. QED BY <1>1, <1>2, PhasesHold

(* Starting strategies one after the other, until a hook raises.           *)
LEMMA StartEachHolds ==
  ASSUME StrategiesInv, NEW order \in Seq(Algo!Managed), Distinct(order), NEW raises,
         raises \in Algo!Managed \union {0}, Algo!StartEach(order, raises)
  PROVE  StrategiesInv'
<1> DEFINE at == {i \in 1 .. Len(order) : order[i] = raises}
           done == IF at = {} THEN order ELSE SubSeq(order, 1, (CHOOSE i \in at : TRUE) - 1)
           opened == {done[i] : i \in 1 .. Len(done)}
<1>1. /\ Len(aHandlers) + Len(order) <= MaxHandlers /\ aHeard' = Algo!None
      /\ aPhase' = [s \in Names |->
           IF s \in opened \/ (at # {} /\ s = raises) THEN "RUNNING" ELSE aPhase[s]]
      /\ aHandlers' = aHandlers \o done
      /\ aStarts' = [s \in Names |-> aStarts[s] + IF s \in opened THEN 1 ELSE 0]
      /\ UNCHANGED <<aKnown, aConfigs>>
  BY DEF Algo!StartEach, Algo!Room, Algo!Quiet
<1>2. /\ done \in Seq(Algo!Managed) /\ Len(done) \in 0 .. Len(order) /\ Distinct(done)
  <2>1. CASE at = {}
    <3>1. done = order
      BY <2>1
    <3>2. QED BY <3>1
  <2>2. CASE at # {}
    <3>1. PICK k \in 1 .. Len(order) : done = SubSeq(order, 1, k - 1)
      BY <2>2
    <3>2. \A i \in 1 .. k - 1 : order[i] \in Algo!Managed
      OBVIOUS
    <3> HIDE DEF done
    <3>3. /\ done \in Seq(Algo!Managed) /\ Len(done) = k - 1
          /\ \A i \in 1 .. k - 1 : done[i] = order[i]
      BY <3>1, <3>2, SubSeqProperties
    <3>4. QED BY <3>3 DEF Distinct
  <2>3. QED BY <2>1, <2>2
<1> HIDE DEF done
<1>3. Algo!Managed \subseteq Names
  <2>1. \A i \in 1 .. Len(aKnown) : aKnown[i] \in Names
    BY DEF StrategiesInv, KnownInv
  <2>2. QED BY <2>1 DEF Algo!Managed
<1>4. opened \subseteq Algo!Managed
  BY <1>2
<1>5. KnownInv'
  <2>1. /\ aPhase' \in [Names -> {"INITIALIZED", "RUNNING", "PAUSED", "STOPPED"}]
        /\ \A s \in Names : aPhase'[s] \in {"RUNNING", "PAUSED"} => s \in Algo!Managed
    <3>1. \A s \in Names : s \in opened \/ (at # {} /\ s = raises) => s \in Algo!Managed
      BY <1>4, NamesApart
    <3>2. QED BY <1>1, <3>1 DEF StrategiesInv, KnownInv
  <2>2. QED BY <1>1, <2>1 DEF StrategiesInv, KnownInv, Algo!Managed
<1>6. HandlersInv'
  <2>1. aHandlers \in Seq(Names \union Listeners) /\ aStarts \in [Names -> Nat]
    BY DEF StrategiesInv, HandlersInv
  <2>2. done \in Seq(Names \union Listeners)
    BY <1>2, <1>3, SeqMonotonic
  <2>3. /\ aHandlers' \in Seq(Names \union Listeners)
        /\ Len(aHandlers') = Len(aHandlers) + Len(done)
        /\ \A x : Count(aHandlers', x) = Count(aHandlers, x) + IF Lists(done, x) THEN 1 ELSE 0
        /\ \A x : Once(aHandlers, x) /\ (At(aHandlers, x) = {} \/ At(done, x) = {})
                    => Once(aHandlers', x)
    BY <1>1, <1>2, <2>1, <2>2, ConcatCounts
  <2>4. \A l \in Listeners : At(done, l) = {}
    BY <1>2, <1>3, NamesApart DEF At
  <2>5. Len(aHandlers') <= MaxHandlers
    <3>1. Len(aHandlers) \in Nat /\ Len(order) \in Nat /\ MaxHandlers \in Nat
      BY <2>1, BoundsAreNumbers
    <3>2. QED BY <1>1, <1>2, <2>3, <3>1
  <2>6. aStarts' \in [Names -> Nat] /\ \A s \in Names : Count(aHandlers', s) = aStarts'[s]
    <3>1. \A x : x \in opened <=> Lists(done, x)
      BY DEF Lists
    <3> HIDE DEF opened
    <3>2. QED BY <1>1, <2>1, <2>3, <3>1 DEF StrategiesInv, HandlersInv
  <2>7. \A l \in Listeners : Once(aHandlers', l)
    BY <2>3, <2>4 DEF StrategiesInv, HandlersInv
  <2>8. QED BY <2>3, <2>5, <2>6, <2>7 DEF HandlersInv
<1>7. QED BY <1>1, <1>5, <1>6, QuietInv DEF StrategiesInv

LEMMA StartOneHolds == ASSUME StrategiesInv, NEW s \in Names, Algo!StartOne(s) PROVE StrategiesInv'
<1>1. s \in Algo!Managed /\ \E raises \in {s, 0} : Algo!StartEach(<<s>>, raises)
  BY DEF Algo!StartOne
<1>2. <<s>> \in Seq(Algo!Managed) /\ Distinct(<<s>>)
  BY <1>1 DEF Distinct
<1>3. QED BY <1>1, <1>2, StartEachHolds

LEMMA StartAllHolds == ASSUME StrategiesInv, Algo!StartAll PROVE StrategiesInv'
<1>1. PICK order \in [1 .. Cardinality(Algo!Startable) -> Algo!Startable] :
        /\ \A i, j \in DOMAIN order : i < j => Algo!Before(order[i], order[j])
        /\ \E raises \in Algo!Managed \union {0} : Algo!StartEach(order, raises)
  BY SameCardinality DEF Algo!StartAll
<1>2. Algo!Startable \in SUBSET Algo!Managed /\ Cardinality(Algo!Startable) \in Nat
  <2>1. Algo!Startable \in SUBSET Algo!Managed /\ IsFiniteSet(Algo!Managed)
    BY DEF Algo!Startable, StrategiesInv, KnownInv
  <2>2. QED BY <2>1, FS_Subset, FS_CardinalityType
<1>3. order \in Seq(Algo!Managed) /\ Len(order) = Cardinality(Algo!Startable)
  BY <1>1, <1>2
<1>4. ASSUME NEW i \in 1 .. Len(order), NEW j \in 1 .. Len(order), i < j PROVE order[i] # order[j]
  <2>1. PICK a \in 1 .. Len(aKnown), b \in 1 .. Len(aKnown) :
           a < b /\ aKnown[a] = order[i] /\ aKnown[b] = order[j]
    BY <1>1, <1>3, <1>4 DEF Algo!Before
  <2>2. QED BY <2>1 DEF StrategiesInv, KnownInv, Distinct
<1>5. Distinct(order)
  BY <1>4 DEF Distinct
<1>6. QED BY <1>1, <1>3, <1>5, StartEachHolds

(* Listeners come and go.                                                  *)
LEMMA SubscribeHolds ==
  ASSUME StrategiesInv, NEW l \in Listeners \ Algo!Listening, Algo!Subscribe(l)
  PROVE  StrategiesInv'
<1>1. /\ Len(aHandlers) + 1 <= MaxHandlers /\ aHandlers' = Append(aHandlers, l)
      /\ aHeard' = Algo!None /\ UNCHANGED <<aKnown, aConfigs, aPhase, aStarts>>
  BY DEF Algo!Subscribe, Algo!Room, Algo!Quiet
<1>2. aHandlers \in Seq(Names \union Listeners) /\ aStarts \in [Names -> Nat]
  BY DEF StrategiesInv, HandlersInv
<1>3. /\ aHandlers' = aHandlers \o <<l>> /\ <<l>> \in Seq(Names \union Listeners)
      /\ Distinct(<<l>>) /\ Len(<<l>>) = 1
  BY <1>1, <1>2, AppendIsConcat DEF Distinct
<1>4. /\ aHandlers' \in Seq(Names \union Listeners) /\ Len(aHandlers') = Len(aHandlers) + 1
      /\ \A x : Count(aHandlers', x) = Count(aHandlers, x) + IF x \in {l} THEN 1 ELSE 0
      /\ \A x : Once(aHandlers, x) /\ (At(aHandlers, x) = {} \/ At(<<l>>, x) = {})
                    => Once(aHandlers', x)
  <2> DEFINE one == <<l>>
  <2>1. /\ one \in Seq(Names \union Listeners) /\ Distinct(one) /\ Len(one) = 1
        /\ aHandlers' = aHandlers \o one /\ \A x : Lists(one, x) <=> x = l
    BY <1>3 DEF Lists
  <2> HIDE DEF one
  <2>2. /\ aHandlers \o one \in Seq(Names \union Listeners)
        /\ Len(aHandlers \o one) = Len(aHandlers) + Len(one)
        /\ \A x : Count(aHandlers \o one, x) = Count(aHandlers, x) + IF Lists(one, x) THEN 1 ELSE 0
        /\ \A x : Once(aHandlers, x) /\ (At(aHandlers, x) = {} \/ At(one, x) = {})
                    => Once(aHandlers \o one, x)
    BY <1>2, <2>1, ConcatCounts
  <2>3. QED BY <2>1, <2>2 DEF one
<1>5. \A x \in Listeners : At(aHandlers, x) = {} \/ At(<<l>>, x) = {}
  BY <1>3 DEF At, Algo!Listening
<1>6. \A s \in Names : Count(aHandlers', s) = aStarts'[s]
  <2>1. \A s \in Names : s # l /\ Count(aHandlers, s) = aStarts[s] /\ aStarts[s] \in Nat
    BY <1>2, NamesApart DEF StrategiesInv, HandlersInv
  <2>2. QED BY <1>1, <1>4, <2>1
<1>7. HandlersInv'
  BY <1>1, <1>2, <1>4, <1>5, <1>6 DEF StrategiesInv, HandlersInv
<1>8. KnownInv'
  BY <1>1 DEF StrategiesInv, KnownInv, Algo!Managed
<1>9. QED BY <1>1, <1>7, <1>8, QuietInv DEF StrategiesInv

(* The list without a listener.                                            *)
LEMMA LeaveHolds ==
  ASSUME StrategiesInv, NEW l \in Listeners, \E i \in 1 .. Len(aHandlers) : aHandlers[i] = l,
         aHandlers' = Algo!Without(aHandlers, l), UNCHANGED aStarts
  PROVE  HandlersInv'
<1>1. aHandlers \in Seq(Names \union Listeners) /\ aStarts \in [Names -> Nat]
      /\ Len(aHandlers) <= MaxHandlers /\ MaxHandlers \in Nat
  BY BoundsAreNumbers DEF StrategiesInv, HandlersInv
<1>2. /\ aHandlers' \in Seq(Names \union Listeners) /\ Len(aHandlers') = Len(aHandlers) - 1
      /\ \A y : y # l => Count(aHandlers', y) = Count(aHandlers, y)
      /\ \A y : Once(aHandlers, y) => Once(aHandlers', y)
  BY <1>1, WithoutCounts DEF Lists
<1>3. \A s \in Names : Count(aHandlers', s) = aStarts'[s]
  BY <1>2, NamesApart DEF StrategiesInv, HandlersInv
<1>4. Len(aHandlers') <= MaxHandlers
  BY <1>1, <1>2
<1>5. QED BY <1>1, <1>2, <1>3, <1>4 DEF StrategiesInv, HandlersInv

LEMMA UnsubscribeHolds ==
  ASSUME StrategiesInv, NEW l \in Algo!Listening, Algo!Unsubscribe(l)
  PROVE  StrategiesInv'
<1>1. l \in Listeners
  BY DEF Algo!Listening
<1>2. /\ \E i \in 1 .. Len(aHandlers) : aHandlers[i] = l
      /\ aHandlers' = Algo!Without(aHandlers, l) /\ aHeard' = Algo!None
      /\ UNCHANGED <<aKnown, aConfigs, aPhase, aStarts>>
  BY DEF Algo!Unsubscribe, Algo!Quiet
<1>3. HandlersInv'
  BY <1>1, <1>2, LeaveHolds
<1>4. KnownInv'
  BY <1>2 DEF StrategiesInv, KnownInv, Algo!Managed
<1>5. QED BY <1>2, <1>3, <1>4, QuietInv DEF StrategiesInv

LEMMA ClearHolds == ASSUME StrategiesInv, Algo!ClearHandlers PROVE StrategiesInv'
<1>1. /\ aHandlers' = << >> /\ aStarts' = Algo!None /\ aHeard' = Algo!None
      /\ UNCHANGED <<aKnown, aConfigs, aPhase>>
  BY DEF Algo!ClearHandlers, Algo!Quiet
<1>2. Len(<< >>) = 0 /\ << >> \in Seq(Names \union Listeners) /\ Cardinality({}) = 0
  BY EmptySeq, FS_EmptySet
<1>3. \A s : Count(aHandlers', s) = 0 /\ Once(aHandlers', s)
  BY <1>1, <1>2 DEF Count, At, Once
<1>4. HandlersInv'
  BY <1>1, <1>2, <1>3, BoundsAreNumbers DEF HandlersInv, Algo!None
<1>5. KnownInv'
  BY <1>1 DEF StrategiesInv, KnownInv, Algo!Managed
<1>6. QED BY <1>1, <1>4, <1>5, QuietInv DEF StrategiesInv

(* An emission passes over the handler behind a listener that leaves.      *)
LEMMA BarEmittedHolds ==
  ASSUME StrategiesInv, NEW l \in Algo!Listening \union {0}, Algo!Emit(l)
  PROVE  StrategiesInv'
<1> DEFINE Called(s) == {i \in Algo!Reached(l) : aHandlers[i] = s}
<1>1. /\ aHeard' = [s \in Names |-> IF aPhase[s] # "RUNNING" THEN 0 ELSE Cardinality(Called(s))]
      /\ aHandlers' = IF \E i \in 1 .. Len(aHandlers) : aHandlers[i] = l
                      THEN Algo!Without(aHandlers, l) ELSE aHandlers
      /\ UNCHANGED <<aKnown, aConfigs, aPhase, aStarts>>
  <2>1. aHeard' = [s \in Names |-> IF aPhase[s] # "RUNNING" THEN 0 ELSE Cardinality(Called(s))]
    BY SameCardinality DEF Algo!Emit
  <2>2. /\ aHandlers' = IF \E i \in 1 .. Len(aHandlers) : aHandlers[i] = l
                        THEN Algo!Without(aHandlers, l) ELSE aHandlers
        /\ UNCHANGED <<aKnown, aConfigs, aPhase, aStarts>>
    BY Zenon DEF Algo!Emit
  <2>3. QED BY <2>1, <2>2
<1>2. /\ aHandlers \in Seq(Names \union Listeners) /\ aStarts \in [Names -> Nat]
      /\ Len(aHandlers) <= MaxHandlers /\ MaxHandlers \in Nat /\ Len(aHandlers) \in Nat
      /\ aPhase \in [Names -> {"INITIALIZED", "RUNNING", "PAUSED", "STOPPED"}]
      /\ \A s \in Names : Cardinality(At(aHandlers, s)) = aStarts[s]
  BY BoundsAreNumbers DEF StrategiesInv, HandlersInv, KnownInv, Count
<1>3. HandlersInv'
  <2>1. CASE \E i \in 1 .. Len(aHandlers) : aHandlers[i] = l
    <3>1. l \in Listeners
      BY <1>2, <2>1, NamesApart DEF Algo!Listening
    <3>2. QED BY <1>1, <2>1, <3>1, LeaveHolds
  <2>2. CASE ~(\E i \in 1 .. Len(aHandlers) : aHandlers[i] = l)
    BY <1>1, <2>2 DEF StrategiesInv, HandlersInv
  <2>3. QED BY <2>1, <2>2
<1>4. KnownInv'
  BY <1>1 DEF StrategiesInv, KnownInv, Algo!Managed
<1>5. \E p \in Nat : \A s : Called(s) = At(aHandlers, s) \ {p}
  <2>1. CASE \E q \in 1 .. Len(aHandlers) : aHandlers[q] = l
    <3>1. PICK q \in 1 .. Len(aHandlers) : aHandlers[q] = l
      BY <2>1
    <3>2. l \in Listeners
      BY <1>2, <2>1, NamesApart DEF Algo!Listening
    <3>3. \A i \in 1 .. Len(aHandlers) : aHandlers[i] = l => i = q
      BY <3>1, <3>2 DEF StrategiesInv, HandlersInv, Once
    <3>4. \A i \in 1 .. Len(aHandlers) : i \in Algo!Reached(l) <=> i # q + 1
      <4>1. \A i \in 1 .. Len(aHandlers) : i # 1 => i - 1 \in 1 .. Len(aHandlers)
        BY <1>2
      <4>2. QED BY <3>1, <3>3, <4>1 DEF Algo!Reached
    <3>5. Algo!Reached(l) \subseteq 1 .. Len(aHandlers)
      BY DEF Algo!Reached
    <3>6. \A s : Called(s) = At(aHandlers, s) \ {q + 1}
      BY <3>4, <3>5 DEF At
    <3>7. q + 1 \in Nat
      OBVIOUS
    <3>8. QED BY <3>6, <3>7
  <2>2. CASE ~(\E q \in 1 .. Len(aHandlers) : aHandlers[q] = l)
    <3>1. \A i \in 1 .. Len(aHandlers) : i # 1 => i - 1 \in 1 .. Len(aHandlers)
      BY <1>2
    <3>2. Algo!Reached(l) = 1 .. Len(aHandlers)
      BY <2>2, <3>1 DEF Algo!Reached
    <3>3. \A s : Called(s) = At(aHandlers, s) \ {0}
      BY <3>2 DEF At
    <3>4. QED BY <3>3
  <2>3. QED BY <2>1, <2>2
<1>6. PICK p \in Nat : \A s : Called(s) = At(aHandlers, s) \ {p}
  BY <1>5
<1> HIDE DEF Called
<1>7. \A s \in Names : /\ Cardinality(Called(s)) = aStarts[s] - IF p \in At(aHandlers, s) THEN 1 ELSE 0
                       /\ Cardinality(Called(s)) \in 0 .. MaxHandlers
  <2>1. SUFFICES ASSUME NEW s \in Names
                 PROVE  /\ Cardinality(Called(s)) = aStarts[s] - IF p \in At(aHandlers, s) THEN 1 ELSE 0
                        /\ Cardinality(Called(s)) \in 0 .. MaxHandlers
    OBVIOUS
  <2>2. IsFiniteSet(At(aHandlers, s)) /\ Cardinality(At(aHandlers, s)) \in 0 .. Len(aHandlers)
    BY <1>2, CountIsBounded DEF Count
  <2>3. /\ IsFiniteSet(Called(s))
        /\ Cardinality(Called(s)) = IF p \in At(aHandlers, s) THEN aStarts[s] - 1 ELSE aStarts[s]
    BY <1>2, <1>6, <2>2, FS_RemoveElement
  <2>4. Cardinality(Called(s)) \in Nat
    BY <2>3, FS_CardinalityType
  <2>5. QED BY <1>2, <2>2, <2>3, <2>4
<1>8. aHeard' \in [Names -> 0 .. MaxHandlers]
      /\ \A s \in Names : aHeard'[s] > 0 => aPhase'[s] = "RUNNING"
  BY <1>1, <1>2, <1>7
<1>9. Missed' = [s \in Names |-> IF aPhase[s] = "RUNNING" /\ p \in At(aHandlers, s) THEN 1 ELSE 0]
  BY <1>1, <1>2, <1>7 DEF Missed
<1>10. Missed' = Algo!None \/ \E s \in Names : Missed' = [Algo!None EXCEPT ![s] = 1]
  <2>1. CASE \E s \in Names : aPhase[s] = "RUNNING" /\ p \in At(aHandlers, s)
    <3>1. PICK s \in Names : aPhase[s] = "RUNNING" /\ p \in At(aHandlers, s)
      BY <2>1
    <3>2. \A n \in Names : p \in At(aHandlers, n) => n = s
      BY <3>1 DEF At
    <3>3. Missed' = [Algo!None EXCEPT ![s] = 1]
      BY <1>9, <3>1, <3>2 DEF Algo!None
    <3>4. QED BY <3>3
  <2>2. CASE ~(\E s \in Names : aPhase[s] = "RUNNING" /\ p \in At(aHandlers, s))
    BY <1>9, <2>2 DEF Algo!None
  <2>3. QED BY <2>1, <2>2
<1>11. QED BY <1>3, <1>4, <1>8, <1>10 DEF StrategiesInv, HeardInv

LEMMA StrategiesStepHolds ==
  ASSUME StrategiesInv, [Algo!Next]_strategiesVars PROVE StrategiesInv'
<1>1. ASSUME UNCHANGED strategiesVars PROVE StrategiesInv'
  <2>1. KnownInv'
    BY <1>1 DEF strategiesVars, StrategiesInv, KnownInv, Algo!Managed
  <2>2. HandlersInv' /\ HeardInv'
    BY <1>1 DEF strategiesVars, StrategiesInv, HandlersInv, HeardInv, Missed
  <2>3. QED BY <2>1, <2>2 DEF StrategiesInv
<1>2. ASSUME NEW s \in Names, Algo!StopOne(s) PROVE StrategiesInv'
  BY <1>2, StopsHold DEF Algo!StopOne, Algo!Quiet
<1>3. ASSUME Algo!StopAll PROVE StrategiesInv'
  BY <1>3, StopsHold DEF Algo!StopAll, Algo!Quiet
<1>4. ASSUME Algo!Pause PROVE StrategiesInv'
  <2>1. PICK S \in {Algo!Managed} \union {{s} : s \in Algo!Managed} : Algo!Move(S, "RUNNING", "PAUSED")
    BY <1>4 DEF Algo!Pause
  <2>2. S \in SUBSET Algo!Managed
    OBVIOUS
  <2>3. QED BY <2>1, <2>2, MovesHold
<1>5. ASSUME Algo!Resume PROVE StrategiesInv'
  <2>1. PICK s \in Algo!Managed : Algo!Move({s}, "PAUSED", "RUNNING")
    BY <1>5 DEF Algo!Resume
  <2>2. {s} \in SUBSET Algo!Managed
    OBVIOUS
  <2>3. QED BY <2>1, <2>2, MovesHold
<1>6. CASE Algo!Next
  <2>1. CASE \E s \in Names : Algo!Create(s) \/ Algo!Remove(s) \/ Algo!StartOne(s) \/ Algo!StopOne(s)
    BY <1>2, <2>1, CreateHolds, RemoveHolds, StartOneHolds
  <2>2. CASE Algo!StartAll \/ Algo!StopAll \/ Algo!Pause \/ Algo!Resume \/ Algo!ClearHandlers
    BY <1>3, <1>4, <1>5, <2>2, StartAllHolds, ClearHolds
  <2>3. CASE \E l \in Listeners \ Algo!Listening : Algo!Subscribe(l)
    BY <2>3, SubscribeHolds
  <2>4. CASE \E l \in Algo!Listening : Algo!Unsubscribe(l)
    BY <2>4, UnsubscribeHolds
  <2>5. CASE \E l \in Algo!Listening \union {0} : Algo!Emit(l)
    BY <2>5, BarEmittedHolds
  <2>6. QED BY <1>6, <2>1, <2>2, <2>3, <2>4, <2>5 DEF Algo!Next
<1>7. QED BY <1>1, <1>6
=============================================================================
