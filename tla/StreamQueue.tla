----------------------------- MODULE StreamQueue -----------------------------
\* The asynchronous side of StreamCache, src/data/stream_cache.py: put_async with
\* its deduplication and backpressure, get_async, the drop policies, and start,
\* stop, clear and the cleanup loop as far as they touch it.
\*
\* An action is the code of one task between two suspending awaits.  A producer
\* suspends only at the pause event: when the event is set, every producer that
\* waits is woken and will go on, whether or not the event is cleared again before
\* it runs.  A datum stands for all data with its deduplication hash.
\* Left out: statistics that nothing reads, throttle_delay and enable_throttling,
\* which the code does not use, and what a consumer does while the queue is empty.
EXTENDS Integers, Sequences

CONSTANTS
  Producers,   \* tasks that call put_async
  Data,        \* deduplication hashes of what they put
  MaxQueues,   \* BackPressureConfig.max_queue_size: the values explored
  High,        \* high_watermark, in percent of the queue's capacity
  Low,         \* low_watermark, in percent of it
  Policies,    \* drop_policy: the values explored
  SeenMax,     \* maxlen of _seen_hashes, 10000
  TrimAbove,   \* the cleanup loop halves _seen_hashes above this length, 5000
  MaxPuts      \* bound: put_async calls explored

ASSUME QueueConstants ==
  /\ MaxQueues \subseteq Nat \ {0} /\ SeenMax \in Nat \ {0}
  /\ {High, Low} \subseteq 1..100
  /\ TrimAbove \in Nat /\ MaxPuts \in Nat
  /\ Policies \subseteq {"newest", "oldest", "random"}

VARIABLES
  queue,       \* _async_queue
  size,        \* _queue_size, kept apart from the queue
  throttling,  \* _throttling
  open,        \* _pause_event is set
  producer,    \* where each producer is, and what it puts
  seen,        \* _seen_hashes
  running,     \* _running
  policy,      \* drop_policy
  capacity,    \* max_queue_size
  puts         \* bound: put_async calls so far

vars == <<queue, size, throttling, open, producer, seen, running, policy, capacity, puts>>

Idle == [at |-> "idle", datum |-> 0]

Init ==
  /\ queue = << >> /\ size = 0
  /\ throttling = FALSE /\ open = TRUE
  /\ producer = [p \in Producers |-> Idle]
  /\ seen = << >> /\ running = TRUE
  /\ policy \in Policies /\ capacity \in MaxQueues
  /\ puts = 0

\* queue_ratio at or above a watermark.
AtLeast(n, percent) == 100 * n >= percent * capacity

\* Critical level: 95 percent.  Then the oldest fifth is dropped.
Drops(n) == IF AtLeast(n, 95) THEN n \div 5 ELSE 0

\* mutant: the queue size is not counted down for what is dropped
Admit_KeepsSize(d) ==
  /\ queue' = SubSeq(Append(queue, d), Drops(size + 1) + 1, Len(queue) + 1)
  /\ size' = size + 1
  /\ throttling' = (throttling \/ AtLeast(size + 1, High))
  /\ open' = (open /\ (throttling \/ ~AtLeast(size + 1, High)))

\* put_nowait succeeds: count it, throttle at the high watermark, and drop the
\* oldest at the critical level.
Admit(d) ==
  LET n == size + 1
      throttle == ~throttling /\ AtLeast(n, High)
  IN /\ queue' = SubSeq(Append(queue, d), Drops(n) + 1, Len(queue) + 1)
     /\ size' = n - Drops(n)
     /\ throttling' = (throttling \/ throttle)
     /\ open' = (open /\ ~throttle)

\* mutant: the datum takes the place of the newest
Replace_Newest(d) == queue' = Append(SubSeq(queue, 1, Len(queue) - 1), d)

\* _handle_queue_full with the policy "oldest".
Replace(d) == queue' = Append(Tail(queue), d)

\* QueueFull: the new datum is dropped, or takes the place of the oldest.
Overflow(d) ==
  /\ IF policy = "oldest" THEN Replace(d) ELSE UNCHANGED queue
  /\ UNCHANGED <<size, throttling, open>>

Enqueue(d) == IF Len(queue) < capacity THEN Admit(d) ELSE Overflow(d)

\* mutant: the deque of hashes is made without its maxlen
Remember_Unbounded(d) == seen' = Append(seen, d)

\* put_async: a duplicate is refused; any other datum is marked as seen, and then
\* either queued at once or held back by the pause event.
Remember(d) ==
  seen' = IF Len(seen) < SeenMax THEN Append(seen, d) ELSE Append(Tail(seen), d)

Put(p, d) ==
  /\ producer[p] = Idle /\ puts < MaxPuts /\ puts' = puts + 1
  /\ IF \E i \in 1..Len(seen) : seen[i] = d
     THEN UNCHANGED <<queue, size, throttling, open, producer, seen>>
     ELSE /\ Remember(d)
          /\ IF open
             THEN Enqueue(d) /\ UNCHANGED producer
             ELSE /\ producer' = [producer EXCEPT ![p] = [at |-> "waiting", datum |-> d]]
                  /\ UNCHANGED <<queue, size, throttling, open>>
  /\ UNCHANGED <<running, policy, capacity>>

\* A producer that was woken goes on.
Proceed(p) ==
  /\ producer[p].at = "woken"
  /\ Enqueue(producer[p].datum)
  /\ producer' = [producer EXCEPT ![p] = Idle]
  /\ UNCHANGED <<seen, running, policy, capacity, puts>>

\* _resume_streaming: setting the event wakes everyone who waits.
Resume ==
  /\ throttling' = FALSE /\ open' = TRUE
  /\ producer' = [p \in Producers |->
                    IF producer[p].at = "waiting" THEN [producer[p] EXCEPT !.at = "woken"]
                    ELSE producer[p]]

\* Below the low watermark.
ResumesAt(n) == ~AtLeast(n, Low)

\* get_async, when there is something to get.
Get ==
  /\ queue # << >>
  /\ queue' = Tail(queue) /\ size' = size - 1
  /\ IF throttling /\ ResumesAt(size - 1) THEN Resume
     ELSE UNCHANGED <<throttling, open, producer>>
  /\ UNCHANGED <<seen, running, policy, capacity, puts>>

\* clear forgets what was seen; the queue stays.
Clear ==
  /\ seen' = << >>
  /\ UNCHANGED <<queue, size, throttling, open, producer, running, policy, capacity, puts>>

\* A turn of the cleanup loop that finds too many hashes drops the older half.
Trim ==
  /\ running /\ Len(seen) > TrimAbove
  /\ seen' = SubSeq(seen, (Len(seen) \div 2) + 1, Len(seen))
  /\ UNCHANGED <<queue, size, throttling, open, producer, running, policy, capacity, puts>>

Start ==
  /\ running' = TRUE
  /\ UNCHANGED <<queue, size, throttling, open, producer, seen, policy, capacity, puts>>

\* stop resumes the producers, however full the queue is.
Stop ==
  /\ running' = FALSE /\ Resume
  /\ UNCHANGED <<queue, size, seen, policy, capacity, puts>>

Next ==
  \/ \E p \in Producers : Proceed(p) \/ \E d \in Data : Put(p, d)
  \/ Get \/ Clear \/ Trim \/ Start \/ Stop

\* The consumer goes on taking what there is, and a woken producer is resumed.
Fairness == WF_vars(Get) /\ \A p \in Producers : WF_vars(Proceed(p))

Spec == Init /\ [][Next]_vars /\ Fairness

-----------------------------------------------------------------------------
\* The shape of the queue, its flags and its producers.
TypeOK ==
  /\ queue \in Seq(Data) /\ size \in Nat
  /\ throttling \in BOOLEAN /\ open \in BOOLEAN
  /\ producer \in [Producers -> {Idle} \union [at : {"waiting", "woken"}, datum : Data]]
  /\ seen \in Seq(Data) /\ Len(seen) <= SeenMax
  /\ running \in BOOLEAN /\ policy \in Policies /\ capacity \in MaxQueues
  /\ puts \in 0..MaxPuts

\* The size that is kept apart is the queue's, and the queue stays bounded.
SizeIsExact == size = Len(queue) /\ Len(queue) <= capacity

\* The pause event follows the throttling flag, and nobody waits while it is set.
\* While producers are held back there is something to get: the get that resumes
\* them can happen.  This needs a low watermark above zero.
PauseHasAnEnd ==
  /\ open = ~throttling
  /\ \A p \in Producers : producer[p].at = "waiting" => ~open
  /\ throttling => queue # << >>

\* Backpressure, its separately kept counter, its flag and its event agree.
BackpressureAgrees == SizeIsExact /\ PauseHasAnEnd

\* A producer that is held back goes on as long as the consumer does.
ProducersProceed == \A p \in Producers : producer[p] # Idle ~> producer[p] = Idle

\* Whatever is dropped, replaced or overtaken by a pause, the queue is a bounded
\* channel that keeps its order and loses only from its head.
Channel == INSTANCE LossyChannel WITH channel <- queue, Capacities <- MaxQueues
IsLossyChannel == Channel!Spec
=============================================================================
