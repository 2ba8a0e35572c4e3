-------------------------------- MODULE Feeds --------------------------------
\* src/data/feed.py: DataAggregator, DataCache, and the tasks and the buffer of a
\* StreamingDataFeed, as WebSocketDataFeed of src/data/websocket_feed.py fills them in.
\*
\* Aggregator and cache await nothing of consequence: the cache's lock is never held
\* across an await.  start_streaming awaits nothing; stop_streaming waits for the one
\* task, then for the other.
\* Left out: the prices and volumes of a bar, callbacks, whose errors are caught, and
\* the event emitted for a datum.
EXTENDS Integers, Sequences, FiniteSets

CONSTANTS
  Times,       \* instants of ticks
  Period,      \* instants in an aggregation period
  MaxTicks,    \* bound: ticks added
  Keys,        \* cache keys
  CacheSize,   \* max_size
  Ttl,         \* ttl_seconds
  MaxClock,    \* bound: instants of the cache's clock
  Capacity,    \* size of the stream buffer
  MaxData,     \* bound: data buffered
  MaxStreams   \* bound: calls of start_streaming

VARIABLES
  timeOf,      \* the ticks added: their timestamps, in order of arrival
  buffer,      \* _buffers: arrival numbers of the pending ticks
  lastTick,    \* _last_bar_time, 0 before the first tick
  bars,        \* bars emitted: period and the ticks they are made of
  flushed,     \* history: a flush cut a period in two
  stored,      \* _cache and _timestamps: when each key was set
  clock,
  streaming,   \* _running of the feed
  streams,     \* the buffer task of each start, in order
  newest,      \* _buffer_task: the last of them
  halting,     \* where a call of stop_streaming waits
  crossed,     \* history: a start went through while a stop waited
  waiting,     \* _buffer
  emitted,     \* history: data emitted
  lost,        \* history: data dropped at a full buffer
  sent         \* history: data handed to _buffer_data

feedVars == <<timeOf, buffer, lastTick, bars, flushed, stored, clock,
  streaming, streams, newest, halting, crossed, waiting, emitted, lost, sent>>

aggregator == <<timeOf, buffer, lastTick, bars, flushed>>
cache == <<stored, clock>>
stream == <<streaming, streams, newest, halting, crossed, waiting, emitted, lost, sent>>

Streams == 1..MaxStreams

Init ==
  /\ timeOf = << >> /\ buffer = << >> /\ lastTick = 0 /\ bars = << >> /\ flushed = FALSE
  /\ stored = [k \in {} |-> 0] /\ clock = 0
  /\ streaming = FALSE /\ streams = [s \in Streams |-> "none"] /\ newest = 0
  /\ halting = "no" /\ crossed = FALSE
  /\ waiting = << >> /\ emitted = << >> /\ lost = 0 /\ sent = 0

-----------------------------------------------------------------------------
\* _get_period_start.
PeriodOf(time) == time \div Period

\* add_tick: the first tick of a later period closes the bar of the last tick's
\* period; an early or a late one joins what is pending and sets that period.
AddTick(time) ==
  LET tick == Len(timeOf) + 1
      closes == lastTick # 0 /\ PeriodOf(time) > PeriodOf(lastTick) /\ buffer # << >>
  IN /\ Len(timeOf) < MaxTicks
     /\ timeOf' = Append(timeOf, time) /\ lastTick' = time
     /\ IF closes
        THEN /\ bars' = Append(bars, [period |-> PeriodOf(lastTick), ticks |-> buffer])
             /\ buffer' = << tick >>
        ELSE buffer' = Append(buffer, tick) /\ UNCHANGED bars
     /\ UNCHANGED <<flushed, cache, stream>>

\* flush: the period stays open, more ticks of it make a second bar.
Flush ==
  /\ buffer # << >>
  /\ bars' = Append(bars, [period |-> PeriodOf(lastTick), ticks |-> buffer])
  /\ buffer' = << >> /\ flushed' = TRUE
  /\ UNCHANGED <<timeOf, lastTick, cache, stream>>

-----------------------------------------------------------------------------
\* get of DataCache removes what has expired.
Get(k) ==
  /\ k \in DOMAIN stored /\ clock - stored[k] > Ttl
  /\ stored' = [o \in DOMAIN stored \ {k} |-> stored[o]]
  /\ UNCHANGED <<clock, aggregator, stream>>

Evicts(k) == Cardinality(DOMAIN stored) >= CacheSize /\ k \notin DOMAIN stored

\* set evicts a key set longest ago, the first of several.
Set(k) ==
  /\ \E oldest \in IF Evicts(k) THEN DOMAIN stored ELSE {k} :
       /\ Evicts(k) => \A o \in DOMAIN stored : stored[oldest] <= stored[o]
       /\ stored' = [o \in (DOMAIN stored \ {oldest}) \union {k} |->
                       IF o = k THEN clock ELSE stored[o]]
  /\ UNCHANGED <<clock, aggregator, stream>>

\* clear, of the keys of a symbol or of all.
Clear(gone) ==
  /\ gone \intersect DOMAIN stored # {}
  /\ stored' = [o \in DOMAIN stored \ gone |-> stored[o]]
  /\ UNCHANGED <<clock, aggregator, stream>>

ClockTicks ==
  /\ clock < MaxClock /\ clock' = clock + 1
  /\ UNCHANGED <<stored, aggregator, stream>>

-----------------------------------------------------------------------------
\* start_streaming asks for nothing: it forgets tasks that run.
StartStreaming ==
  /\ newest < MaxStreams /\ newest' = newest + 1
  /\ streaming' = TRUE /\ streams' = [streams EXCEPT ![newest + 1] = "created"]
  /\ crossed' = (crossed \/ halting # "no")
  /\ UNCHANGED <<halting, waiting, emitted, lost, sent, aggregator, cache>>

\* stop_streaming: cancel the stream task and wait for it.
StopStreaming ==
  /\ halting = "no" /\ newest > 0
  /\ streaming' = FALSE /\ halting' = "stream"
  /\ UNCHANGED <<streams, newest, crossed, waiting, emitted, lost, sent, aggregator, cache>>

\* Then cancel the buffer task there is by now.
StopBuffer ==
  /\ halting = "stream" /\ halting' = "no"
  /\ streams' = [streams EXCEPT ![newest] = "ended"]
  /\ UNCHANGED <<streaming, newest, crossed, waiting, emitted, lost, sent, aggregator, cache>>

\* _buffer_data drops what a full buffer has no room for.
BufferData ==
  /\ sent < MaxData /\ sent' = sent + 1
  /\ IF Len(waiting) < Capacity
     THEN waiting' = Append(waiting, sent + 1) /\ UNCHANGED lost
     ELSE lost' = lost + 1 /\ UNCHANGED waiting
  /\ UNCHANGED <<streaming, streams, newest, halting, crossed, emitted, aggregator, cache>>

\* The first step of a buffer task.
Begin(s) ==
  /\ streams[s] = "created"
  /\ streams' = [streams EXCEPT ![s] = IF streaming THEN "runs" ELSE "ended"]
  /\ UNCHANGED <<streaming, newest, halting, crossed, waiting, emitted, lost, sent,
                 aggregator, cache>>

\* A turn of _buffer_loop: its wait for a datum ends, with one or in a timeout.  It
\* looks at the flag only after that.
Turn(s) ==
  /\ streams[s] = "runs"
  /\ \/ waiting # << >> /\ emitted' = Append(emitted, Head(waiting)) /\ waiting' = Tail(waiting)
     \/ waiting = << >> /\ ~streaming /\ UNCHANGED <<waiting, emitted>>
  /\ streams' = [streams EXCEPT ![s] = IF streaming THEN "runs" ELSE "ended"]
  /\ UNCHANGED <<streaming, newest, halting, crossed, lost, sent, aggregator, cache>>

NextBars == Flush \/ \E time \in Times : AddTick(time)

NextCache ==
  \/ \E k \in Keys : Get(k) \/ Set(k) \/ Clear({k})
  \/ Clear(Keys) \/ ClockTicks

NextStream ==
  \/ StartStreaming \/ StopStreaming \/ StopBuffer \/ BufferData
  \/ \E s \in Streams : Begin(s) \/ Turn(s)

Next == NextBars \/ NextCache \/ NextStream

-----------------------------------------------------------------------------
\* The shape of aggregator, cache and stream.
TypeOK ==
  /\ Len(timeOf) <= MaxTicks /\ lastTick \in Times \union {0} /\ flushed \in BOOLEAN
  /\ DOMAIN stored \subseteq Keys /\ clock \in 0..MaxClock
  /\ streaming \in BOOLEAN /\ newest \in 0..MaxStreams /\ halting \in {"no", "stream"}
  /\ streams \in [Streams -> {"none", "created", "runs", "ended"}]
  /\ Len(waiting) <= Capacity

AllTicks == LET joined[n \in 0..Len(bars)] ==
                  IF n = 0 THEN << >> ELSE joined[n - 1] \o bars[n].ticks
            IN joined[Len(bars)] \o buffer

InOrder == \A i, j \in 1..Len(timeOf) : i < j => timeOf[i] <= timeOf[j]

\* Bars and pending ticks hold every tick once, in the order of arrival; and if no
\* tick came late, a bar holds ticks of its own period alone, and the bars come in
\* strict order unless a flush cut a period in two.
EveryTickOnce ==
  /\ AllTicks = [i \in 1..Len(timeOf) |-> i]
  /\ InOrder =>
       /\ \A b \in 1..Len(bars) : \A i \in 1..Len(bars[b].ticks) :
            PeriodOf(timeOf[bars[b].ticks[i]]) = bars[b].period
       /\ ~flushed => \A b \in 2..Len(bars) : bars[b - 1].period < bars[b].period

\* The cache never outgrows its size, however keys are set again and expire.
CacheIsBounded == Cardinality(DOMAIN stored) <= CacheSize

\* Each datum is emitted once, in order, still waiting, or dropped at a full buffer,
\* also while two loops read the buffer; and a streaming feed has a buffer task that
\* goes on, unless a start went through while a stop waited.
StreamIsServed ==
  /\ Len(emitted) + Len(waiting) + lost = sent
  /\ \A i \in 2..Len(emitted \o waiting) : (emitted \o waiting)[i - 1] < (emitted \o waiting)[i]
  /\ streaming /\ ~crossed => streams[newest] \in {"created", "runs"}
=============================================================================
