----------------------------- MODULE EngineCore -----------------------------
\* Engine, src/engine/engine.py, with the loops it starts: TimeKeeper.run,
\* EventBus.start and its own _run_data_feed.
\*
\* An action is the code of one task between two suspending awaits: start suspends
\* in connect() of the data feed, stop in disconnect().  A cancelled loop is at its
\* only await, which no handler of it catches, so that cancelling ends it.
\* Left out: backtests, whose warmup suspends nowhere, the data feed's retries,
\* orders and events, which change no state of the engine.
EXTENDS Integers

CONSTANTS
  Callers,     \* tasks that call start and stop
  MaxStarts    \* bound: calls of start that create loops

VARIABLES
  state,       \* _state
  running,     \* _running
  call,        \* what each caller waits for
  made,        \* algorithms instantiated so far; the last one is _algorithm
  terminated,  \* algorithms that were terminated
  loops,       \* the tasks of each start, in the order of _tasks
  clockOn,     \* TimeKeeper._running
  busOn,       \* EventBus._running
  late         \* history: starts that went through while a stop waited

coreVars == <<state, running, call, made, terminated, loops, clockOn, busOn, late>>

Starts == 1..MaxStarts
Kinds == {"clock", "bus", "feed"}
States == {"IDLE", "INITIALIZING", "RUNNING", "PAUSED", "STOPPING", "STOPPED", "ERROR"}

Init ==
  /\ state = "IDLE" /\ running = FALSE
  /\ call = [c \in Callers |-> "none"]
  /\ made = 0 /\ terminated = {}
  /\ loops = [k \in Starts |-> [kind \in Kinds |-> "none"]]
  /\ clockOn = FALSE /\ busOn = FALSE /\ late = {}

Waiting(what) == {c \in Callers : call[c] = what}
Started == {k \in Starts : loops[k]["clock"] # "none"}

\* start of an engine that is not RUNNING: PAUSED and STOPPING are no obstacle.
Start(c) ==
  /\ call[c] = "none" /\ state # "RUNNING"
  /\ \E k \in Starts : k \notin Started
  /\ state' = "INITIALIZING"
  /\ call' = [call EXCEPT ![c] = "connect"]
  /\ UNCHANGED <<running, made, terminated, loops, clockOn, busOn, late>>

\* The data feed is connected: initialize makes a new algorithm, and start its tasks.
Connected(c) ==
  /\ call[c] = "connect" /\ made < MaxStarts
  /\ call' = [call EXCEPT ![c] = "none"]
  /\ made' = made + 1
  /\ \/ \* the algorithm cannot be initialised
        state' = "ERROR" /\ UNCHANGED <<running, loops, late>>
     \/ LET k == CHOOSE i \in Starts \ Started : \A j \in Starts \ Started : i <= j
        IN /\ state' = "RUNNING" /\ running' = TRUE
           /\ loops' = [loops EXCEPT ![k] = [kind \in Kinds |-> "created"]]
           /\ late' = IF Waiting("disconnect") = {} THEN late ELSE late \union {k}
  /\ UNCHANGED <<terminated, clockOn, busOn>>

ConnectFails(c) ==
  /\ call[c] = "connect"
  /\ call' = [call EXCEPT ![c] = "none"] /\ state' = "ERROR"
  /\ UNCHANGED <<running, made, terminated, loops, clockOn, busOn, late>>

Pause ==
  /\ state = "RUNNING" /\ state' = "PAUSED"
  /\ UNCHANGED <<running, call, made, terminated, loops, clockOn, busOn, late>>

Resume ==
  /\ state = "PAUSED" /\ state' = "RUNNING"
  /\ UNCHANGED <<running, call, made, terminated, loops, clockOn, busOn, late>>

\* stop cancels every task there ever was, then waits for the data feed.
Stop(c) ==
  /\ call[c] = "none" /\ state # "STOPPED"
  /\ state' = "STOPPING" /\ running' = FALSE
  /\ loops' = [k \in Starts |-> [kind \in Kinds |->
                 IF loops[k][kind] = "none" THEN "none" ELSE "ended"]]
  /\ call' = [call EXCEPT ![c] = "disconnect"]
  /\ UNCHANGED <<made, terminated, clockOn, busOn, late>>

\* The rest of stop, whatever happened to the engine meanwhile.
Disconnected(c) ==
  /\ call[c] = "disconnect"
  /\ call' = [call EXCEPT ![c] = "none"]
  /\ terminated' = IF made = 0 THEN terminated ELSE terminated \union {made}
  /\ busOn' = FALSE /\ clockOn' = FALSE /\ state' = "STOPPED"
  /\ UNCHANGED <<running, made, loops, late>>

\* disconnect raises, and so does stop.
DisconnectFails(c) ==
  /\ call[c] = "disconnect"
  /\ call' = [call EXCEPT ![c] = "none"]
  /\ UNCHANGED <<state, running, made, terminated, loops, clockOn, busOn, late>>

\* The flag a loop looks at.
On(kind) == IF kind = "clock" THEN clockOn ELSE IF kind = "bus" THEN busOn ELSE running

\* The first step of a task.  Time keeper and event bus set their flags themselves.
Begin(k, kind) ==
  /\ loops[k][kind] = "created"
  /\ loops' = [loops EXCEPT ![k][kind] = IF kind = "feed" /\ ~running THEN "ended" ELSE "running"]
  /\ clockOn' = (clockOn \/ kind = "clock")
  /\ busOn' = (busOn \/ kind = "bus")
  /\ UNCHANGED <<state, running, call, made, terminated, late>>

\* A loop that finds its flag cleared.
LoopEnds(k, kind) ==
  /\ loops[k][kind] = "running" /\ ~On(kind)
  /\ loops' = [loops EXCEPT ![k][kind] = "ended"]
  /\ UNCHANGED <<state, running, call, made, terminated, clockOn, busOn, late>>

Next ==
  \/ \E c \in Callers :
       \/ Start(c) \/ Connected(c) \/ ConnectFails(c)
       \/ Stop(c) \/ Disconnected(c) \/ DisconnectFails(c)
  \/ \E k \in Starts, kind \in Kinds : Begin(k, kind) \/ LoopEnds(k, kind)
  \/ Pause \/ Resume

-----------------------------------------------------------------------------
\* The shape of the engine's state.
TypeOK ==
  /\ state \in States /\ running \in BOOLEAN
  /\ call \in [Callers -> {"none", "connect", "disconnect"}]
  /\ made \in 0..MaxStarts /\ terminated \subseteq 1..made
  /\ loops \in [Starts -> [Kinds -> {"none", "created", "running", "ended"}]]
  /\ clockOn \in BOOLEAN /\ busOn \in BOOLEAN /\ late \subseteq Starts

Alive(k, kind) ==
  loops[k][kind] = "created" \/ (loops[k][kind] = "running" /\ On(kind))

\* An engine that says RUNNING or PAUSED has an algorithm that was not terminated,
\* and of each kind a loop that goes on, however its starts and stops overlapped.
EngineServed ==
  state \in {"RUNNING", "PAUSED"} =>
    /\ made > 0 /\ made \notin terminated
    /\ \A kind \in Kinds : \E k \in Starts : Alive(k, kind)

\* A STOPPED engine has no loop left, but for one of a start that went through
\* while stop was waiting: that one may run for ever.
StopIsClean ==
  state = "STOPPED" =>
    \A k \in Starts, kind \in Kinds :
      loops[k][kind] \in {"created", "running"} => k \in late
=============================================================================
