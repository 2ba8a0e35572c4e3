----------------------------- MODULE TimeKeeper -----------------------------
\* TimeKeeper, src/engine/timekeeper.py: its schedules and the loops that run them.
\*
\* run may execute in several tasks at once, because start() of a paused engine
\* creates a second one; a turn of a loop awaits nothing and is one action.  A
\* callback may schedule its own id again; what it does else is not modelled, nor
\* are time zones, market hours and the change notifications of a backtest.
EXTENDS Integers

CONSTANTS
  Loops,       \* tasks of run()
  Ids,         \* schedule ids
  Intervals,   \* intervals explored; 0 stands for a one-shot
  MaxTime      \* bound: instants explored

VARIABLES
  now,         \* the clock
  schedules,   \* _schedules
  loop,        \* where each task of run() is
  on           \* _running; _stop_event is set when it is cleared

clockVars == <<now, schedules, loop, on>>

\* first and runs are history: the first time asked for, and the runs since.
Schedule == [first : 0..MaxTime, next : Nat, interval : Intervals \union {0}, runs : Nat]

Init ==
  /\ now = 0
  /\ schedules = [i \in {} |-> 0]
  /\ loop = [l \in Loops |-> "none"]
  /\ on = FALSE

\* schedule: an id that is known is replaced.
With(known, id, at, interval) ==
  [i \in DOMAIN known \union {id} |->
     IF i = id THEN [first |-> at, next |-> at, interval |-> interval, runs |-> 0]
     ELSE known[i]]

Plan(id, at, interval) ==
  /\ schedules' = With(schedules, id, at, interval)
  /\ UNCHANGED <<now, loop, on>>

Unschedule(id) ==
  /\ id \in DOMAIN schedules
  /\ schedules' = [i \in DOMAIN schedules \ {id} |-> schedules[i]]
  /\ UNCHANGED <<now, loop, on>>

Due == {i \in DOMAIN schedules : schedules[i].next <= now}

\* Everything due runs once, in a snapshot of the dictionary.  A recurring schedule
\* moves on by its interval, unless its callback replaced it; a one-shot is removed
\* by its id, and with it what its callback scheduled under that id.
TurnOf(again) ==
  [i \in {j \in DOMAIN schedules : j \in Due => schedules[j].interval > 0} |->
     IF i \notin Due THEN schedules[i]
     ELSE IF i \in again THEN [first |-> now + 1, next |-> now + 1, interval |-> 0, runs |-> 0]
     ELSE [schedules[i] EXCEPT !.next = @ + schedules[i].interval, !.runs = @ + 1]]

Turn(again) == schedules' = TurnOf(again)

\* A new task of run() starts: it clears the stop event.
Run(l) ==
  /\ loop[l] \in {"none", "ended"}
  /\ on' = TRUE
  /\ loop' = [loop EXCEPT ![l] = "turn"]
  /\ UNCHANGED <<now, schedules>>

\* A turn, and the wait for a second or for the stop event.
LoopTurn(l) ==
  /\ loop[l] = "turn" /\ on
  /\ \E again \in SUBSET Due : (now < MaxTime \/ again = {}) /\ Turn(again)
  /\ loop' = [loop EXCEPT ![l] = "wait"]
  /\ UNCHANGED <<now, on>>

LoopWakes(l) ==
  /\ loop[l] = "wait"
  /\ loop' = [loop EXCEPT ![l] = IF on THEN "turn" ELSE "ended"]
  /\ UNCHANGED <<now, schedules, on>>

LoopLeaves(l) ==
  /\ loop[l] = "turn" /\ ~on
  /\ loop' = [loop EXCEPT ![l] = "ended"]
  /\ UNCHANGED <<now, schedules, on>>

Stop == on' = FALSE /\ UNCHANGED <<now, schedules, loop>>

TimePasses == now < MaxTime /\ now' = now + 1 /\ UNCHANGED <<schedules, loop, on>>

Next ==
  \/ \E id \in Ids, at \in now..MaxTime, interval \in Intervals : Plan(id, at, interval)
  \/ \E id \in Ids : Unschedule(id)
  \/ \E l \in Loops : Run(l) \/ LoopTurn(l) \/ LoopWakes(l) \/ LoopLeaves(l)
  \/ Stop \/ TimePasses

-----------------------------------------------------------------------------
\* The shape of the schedules.
TypeOK ==
  /\ now \in 0..MaxTime /\ on \in BOOLEAN
  /\ DOMAIN schedules \subseteq Ids
  /\ \A i \in DOMAIN schedules : schedules[i] \in Schedule
  /\ loop \in [Loops -> {"none", "turn", "wait", "ended"}]

\* Whatever the number of loops and however late they come: a one-shot that is
\* still scheduled has not run, and a recurring schedule has run once for every
\* interval it moved on by, never for one that has not come.
RunsOnTime ==
  \A i \in DOMAIN schedules :
    LET s == schedules[i]
    IN /\ s.interval = 0 => s.runs = 0
       /\ s.next = s.first + s.runs * s.interval
       /\ s.next <= now + s.interval \/ s.runs = 0
=============================================================================
