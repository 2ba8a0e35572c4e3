------------------------------- MODULE Backtest -------------------------------
\* BacktestEngine, src/backtesting/engine.py: the replay of historical bars.
\*
\* A run suspends nowhere, because its broker has no latency: it is one action.
\* Left out: the prices of bars and positions, snapshots and results.
EXTENDS Integers, Lists

CONSTANTS
  Symbols,      \* config.symbols
  MaxTime,      \* bound: timestamps of bars
  First, Last,  \* start_date and end_date
  MaxBars       \* bound: bars loaded for a symbol

VARIABLES
  history,   \* _historical_data: timestamps of the bars of each symbol
  position,  \* _current_index
  strategy,  \* state of the strategies: they are started and stopped together
  replayed,  \* history: bars emitted of what is loaded, per symbol
  heard,     \* history: how many of them the strategies handled
  ran        \* history: a run has ended since the symbol was loaded

backtestVars == <<history, position, strategy, replayed, heard, ran>>

Zero == [s \in Symbols |-> 0]
Nobody == [s \in Symbols |-> FALSE]

Init ==
  /\ history = [s \in Symbols |-> << >>]
  /\ position = Zero /\ replayed = Zero /\ heard = Zero
  /\ strategy = "INITIALIZED" /\ ran = Nobody

\* The bars a caller may have: any number for an instant, sorted by the load.
Sorted == {q \in UNION {[1..n -> 1..MaxTime] : n \in 1..MaxBars} :
             \A i \in 1..(Len(q) - 1) : q[i] <= q[i + 1]}

\* load_historical_data.
Load(s, bars) ==
  /\ history' = [history EXCEPT ![s] = Selected(bars, First..Last)]
  /\ position' = [position EXCEPT ![s] = 0]
  /\ replayed' = [replayed EXCEPT ![s] = 0] /\ heard' = [heard EXCEPT ![s] = 0]
  /\ ran' = [ran EXCEPT ![s] = FALSE]
  /\ UNCHANGED strategy

\* _process_timestamp emits a bar of a symbol if the next one is of that instant.
Reaches(s, at, time) == at < Len(history[s]) /\ history[s][at + 1] = time

\* _current_index of a symbol after the timestamps of all data in order, each once.
Replay(s) ==
  LET after[time \in 0..MaxTime] ==
        IF time = 0 THEN position[s]
        ELSE IF Reaches(s, after[time - 1], time) THEN after[time - 1] + 1 ELSE after[time - 1]
  IN after[MaxTime]

\* run: strategies that were stopped by an earlier run are not started again.  Without
\* data it ends after they were started.
Run ==
  /\ \E s \in Symbols : history[s] # << >>
  /\ position' = [s \in Symbols |-> Replay(s)]
  /\ replayed' = [s \in Symbols |-> replayed[s] + Replay(s) - position[s]]
  /\ heard' = [s \in Symbols |->
       heard[s] + IF strategy = "STOPPED" THEN 0 ELSE Replay(s) - position[s]]
  /\ strategy' = "STOPPED"
  /\ ran' = [s \in Symbols |-> TRUE]
  /\ UNCHANGED history

RunWithoutData ==
  /\ \A s \in Symbols : history[s] = << >>
  /\ strategy' = IF strategy = "INITIALIZED" THEN "RUNNING" ELSE strategy
  /\ UNCHANGED <<history, position, replayed, heard, ran>>

\* reset forgets the data, and leaves the strategies as they are.
Reset ==
  /\ history' = [s \in Symbols |-> << >>]
  /\ position' = Zero /\ replayed' = Zero /\ heard' = Zero /\ ran' = Nobody
  /\ UNCHANGED strategy

Next ==
  \/ \E s \in Symbols, bars \in Sorted : Load(s, bars)
  \/ Run \/ RunWithoutData \/ Reset

-----------------------------------------------------------------------------
\* The shape of the backtest.
TypeOK ==
  /\ history \in [Symbols -> Sorted \union {<< >>}]
  /\ \A s \in Symbols : position[s] \in 0..Len(history[s])
  /\ strategy \in {"INITIALIZED", "RUNNING", "STOPPED"} /\ ran \in [Symbols -> BOOLEAN]

\* A run, and a run again, replays every bar of a symbol once, if no two of them have
\* the same timestamp; the strategies hear all of it or, after an earlier run, nothing.
EveryBarReplayed ==
  \A s \in Symbols :
    /\ replayed[s] <= Len(history[s])
    /\ ran[s] /\ (\A i \in 2..Len(history[s]) : history[s][i - 1] < history[s][i]) =>
         replayed[s] = Len(history[s]) /\ heard[s] \in {0, replayed[s]}
=============================================================================
