----------------------------- MODULE Strategies -----------------------------
\* Strategy and StrategyManager, src/algorithms/strategy.py and strategy_manager.py,
\* on the handler list of one event type of EventBus, src/engine/events.py.
\*
\* All of it is synchronous: an action is one call.  The list also holds plain
\* listeners, which may unsubscribe themselves while an event is emitted.
\* Left out: hooks other than on_start that raise, asynchronous and global handlers,
\* which emit walks in the same way, other symbols, the bars a strategy keeps, and orders: submit_order of a
\* strategy raises on EventType.ORDER, a name that events.py does not define.
EXTENDS Integers, Sequences, FiniteSets

CONSTANTS
  Names,        \* strategies
  Listeners,    \* other handlers of the same event type
  MaxHandlers   \* bound: length of the handler list

VARIABLES
  known,        \* _strategies, in the order of its insertions
  configs,      \* keys of _strategy_configs
  phase,        \* _state of each strategy
  handlers,     \* _handlers of the event type
  heard,        \* history: on_bar calls of the last emission
  starts        \* history: subscriptions a strategy made that were not cleared

strategyVars == <<known, configs, phase, handlers, heard, starts>>

None == [s \in Names |-> 0]

Init ==
  /\ known = << >> /\ configs = {}
  /\ phase = [s \in Names |-> "INITIALIZED"]
  /\ handlers = << >>
  /\ heard = None /\ starts = None

Managed == {known[i] : i \in 1..Len(known)}
Room(n) == Len(handlers) + n <= MaxHandlers
Quiet == heard' = None

\* list.remove, and del of a dictionary's key: the first one goes.
Without(list, l) ==
  LET at == CHOOSE i \in 1..Len(list) : list[i] = l /\ \A j \in 1..(i - 1) : list[j] # l
  IN SubSeq(list, 1, at - 1) \o SubSeq(list, at + 1, Len(list))

\* create_strategy keeps the configuration of a new strategy, add_strategy does not.
Create(s) ==
  /\ s \notin Managed /\ Quiet
  /\ known' = Append(known, s)
  /\ configs' \in IF phase[s] = "INITIALIZED" THEN {configs, configs \union {s}} ELSE {configs}
  /\ UNCHANGED <<phase, handlers, starts>>

\* mutant: stop leaves the strategy running
Halt_KeepsRunning(S) == [s \in Names |-> IF s \in S /\ phase[s] # "RUNNING" THEN "STOPPED" ELSE phase[s]]

\* stop of each of them, whatever its state.  Nobody unsubscribes.
Halt(S) == [s \in Names |-> IF s \in S THEN "STOPPED" ELSE phase[s]]

\* remove_strategy: without a configuration it raises after the strategy is gone.
Remove(s) ==
  /\ s \in Managed /\ Quiet
  /\ phase' = Halt({s})
  /\ known' = Without(known, s)
  /\ configs' = configs \ {s}
  /\ UNCHANGED <<handlers, starts>>

\* start of those in order that are not STOPPED: each subscribes once more.  A hook
\* on_start that raises leaves its strategy RUNNING without a subscription, and
\* those after it alone.
StartEach(order, raises) ==
  LET at == {i \in 1..Len(order) : order[i] = raises}
      done == IF at = {} THEN order ELSE SubSeq(order, 1, (CHOOSE i \in at : TRUE) - 1)
      opened == {done[i] : i \in 1..Len(done)}
  IN /\ Room(Len(order)) /\ Quiet
     /\ phase' = [s \in Names |->
          IF s \in opened \/ (at # {} /\ s = raises) THEN "RUNNING" ELSE phase[s]]
     /\ handlers' = handlers \o done
     /\ starts' = [s \in Names |-> starts[s] + IF s \in opened THEN 1 ELSE 0]
     /\ UNCHANGED <<known, configs>>

CanStart(s) == phase[s] # "STOPPED"

\* start_strategy, also of a strategy that is running or paused.
StartOne(s) == s \in Managed /\ CanStart(s) /\ \E raises \in {s, 0} : StartEach(<<s>>, raises)

\* start_all passes over running strategies, but not over paused ones.
Startable == {s \in Managed : CanStart(s) /\ phase[s] # "RUNNING"}
Before(s, other) == \E i, j \in 1..Len(known) : i < j /\ known[i] = s /\ known[j] = other

StartAll ==
  /\ Startable # {}
  /\ \E order \in [1..Cardinality(Startable) -> Startable] :
       /\ \A i, j \in DOMAIN order : i < j => Before(order[i], order[j])
       /\ \E raises \in Managed \union {0} : StartEach(order, raises)

StopAll ==
  /\ known # << >> /\ Quiet /\ phase' = Halt(Managed)
  /\ UNCHANGED <<known, configs, handlers, starts>>

StopOne(s) ==
  /\ s \in Managed /\ Quiet /\ phase' = Halt({s})
  /\ UNCHANGED <<known, configs, handlers, starts>>

\* pause and resume, of one strategy or, for pause, of all.
Move(S, from, to) ==
  /\ \E s \in S : phase[s] = from
  /\ phase' = [s \in Names |-> IF s \in S /\ phase[s] = from THEN to ELSE phase[s]]
  /\ Quiet /\ UNCHANGED <<known, configs, handlers, starts>>

Pause == \E S \in {Managed} \union {{s} : s \in Managed} : Move(S, "RUNNING", "PAUSED")
Resume == \E s \in Managed : Move({s}, "PAUSED", "RUNNING")

Subscribe(l) ==
  /\ Room(1) /\ handlers' = Append(handlers, l)
  /\ Quiet /\ UNCHANGED <<known, configs, phase, starts>>

Unsubscribe(l) ==
  /\ \E i \in 1..Len(handlers) : handlers[i] = l
  /\ handlers' = Without(handlers, l)
  /\ Quiet /\ UNCHANGED <<known, configs, phase, starts>>

ClearHandlers ==
  /\ handlers # << >> /\ handlers' = << >> /\ starts' = None
  /\ Quiet /\ UNCHANGED <<known, configs, phase>>

\* emit walks the live list: when the listener l leaves it, the handler behind the
\* one that has just been called is passed over.  Each listener is listed once here.
Reached(l) == {i \in 1..Len(handlers) : i = 1 \/ handlers[i - 1] # l}

Emit(l) ==
  LET calls(s) == IF phase[s] # "RUNNING" THEN 0
                  ELSE Cardinality({i \in Reached(l) : handlers[i] = s})
  IN /\ handlers # << >>
     /\ heard' = [s \in Names |-> calls(s)]
     /\ handlers' = IF \E i \in 1..Len(handlers) : handlers[i] = l
                    THEN Without(handlers, l) ELSE handlers
     /\ UNCHANGED <<known, configs, phase, starts>>

Listening == {l \in Listeners : \E i \in 1..Len(handlers) : handlers[i] = l}

Next ==
  \/ \E s \in Names : Create(s) \/ Remove(s) \/ StartOne(s) \/ StopOne(s)
  \/ StartAll \/ StopAll \/ Pause \/ Resume \/ ClearHandlers
  \/ \E l \in Listeners \ Listening : Subscribe(l)
  \/ \E l \in Listening : Unsubscribe(l)
  \/ \E l \in Listening \union {0} : Emit(l)

-----------------------------------------------------------------------------
\* The shape of manager, strategies and handler list.
TypeOK ==
  /\ known \in Seq(Names) /\ Cardinality(Managed) = Len(known)
  /\ configs \subseteq Managed
  /\ phase \in [Names -> {"INITIALIZED", "RUNNING", "PAUSED", "STOPPED"}]
  /\ handlers \in Seq(Names \union Listeners) /\ Len(handlers) <= MaxHandlers
  /\ heard \in [Names -> 0..MaxHandlers] /\ starts \in [Names -> 0..MaxHandlers]

\* An emission makes every running strategy handle the bar once for each start of
\* it that subscribed, and no other strategy, but for at most one handler that a
\* leaving listener makes it pass over; however often starts failed half way, paused
\* strategies were started again and handlers came and went.  A strategy that is not
\* managed any more does not run.
BarsAreHeard ==
  /\ \A s \in Names :
       /\ Cardinality({i \in 1..Len(handlers) : handlers[i] = s}) = starts[s]
       /\ heard[s] > 0 => phase[s] = "RUNNING"
       /\ phase[s] \in {"RUNNING", "PAUSED"} => s \in Managed
  /\ heard # None =>
       LET missed == [s \in Names |-> IF phase[s] = "RUNNING" THEN starts[s] - heard[s] ELSE 0]
       IN missed = None \/ \E s \in Names : missed = [None EXCEPT ![s] = 1]
=============================================================================
