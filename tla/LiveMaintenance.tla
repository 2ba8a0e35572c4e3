--------------------------- MODULE LiveMaintenance ---------------------------
\* The background tasks of LiveEngine, src/trading/live_engine.py: the health check
\* with its reconnection by retry_async under the circuit breaker, and the
\* synchronisation of orders with a remote broker.
\*
\* An action is the code of one task between two suspending awaits.  A cancelled
\* task is at an await that answers to it at once.  The breaker, modelled on its
\* own, is a gate here: shut by failures and by a drawdown, open again after its
\* cooldown.  An order is ACCEPTED by the broker when it is seen first.
\* Left out: auto_reconnect switched off, position synchronisation, which only logs,
\* the daily reset, the handlers, and a second start while one awaits the broker
\* (after a stop in between, which start itself does not look for).
EXTENDS Integers

CONSTANTS
  Orders,
  SameId,        \* orders whose id is also their broker_order_id
  MaxAttempts,   \* reconnect_max_attempts
  MaxFaults,     \* bound: drops, outages, lost answers, trips of the breaker
  MaxStarts      \* bound: calls of start

VARIABLES
  engineOn,    \* _running
  starting,    \* start awaits connect of the broker
  stopping,    \* stop awaits disconnect of the broker
  linked,      \* _connected
  health,      \* _health
  checker,     \* await of _health_check_loop
  tries,       \* attempts of the running reconnection
  shut,        \* the circuit breaker refuses calls
  adapterUp,   \* is_connected of the adapter
  reachable,   \* the remote service can be connected to
  pending,     \* _pending_orders
  local,       \* status of the engine's order
  remote,      \* status at the broker
  dropped,     \* history: orders that synchronisation removed from pending
  syncer,      \* await of _order_sync_loop
  seen,        \* broker_orders, once answered
  faults, begun

liveVars == <<engineOn, starting, stopping, linked, health, checker, tries, shut,
  adapterUp, reachable, pending, local, remote, dropped, syncer, seen, faults, begun>>

link == <<linked, health, adapterUp>>
orders == <<pending, local, remote, dropped>>
lives == <<engineOn, starting, stopping, begun>>
world == <<reachable, shut, faults>>

Final == {"FILLED", "CANCELLED"}
NoAnswer == [o \in {} |-> "none"]

Init ==
  /\ engineOn = FALSE /\ starting = FALSE /\ stopping = FALSE /\ begun = 0
  /\ linked = FALSE /\ health = "OFFLINE"
  /\ checker = "none" /\ tries = 0 /\ shut = FALSE
  /\ adapterUp = FALSE /\ reachable = TRUE /\ faults = 0
  /\ pending = {} /\ local = [o \in Orders |-> "new"] /\ remote = [o \in Orders |-> "new"]
  /\ dropped = {} /\ syncer = "none" /\ seen = NoAnswer

-----------------------------------------------------------------------------
Start ==
  /\ ~engineOn /\ ~starting /\ begun < MaxStarts
  /\ engineOn' = TRUE /\ starting' = TRUE /\ begun' = begun + 1
  /\ UNCHANGED <<stopping, link, checker, tries, world, orders, syncer, seen>>

\* _connect_broker answers start, which creates the tasks.  A stop in between has
\* cleared the flag their loops look at.
StartConnects ==
  /\ starting /\ starting' = FALSE
  /\ IF reachable
     THEN /\ linked' = TRUE /\ adapterUp' = TRUE /\ health' = "HEALTHY"
          /\ checker' = IF engineOn THEN "sleep" ELSE "none"
          /\ syncer' = IF engineOn THEN "sleep" ELSE "none"
          /\ UNCHANGED engineOn
     ELSE /\ linked' = FALSE /\ health' = "CRITICAL" /\ engineOn' = FALSE
          /\ UNCHANGED <<adapterUp, checker, syncer>>
  /\ UNCHANGED <<stopping, begun, tries, world, orders, seen>>

\* stop cancels the tasks; the orders it cancels before it disconnects are LiveOrders'.
Stop ==
  /\ engineOn /\ ~stopping
  /\ engineOn' = FALSE /\ stopping' = TRUE
  /\ checker' = "none" /\ syncer' = "none" /\ tries' = 0 /\ seen' = NoAnswer
  /\ UNCHANGED <<starting, begun, link, world, orders>>

StopEnds ==
  /\ stopping /\ stopping' = FALSE
  /\ linked' = FALSE /\ adapterUp' = FALSE /\ health' = "OFFLINE"
  /\ UNCHANGED <<engineOn, starting, begun, checker, tries, world, orders, syncer, seen>>

-----------------------------------------------------------------------------
\* _health_check_loop: the interval is over, is_connected runs in a thread.
HealthWakes ==
  /\ checker = "sleep" /\ checker' = "ask"
  /\ UNCHANGED <<lives, link, tries, world, orders, syncer, seen>>

HealthAnswers ==
  /\ checker = "ask" /\ adapterUp
  /\ linked' = TRUE /\ health' = "HEALTHY" /\ checker' = "sleep"
  /\ UNCHANGED <<lives, adapterUp, tries, world, orders, syncer, seen>>

HealthFails ==
  /\ checker = "ask" /\ faults < MaxFaults /\ faults' = faults + 1
  /\ health' = "DEGRADED" /\ checker' = "sleep"
  /\ UNCHANGED <<lives, linked, adapterUp, reachable, shut, tries, orders, syncer, seen>>

\* mutant: an open breaker ends the health check loop with its error
Try_LoopEnds(n, otherwise) ==
  IF shut
  THEN health' = "OFFLINE" /\ checker' = "none" /\ tries' = 0
  ELSE health' = otherwise /\ checker' = "connect" /\ tries' = n

\* An attempt of retry_async: an open breaker ends the whole reconnection.
Try(n, otherwise) ==
  IF shut
  THEN health' = "OFFLINE" /\ checker' = "sleep" /\ tries' = 0
  ELSE health' = otherwise /\ checker' = "connect" /\ tries' = n

\* The link is gone: _reconnect_broker and its first attempt.
LinkGone ==
  /\ checker = "ask" /\ ~adapterUp
  /\ linked' = FALSE /\ Try(1, "DEGRADED")
  /\ UNCHANGED <<lives, adapterUp, world, orders, syncer, seen>>

Reconnected ==
  /\ checker = "connect" /\ reachable
  /\ linked' = TRUE /\ adapterUp' = TRUE /\ health' = "HEALTHY"
  /\ checker' = "sleep" /\ tries' = 0
  /\ UNCHANGED <<lives, world, orders, syncer, seen>>

\* A failed attempt, which may open the breaker; the last one gives up.
AttemptFails ==
  /\ checker = "connect" /\ ~reachable
  /\ linked' = FALSE
  /\ shut' \in {shut, TRUE}
  /\ IF tries = MaxAttempts
     THEN health' = "OFFLINE" /\ checker' = "sleep" /\ tries' = 0
     ELSE health' = "CRITICAL" /\ checker' = "delay" /\ UNCHANGED tries
  /\ UNCHANGED <<lives, adapterUp, reachable, faults, orders, syncer, seen>>

DelayEnds ==
  /\ checker = "delay" /\ Try(tries + 1, health)
  /\ UNCHANGED <<lives, linked, adapterUp, world, orders, syncer, seen>>

-----------------------------------------------------------------------------
\* _order_sync_loop: nothing to do, or get_orders.
SyncWakes ==
  /\ syncer = "sleep" /\ linked /\ pending # {}
  /\ syncer' = "ask"
  /\ UNCHANGED <<lives, link, checker, tries, world, orders, seen>>

\* The broker makes its answer out of what it knows; some report open orders only.
SyncAnswered ==
  /\ syncer = "ask" /\ syncer' = "answered"
  /\ \E S \in SUBSET {o \in Orders : remote[o] # "new"} : seen' = [o \in S |-> remote[o]]
  /\ UNCHANGED <<lives, link, checker, tries, world, orders>>

SyncFails ==
  /\ syncer = "ask" /\ syncer' = "sleep"
  /\ UNCHANGED <<lives, link, checker, tries, world, orders, seen>>

\* mutant: looked up by any id, whether or not the order is pending
Found_Unfiltered == DOMAIN seen \intersect SameId

\* The pending orders it finds: it looks for the engine's id among the broker's ids.
Found == {o \in pending : o \in DOMAIN seen \intersect SameId}

\* The answer is applied to the orders pending by then.
SyncApplied ==
  /\ syncer = "answered" /\ syncer' = "sleep" /\ seen' = NoAnswer
  /\ local' = [o \in Orders |-> IF o \in Found THEN seen[o] ELSE local[o]]
  /\ LET ended == {o \in Found : seen[o] \in Final /\ local[o] # seen[o]}
     IN pending' = pending \ ended /\ dropped' = dropped \union ended
  /\ UNCHANGED <<lives, link, checker, tries, world, remote>>

\* submit_order has ended; cancel_order cancels here, whatever the broker says.
Submitted(o) ==
  /\ engineOn /\ linked /\ local[o] = "new"
  /\ local' = [local EXCEPT ![o] = "ACCEPTED"] /\ remote' = [remote EXCEPT ![o] = "ACCEPTED"]
  /\ pending' = pending \union {o}
  /\ UNCHANGED <<lives, link, checker, tries, world, dropped, syncer, seen>>

CancelledHere(o) ==
  /\ o \in pending /\ pending' = pending \ {o}
  /\ local' = [local EXCEPT ![o] = "CANCELLED"]
  /\ remote' \in {remote, [remote EXCEPT ![o] = IF @ = "ACCEPTED" THEN "CANCELLED" ELSE @]}
  /\ UNCHANGED <<lives, link, checker, tries, world, dropped, syncer, seen>>

\* The broker fills or cancels an order.
RemoteMoves(o, status) ==
  /\ remote[o] = "ACCEPTED" /\ remote' = [remote EXCEPT ![o] = status]
  /\ UNCHANGED <<lives, link, checker, tries, world, pending, local, dropped, syncer, seen>>

-----------------------------------------------------------------------------
\* The connection drops, or the service goes away; process_market_data trips.
Fault ==
  /\ faults < MaxFaults /\ faults' = faults + 1
  /\ \/ adapterUp /\ adapterUp' = FALSE /\ reachable' \in BOOLEAN /\ UNCHANGED shut
     \/ engineOn /\ ~shut /\ shut' = TRUE /\ UNCHANGED <<adapterUp, reachable>>
  /\ UNCHANGED <<lives, linked, health, checker, tries, orders, syncer, seen>>

ServiceReturns ==
  /\ ~reachable /\ reachable' = TRUE
  /\ UNCHANGED <<lives, link, checker, tries, shut, faults, orders, syncer, seen>>

Cooldown ==
  /\ shut /\ shut' = FALSE
  /\ UNCHANGED <<lives, link, checker, tries, reachable, faults, orders, syncer, seen>>

\* What happens without anybody's doing: the health task, and the breaker's clock.
HealthSteps ==
  \/ StartConnects \/ StopEnds
  \/ HealthWakes \/ HealthAnswers \/ LinkGone \/ Reconnected \/ AttemptFails \/ DelayEnds

Next ==
  \/ Start \/ Stop \/ HealthSteps \/ HealthFails
  \/ SyncWakes \/ SyncAnswered \/ SyncFails \/ SyncApplied
  \/ \E o \in Orders : Submitted(o) \/ CancelledHere(o)
  \/ \E o \in Orders, status \in Final : RemoteMoves(o, status)
  \/ Fault \/ ServiceReturns \/ Cooldown

-----------------------------------------------------------------------------
\* The shape of the engine's background tasks.
TypeOK ==
  /\ engineOn \in BOOLEAN /\ starting \in BOOLEAN /\ stopping \in BOOLEAN
  /\ linked \in BOOLEAN /\ shut \in BOOLEAN /\ adapterUp \in BOOLEAN
  /\ health \in {"HEALTHY", "DEGRADED", "CRITICAL", "OFFLINE"}
  /\ checker \in {"none", "sleep", "ask", "connect", "delay"}
  /\ syncer \in {"none", "sleep", "ask", "answered"}
  /\ tries \in 0..MaxAttempts /\ faults \in 0..MaxFaults
  /\ pending \union dropped \subseteq Orders
  /\ \A o \in Orders : {local[o], remote[o]} \subseteq {"new", "ACCEPTED"} \union Final

\* HEALTHY is never said of a broken link while the engine runs, nor is a link up
\* when the engine reports an outage: orders are admitted by the one and sent by
\* the other, and start, stop, health check and reconnection all write both.
HealthIsTrue ==
  engineOn /\ ~starting =>
    /\ health = "HEALTHY" => linked
    /\ linked => health \notin {"CRITICAL", "OFFLINE"}

\* An order that synchronisation drops has ended at the broker in the way the engine
\* now says; and however late the answer comes, the open orders are the pending ones:
\* no order ends here and stays pending, or is opened again by an old answer.
OrderSyncIsSound ==
  /\ \A o \in dropped : local[o] \in Final /\ local[o] = remote[o]
  /\ \A o \in Orders : o \in pending <=> local[o] = "ACCEPTED"

\* Once the broker can be reached and the breaker lets calls pass for good, a running
\* engine is linked again and again: no number of failed attempts, open breakers and
\* exhausted retries ends the health check.
LinkRecovers == <>[](engineOn /\ reachable /\ ~shut) => []<>linked
=============================================================================
