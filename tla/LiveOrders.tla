----------------------------- MODULE LiveOrders -----------------------------
(***************************************************************************)
(* The live order path: LiveEngine (trading/live_engine.py), its           *)
(* ExecutionEngine and OrderManager, and the broker behind them.  One      *)
(* Order object is shared by all of them, so its status has one variable.  *)
(*                                                                         *)
(* Three kinds of broker are told apart by where their methods suspend:    *)
(*   none       no adapter: ticks fill the orders inside ExecutionEngine   *)
(*   simulated  adapters/simulated_broker.py: submit and cancel never      *)
(*              suspend, a background task fills the shared order          *)
(*   network    an adapter that awaits a remote service in submit_order    *)
(*              and cancel_order; other tasks run in between.  None of     *)
(*              the adapters reports fills back to the OrderManager.       *)
(* Circuit breaker and health are one flag here, the gate, which moves     *)
(* freely while the health checks run.  Prices, quantities and logging are *)
(* left out.                                                               *)
(***************************************************************************)
EXTENDS Naturals, Sequences, FiniteSets

CONSTANTS
  Orders,        \* order objects handed to submit_order, each once
  MarketOrders,  \* those of type MARKET: a tick always fills them
  BrokerKinds,   \* the broker kinds to consider
  StartModes,    \* the modes an engine is built in
  MaxPending,    \* config.max_pending_orders
  MaxDaily,      \* config.max_daily_trades
  None           \* no order

Modes == {"PAPER", "LIVE", "STANDBY", "WARMUP"}

ASSUME OrdersAssumption ==
  /\ IsFiniteSet(Orders)
  /\ MarketOrders \subseteq Orders
  /\ BrokerKinds \subseteq {"none", "simulated", "network"}
  /\ MaxPending \in Nat
  /\ MaxDaily \in Nat
  /\ StartModes \subseteq Modes
  /\ None \notin Orders

(* Order.is_active *)
ActiveStatus == {"SUBMITTED", "ACCEPTED", "PENDING", "PARTIALLY_FILLED"}
Status == ActiveStatus \cup {"FILLED", "CANCELLED", "REJECTED"}

VARIABLES
  kind,        \* which broker the engine was built with
  linkUp,      \* broker.is_connected()
  running,     \* LiveEngine._running
  starting,    \* a task in start() awaits broker.connect()
  mode,        \* LiveEngine._mode
  gate,        \* breaker not active and health neither CRITICAL nor OFFLINE
  status,      \* Order.status
  registered,  \* keys of OrderManager._orders
  active,      \* OrderManager._active_orders
  pending,     \* keys of LiveEngine._pending_orders
  tradeCount,  \* LiveEngine._daily_trade_count
  submitting,  \* orders whose submit_order awaits the network broker
  peak,        \* history: the most orders in submit_order at once, 1 at least
  cancelling,  \* <<order, caller>>: cancellations that await the network broker
  held,        \* keys of SimulatedBroker._orders
  queue,       \* SimulatedBroker._pending_fills
  filling,     \* the order _fill_loop holds across its latency sleep
  stop         \* the task in stop(): "no", "gather", or the orders left to cancel

session   == <<kind, linkUp, running, starting, mode, gate>>
books     == <<status, registered, active, pending, tradeCount>>
simulator == <<queue, filling, held>>
tasks     == <<submitting, peak, cancelling, stop>>
vars == <<session, books, simulator, tasks>>

TypeOK ==
  /\ kind \in BrokerKinds
  /\ linkUp \in BOOLEAN /\ running \in BOOLEAN /\ starting \in BOOLEAN /\ gate \in BOOLEAN
  /\ mode \in Modes
  /\ status \in [Orders -> Status]
  /\ registered \in SUBSET Orders
  /\ active \in SUBSET registered
  /\ pending \in SUBSET registered
  /\ tradeCount \in 0 .. Cardinality(Orders)
  /\ submitting \in SUBSET registered /\ peak \in Nat \ {0}
  /\ cancelling \in SUBSET (registered \X {"user", "stop"})
  /\ held \in SUBSET registered
  /\ queue \in Seq(Orders)
  /\ filling \in Orders \cup {None}
  /\ stop \in {<<"no">>, <<"gather">>} \cup {<<"cancel", S>> : S \in SUBSET Orders}

Init ==
  /\ kind \in BrokerKinds
  /\ mode \in StartModes
  /\ linkUp = FALSE /\ running = FALSE /\ starting = FALSE /\ gate = FALSE
  /\ status = [o \in Orders |-> "SUBMITTED"]
  /\ registered = {} /\ active = {} /\ pending = {}
  /\ tradeCount = 0
  /\ submitting = {} /\ peak = 1 /\ cancelling = {}
  /\ held = {} /\ queue = <<>> /\ filling = None
  /\ stop = <<"no">>

IsActive(o) == status[o] \in ActiveStatus

-----------------------------------------------------------------------------
(* LiveEngine.submit_order                                                 *)

Admits_OffByOne ==  \* mutant: <= for the pending orders
  /\ running
  /\ mode # "WARMUP"
  /\ gate
  /\ tradeCount < MaxDaily
  /\ Cardinality(pending) <= MaxPending

(* Every check that precedes the first await.  STANDBY is not among them.  *)
Admits ==
  /\ running
  /\ mode # "WARMUP"
  /\ gate
  /\ tradeCount < MaxDaily
  /\ Cardinality(pending) < MaxPending

Register(o) ==
  /\ o \notin registered
  /\ registered' = registered \cup {o}
  /\ active' = active \cup {o}
  /\ LET together == Cardinality(submitting \cup {o})
     IN peak' = IF together > peak THEN together ELSE peak

Accepted_NotPending(o, newStatus) ==  \* mutant: _pending_orders is not told
  /\ status' = [status EXCEPT ![o] = newStatus]
  /\ tradeCount' = tradeCount + 1
  /\ UNCHANGED pending

(* What LiveEngine does once ExecutionEngine.submit_order returned True.   *)
Accepted(o, newStatus) ==
  /\ status' = [status EXCEPT ![o] = newStatus]
  /\ pending' = pending \cup {o}
  /\ tradeCount' = tradeCount + 1

(* No adapter, or one that is not connected: the order waits for ticks.    *)
SubmitLocally(o) ==
  /\ Admits
  /\ kind = "none" \/ ~linkUp
  /\ Register(o)
  /\ Accepted(o, "PENDING")
  /\ UNCHANGED <<session, simulator, submitting, cancelling, stop>>

SubmitSimulated(o) ==
  /\ Admits
  /\ kind = "simulated" /\ linkUp
  /\ Register(o)
  /\ Accepted(o, "ACCEPTED")
  /\ held' = held \cup {o}
  /\ queue' = Append(queue, o)
  /\ UNCHANGED <<session, filling, submitting, cancelling, stop>>

SubmitToNetwork_Unregistered(o) ==  \* mutant: OrderManager is told afterwards
  /\ Admits
  /\ kind = "network" /\ linkUp
  /\ o \notin submitting
  /\ submitting' = submitting \cup {o}
  /\ UNCHANGED <<session, status, registered, active, pending, tradeCount,
                 simulator, peak, cancelling, stop>>

SubmitToNetwork(o) ==
  /\ Admits
  /\ kind = "network" /\ linkUp
  /\ Register(o)
  /\ submitting' = submitting \cup {o}
  /\ UNCHANGED <<session, status, pending, tradeCount, simulator, cancelling, stop>>

(* The adapter returned True; the status is overwritten whatever it is.    *)
NetworkAccepts(o) ==
  /\ o \in submitting
  /\ submitting' = submitting \ {o}
  /\ Accepted(o, "ACCEPTED")
  /\ UNCHANGED <<session, registered, active, simulator, peak, cancelling, stop>>

(* It returned False or raised: the order stays in _active_orders.         *)
NetworkRejects(o) ==
  /\ o \in submitting
  /\ submitting' = submitting \ {o}
  /\ status' = [status EXCEPT ![o] = "REJECTED"]
  /\ UNCHANGED <<session, registered, active, pending, tradeCount, simulator,
                 peak, cancelling, stop>>

-----------------------------------------------------------------------------
(* LiveEngine._cancel_order                                                *)

(* OrderManager.cancel_order on the orders S that are active, and their    *)
(* removal from _pending_orders when it returns True.  A connected         *)
(* SimulatedBroker has by then cancelled the shared object of every order  *)
(* it holds; OrderManager finds those inactive and refuses, so they stay   *)
(* in _active_orders and in _pending_orders.                               *)
Cancelled(S) == {o \in S : IsActive(o)}

CancelBooks_KeepsPending(S) ==  \* mutant: LiveEngine does not pop the order
  /\ status' = [o \in Orders |-> IF o \in Cancelled(S) THEN "CANCELLED" ELSE status[o]]
  /\ active' = active \ Cancelled(S)
  /\ UNCHANGED <<registered, pending, tradeCount>>

CancelBooks_AnyStatus(S) ==  \* mutant: is_active is not asked
  /\ status' = [o \in Orders |-> IF o \in S THEN "CANCELLED" ELSE status[o]]
  /\ active' = active \ S
  /\ pending' = pending \ S
  /\ UNCHANGED <<registered, tradeCount>>

CancelBooks(S) ==
  LET refused == IF kind = "simulated" /\ linkUp THEN held ELSE {}
      done    == Cancelled(S) \ refused
  IN /\ status' = [o \in Orders |-> IF o \in Cancelled(S) THEN "CANCELLED" ELSE status[o]]
     /\ active' = active \ done
     /\ pending' = pending \ done
     /\ UNCHANGED <<registered, tradeCount>>

Suspends == kind = "network" /\ linkUp

CancelOrder(o) ==
  /\ o \in registered
  /\ ~Suspends
  /\ CancelBooks({o})
  /\ UNCHANGED <<session, simulator, tasks>>

CancelAtNetwork(o) ==
  /\ o \in registered
  /\ <<o, "user">> \notin cancelling
  /\ Suspends
  /\ cancelling' = cancelling \cup {<<o, "user">>}
  /\ UNCHANGED <<session, books, simulator, submitting, peak, stop>>

(* The adapter answered or raised; what it answered is not looked at.      *)
NetworkCancelReturns(o, caller) ==
  /\ <<o, caller>> \in cancelling
  /\ cancelling' = cancelling \ {<<o, caller>>}
  /\ CancelBooks({o})
  /\ UNCHANGED <<session, simulator, submitting, peak, stop>>

-----------------------------------------------------------------------------
(* Fills                                                                   *)

(* process_market_data with no adapter (one symbol): every PENDING order   *)
(* that is in _active_orders and whose price condition holds is filled in  *)
(* full; the callbacks update the positions and pop _pending_orders.       *)
Fillable == {o \in active : status[o] = "PENDING"}

Tick_NoCallback(S) ==  \* mutant: handle_fill is not registered
  /\ kind = "none" /\ running
  /\ S \subseteq Fillable /\ Fillable \cap MarketOrders \subseteq S /\ S # {}
  /\ status' = [o \in Orders |-> IF o \in S THEN "FILLED" ELSE status[o]]
  /\ active' = active \ S
  /\ UNCHANGED <<session, registered, pending, tradeCount, simulator, tasks>>

Tick(S) ==
  /\ kind = "none" /\ running
  /\ S \subseteq Fillable /\ Fillable \cap MarketOrders \subseteq S /\ S # {}
  /\ status' = [o \in Orders |-> IF o \in S THEN "FILLED" ELSE status[o]]
  /\ active' = active \ S
  /\ pending' = pending \ S
  /\ UNCHANGED <<session, registered, tradeCount, simulator, tasks>>

(* SimulatedBroker._fill_loop takes an order and, if it is active, sleeps  *)
(* latency_ms with it in hand.                                             *)
TakeForFill ==
  /\ kind = "simulated" /\ linkUp
  /\ filling = None /\ queue # <<>>
  /\ queue' = Tail(queue)
  /\ filling' = IF IsActive(Head(queue)) THEN Head(queue) ELSE None
  /\ UNCHANGED <<session, books, held, tasks>>

(* After the sleep is_active is not asked again.  With no price, or by the *)
(* fill probability, nothing happens; a partly filled order is not queued  *)
(* again.  Neither OrderManager nor LiveEngine hears of the fill.          *)
SimulateFill(newStatus) ==
  /\ filling # None
  /\ status' = [status EXCEPT ![filling] = newStatus]
  /\ filling' = None
  /\ UNCHANGED <<session, registered, active, pending, tradeCount, queue, held, tasks>>

-----------------------------------------------------------------------------
(* Lifecycle                                                               *)

(* start() without an adapter, which LIVE mode needs.                      *)
StartPaper ==
  /\ ~running /\ kind = "none" /\ mode # "LIVE"
  /\ running' = TRUE
  /\ gate' = TRUE
  /\ UNCHANGED <<kind, linkUp, starting, mode, books, simulator, tasks>>

(* With one, _running is set before the adapter is connected, and the      *)
(* other calls of the engine, stop() included, run in between.             *)
StartConnecting ==
  /\ ~running /\ kind # "none" /\ ~starting
  /\ running' = TRUE
  /\ starting' = TRUE
  /\ UNCHANGED <<kind, linkUp, mode, gate, books, simulator, tasks>>

StartSucceeds ==
  /\ starting
  /\ starting' = FALSE
  /\ linkUp' = TRUE
  /\ gate' = TRUE
  /\ UNCHANGED <<kind, running, mode, books, simulator, tasks>>

StartFails ==
  /\ starting /\ kind = "network"
  /\ starting' = FALSE
  /\ running' = FALSE
  /\ gate' = FALSE
  /\ UNCHANGED <<kind, linkUp, mode, books, simulator, tasks>>

(* stop(), up to the await of the cancelled background tasks.              *)
Stop ==
  /\ running /\ stop = <<"no">>
  /\ running' = FALSE
  /\ stop' = <<"gather">>
  /\ UNCHANGED <<kind, linkUp, starting, mode, gate, books, simulator, submitting,
                 peak, cancelling>>

(* _disconnect_broker cancels the fill task with the order it holds; the   *)
(* queue survives.  health becomes OFFLINE.                                *)
Disconnect ==
  /\ linkUp' = FALSE
  /\ gate' = FALSE
  /\ filling' = None
  /\ stop' = <<"no">>
  /\ UNCHANGED <<kind, running, starting, mode, queue, held>>

(* The rest of stop() when no cancellation suspends (auto_reconnect is on, *)
(* which is what makes stop() cancel the pending orders).                  *)
StopQuietly ==
  /\ stop = <<"gather">> /\ ~Suspends
  /\ CancelBooks(pending)
  /\ Disconnect
  /\ UNCHANGED <<submitting, peak, cancelling>>

(* With a network adapter stop() goes through a copy of _pending_orders,   *)
(* one awaited cancellation after the other.                               *)
StopSnapshot ==
  /\ stop = <<"gather">> /\ Suspends
  /\ stop' = <<"cancel", pending>>
  /\ UNCHANGED <<session, books, simulator, submitting, peak, cancelling>>

Stopping == stop[1] = "cancel" /\ \A c \in cancelling : c[2] # "stop"

StopCancelsNext(o) ==
  /\ Stopping /\ o \in stop[2]
  /\ stop' = <<"cancel", stop[2] \ {o}>>
  /\ IF Suspends
       THEN cancelling' = cancelling \cup {<<o, "stop">>} /\ UNCHANGED books
       ELSE CancelBooks({o}) /\ UNCHANGED cancelling
  /\ UNCHANGED <<session, simulator, submitting, peak>>

StopEnds ==
  /\ Stopping /\ stop[2] = {}
  /\ Disconnect
  /\ UNCHANGED <<books, submitting, peak, cancelling>>

(* pause() and resume() only switch the mode.                              *)
Pause ==
  /\ running /\ mode = "LIVE"
  /\ mode' = "STANDBY"
  /\ UNCHANGED <<kind, linkUp, running, starting, gate, books, simulator, tasks>>

Resume ==
  /\ running /\ mode = "STANDBY"
  /\ mode' = "LIVE"
  /\ UNCHANGED <<kind, linkUp, running, starting, gate, books, simulator, tasks>>

(* Breaker, health check and reconnection move the gate and the link.      *)
MoveGate ==
  /\ running /\ ~starting
  /\ gate' = ~gate
  /\ linkUp' \in (IF kind = "none" THEN {FALSE}
                  ELSE IF kind = "simulated" THEN {TRUE, linkUp} ELSE BOOLEAN)
  /\ UNCHANGED <<kind, running, starting, mode, books, simulator, tasks>>

(* _daily_reset_loop at midnight.                                          *)
DailyReset ==
  /\ running /\ tradeCount > 0
  /\ tradeCount' = 0
  /\ UNCHANGED <<session, status, registered, active, pending, simulator, tasks>>

-----------------------------------------------------------------------------
OrderStep(o) ==
  \/ SubmitLocally(o) \/ SubmitSimulated(o) \/ SubmitToNetwork(o)
  \/ NetworkAccepts(o) \/ NetworkRejects(o)
  \/ CancelOrder(o) \/ CancelAtNetwork(o)
  \/ \E caller \in {"user", "stop"} : NetworkCancelReturns(o, caller)
  \/ StopCancelsNext(o)

SomeTick == \E S \in SUBSET Orders : Tick(S)

Next ==
  \/ \E o \in Orders : OrderStep(o)
  \/ SomeTick
  \/ TakeForFill
  \/ \E s \in {"FILLED", "PARTIALLY_FILLED"} : SimulateFill(s)
  \/ filling # None /\ SimulateFill(status[filling])
  \/ StartPaper \/ StartConnecting \/ StartSucceeds \/ StartFails
  \/ Stop \/ StopQuietly \/ StopSnapshot \/ StopEnds
  \/ Pause \/ Resume \/ MoveGate \/ DailyReset

(* Ticks keep arriving, and stop() runs to its end once gather returns.    *)
Fairness == WF_vars(SomeTick) /\ WF_vars(StopQuietly)

Spec == Init /\ [][Next]_vars
FairSpec == Spec /\ Fairness

-----------------------------------------------------------------------------
(* Properties                                                              *)

(* Without an adapter the three books agree in every state: the orders     *)
(* LiveEngine counts as pending are exactly OrderManager's active orders   *)
(* and exactly the registered ones whose status is active, through every   *)
(* interleaving of submissions, cancellations, ticks, stops and restarts;  *)
(* and after stop() no order is left that a restart would fill.            *)
PaperBooksAgree ==
  kind = "none" =>
    /\ pending = active
    /\ active = {o \in registered : IsActive(o)}
    /\ ~running /\ stop = <<"no">> => pending = {}

(* An order that is ACCEPTED is in LiveEngine._pending_orders, where       *)
(* cancel_all_orders and stop() look for it: also after the order was      *)
(* cancelled while its submission was still awaiting the broker.           *)
AcceptedIsTracked == \A o \in Orders : status[o] = "ACCEPTED" => o \in pending

(* The limits are checked before the await of a submission and counted     *)
(* after it, so that orders whose submissions overlap pass them together:  *)
(* what is pending or under way exceeds the limits by no more than the     *)
(* orders that were in submit_order at once, less one.  Without overlap,   *)
(* and so with every broker that does not suspend, they hold exactly.      *)
OverrunIsBounded ==
  /\ Cardinality(pending \cup submitting) < MaxPending + peak
  /\ tradeCount + Cardinality(submitting) < MaxDaily + peak

(* A filled order stays filled, whoever cancels it later; without an       *)
(* adapter a cancelled one stays cancelled as well.                        *)
TerminalSticks ==
  [][ \A o \in Orders :
        /\ status[o] = "FILLED" => status'[o] = "FILLED"
        /\ kind = "none" /\ status[o] = "CANCELLED" => status'[o] = "CANCELLED" ]_vars

(* Without an adapter a pending market order is filled by a tick or        *)
(* cancelled, also across stop() and restart.                              *)
PaperOrdersResolve ==
  \A o \in MarketOrders :
    kind = "none" /\ o \in pending ~> o \notin pending

(* "Pause trading (no new orders)": an engine that was built in LIVE mode, *)
(* so that only pause() leads to STANDBY, takes no order while STANDBY.    *)
PauseTakesNoOrders == [][ mode = "STANDBY" => registered' = registered ]_vars
=============================================================================
