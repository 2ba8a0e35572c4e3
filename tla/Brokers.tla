------------------------------- MODULE Brokers -------------------------------
\* The adapters to the outside and the router over them, explored in one run: the
\* IG adapter (IgBroker), the OANDA adapter (OandaBroker), the crypto adapters
\* (CryptoFeed) and OrderRouter.  They share no state: an engine is configured
\* with one adapter, and the router only asks its brokers whether they are
\* connected.  So the initial state chooses the part that runs, and the others
\* keep their initial state; what holds of every part holds of all together.
EXTENDS IgBroker

CONSTANTS
  LimitOrders, Halves,                                      \* OandaBroker
  OandaCalls, OandaFaults,
  MaxLoops, CryptoCalls, Width, MaxTime, PageLimit, Coins,  \* CryptoFeed
  Names, Contexts, MinSplit, MaxParts, SplitEqual,          \* OrderRouter
  FixedName, MaxQuantity, MaxChanges

ASSUME PartsConstants ==
  /\ LimitOrders \subseteq Orders
  /\ Halves \in [Orders -> Nat]
  /\ {OandaCalls, OandaFaults, MaxLoops, CryptoCalls, MaxTime, Coins, MaxChanges} \subseteq Nat
  /\ {Width, PageLimit, MaxParts, MaxQuantity} \subseteq Nat \ {0}
  /\ SplitEqual \subseteq BOOLEAN /\ FixedName \in Names /\ IsFiniteSet(Names) /\ 0 \notin Names

VARIABLES
  part,  \* the part that is explored
  oConnected, oSession, oCached, oPosition, oOrderId, oJob, oBook, oNet, oSubmits, oCalls, oFaults,
  cConnected, cSession, cRunning, cWsTask, cLoops, cCaller, cFetch, cCalls,
  rTable, rRoom, rMetrics, rUp, rRules, rIndex, rEqual, rCheck, rChanges

Oanda == INSTANCE OandaBroker WITH
  MaxCalls <- OandaCalls, MaxFaults <- OandaFaults,
  connected <- oConnected, session <- oSession, cached <- oCached, position <- oPosition,
  orderId <- oOrderId, job <- oJob, book <- oBook, net <- oNet, submits <- oSubmits,
  calls <- oCalls, faults <- oFaults

Crypto == INSTANCE CryptoFeed WITH
  MaxCalls <- CryptoCalls,
  connected <- cConnected, session <- cSession, running <- cRunning, wsTask <- cWsTask,
  loops <- cLoops, caller <- cCaller, fetch <- cFetch, calls <- cCalls

Router == INSTANCE OrderRouter WITH
  Brokers <- Names,
  table <- rTable, room <- rRoom, metrics <- rMetrics, up <- rUp, rules <- rRules,
  index <- rIndex, equal <- rEqual, check <- rCheck, changes <- rChanges

igVars == vars
oandaVars == <<oConnected, oSession, oCached, oPosition, oOrderId, oJob, oBook, oNet, oSubmits,
               oCalls, oFaults>>
cryptoVars == <<cConnected, cSession, cRunning, cWsTask, cLoops, cCaller, cFetch, cCalls>>
routerVars == <<rTable, rRoom, rMetrics, rUp, rRules, rIndex, rEqual, rCheck, rChanges>>
allVars == <<part, igVars, oandaVars, cryptoVars, routerVars>>

BrokersInit ==
  /\ part \in {"ig", "oanda", "crypto", "router"}
  /\ Init /\ Oanda!Init /\ Crypto!Init
  /\ IF part = "router" THEN Router!Init
     ELSE /\ rTable = << >> /\ rRoom = 0 /\ rMetrics = [b \in Names |-> Router!NewMetrics]
          /\ rUp = [b \in Names |-> TRUE] /\ rRules = << >> /\ rIndex = 0 /\ rEqual = TRUE
          /\ rCheck = Router!NoCheck /\ rChanges = 0

BrokersNext ==
  \/ part = "ig" /\ Next /\ UNCHANGED <<part, oandaVars, cryptoVars, routerVars>>
  \/ part = "oanda" /\ Oanda!Next /\ UNCHANGED <<part, igVars, cryptoVars, routerVars>>
  \/ part = "crypto" /\ Crypto!Next /\ UNCHANGED <<part, igVars, oandaVars, routerVars>>
  \/ part = "router" /\ Router!Next /\ UNCHANGED <<part, igVars, oandaVars, cryptoVars>>

\* A task that is inside an adapter and can go on: its answer or its timer is
\* there, its request is at the exchange, or what it waits for has ended.
IgGoesOn(t) == Receive(t) \/ Login(t) \/ Exchange(t)
OandaGoesOn(t) == Oanda!Receive(t) \/ Oanda!Exchange(t)
CryptoGoesOn(t) == Crypto!Closed(t) \/ Crypto!Stopped(t)
GoesOn(t) ==
  \/ part = "ig" /\ IgGoesOn(t) /\ UNCHANGED <<part, oandaVars, cryptoVars, routerVars>>
  \/ part = "oanda" /\ OandaGoesOn(t) /\ UNCHANGED <<part, igVars, cryptoVars, routerVars>>
  \/ part = "crypto" /\ CryptoGoesOn(t) /\ UNCHANGED <<part, igVars, oandaVars, routerVars>>

\* A websocket loop that was cancelled is scheduled and ends.
LoopEnds ==
  /\ part = "crypto" /\ \E l \in 1..Len(cLoops) : Crypto!Cancelled(l)
  /\ UNCHANGED <<part, igVars, oandaVars, routerVars>>

\* The event loop resumes some task that can go on, and a request ends at the
\* latest with its session's total timeout.  This asks less of the scheduler than
\* fairness to every task: the calls explored are bounded, so no task is starved.
BrokersSpec ==
  BrokersInit /\ [][BrokersNext]_allVars /\ WF_allVars((\E t \in Tasks : GoesOn(t)) \/ LoopEnds)

-----------------------------------------------------------------------------
\* The part that is explored keeps the shape of its state; the others do not move.
BrokersTypeOK ==
  CASE part = "ig" -> TypeOK
    [] part = "oanda" -> Oanda!TypeOK
    [] part = "crypto" -> Crypto!TypeOK
    [] part = "router" -> Router!TypeOK

\* Retries never multiply an order beyond what the adapter's protocol allows: one
\* deal for each submit_order at IG, whose retries repeat a deal reference, and
\* one order for each attempt at OANDA, whose retries repeat the POST.
RetriesAreBounded ==
  /\ part = "ig" => OneDealPerSubmit
  /\ part = "oanda" => Oanda!OrdersBounded

\* What an adapter reports as cancelled or closed, or tracks under an id, is so at
\* the exchange: IG's cancel and close, OANDA's cached status, and both adapters'
\* order ids.
ReportsAreTrue ==
  /\ part = "ig" => CancelledIsClosed /\ TrackedIsDealt
  /\ part = "oanda" => Oanda!CacheIsTrue

\* A Binance feed that runs has a loop nobody has cancelled, however start and stop
\* overlap (there may be a second one that no stop can reach).  A range of candles
\* loses and repeats none; top coins come in as many as asked for and in order, but
\* for a shorter last page, which repeats some and misses as many.
FeedIsServed == part = "crypto" => Crypto!RunningIsServed /\ Crypto!PagesAreExact

\* The parts of a routed order cover the order (_split_order).
PartsCoverOrder == part = "router" => Router!PartsCoverOrder

\* A connectivity check that returns has asked every broker registered then, unless
\* the router's dictionary was rebuilt while it waited (check_all_brokers).
CheckIsComplete == Router!CheckIsComplete

\* Every call into an adapter returns, until none is left: retries, polls and waits
\* are bounded.
Busy(t) == job[t] # Idle \/ oJob[t] # Oanda!Idle \/ cCaller[t] # <<"idle", 0>>
AdaptersReturn == (\E t \in Tasks : Busy(t)) ~> (\A t \in Tasks : ~Busy(t))
=============================================================================
