------------------------------- MODULE Platform -------------------------------
\* The platform's in-process components, each explored in its own share of one run:
\* stream cache (StreamQueue, CacheStore), core engine (EngineCore, TimeKeeper,
\* Strategies, Plugins), accounts (Accounts, RiskLimits), monitoring (LatencyAlerts),
\* feeds (Feeds), the live engine's background tasks (LiveMaintenance), Indicators and
\* Backtest.  No code of src/ passes state from one of them to another: where one
\* calls another, its module models what the call does.  So the initial state chooses
\* the part that runs and the others keep their initial state; what holds of every
\* part holds of all together.
EXTENDS StreamQueue, FiniteSets

CONSTANTS
  Symbols, Items, SymbolOf, KeyOf, HashOf, TimeOf, CacheSize,  \* CacheStore
  CachePolicies, Dedup, WindowTicks, MaxOps,
  Tasks, MaxStarts, Names, Intervals, ClockTime,               \* EngineCore, TimeKeeper
  Listeners, MaxHandlers, Requires, Mismatched, MaxObjects,    \* Strategies, Plugins
  FillSizes, FillPrices, BrokerPositions, PriceTolerance,      \* Accounts
  CriticalDiff, SyncPolicies, MaxOrders,
  OrderSizes, MarketPrices, Cash,                              \* RiskLimits
  Metrics, Values, Warning, CriticalLevel, AlertCooldown,      \* LatencyAlerts
  Window, MaxAlerts,
  Times, Period, MaxTicks, CacheKeys, Ttl, MaxTime, Capacity,  \* Feeds
  MaxData, MaxStreams,
  Orders, SameId, MaxAttempts, MaxFaults,                      \* LiveMaintenance
  Categories, Series, SeriesHash, Length, Warmups, MaxListed,  \* Indicators
  First, Last, MaxBars                                         \* Backtest

ASSUME PlatformConstants ==
  /\ {WindowTicks, MaxOps, MaxStarts, ClockTime, MaxHandlers, MaxObjects, MaxOrders, MaxAlerts,
      MaxTicks, MaxTime, MaxData, MaxStreams, MaxFaults, MaxListed, MaxBars} \subseteq Nat
  /\ {CacheSize, Window, Period, Capacity, MaxAttempts, Length} \subseteq Nat \ {0}
  /\ FillSizes \union FillPrices \union OrderSizes \union MarketPrices \subseteq Nat \ {0}
  /\ {PriceTolerance, CriticalDiff, Ttl, AlertCooldown} \subseteq Nat /\ Cash \in Nat \ {0}
  /\ Intervals \union Warmups \subseteq Nat
  /\ BrokerPositions \subseteq [side : {"BUY", "SELL"}, quantity : Nat \ {0}, average : Nat \ {0}]
  /\ IsFiniteSet(Symbols) /\ SymbolOf \in [Items -> Symbols] /\ Dedup \subseteq BOOLEAN
  /\ Listeners \intersect Names = {} /\ 0 \notin Listeners \union Names
  /\ Times \subseteq Nat \ {0} /\ SameId \subseteq Orders /\ Mismatched \subseteq Names
  /\ Requires \in [Names -> SUBSET Names]
  /\ Values \union {Warning, CriticalLevel} \subseteq Nat /\ Warning < CriticalLevel

VARIABLES
  part,  \* the part that is explored
  sPolicy, sDedup, sEntries, sOrder, sExpired, sIndex, sSeen, sTicks, sAdded, sOps,
  eState, eRunning, eCall, eMade, eTerminated, eLoops, eClockOn, eBusOn, eLate,
  kNow, kSchedules, kLoop, kOn,
  aKnown, aConfigs, aPhase, aHandlers, aHeard, aStarts,
  pDiscovered, pFactories, pErrors, pInstances, pObject, pMade, pReplaced,
  bPolicy, bBooks, bCash, bRealized, bExact, bAgreed, bCalls,
  rCash, rHeld, rPrice, rAdmitted, rFits, rChecked,
  lTime, lSamples, lGauges, lThresholds, lAlerts, lIsOn, lTasks, lCurrent, lFresh,
  fTimeOf, fBuffer, fLastTick, fBars, fFlushed, fStored, fClock, fStreaming, fStreams, fNewest,
  fHalting, fCrossed, fWaiting, fEmitted, fLost, fSent,
  vEngineOn, vStarting, vStopping, vLinked, vHealth, vChecker, vTries, vShut, vAdapterUp,
  vReachable, vPending, vLocal, vRemote, vDropped, vSyncer, vSeen, vFaults, vBegun,
  iSpecs, iByCategory, iResults, iAnswer,
  tHistory, tPosition, tStrategy, tReplayed, tHeard, tRan

Store == INSTANCE CacheStore WITH
  Policies <- CachePolicies, MaxSize <- CacheSize, MaxTicks <- WindowTicks, policy <- sPolicy,
  dedup <- sDedup, entries <- sEntries, order <- sOrder, expired <- sExpired, index <- sIndex,
  seen <- sSeen, ticks <- sTicks, added <- sAdded, ops <- sOps

Core == INSTANCE EngineCore WITH
  Callers <- Tasks, state <- eState, running <- eRunning, call <- eCall, made <- eMade,
  terminated <- eTerminated, loops <- eLoops, clockOn <- eClockOn, busOn <- eBusOn,
  late <- eLate

Clock == INSTANCE TimeKeeper WITH
  Loops <- Tasks, Ids <- Names, MaxTime <- ClockTime, now <- kNow, schedules <- kSchedules,
  loop <- kLoop, on <- kOn

Algo == INSTANCE Strategies WITH
  known <- aKnown, configs <- aConfigs, phase <- aPhase, handlers <- aHandlers, heard <- aHeard,
  starts <- aStarts

Plug == INSTANCE Plugins WITH
  discovered <- pDiscovered, factories <- pFactories, errors <- pErrors,
  instances <- pInstances, object <- pObject, made <- pMade, replaced <- pReplaced

Books == INSTANCE Accounts WITH
  Quantities <- FillSizes, Prices <- FillPrices, Policies <- SyncPolicies,
  MaxCalls <- MaxOrders, policy <- bPolicy, books <- bBooks, cash <- bCash,
  realized <- bRealized, exact <- bExact, agreed <- bAgreed, calls <- bCalls

Risk == INSTANCE RiskLimits WITH
  Quantities <- OrderSizes, Prices <- MarketPrices, cash <- rCash, held <- rHeld,
  price <- rPrice, admitted <- rAdmitted, fits <- rFits, checked <- rChecked

Alerts == INSTANCE LatencyAlerts WITH
  Loops <- Tasks, MaxTime <- ClockTime, Critical <- CriticalLevel, Cooldown <- AlertCooldown,
  time <- lTime, samples <- lSamples, gauges <- lGauges,
  thresholds <- lThresholds, alerts <- lAlerts, isOn <- lIsOn, tasks <- lTasks,
  current <- lCurrent, fresh <- lFresh

Feed == INSTANCE Feeds WITH
  Keys <- CacheKeys, MaxClock <- MaxTime, timeOf <- fTimeOf, buffer <- fBuffer, lastTick <- fLastTick,
  bars <- fBars, flushed <- fFlushed, stored <- fStored, clock <- fClock,
  streaming <- fStreaming, streams <- fStreams, newest <- fNewest, halting <- fHalting,
  crossed <- fCrossed, waiting <- fWaiting, emitted <- fEmitted, lost <- fLost, sent <- fSent

Live == INSTANCE LiveMaintenance WITH
  engineOn <- vEngineOn, starting <- vStarting, stopping <- vStopping, linked <- vLinked,
  health <- vHealth, checker <- vChecker, tries <- vTries, shut <- vShut,
  adapterUp <- vAdapterUp, reachable <- vReachable, pending <- vPending, local <- vLocal,
  remote <- vRemote, dropped <- vDropped, syncer <- vSyncer, seen <- vSeen, faults <- vFaults,
  begun <- vBegun

Ind == INSTANCE Indicators WITH
  Data <- Series, HashOf <- SeriesHash, CacheMax <- CacheSize, specs <- iSpecs,
  byCategory <- iByCategory, results <- iResults, answer <- iAnswer

Test == INSTANCE Backtest WITH
  history <- tHistory, position <- tPosition, strategy <- tStrategy, replayed <- tReplayed,
  heard <- tHeard, ran <- tRan

queueVars == vars
storeVars == <<sPolicy, sDedup, sEntries, sOrder, sExpired, sIndex, sSeen, sTicks, sAdded, sOps>>
coreVars == <<eState, eRunning, eCall, eMade, eTerminated, eLoops, eClockOn, eBusOn, eLate>>
clockVars == <<kNow, kSchedules, kLoop, kOn>>
strategiesVars == <<aKnown, aConfigs, aPhase, aHandlers, aHeard, aStarts>>
pluginsVars == <<pDiscovered, pFactories, pErrors, pInstances, pObject, pMade, pReplaced>>
accountsVars == <<bPolicy, bBooks, bCash, bRealized, bExact, bAgreed, bCalls>>
riskVars == <<rCash, rHeld, rPrice, rAdmitted, rFits, rChecked>>
alertsVars == <<lTime, lSamples, lGauges, lThresholds, lAlerts, lIsOn, lTasks, lCurrent, lFresh>>
barsVars == <<fTimeOf, fBuffer, fLastTick, fBars, fFlushed>>
cacheVars == <<fStored, fClock>>
streamVars == <<fStreaming, fStreams, fNewest, fHalting, fCrossed, fWaiting, fEmitted, fLost,
                fSent>>
liveVars == <<vEngineOn, vStarting, vStopping, vLinked, vHealth, vChecker, vTries, vShut,
              vAdapterUp, vReachable, vPending, vLocal, vRemote, vDropped, vSyncer, vSeen,
              vFaults, vBegun>>
indicatorsVars == <<iSpecs, iByCategory, iResults, iAnswer>>
backtestVars == <<tHistory, tPosition, tStrategy, tReplayed, tHeard, tRan>>
allVars == <<part, queueVars, storeVars, coreVars, clockVars, strategiesVars, pluginsVars,
             accountsVars, riskVars, alertsVars, barsVars, cacheVars, streamVars, liveVars,
             indicatorsVars, backtestVars>>

Parts == {"queue", "store", "core", "clock", "strategies", "plugins", "accounts", "risk",
          "alerts", "bars", "cache", "stream", "live", "indicators", "backtest"}

PlatformInit ==
  /\ part \in Parts
  /\ Init /\ Store!Init /\ Core!Init /\ Clock!Init /\ Algo!Init /\ Plug!Init /\ Books!Init
  /\ Risk!Init /\ Alerts!Init /\ Feed!Init /\ Live!Init /\ Ind!Init /\ Test!Init
  /\ part # "queue" =>
       policy = (CHOOSE p \in Policies : TRUE) /\ capacity = (CHOOSE n \in MaxQueues : TRUE)
  /\ part # "store" =>
       sPolicy = (CHOOSE p \in CachePolicies : TRUE) /\ sDedup = (CHOOSE d \in Dedup : TRUE)
  /\ part # "accounts" => bPolicy = CHOOSE p \in SyncPolicies : TRUE

OthersIdle ==
  /\ UNCHANGED part
  /\ IF part = "queue" THEN TRUE ELSE UNCHANGED queueVars
  /\ IF part = "store" THEN TRUE ELSE UNCHANGED storeVars
  /\ IF part = "core" THEN TRUE ELSE UNCHANGED coreVars
  /\ IF part = "clock" THEN TRUE ELSE UNCHANGED clockVars
  /\ IF part = "strategies" THEN TRUE ELSE UNCHANGED strategiesVars
  /\ IF part = "plugins" THEN TRUE ELSE UNCHANGED pluginsVars
  /\ IF part = "accounts" THEN TRUE ELSE UNCHANGED accountsVars
  /\ IF part = "risk" THEN TRUE ELSE UNCHANGED riskVars
  /\ IF part = "alerts" THEN TRUE ELSE UNCHANGED alertsVars
  /\ IF part = "bars" THEN TRUE ELSE UNCHANGED barsVars
  /\ IF part = "cache" THEN TRUE ELSE UNCHANGED cacheVars
  /\ IF part = "stream" THEN TRUE ELSE UNCHANGED streamVars
  /\ IF part = "live" THEN TRUE ELSE UNCHANGED liveVars
  /\ IF part = "indicators" THEN TRUE ELSE UNCHANGED indicatorsVars
  /\ IF part = "backtest" THEN TRUE ELSE UNCHANGED backtestVars

PlatformNext ==
  \/ part = "queue" /\ Next /\ OthersIdle
  \/ part = "store" /\ Store!Next /\ OthersIdle
  \/ part = "core" /\ Core!Next /\ OthersIdle
  \/ part = "clock" /\ Clock!Next /\ OthersIdle
  \/ part = "strategies" /\ Algo!Next /\ OthersIdle
  \/ part = "plugins" /\ Plug!Next /\ OthersIdle
  \/ part = "accounts" /\ Books!Next /\ OthersIdle
  \/ part = "risk" /\ Risk!Next /\ OthersIdle
  \/ part = "alerts" /\ Alerts!Next /\ OthersIdle
  \/ part = "bars" /\ Feed!NextBars /\ OthersIdle
  \/ part = "cache" /\ Feed!NextCache /\ OthersIdle
  \/ part = "stream" /\ Feed!NextStream /\ OthersIdle
  \/ part = "live" /\ Live!Next /\ OthersIdle
  \/ part = "indicators" /\ Ind!Next /\ OthersIdle
  \/ part = "backtest" /\ Test!Next /\ OthersIdle

\* The consumer of the stream goes on taking what there is and woken producers are
\* resumed; the live engine's health task and its broker calls go on.
QueueGoesOn == part = "queue" /\ (Get \/ \E p \in Producers : Proceed(p)) /\ OthersIdle
HealthGoesOn == part = "live" /\ Live!HealthSteps /\ OthersIdle

PlatformSpec ==
  PlatformInit /\ [][PlatformNext]_allVars /\ WF_allVars(QueueGoesOn) /\ WF_allVars(HealthGoesOn)

-----------------------------------------------------------------------------
\* The part that is explored keeps the shape of its state; the others do not move.
PlatformTypeOK ==
  CASE part = "queue" -> TypeOK
    [] part = "store" -> Store!TypeOK
    [] part = "core" -> Core!TypeOK
    [] part = "clock" -> Clock!TypeOK
    [] part = "strategies" -> Algo!TypeOK
    [] part = "plugins" -> Plug!TypeOK
    [] part = "accounts" -> Books!TypeOK
    [] part = "risk" -> Risk!TypeOK
    [] part = "alerts" -> Alerts!TypeOK
    [] part \in {"bars", "cache", "stream"} -> Feed!TypeOK
    [] part = "live" -> Live!TypeOK
    [] part = "indicators" -> Ind!TypeOK
    [] part = "backtest" -> Test!TypeOK

\* Positions and cash agree with fills no larger than what they reduce, and reconciled
\* books with the broker's answer.  The risk limits hold of an order that was booked
\* alone and checked on the safe side; others may break them (position_manager.py,
\* position_sync.py, risk_manager.py).
AccountsBalance ==
  /\ part = "accounts" => Books!BooksBalance /\ Books!ReconciledAgree
  /\ part = "risk" => Risk!LimitsHold

\* What is stored of a stream of data is found again, complete, once and in order:
\* stream cache and its ticks, bars made of ticks, feed cache, cached indicator
\* results and replayed bars.  An index may hold stale keys besides, and a cached
\* indicator result lose its warmup twice.
StoredDataIsExact ==
  /\ part = "store" => Store!EntriesAreFound /\ Store!WindowIsRecent
  /\ part = "bars" => Feed!EveryTickOnce
  /\ part = "cache" => Feed!CacheIsBounded
  /\ part = "indicators" => Ind!LookupsAreSound
  /\ part = "backtest" => Test!EveryBarReplayed

\* However starts, stops, pauses and loads overlap or fail half way, what engine,
\* time keeper, strategies and plugins say of themselves agrees with the loops,
\* schedules, handlers and objects they have: but for the loops of a start that went
\* through while a stop waited, one handler passed over by an emission, and plugins
\* whose own hooks raised.
EngineIsServed ==
  /\ part = "core" => Core!EngineServed /\ Core!StopIsClean
  /\ part = "clock" => Clock!RunsOnTime
  /\ part = "strategies" => Algo!BarsAreHeard
  /\ part = "plugins" => Plug!PluginsAccounted

\* Background loops that sleep, ask and are cancelled leave a true picture: alerts
\* keep their cooldown, a streaming feed loses data at a full buffer only and has its
\* buffer task, unless it was started while a stop waited, and the live engine's
\* pending orders are the open ones; its health, once start has its answer, is that of
\* its link.
LiveStateIsTrue ==
  /\ part = "alerts" => Alerts!AlertsAreTimely
  /\ part = "stream" => Feed!StreamIsServed
  /\ part = "live" => Live!HealthIsTrue /\ Live!OrderSyncIsSound

\* Nobody waits for ever: a producer that backpressure holds back goes on, and a
\* running live engine whose broker can be reached is linked again.
WaitsEnd == ProducersProceed /\ Live!LinkRecovers
=============================================================================
