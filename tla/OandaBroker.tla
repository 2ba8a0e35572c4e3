---------------------------- MODULE OandaBroker ----------------------------
\* The OANDA adapter, src/adapters/oanda_broker.py: OandaApiClient (one HTTP
\* session, requests with retry) under OandaBroker (connect, disconnect, submit,
\* cancel, close, and the queries that refresh its caches).
\*
\* An action is the code of one task between two suspending awaits.  The exchange
\* is external: it takes every request it receives as a new one, fills market
\* orders at once and limit orders when it likes.  One account, one instrument.
\* Left out: prices, account figures, candles and pricing (they only read), order
\* types other than MARKET and LIMIT, the callbacks nobody calls.
EXTENDS Integers, Sequences, FiniteSets

CONSTANTS
  Tasks,          \* tasks that use the adapter
  Orders,         \* engine orders
  LimitOrders,    \* those of type LIMIT; the others are MARKET
  Halves,         \* the quantity of each order, in halves of a unit
  RetryAttempts,  \* OandaConfig.retry_attempts
  MaxCalls,       \* bound: calls explored
  MaxSubmits,     \* bound: submit_order calls explored for one order
  MaxFaults       \* bound: requests lost, limited, timed out or answered late

VARIABLES
  connected,  \* OandaBroker._connected
  session,    \* OandaApiClient._session: none, open, or closed and still referenced
  cached,     \* OandaBroker._orders: status by order id
  position,   \* OandaBroker._positions: the signed units cached
  orderId,    \* Order.id as OANDA numbers it, 0 before
  job,        \* where each task is in the adapter
  book,       \* exchange: every order, [order, units, state]
  net,        \* exchange: units held of the instrument
  submits,    \* ghost: submit_order calls that were let through, per order
  calls,      \* bound: calls started
  faults      \* bound: faults so far

client == <<connected, session, cached, position, orderId>>
vars == <<connected, session, cached, position, orderId, job, book, net, submits, calls, faults>>

Ops == {"connect", "disconnect", "submit", "cancel", "close", "account", "positions", "orders"}
Stages == {"account", "positions", "orders", "create", "cancel", "close", "closing"}

Idle == [op |-> "none", stage |-> "none", order |-> 0, id |-> 0, tries |-> 0,
         wire |-> "none", ans |-> "none", body |-> <<>>]

\* int(order.quantity): the fraction is cut off and the side is not looked at, so that
\* every order is sent with the units of a purchase.
SentUnits(o) == Halves[o] \div 2

Init ==
  /\ connected = TRUE /\ session = "open"
  /\ cached = << >> /\ position = 0
  /\ orderId = [o \in Orders |-> 0]
  /\ job = [t \in Tasks |-> Idle]
  /\ book = << >> /\ net = 0
  /\ submits = [o \in Orders |-> 0]
  /\ calls = 0 /\ faults = 0

\* ------------------------------------------------------------ calls are started

Set(t, j) == job' = [job EXCEPT ![t] = j]
Return(t) == Set(t, Idle)

\* The first attempt of _request; without a session it raises at once.
Request(j, stage) ==
  [j EXCEPT !.stage = stage, !.tries = 1, !.body = << >>,
            !.wire = IF session = "open" THEN "out" ELSE "back",
            !.ans = IF session = "open" THEN "none" ELSE "raised"]

Start(t, j, stage) ==
  /\ job[t] = Idle /\ calls < MaxCalls /\ calls' = calls + 1
  /\ Set(t, Request([j EXCEPT !.op = IF stage = "create" THEN "submit" ELSE stage], stage))

\* submit_order up to the POST of a market or limit order.
Submit(t, o) ==
  /\ connected /\ submits[o] < MaxSubmits
  /\ Start(t, [Idle EXCEPT !.order = o], "create")
  /\ submits' = [submits EXCEPT ![o] = @ + 1]
  /\ UNCHANGED <<client, book, net, faults>>

\* cancel_order_by_id, which needs an id and no connection.
CancelById(t, id) ==
  /\ Start(t, [Idle EXCEPT !.id = id], "cancel")
  /\ UNCHANGED <<client, book, net, submits, faults>>

\* close_position, get_account_info, get_positions and get_orders.
Ask(t, stage) ==
  /\ connected
  /\ Start(t, Idle, stage)
  /\ UNCHANGED <<client, book, net, submits, faults>>

\* connect: a session if there is none, then the account.
Connect(t) ==
  /\ job[t] = Idle /\ calls < MaxCalls /\ calls' = calls + 1
  /\ session' = IF session = "none" THEN "open" ELSE session
  /\ Set(t, [Idle EXCEPT !.op = "connect", !.stage = "account", !.tries = 1,
                         !.wire = IF session = "closed" THEN "back" ELSE "out",
                         !.ans = IF session = "closed" THEN "raised" ELSE "none"])
  /\ UNCHANGED <<connected, cached, position, orderId, book, net, submits, faults>>

\* disconnect closes the session, suspends, and then forgets it.
Disconnect(t) ==
  /\ job[t] = Idle /\ calls < MaxCalls /\ calls' = calls + 1
  /\ session' = IF session = "open" THEN "closed" ELSE session
  /\ Set(t, [Idle EXCEPT !.op = "disconnect", !.stage = "closing",
                         !.wire = "back", !.ans = "ok"])
  /\ UNCHANGED <<connected, cached, position, orderId, book, net, submits, faults>>

\* ------------------------------------------------------------ the call goes on

\* The stage after a stage that succeeded, or failed where failure is swallowed.
After(j) ==
  CASE j.op = "connect" /\ j.stage = "account" -> "positions"
    [] j.op = "connect" /\ j.stage = "positions" -> "orders"
    [] j.op = "close" /\ j.stage = "close" -> "positions"
    [] OTHER -> "return"

GoOn(t) ==
  /\ connected' = (connected \/ (job[t].op = "connect" /\ After(job[t]) = "return"))
  /\ IF After(job[t]) = "return" THEN Return(t) ELSE Set(t, Request(job[t], After(job[t])))

\* The answer holds data: the caches take it.
Answered(t) ==
  LET j == job[t]
  IN /\ j.wire = "back" /\ j.ans = "ok" /\ j.stage # "closing"
     /\ cached' =
          CASE j.stage = "orders" -> [id \in {e \in DOMAIN j.body : j.body[e].state = "PENDING"} |-> "PENDING"]
            [] j.stage = "create" -> [id \in DOMAIN cached \union {j.id} |->
                                        IF id = j.id THEN "PENDING" ELSE cached[id]]
            [] j.stage = "cancel" /\ j.id \in DOMAIN cached -> [cached EXCEPT ![j.id] = "CANCELLED"]
            [] OTHER -> cached
     /\ position' = IF j.stage = "positions" THEN j.body ELSE position
     /\ orderId' = IF j.stage = "create" THEN [orderId EXCEPT ![j.order] = j.id] ELSE orderId
     /\ GoOn(t)
     /\ UNCHANGED <<session, book, net, submits, calls, faults>>

\* disconnect resumes: the session is forgotten; the caches stay.
Closed(t) ==
  /\ job[t].wire = "back" /\ job[t].stage = "closing"
  /\ session' = "none" /\ connected' = FALSE
  /\ Return(t)
  /\ UNCHANGED <<cached, position, orderId, book, net, submits, calls, faults>>

\* A call raised: refreshes are logged and the call goes on; others end.
Raise(t) ==
  /\ IF job[t].stage \in {"positions", "orders"} THEN GoOn(t)
     ELSE Return(t) /\ UNCHANGED connected
  /\ UNCHANGED <<session, cached, position, orderId, book, net, submits, calls, faults>>

\* mutant: the last attempt is not recognised
LastAttempt_OffByOne(j) == j.tries > RetryAttempts

\* The attempt numbered retry_attempts is the last.
LastAttempt(j) == j.tries = RetryAttempts

\* The attempt failed.  A ClientError or a 429 answer waits for the next attempt,
\* a ClientError of the last attempt, a timeout and any other exception is raised.
Failed(t) ==
  LET j == job[t]
      again == j.ans = "limited" \/ (j.ans = "failed" /\ ~LastAttempt(j))
  IN /\ j.wire = "back" /\ j.ans \in {"failed", "limited", "timeout", "raised"}
     /\ IF again
        THEN /\ Set(t, [j EXCEPT !.wire = "sleep"])
             /\ UNCHANGED <<client, book, net, submits, calls, faults>>
        ELSE Raise(t)

\* mutant: the attempts are not counted
Wake_NotCounted(t) ==
  /\ job[t].wire = "sleep"
  /\ Set(t, Request(job[t], job[t].stage))
  /\ UNCHANGED <<client, book, net, submits, calls, faults>>

\* The delay of the retry is over: next attempt, or no attempt left.
Wake(t) ==
  LET j == job[t]
  IN /\ j.wire = "sleep"
     /\ IF LastAttempt(j) THEN Raise(t)
        ELSE /\ Set(t, [Request(j, j.stage) EXCEPT !.tries = j.tries + 1])
             /\ UNCHANGED <<client, book, net, submits, calls, faults>>

\* ------------------------------------------------------- network and exchange

Reply(t, ans, body, id) ==
  job' = [job EXCEPT ![t].wire = "back", ![t].ans = ans, ![t].body = body, ![t].id = id]

\* The exchange carries out a request and says whether it could.
Execute(j) ==
  CASE j.stage = "create" /\ SentUnits(j.order) # 0 ->
         /\ book' = Append(book, [order |-> j.order, units |-> SentUnits(j.order),
                                  state |-> IF j.order \in LimitOrders THEN "PENDING" ELSE "FILLED"])
         /\ net' = IF j.order \in LimitOrders THEN net ELSE net + SentUnits(j.order)
    [] j.stage = "cancel" /\ book[j.id].state = "PENDING" ->
         book' = [book EXCEPT ![j.id].state = "CANCELLED"] /\ UNCHANGED net
    [] j.stage = "close" /\ net # 0 -> net' = 0 /\ UNCHANGED book
    [] OTHER -> UNCHANGED <<book, net>>

Can(j) ==
  CASE j.stage = "create" -> SentUnits(j.order) # 0
    [] j.stage = "cancel" -> book[j.id].state = "PENDING"
    [] j.stage = "close" -> net # 0
    [] OTHER -> TRUE

Body(j) ==
  CASE j.stage = "orders" -> book
    [] j.stage = "positions" -> net
    [] OTHER -> << >>

\* A request on its way is served, or a fault hits it before or after it is
\* carried out; when the session has been closed under it, it fails.
Exchange(t) ==
  LET j == job[t]
      id == IF j.stage = "create" THEN Len(book) + 1 ELSE j.id
  IN /\ j.wire = "out"
     /\ \/ /\ session = "open"
           /\ Execute(j)
           /\ IF Can(j) THEN Reply(t, "ok", Body(j), id) ELSE Reply(t, "failed", << >>, j.id)
           /\ UNCHANGED faults
        \/ /\ session # "open"
           /\ Reply(t, "failed", << >>, j.id)
           /\ UNCHANGED <<book, net, faults>>
        \/ /\ faults < MaxFaults /\ faults' = faults + 1
           /\ \/ /\ \E ans \in {"failed", "limited", "timeout"} : Reply(t, ans, << >>, j.id)
                 /\ UNCHANGED <<book, net>>
              \/ /\ \E ans \in {"failed", "timeout"} : Reply(t, ans, << >>, j.id)
                 /\ Execute(j)
     /\ UNCHANGED <<client, submits, calls>>

\* The exchange fills a limit order.
Fill(id) ==
  /\ book[id].state = "PENDING"
  /\ book' = [book EXCEPT ![id].state = "FILLED"] /\ net' = net + book[id].units
  /\ UNCHANGED <<client, job, submits, calls, faults>>

Receive(t) == Answered(t) \/ Closed(t) \/ Failed(t) \/ Wake(t)

Next ==
  \/ \E t \in Tasks :
       \/ \E o \in Orders : Submit(t, o)
       \/ \E id \in 1..Len(book) : CancelById(t, id)
       \/ \E stage \in {"close", "account", "positions", "orders"} : Ask(t, stage)
       \/ Connect(t) \/ Disconnect(t)
       \/ Receive(t) \/ Exchange(t)
  \/ \E id \in 1..Len(book) : Fill(id)

Spec == Init /\ [][Next]_vars

-----------------------------------------------------------------------------
\* The shape of the adapter's and of the exchange's state.
TypeOK ==
  /\ connected \in BOOLEAN /\ session \in {"none", "open", "closed"}
  /\ DOMAIN cached \subseteq 1..Len(book)
  /\ \A id \in DOMAIN cached : cached[id] \in {"PENDING", "CANCELLED"}
  /\ position \in Int /\ net \in Int
  /\ orderId \in [Orders -> 0..Len(book)]
  /\ \A t \in Tasks :
       /\ job[t].op \in Ops \union {"none"} /\ job[t].stage \in Stages \union {"none"}
       /\ job[t].order \in Orders \union {0} /\ job[t].id \in 0..Len(book)
       /\ job[t].tries \in 0..RetryAttempts
       /\ job[t].wire \in {"none", "out", "back", "sleep"}
  /\ \A id \in 1..Len(book) :
       /\ book[id].order \in Orders /\ book[id].units \in Int
       /\ book[id].state \in {"PENDING", "FILLED", "CANCELLED"}
  /\ submits \in [Orders -> 0..MaxSubmits]
  /\ calls \in 0..MaxCalls /\ faults \in 0..MaxFaults

\* A POST is retried without a client id, so the exchange may open several orders
\* for one submit_order; never more than the attempts of a request.
OrdersBounded ==
  \A o \in Orders :
    Cardinality({id \in 1..Len(book) : book[id].order = o}) <= submits[o] * RetryAttempts

\* An order the cache shows as cancelled is cancelled at the exchange, and no
\* order is known under an id the exchange gave to another.
CacheIsTrue ==
  /\ \A id \in DOMAIN cached : cached[id] = "CANCELLED" => book[id].state = "CANCELLED"
  /\ \A o \in Orders : orderId[o] # 0 => book[orderId[o]].order = o
=============================================================================
