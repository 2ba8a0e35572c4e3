------------------------------ MODULE IgBroker ------------------------------
\* The IG Markets adapter, src/adapters/ig_broker.py: IGApiClient (session
\* tokens, requests with retry, polling for deal confirmations) under IGBroker
\* (submit, cancel, update, close, refresh, connect, disconnect).
\*
\* Several tasks of the event loop may be inside the adapter at once.  An action
\* is the code between two suspending awaits: a task starts a call, the network
\* and the exchange deal with its request (Login, Exchange), and the task goes on
\* with the answer (Receive).  The exchange is external: it holds the session,
\* the deals and the deal references, executes a reference at most once, and may
\* refuse a request or lose it before or after executing it.  The token pair
\* (CST, X-SECURITY-TOKEN) is one number, 0 when either is missing.
\* Left out: the sleeps between attempts and between polls, prices, account figures,
\* epics, logging, the calls that only read market data, and the early returns for
\* an order type IG does not take.
EXTENDS Integers, Sequences, FiniteSets

CONSTANTS
  Tasks,          \* tasks that use the adapter
  Orders,         \* engine orders
  MarketOrders,   \* those of type MARKET; the others are LIMIT or STOP
  BuyOrders,      \* those of side BUY
  Held,           \* the order that has a deal when the exploration starts
  RetryAttempts,  \* IGConfig.retry_attempts
  MaxPolls,       \* max_retries of _wait_for_confirmation
  MaxSubmits,     \* bound: submit_order calls explored for one order, besides Held's first
  MaxCalls,       \* bound: calls explored besides connect
  MaxLogins,      \* bound: sessions the exchange opens
  MaxFaults       \* bound: requests lost or refused, confirmations not ready

ASSUME IgConstants ==
  /\ MarketOrders \subseteq Orders
  /\ BuyOrders \subseteq Orders
  /\ Held \in Orders
  /\ {RetryAttempts, MaxPolls, MaxSubmits, MaxCalls, MaxLogins} \subseteq Nat \ {0}
  /\ MaxFaults \in Nat

VARIABLES
  connected,  \* IGBroker._connected
  token,      \* IGApiClient._cst with _security_token
  positions,  \* IGBroker._positions: the deal ids cached
  working,    \* IGBroker._orders: the deal ids cached
  brokerId,   \* Order.broker_order_id, 0 when None
  job,        \* where each task is in the adapter
  session,    \* exchange: the token it honours, 0 when none
  logins,     \* exchange: sessions opened so far
  deals,      \* exchange: every deal, [order, ref, open]
  refs,       \* exchange: what it answers for each deal reference handed out
  submits,    \* ghost: submit_order calls that were let through, per order
  calls,      \* bound: calls started besides connect
  faults      \* bound: faults so far

client == <<connected, token, positions, working, brokerId>>
exchange == <<session, logins, deals, refs>>
vars == <<connected, token, positions, working, brokerId, job, session, logins,
          deals, refs, submits, calls, faults>>

Ops == {"connect", "disconnect", "submit", "cancel", "update", "close",
        "positions", "orders"}
Stages == {"idle", "accounts", "positions", "orders", "create", "confirm",
           "find", "close", "delete", "logout"}
Wires == {"none", "login", "out", "back"}

Idle == [op |-> "none", stage |-> "idle", order |-> 0, deal |-> 0, ref |-> 0,
         side |-> "none", tries |-> 0, polls |-> 0, wire |-> "none", tok |-> 0,
         ans |-> "none", body |-> {}]

\* What a request may come back with: data, 401, a 4xx answer that
\* categorize_exception calls permanent, any other failure.
Answers == {"ok", "expired", "refused", "failed"}
\* The state of a deal reference: not executed, or the confirmation it has.
Confirmations == {"unknown", "accepted", "rejected"}

Kind(o) == IF o \in MarketOrders THEN "position" ELSE "working"
Open(kind) == {d \in 1..Len(deals) : deals[d].open /\ Kind(deals[d].order) = kind}
\* The direction a close of the order's position must have.
Opposite(o) == IF o \in BuyOrders THEN "SELL" ELSE "BUY"

\* The adapter has connected, and the order Held has been submitted before.
Init ==
  /\ connected = TRUE /\ token = 1
  /\ brokerId = [o \in Orders |-> IF o = Held THEN 1 ELSE 0]
  /\ submits = [o \in Orders |-> IF o = Held THEN 1 ELSE 0]
  /\ positions = IF Held \in MarketOrders THEN {1} ELSE {}
  /\ working = {1} \ positions
  /\ deals = <<[order |-> Held, ref |-> 1, open |-> TRUE]>>
  /\ refs = <<[state |-> "accepted", deal |-> 1]>>
  /\ job = [t \in Tasks |-> Idle]
  /\ session = 1 /\ logins = 1
  /\ calls = 0 /\ faults = 0

\* _request: ensure_authenticated, then the headers are built once, so that every
\* attempt of the request carries the token read here.
Request(j, stage, tok) ==
  [j EXCEPT !.stage = stage, !.tries = 1, !.tok = tok, !.ans = "none", !.body = {},
            !.wire = IF tok = 0 THEN "login" ELSE "out"]

\* _generate_deal_reference: the call's reference, before its request is sent.
NewReference(j) == [j EXCEPT !.ref = Len(refs) + 1]
HandOut == refs' = Append(refs, [state |-> "unknown", deal |-> 0])

\* A call is started by an idle task.
Start(t) == job[t] = Idle /\ calls < MaxCalls /\ calls' = calls + 1

\* Bound on the submit_order calls explored.
Submittable(o) == submits[o] < MaxSubmits + (IF o = Held THEN 1 ELSE 0)

\* submit_order, from its connected check to the POST.
Submit(t, o) ==
  /\ Start(t) /\ connected /\ Submittable(o)
  /\ submits' = [submits EXCEPT ![o] = @ + 1]
  /\ job' = [job EXCEPT ![t] = Request(NewReference([Idle EXCEPT !.op = "submit", !.order = o]),
                                       "create", token)]
  /\ HandOut
  /\ UNCHANGED <<client, session, logins, deals, faults>>

\* cancel_order and update_order, which cancels and then submits again.  A deal
\* cached as a position is closed, any other is deleted as a working order.
Cancel(t, o, op) ==
  /\ Start(t) /\ connected /\ brokerId[o] # 0
  /\ op = "update" => Submittable(o)
  /\ LET j == [Idle EXCEPT !.op = op, !.order = o, !.deal = brokerId[o]]
     IN IF brokerId[o] \in positions
        THEN job' = [job EXCEPT ![t] = Request(j, "find", token)] /\ UNCHANGED refs
        ELSE job' = [job EXCEPT ![t] = Request(NewReference(j), "delete", token)] /\ HandOut
  /\ submits' = IF op = "update" THEN [submits EXCEPT ![o] = @ + 1] ELSE submits
  /\ UNCHANGED <<client, session, logins, deals, faults>>

\* close_position of a symbol: the first cached position for it.
ClosePosition(t, d) ==
  /\ Start(t) /\ connected /\ d \in positions
  /\ job' = [job EXCEPT ![t] =
               Request([Idle EXCEPT !.op = "close", !.deal = d, !.order = deals[d].order],
                       "find", token)]
  /\ UNCHANGED <<client, exchange, submits, faults>>

\* get_positions and get_orders, which refresh the cache before they read it.
Query(t, stage) ==
  /\ Start(t) /\ connected
  /\ job' = [job EXCEPT ![t] = Request([Idle EXCEPT !.op = stage], stage, token)]
  /\ UNCHANGED <<client, exchange, submits, faults>>

\* connect authenticates whatever token it holds; disconnect logs out first.
Connect(t) ==
  /\ job[t] = Idle /\ ~connected /\ logins < MaxLogins
  /\ job' = [job EXCEPT ![t] = Request([Idle EXCEPT !.op = "connect"], "accounts", 0)]
  /\ UNCHANGED <<client, exchange, submits, calls, faults>>

Disconnect(t) ==
  /\ Start(t) /\ connected
  /\ job' = [job EXCEPT ![t] =
               [Request([Idle EXCEPT !.op = "disconnect"], "logout", token) EXCEPT
                  !.wire = IF token = 0 THEN "back" ELSE "out", !.ans = "ok"]]
  /\ UNCHANGED <<client, exchange, submits, faults>>

\* ------------------------------------------------------------ the call goes on

\* The next stage of a call once a stage has succeeded, "return" at its end.
AfterRefresh(op, stage) ==
  CASE stage = "positions" /\ op \in {"connect", "submit", "cancel", "update"} -> "orders"
    [] OTHER -> "return"

\* The call is over.  update_order then submits the order again, whatever became
\* of the cancel, if the adapter is still connected.
Return(t, tok) ==
  IF job[t].op = "update" /\ connected
  THEN /\ job' = [job EXCEPT ![t] =
                    Request(NewReference([Idle EXCEPT !.op = "submit", !.order = job[t].order]),
                            "create", tok)]
       /\ HandOut
  ELSE job' = [job EXCEPT ![t] = Idle] /\ UNCHANGED refs

GoOn(t, j, stage, tok) ==
  IF stage = "return" THEN Return(t, tok)
  ELSE job' = [job EXCEPT ![t] = Request(j, stage, tok)] /\ UNCHANGED refs

\* mutant: a confirmation that never came is taken for an acceptance
PollAgain_Accepts(t, tok) ==
  LET j == job[t]
  IN GoOn(t, [j EXCEPT !.polls = IF j.polls < MaxPolls THEN @ + 1 ELSE @],
          IF j.polls < MaxPolls THEN "confirm" ELSE "positions", tok)

\* _wait_for_confirmation: ask again; after the last attempt the deal is
\* reported REJECTED and the call returns False.
PollAgain(t, tok) ==
  LET j == job[t]
  IN IF j.polls < MaxPolls
     THEN GoOn(t, [j EXCEPT !.polls = @ + 1], "confirm", tok)
     ELSE Return(t, tok)

\* The stage's request raised: submit, cancel, close and connect return False,
\* a refresh is logged and the call goes on, a poll is repeated.  A position that
\* get_position_by_deal_id could not fetch counts as short, unless the failure
\* was an exhausted retry, which it does not catch.
Raise(t, tok, permanent) ==
  LET j == job[t]
  IN CASE j.stage \in {"positions", "orders"} ->
            GoOn(t, j, AfterRefresh(j.op, j.stage), tok)
       [] j.stage = "confirm" -> PollAgain(t, tok)
       [] j.stage = "find" /\ permanent ->
            /\ job' = [job EXCEPT ![t] =
                         Request(NewReference([j EXCEPT !.side = "BUY"]), "close", tok)]
            /\ HandOut
       [] OTHER -> Return(t, tok)

\* The answer of the task's request arrives and holds data.
Answered(t) ==
  LET j == job[t]
      next == AfterRefresh(j.op, j.stage)
  IN /\ j.wire = "back" /\ j.ans = "ok" /\ j.stage # "confirm"
     /\ connected' = CASE j.op = "connect" /\ j.stage = "orders" -> TRUE
                       [] j.stage = "logout" -> FALSE
                       [] OTHER -> connected
     /\ positions' = CASE j.stage = "positions" -> j.body
                       [] j.stage = "logout" -> {}
                       [] OTHER -> positions
     /\ working' = CASE j.stage = "orders" -> j.body
                     [] j.stage = "logout" -> {}
                     [] OTHER -> working
     /\ token' = IF j.stage = "logout" THEN 0 ELSE token
     /\ CASE j.stage \in {"positions", "orders"} -> GoOn(t, j, next, token)
          [] j.stage = "accounts" -> GoOn(t, j, "positions", token)
          [] j.stage = "find" ->
               /\ job' = [job EXCEPT ![t] =
                            Request(NewReference([j EXCEPT !.side = Opposite(j.order)]),
                                    "close", token)]
               /\ HandOut
          [] j.stage \in {"create", "close", "delete"} ->
               GoOn(t, [j EXCEPT !.polls = 1], "confirm", token)
          [] j.stage = "logout" -> job' = [job EXCEPT ![t] = Idle] /\ UNCHANGED refs
     /\ UNCHANGED <<brokerId, session, logins, deals, submits, calls, faults>>

\* The answer of a poll: the confirmation, or nothing yet.
Confirmed(t) ==
  LET j == job[t]
  IN /\ j.wire = "back" /\ j.ans = "ok" /\ j.stage = "confirm"
     /\ IF j.body = {} THEN PollAgain(t, token) /\ UNCHANGED brokerId
        ELSE IF refs[j.ref].state = "accepted"
        THEN /\ GoOn(t, j, "positions", token)
             /\ brokerId' = IF j.op = "submit"
                            THEN [brokerId EXCEPT ![j.order] = refs[j.ref].deal]
                            ELSE brokerId
        ELSE Return(t, token) /\ UNCHANGED brokerId
     /\ UNCHANGED <<connected, token, positions, working, session, logins, deals,
                    submits, calls, faults>>

\* mutant: each attempt of a retried request takes a fresh deal reference
Attempt_NewReference(j) ==
  [j EXCEPT !.tries = @ + 1, !.wire = "out", !.ref = Len(refs) + 1]

\* The next attempt of retry_async: the same headers and the same body.
Attempt(j) == [j EXCEPT !.tries = @ + 1, !.wire = "out"]

\* The request failed.  401 clears the tokens.  A 4xx answer is permanent and
\* raises at once; any other failure is retried with the headers it had, until
\* the attempts are used up.  logout ignores its failure.
Failed(t) ==
  LET j == job[t]
      tok == IF j.ans = "expired" THEN 0 ELSE token
  IN /\ j.wire = "back" /\ j.ans \in {"expired", "refused", "failed"}
     /\ IF j.stage = "logout"
        THEN /\ connected' = FALSE /\ token' = 0
             /\ positions' = {} /\ working' = {}
             /\ job' = [job EXCEPT ![t] = Idle]
             /\ UNCHANGED refs
        ELSE /\ token' = tok
             /\ UNCHANGED <<connected, positions, working>>
             /\ IF j.ans # "refused" /\ j.tries < RetryAttempts
                THEN /\ job' = [job EXCEPT ![t] = Attempt(j)]
                     /\ refs' = IF Attempt(j).ref = j.ref THEN refs
                                ELSE Append(refs, [state |-> "unknown", deal |-> 0])
                ELSE Raise(t, tok, j.ans = "refused")
     /\ UNCHANGED <<brokerId, session, logins, deals, submits, calls, faults>>

\* ------------------------------------------------------- network and exchange

\* authenticate: POST /session.  A failure raises IGAuthenticationError out of
\* the call's _request, or ends connect; beyond MaxLogins every login fails.
Login(t) ==
  /\ job[t].wire = "login"
  /\ \/ /\ logins < MaxLogins
        /\ logins' = logins + 1 /\ session' = logins + 1 /\ token' = logins + 1
        /\ job' = [job EXCEPT ![t].wire = "out", ![t].tok = logins + 1]
        /\ UNCHANGED refs
        /\ UNCHANGED faults
     \/ /\ logins < MaxLogins => faults < MaxFaults
        /\ faults' = IF logins < MaxLogins THEN faults + 1 ELSE faults
        /\ Raise(t, token, TRUE)
        /\ UNCHANGED <<logins, session, token>>
  /\ UNCHANGED <<connected, positions, working, brokerId, deals, submits, calls>>

\* The exchange executes a create, close or delete that carries a reference it
\* has not seen: it accepts or rejects the deal and remembers which.
Execute(j) ==
  \/ /\ refs[j.ref].state # "unknown"
     /\ UNCHANGED <<deals, refs>>
  \/ /\ refs[j.ref].state = "unknown" /\ j.stage = "create"
     /\ deals' = Append(deals, [order |-> j.order, ref |-> j.ref, open |-> TRUE])
     /\ refs' = [refs EXCEPT ![j.ref] = [state |-> "accepted", deal |-> Len(deals) + 1]]
  \/ /\ refs[j.ref].state = "unknown" /\ j.stage \in {"close", "delete"}
     /\ deals[j.deal].open
     /\ j.stage = "close" <=> Kind(deals[j.deal].order) = "position"
     /\ j.stage = "close" => j.side = Opposite(deals[j.deal].order)
     /\ deals' = [deals EXCEPT ![j.deal].open = FALSE]
     /\ refs' = [refs EXCEPT ![j.ref] = [state |-> "accepted", deal |-> j.deal]]
  \/ /\ refs[j.ref].state = "unknown"
     /\ refs' = [refs EXCEPT ![j.ref] = [state |-> "rejected", deal |-> 0]]
     /\ UNCHANGED deals

\* What the exchange sends back for a request that only reads.
Body(j) == CASE j.stage \in {"positions", "find"} -> Open("position")
             [] j.stage = "orders" -> Open("working")
             [] j.stage = "confirm" ->
                  IF refs[j.ref].state = "unknown" THEN {} ELSE {refs[j.ref].deal}
             [] OTHER -> {}

Reply(t, ans, body) == job' = [job EXCEPT ![t].wire = "back", ![t].ans = ans, ![t].body = body]

\* A request on its way is served; or it is refused for its token; or a fault
\* hits it: lost, answered with an error, executed with its answer lost, or a
\* confirmation that is not there yet.
Exchange(t) ==
  LET j == job[t]
      writes == j.stage \in {"create", "close", "delete"}
  IN /\ j.wire = "out"
     /\ \/ /\ j.tok = session
           /\ IF writes THEN Execute(j) ELSE UNCHANGED <<deals, refs>>
           /\ session' = IF j.stage = "logout" THEN 0 ELSE session
           /\ Reply(t, "ok", Body(j))
           /\ UNCHANGED faults
        \/ /\ j.tok # session
           /\ Reply(t, "expired", {})
           /\ UNCHANGED <<deals, refs, session, faults>>
        \/ /\ faults < MaxFaults /\ faults' = faults + 1
           /\ \/ /\ \E ans \in {"refused", "failed"} : Reply(t, ans, {})
                 /\ UNCHANGED <<deals, refs>>
              \/ /\ writes /\ j.tok = session /\ Execute(j) /\ Reply(t, "failed", {})
              \/ /\ j.stage = "confirm" /\ j.tok = session /\ Reply(t, "ok", {})
                 /\ UNCHANGED <<deals, refs>>
           /\ UNCHANGED session
     /\ UNCHANGED <<client, logins, submits, calls>>

\* The exchange ends the session.
Expire ==
  /\ session # 0 /\ faults < MaxFaults
  /\ session' = 0 /\ faults' = faults + 1
  /\ UNCHANGED <<client, job, logins, deals, refs, submits, calls>>

Receive(t) == Answered(t) \/ Confirmed(t) \/ Failed(t)

Next ==
  \/ \E t \in Tasks :
       \/ \E o \in Orders :
            \/ Submit(t, o)
            \/ \E op \in {"cancel", "update"} : Cancel(t, o, op)
       \/ \E d \in positions : ClosePosition(t, d)
       \/ \E stage \in {"positions", "orders"} : Query(t, stage)
       \/ Connect(t) \/ Disconnect(t)
       \/ Receive(t) \/ Login(t) \/ Exchange(t)
  \/ Expire

Spec == Init /\ [][Next]_vars

-----------------------------------------------------------------------------
\* The shape of the adapter's and of the exchange's state.
TypeOK ==
  /\ connected \in BOOLEAN /\ token \in 0..MaxLogins
  /\ positions \subseteq 1..Len(deals) /\ working \subseteq 1..Len(deals)
  /\ brokerId \in [Orders -> 0..Len(deals)]
  /\ \A t \in Tasks :
       /\ job[t].op \in Ops \union {"none"} /\ job[t].stage \in Stages
       /\ job[t].wire \in Wires /\ job[t].ans \in Answers \union {"none"}
       /\ job[t].order \in Orders \union {0} /\ job[t].deal \in 0..Len(deals)
       /\ job[t].ref \in 0..Len(refs) /\ job[t].tok \in 0..MaxLogins
       /\ job[t].tries \in 0..RetryAttempts /\ job[t].polls \in 0..MaxPolls
       /\ job[t] = Idle \/ job[t].wire # "none"
  /\ session \in 0..MaxLogins /\ logins \in 0..MaxLogins
  /\ \A d \in 1..Len(deals) : deals[d].order \in Orders /\ deals[d].ref \in 1..Len(refs)
  /\ \A r \in 1..Len(refs) : refs[r].state \in Confirmations /\ refs[r].deal \in 0..Len(deals)
  /\ submits \in [Orders -> 0..MaxSubmits + 1]
  /\ calls \in 0..MaxCalls /\ faults \in 0..MaxFaults

\* However often a request is retried, and whether or not its answers are lost,
\* the exchange opens at most one deal for each submit_order call: the retries
\* of create_position and create_working_order carry one deal reference.
OneDealPerSubmit ==
  \A o \in Orders : Cardinality({d \in 1..Len(deals) : deals[d].order = o}) <= submits[o]

\* The id an order is tracked under names a deal the exchange opened for it.
TrackedIsDealt == \A o \in Orders : brokerId[o] # 0 => deals[brokerId[o]].order = o

\* A cancel or close goes on to refresh the caches, which is how it ends in True,
\* only if the exchange has closed the deal.
CancelledIsClosed ==
  \A t \in Tasks :
    job[t].op \in {"cancel", "update", "close"} /\ job[t].stage \in {"positions", "orders"}
      => ~deals[job[t].deal].open
=============================================================================
