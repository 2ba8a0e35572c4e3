----------------------------- MODULE CryptoFeed -----------------------------
\* The exchange adapters of src/adapters/crypto_broker.py: CryptoExchangeAdapter
\* (the HTTP session), BinanceAdapter (the websocket loop with its reconnection,
\* klines fetched page by page) and CoinGeckoAdapter (top coins page by page).
\*
\* An action is the code of one task between two suspending awaits: a caller's,
\* or a websocket loop's.  The network is external.  A price or a candle is known
\* by its time, a coin by its rank.  Left out: signing, parsing, the rate limiter's
\* sleeps, and what the message callback does: a loop that is told to stop by a
\* message is modelled, a loop that passes a message on changes no state.
EXTENDS Integers, Sequences, SequencesExt, FiniteSets

CONSTANTS
  Tasks,      \* tasks that use the adapter
  MaxLoops,   \* bound: websocket loops started
  MaxCalls,   \* bound: calls explored besides those that fetch pages
  Width,      \* length of a candle: candle k opens at k * Width
  MaxTime,    \* bound: times of the candles the exchange has
  PageLimit,  \* 1000 klines, or 100 coins, to a page
  Coins       \* coins CoinGecko lists

VARIABLES
  connected,  \* CryptoExchangeAdapter._connected
  session,    \* CryptoExchangeAdapter._session is not None
  running,    \* BinanceAdapter._ws_running
  wsTask,     \* BinanceAdapter._ws_task: the loop it names, 0 when None
  loops,      \* every loop started: where it is, and whether cancel() was called
  caller,     \* what each task waits for: nothing, session.close(), or a loop's end
  fetch,      \* the call that fetches pages
  calls       \* bound: calls started

vars == <<connected, session, running, wsTask, loops, caller, fetch, calls>>
http == <<connected, session>>
ws == <<running, wsTask, loops>>

Places == {"new", "dial", "open", "backoff", "done"}
Alive(l) == loops[l].at # "done"

NoFetch == [kind |-> "none", at |-> "idle", first |-> 0, last |-> 0, cur |-> 0, got |-> << >>]

Init ==
  /\ connected = TRUE /\ session = TRUE
  /\ running = FALSE /\ wsTask = 0 /\ loops = << >>
  /\ caller = [t \in Tasks |-> <<"idle", 0>>]
  /\ fetch = NoFetch /\ calls = 0

Start(t) == caller[t] = <<"idle", 0>> /\ calls < MaxCalls /\ calls' = calls + 1

\* ---------------------------------------------------------------- HTTP session

\* connect makes a session unless there is one.
Connect(t) ==
  /\ Start(t)
  /\ connected' = TRUE /\ session' = TRUE
  /\ UNCHANGED <<ws, caller, fetch>>

\* disconnect closes the session, suspends, and then forgets it.
Disconnect(t) ==
  /\ Start(t)
  /\ connected' = FALSE
  /\ caller' = [caller EXCEPT ![t] = IF session THEN <<"closing", 0>> ELSE @]
  /\ UNCHANGED <<session, ws, fetch>>

Closed(t) ==
  /\ caller[t] = <<"closing", 0>>
  /\ session' = FALSE
  /\ caller' = [caller EXCEPT ![t] = <<"idle", 0>>]
  /\ UNCHANGED <<connected, ws, fetch, calls>>

\* ------------------------------------------------------------------- websocket

\* start_websocket, and subscribe_kline which calls it: nothing while running.
StartWebsocket(t) ==
  /\ Start(t)
  /\ IF running THEN UNCHANGED ws
     ELSE /\ Len(loops) < MaxLoops
          /\ running' = TRUE
          /\ loops' = Append(loops, [at |-> "new", cancelled |-> FALSE])
          /\ wsTask' = Len(loops) + 1
  /\ UNCHANGED <<http, caller, fetch>>

\* stop_websocket: cancel the task that is named, and wait for its end.
StopWebsocket(t) ==
  /\ Start(t)
  /\ running' = FALSE
  /\ IF wsTask # 0 /\ Alive(wsTask)
     THEN /\ loops' = [loops EXCEPT ![wsTask].cancelled = TRUE]
          /\ caller' = [caller EXCEPT ![t] = <<"stopping", wsTask>>]
          /\ UNCHANGED wsTask
     ELSE wsTask' = 0 /\ UNCHANGED <<loops, caller>>
  /\ UNCHANGED <<http, fetch>>

\* The wait is over; whatever task is named now is forgotten.
Stopped(t) ==
  /\ caller[t][1] = "stopping" /\ ~Alive(caller[t][2])
  /\ wsTask' = 0
  /\ caller' = [caller EXCEPT ![t] = <<"idle", 0>>]
  /\ UNCHANGED <<http, running, loops, fetch, calls>>

Goto(l, place) ==
  /\ loops' = [loops EXCEPT ![l].at = place]
  /\ UNCHANGED <<http, running, wsTask, caller, fetch, calls>>

\* The while of _websocket_loop.
Again == IF running THEN "dial" ELSE "done"

Begin(l) == loops[l].at = "new" /\ ~loops[l].cancelled /\ Goto(l, Again)

\* The dial ends: the socket is open, or the exception is logged.
Dial(l) ==
  /\ loops[l].at = "dial" /\ ~loops[l].cancelled
  /\ \E place \in {"open", "backoff"} : Goto(l, place)

\* A message reaches a loop that is not to run any more.
Message(l) == loops[l].at = "open" /\ ~loops[l].cancelled /\ ~running /\ Goto(l, "done")

\* The socket ends: by a close or an error message, after which the loop dials
\* again at once, or by an exception, after which it backs off.
Drop(l) ==
  /\ loops[l].at = "open" /\ ~loops[l].cancelled
  /\ \E place \in {Again, "backoff"} : Goto(l, place)

\* The sleep of the backoff is over.
Wake(l) == loops[l].at = "backoff" /\ ~loops[l].cancelled /\ Goto(l, Again)

\* CancelledError: the loop breaks out of its try, or the backoff's sleep raises.
Cancelled(l) == loops[l].cancelled /\ Alive(l) /\ Goto(l, "done")

\* ----------------------------------------------------------------------- pages

\* What the exchange sends for one page: the first candles of an interval, or the
\* coins whose rank is on the page.
Klines(from, to) ==
  LET start == ((from + Width - 1) \div Width) * Width
      end == IF to < MaxTime THEN to ELSE MaxTime
      all == IF end < start THEN 0 ELSE (end - start) \div Width + 1
  IN [i \in 1..(IF all < PageLimit THEN all ELSE PageLimit) |-> start + (i - 1) * Width]

Ranks(perPage, page) ==
  LET before == (page - 1) * perPage
      left == Coins - before
  IN [i \in 1..(IF left < perPage THEN left ELSE perPage) |-> before + i]

\* A call of get_klines_range, or of get_top_coins.
StartRange(first, last) ==
  /\ fetch.at # "page"
  /\ fetch' = [kind |-> "range", at |-> IF first < last THEN "page" ELSE "done",
               first |-> first, last |-> last, cur |-> first, got |-> << >>]
  /\ UNCHANGED <<http, ws, caller, calls>>

StartTop(limit) ==
  /\ fetch.at # "page"
  /\ fetch' = [kind |-> "top", at |-> IF limit > 0 THEN "page" ELSE "done",
               first |-> 1, last |-> limit, cur |-> 1, got |-> << >>]
  /\ UNCHANGED <<http, ws, caller, calls>>

\* mutant: the next page starts at the close of the last candle's neighbour
RangePage_SkipsOne(f) ==
  LET batch == Klines(f.cur, f.last)
      cur == Last(batch) + 2 * Width
      over == Len(batch) < PageLimit \/ cur >= f.last
  IN IF batch = << >> THEN [f EXCEPT !.at = "done"]
     ELSE [f EXCEPT !.got = @ \o batch, !.cur = cur, !.at = IF over THEN "done" ELSE "page"]

\* One turn of get_klines_range: it ends on an empty or a short page, or when the
\* millisecond after the last candle's close is not before the end.
RangePage(f) ==
  LET batch == Klines(f.cur, f.last)
      cur == Last(batch) + Width
      over == Len(batch) < PageLimit \/ cur >= f.last
  IN IF batch = << >> THEN [f EXCEPT !.at = "done"]
     ELSE [f EXCEPT !.got = @ \o batch, !.cur = cur, !.at = IF over THEN "done" ELSE "page"]

\* One turn of get_top_coins: a shorter last page is a page of that size.
TopPage(f) ==
  LET need == f.last - Len(f.got)
      got == f.got \o Ranks(IF need < PageLimit THEN need ELSE PageLimit, f.cur)
      pages == (f.last + PageLimit - 1) \div PageLimit
  IN [f EXCEPT !.got = got, !.cur = @ + 1,
               !.at = IF Len(got) >= f.last \/ f.cur = pages THEN "done" ELSE "page"]

\* A page arrives, or _get raises: without a session, or for the network.
Page ==
  /\ fetch.at = "page"
  /\ \/ session /\ fetch' = IF fetch.kind = "range" THEN RangePage(fetch) ELSE TopPage(fetch)
     \/ fetch' = [fetch EXCEPT !.at = "raised"]
  /\ UNCHANGED <<http, ws, caller, calls>>

LoopStep(l) == Begin(l) \/ Dial(l) \/ Message(l) \/ Drop(l) \/ Wake(l) \/ Cancelled(l)

Next ==
  \/ \E t \in Tasks : \/ Connect(t) \/ Disconnect(t) \/ Closed(t)
                      \/ StartWebsocket(t) \/ StopWebsocket(t) \/ Stopped(t)
  \/ \E l \in 1..Len(loops) : LoopStep(l)
  \/ \E first, last \in 0..MaxTime : StartRange(first, last)
  \/ \E limit \in 0..Coins : StartTop(limit)
  \/ Page

Spec == Init /\ [][Next]_vars

-----------------------------------------------------------------------------
\* The shape of the adapter's state.
TypeOK ==
  /\ {connected, session, running} \subseteq BOOLEAN
  /\ Len(loops) <= MaxLoops /\ wsTask \in 0..Len(loops)
  /\ \A l \in 1..Len(loops) : loops[l].at \in Places /\ loops[l].cancelled \in BOOLEAN
  /\ \A t \in Tasks : caller[t][1] \in {"idle", "closing", "stopping"} /\ caller[t][2] \in 0..Len(loops)
  /\ fetch.kind \in {"none", "range", "top"} /\ fetch.at \in {"idle", "page", "done", "raised"}
  /\ fetch.cur \in Nat /\ fetch.got \in Seq(Nat)
  /\ calls \in 0..MaxCalls

\* Whatever starts and stops overlap, a feed that is running has a loop that
\* nobody has cancelled, so that it will dial again after every loss.
RunningIsServed == running => \E l \in 1..Len(loops) : Alive(l) /\ ~loops[l].cancelled

\* The ranks of the top coins that arrive in order: all of them on the only page, and
\* those of the full pages otherwise.
InOrder(limit) == IF limit < PageLimit THEN limit ELSE (limit \div PageLimit) * PageLimit

\* A range that was fetched to its end holds every candle that opens before the
\* end of the range, once and in order, and none from outside it.  The top coins
\* are as many as were asked for, none from beyond the limit, and in the order of
\* their ranks on every full page.  The shorter page that ends a longer download is
\* cut by its own size: it repeats ranks, and those after the full pages never
\* arrive (get_top_coins(150) has 51..100 twice and no 101..150).
PagesAreExact ==
  /\ fetch.kind = "range" /\ fetch.at = "done" /\ fetch.first < fetch.last =>
       /\ \A k \in fetch.first..(fetch.last - 1) : k % Width = 0 => Contains(fetch.got, k)
       /\ \A i \in 1..Len(fetch.got) : fetch.got[i] \in fetch.first..fetch.last
       /\ \A i, j \in 1..Len(fetch.got) : i < j => fetch.got[i] < fetch.got[j]
  /\ fetch.kind = "top" /\ fetch.at = "done" =>
       /\ Len(fetch.got) = fetch.last
       /\ \A i \in 1..fetch.last : fetch.got[i] \in 1..fetch.last
       /\ \A i \in 1..InOrder(fetch.last) : fetch.got[i] = i
=============================================================================
