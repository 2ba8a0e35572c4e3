--------------------------- MODULE WebSocketFeed ---------------------------
(***************************************************************************)
(* data/websocket_feed.py: one WebSocketConnection, from add_connection to *)
(* remove_connection of the WebSocketFeedManager that owns it.             *)
(*                                                                         *)
(* The manager's lock lets one of its calls run at a time, so task 0 is    *)
(* whichever call holds that lock.  Task i is the message loop of the i-th *)
(* socket the connection opened.  Tasks meet at the connection's own lock, *)
(* an asyncio.Lock: granted in the order it is asked for, and not to its   *)
(* holder a second time.  An action is the code between two awaits.        *)
(* Message contents, handlers, pings and headers are left out; closing a   *)
(* socket suspends only while it is open.                                  *)
(***************************************************************************)
EXTENDS Naturals, Sequences, SequencesExt, FiniteSets

CONSTANTS
  MaxSockets,     \* bound: sockets the peer lets us open
  MaxReconnect,   \* _max_reconnect_attempts
  ConnectErrors,  \* how opening a socket may fail
  Free            \* the holder of a lock nobody holds

ASSUME WebSocketAssumption ==
  /\ MaxSockets \in Nat \ {0}
  /\ MaxReconnect \in Nat
  /\ ConnectErrors \subseteq {"ConnectionError", "other"}
  /\ Free \notin 0 .. MaxSockets

Sockets == 1 .. MaxSockets
Caller  == 0
Loops   == Sockets
Tasks   == {Caller} \cup Loops
NoSocket == 0

VARIABLES
  state,       \* WebSocketConnection._state
  websocket,   \* _websocket: a socket or NoSocket
  attempts,    \* _reconnect_attempts
  loopTask,    \* _task: the loop created last, 0 for none
  lock,        \* holder of WebSocketConnection._lock
  waiters,     \* tasks queued at it
  socket,      \* per socket: unused, open, dropped by the network, or closed
  pc,          \* per task: the await it is suspended at
  using,       \* per task: the socket it reads, sends on or closes
  op,          \* the manager call that holds the manager's lock, or "none"
  life,        \* the manager's _connections: not yet added, listed, or removed
  subscribed   \* some symbol is subscribed on this connection

lockVars == <<lock, waiters>>
connVars == <<state, websocket, attempts, loopTask>>
managerVars == <<life, subscribed>>
vars == <<connVars, lockVars, socket, pc, using, op, managerVars>>

TypeOK ==
  /\ state \in {"DISCONNECTED", "CONNECTING", "CONNECTED", "RECONNECTING", "ERROR"}
  /\ websocket \in Sockets \cup {NoSocket}
  /\ attempts \in 0 .. MaxReconnect
  /\ loopTask \in Tasks
  /\ lock \in Tasks \cup {Free}
  /\ waiters \in Seq(Tasks)
  /\ socket \in [Sockets -> {"unused", "open", "dropped", "closed"}]
  /\ pc \in [Tasks -> {"idle", "lock", "opening", "new", "reading", "sending",
                       "backoff", "closing", "joining", "shutting", "done"}]
  /\ using \in [Tasks -> Sockets \cup {NoSocket}]
  /\ op \in {"none", "add", "send", "remove"}
  /\ life \in {"new", "listed", "gone"}
  /\ subscribed \in BOOLEAN

Init ==
  /\ state = "DISCONNECTED"
  /\ websocket = NoSocket
  /\ attempts = 0
  /\ loopTask = 0
  /\ lock = Free /\ waiters = <<>>
  /\ socket = [s \in Sockets |-> "unused"]
  /\ pc = [t \in Tasks |-> "idle"]
  /\ using = [t \in Tasks |-> NoSocket]
  /\ op = "none"
  /\ life = "new"
  /\ subscribed = FALSE

At(t, place) == pc' = [pc EXCEPT ![t] = place]

(* A loop ends; a manager call returns and releases the manager's lock.    *)
Return(t) ==
  /\ At(t, IF t = Caller THEN "idle" ELSE "done")
  /\ op' = IF t = Caller THEN "none" ELSE op

LockIsFree == lock = Free /\ waiters = <<>>

-----------------------------------------------------------------------------
(* connect()                                                               *)

ConnectLocked_NoStateCheck(t) ==  \* mutant: connects whatever the state is
  /\ state' = "CONNECTING"
  /\ lock' = t
  /\ At(t, "opening")
  /\ UNCHANGED op

(* Behind `async with self._lock`.                                         *)
ConnectLocked(t) ==
  IF state \in {"CONNECTING", "CONNECTED"}
    THEN /\ lock' = Free
         /\ Return(t)
         /\ UNCHANGED state
    ELSE /\ state' = "CONNECTING"
         /\ lock' = t
         /\ At(t, "opening")
         /\ UNCHANGED op

Connect_Unlocked(t) ==  \* mutant: connect() does not ask for the lock
  /\ ConnectLocked(t)
  /\ UNCHANGED waiters

Connect(t) ==
  IF LockIsFree
    THEN ConnectLocked(t) /\ UNCHANGED waiters
    ELSE /\ waiters' = Append(waiters, t)
         /\ At(t, "lock")
         /\ UNCHANGED <<state, lock, op>>

Granted(t) ==
  /\ lock = Free
  /\ pc[t] = "lock"
  /\ waiters # <<>> /\ Head(waiters) = t
  /\ waiters' = Tail(waiters)

ConnectGranted(t) ==
  /\ Granted(t)
  /\ t = Caller => op # "remove"
  /\ ConnectLocked(t)
  /\ UNCHANGED <<websocket, attempts, loopTask, socket, using, managerVars>>

NextSocket(s) == socket[s] = "unused" /\ \A r \in 1 .. s - 1 : socket[r] # "unused"

(* Tasks whose socket is gone, and loops just created, are ready to run.   *)
Settled ==
  \A t \in Tasks :
    /\ pc[t] # "new"
    /\ pc[t] \in {"reading", "sending", "closing"} => socket[using[t]] = "open"

(* A handshake takes round trips, in which every ready task has its turn.  *)
OpenSucceeds(t) ==
  /\ pc[t] = "opening"
  /\ Settled
  /\ \E s \in Sockets :
       /\ NextSocket(s)
       /\ socket' = [socket EXCEPT ![s] = "open"]
       /\ websocket' = s
       /\ loopTask' = s
       /\ pc' = [pc EXCEPT ![s] = "new", ![t] = IF t = Caller THEN "idle" ELSE "done"]
  /\ state' = "CONNECTED"
  /\ attempts' = 0
  /\ lock' = Free
  /\ op' = IF t = Caller THEN "none" ELSE op
  /\ UNCHANGED <<waiters, using, managerVars>>

(* connect() returned False: add_connection takes the connection out.      *)
Unlist(t) == life' = IF t = Caller /\ op = "add" THEN "gone" ELSE life

OpenFails(t) ==
  /\ pc[t] = "opening"
  /\ "other" \in ConnectErrors
  /\ state' = "ERROR"
  /\ lock' = Free
  /\ Return(t)
  /\ Unlist(t)
  /\ UNCHANGED <<websocket, attempts, loopTask, waiters, socket, using, subscribed>>

OpenRefused_StaysReconnecting(t) ==  \* mutant: no ERROR at the last attempt
  /\ pc[t] = "opening"
  /\ "ConnectionError" \in ConnectErrors
  /\ IF attempts < MaxReconnect
       THEN /\ state' = "RECONNECTING"
            /\ attempts' = attempts + 1
            /\ At(t, "backoff")
            /\ UNCHANGED <<lock, op, life>>
       ELSE /\ state' = "RECONNECTING"
            /\ lock' = Free
            /\ Return(t)
            /\ Unlist(t)
            /\ UNCHANGED attempts
  /\ UNCHANGED <<websocket, loopTask, waiters, socket, using, subscribed>>

(* A ConnectionError goes through _handle_error to _handle_connection_loss *)
(* inside the `async with`: the backoff runs with the lock held.           *)
OpenRefused(t) ==
  /\ pc[t] = "opening"
  /\ "ConnectionError" \in ConnectErrors
  /\ IF attempts < MaxReconnect
       THEN /\ state' = "RECONNECTING"
            /\ attempts' = attempts + 1
            /\ At(t, "backoff")
            /\ UNCHANGED <<lock, op, life>>
       ELSE /\ state' = "ERROR"
            /\ lock' = Free
            /\ Return(t)
            /\ Unlist(t)
            /\ UNCHANGED attempts
  /\ UNCHANGED <<websocket, loopTask, waiters, socket, using, subscribed>>

-----------------------------------------------------------------------------
(* _handle_connection_loss(), reached by a loop or by a failed send        *)

Lose_OffByOne(t) ==  \* mutant: <= in place of <
  /\ IF state = "DISCONNECTED"
       THEN Return(t) /\ UNCHANGED <<state, attempts>>
       ELSE IF attempts <= MaxReconnect
       THEN /\ state' = "RECONNECTING"
            /\ attempts' = attempts + 1
            /\ At(t, "backoff")
            /\ UNCHANGED op
       ELSE /\ state' = "ERROR"
            /\ Return(t)
            /\ UNCHANGED attempts
  /\ UNCHANGED <<websocket, loopTask, lockVars, socket, using, managerVars>>

Lose(t) ==
  /\ IF state = "DISCONNECTED"
       THEN Return(t) /\ UNCHANGED <<state, attempts>>
       ELSE IF attempts < MaxReconnect
       THEN /\ state' = "RECONNECTING"
            /\ attempts' = attempts + 1
            /\ At(t, "backoff")
            /\ UNCHANGED op
       ELSE /\ state' = "ERROR"
            /\ Return(t)
            /\ UNCHANGED attempts
  /\ UNCHANGED <<websocket, loopTask, lockVars, socket, using, managerVars>>

(* The backoff sleep is over: whatever self._websocket is by now is closed *)
(* and forgotten, then connect() is called.                                *)
BackoffEnds(t) ==
  /\ pc[t] = "backoff"
  /\ IF websocket # NoSocket /\ socket[websocket] = "open"
       THEN /\ using' = [using EXCEPT ![t] = websocket]
            /\ At(t, "closing")
            /\ UNCHANGED <<state, websocket, lockVars, op>>
       ELSE /\ websocket' = NoSocket
            /\ Connect(t)
            /\ UNCHANGED using
  /\ UNCHANGED <<attempts, loopTask, socket, managerVars>>

CloseSocket(s) == socket' = [socket EXCEPT ![s] = IF @ = "open" THEN "closed" ELSE @]

CloseEnds(t) ==
  /\ pc[t] = "closing"
  /\ CloseSocket(using[t])
  /\ websocket' = NoSocket
  /\ Connect(t)
  /\ UNCHANGED <<attempts, loopTask, using, managerVars>>

-----------------------------------------------------------------------------
(* _message_loop()                                                         *)

(* `async for message in self._websocket`: None raises, the loop ends.     *)
LoopStarts(i) ==
  /\ pc[i] = "new"
  /\ IF websocket = NoSocket
       THEN Return(i) /\ UNCHANGED using
       ELSE /\ using' = [using EXCEPT ![i] = websocket]
            /\ At(i, "reading")
            /\ UNCHANGED op
  /\ UNCHANGED <<connVars, lockVars, socket, managerVars>>

(* A regular close ends the iteration without an exception.                *)
LoopEnds(i) ==
  /\ pc[i] = "reading"
  /\ socket[using[i]] = "closed"
  /\ Return(i)
  /\ UNCHANGED <<connVars, lockVars, socket, using, managerVars>>

LoopLosesConnection(i) ==
  /\ pc[i] = "reading"
  /\ socket[using[i]] = "dropped"
  /\ Lose(i)

(* The peer or the network ends a socket.                                  *)
PeerEnds(s, how) ==
  /\ socket[s] = "open"
  /\ socket' = [socket EXCEPT ![s] = how]
  /\ UNCHANGED <<connVars, lockVars, pc, using, op, managerVars>>

-----------------------------------------------------------------------------
(* The manager's calls                                                     *)

AddConnection ==
  /\ op = "none" /\ life = "new"
  /\ life' = "listed"
  /\ state' = "CONNECTING"
  /\ lock' = Caller
  /\ At(Caller, "opening")
  /\ op' = "add"
  /\ UNCHANGED <<websocket, attempts, loopTask, waiters, socket, using, subscribed>>

(* send_to_connection and broadcast_to_symbol, past is_connected.          *)
Send ==
  /\ op = "none" /\ life = "listed"
  /\ state = "CONNECTED" /\ websocket # NoSocket
  /\ op' = "send"
  /\ At(Caller, "sending")
  /\ using' = [using EXCEPT ![Caller] = websocket]
  /\ UNCHANGED <<connVars, lockVars, socket, managerVars>>

SendReturns ==
  /\ pc[Caller] = "sending"
  /\ socket[using[Caller]] = "open"
  /\ Return(Caller)
  /\ UNCHANGED <<connVars, lockVars, socket, using, managerVars>>

SendFails ==
  /\ pc[Caller] = "sending"
  /\ socket[using[Caller]] # "open"
  /\ Lose(Caller)

(* subscribe_symbol and unsubscribe_symbol.                                *)
Subscribe(wanted) ==
  /\ op = "none" /\ life = "listed"
  /\ subscribed' = wanted
  /\ UNCHANGED <<connVars, lockVars, socket, pc, using, op, life>>

(* The queue without task t, which is in it at most once.                  *)
Leave(queue, t) ==
  LET places == {j \in 1 .. Len(queue) : queue[j] = t}
  IN IF places = {} THEN queue ELSE RemoveAt(queue, CHOOSE j \in places : TRUE)

(* What remove_connection and shutdown do once disconnect() returned.      *)
Forget ==
  /\ life' = "gone"
  /\ subscribed' = FALSE

CancelLoop_SwallowedInBackoff(rest) ==  \* mutant: the bare except spans the sleep
  /\ waiters' = IF pc[loopTask] = "backoff" THEN Append(rest, loopTask)
                ELSE Leave(rest, loopTask)
  /\ pc' = [pc EXCEPT ![Caller] = "joining",
                      ![loopTask] = IF @ = "backoff" THEN "lock" ELSE "done"]
  /\ UNCHANGED websocket

(* Task.cancel() on the loop, wherever it is suspended, with rest queued   *)
(* at the lock.  A loop that is closing a socket would swallow the         *)
(* cancellation in a bare `except` and go on to connect(); the newest loop *)
(* never is, as nothing is open between its loss and the next connection.  *)
CancelLoop(rest) ==
  LET swallowed == pc[loopTask] = "closing"
  IN /\ waiters' = IF swallowed THEN Append(rest, loopTask)
                   ELSE Leave(rest, loopTask)
     /\ pc' = [pc EXCEPT ![Caller] = "joining",
                         ![loopTask] = IF swallowed THEN "lock" ELSE "done"]
     /\ websocket' = IF swallowed THEN NoSocket ELSE websocket

CloseAndForget ==
  IF websocket # NoSocket /\ socket[websocket] = "open"
    THEN /\ using' = [using EXCEPT ![Caller] = websocket]
         /\ At(Caller, "shutting")
         /\ lock' = Caller
         /\ op' = "remove"
         /\ UNCHANGED <<websocket, managerVars>>
    ELSE /\ websocket' = NoSocket
         /\ lock' = Free
         /\ Return(Caller)
         /\ Forget
         /\ UNCHANGED using

(* disconnect() behind its lock, up to its first await.                    *)
DisconnectLocked(rest) ==
  /\ state' = "DISCONNECTED"
  /\ IF pc[loopTask] = "done"
       THEN CloseAndForget /\ waiters' = rest
       ELSE /\ CancelLoop(rest)
            /\ lock' = Caller
            /\ op' = "remove"
            /\ UNCHANGED <<using, managerVars>>

(* remove_connection and shutdown.                                         *)
RemoveConnection ==
  /\ op = "none" /\ life = "listed"
  /\ IF LockIsFree
       THEN DisconnectLocked(waiters)
       ELSE /\ waiters' = Append(waiters, Caller)
            /\ At(Caller, "lock")
            /\ op' = "remove"
            /\ UNCHANGED <<state, websocket, lock, using, managerVars>>
  /\ UNCHANGED <<attempts, loopTask, socket>>

DisconnectGranted ==
  /\ op = "remove"
  /\ pc[Caller] = "lock" /\ lock = Free
  /\ waiters # <<>> /\ Head(waiters) = Caller
  /\ DisconnectLocked(Tail(waiters))
  /\ UNCHANGED <<attempts, loopTask, socket>>

JoinEnds ==
  /\ pc[Caller] = "joining" /\ pc[loopTask] = "done"
  /\ CloseAndForget
  /\ UNCHANGED <<state, attempts, loopTask, waiters, socket>>

ShutEnds ==
  /\ pc[Caller] = "shutting"
  /\ CloseSocket(using[Caller])
  /\ websocket' = NoSocket
  /\ lock' = Free
  /\ Return(Caller)
  /\ Forget
  /\ UNCHANGED <<state, attempts, loopTask, waiters, using>>

-----------------------------------------------------------------------------
TaskStep(t) ==
  \/ ConnectGranted(t) \/ OpenSucceeds(t) \/ OpenFails(t) \/ OpenRefused(t)
  \/ BackoffEnds(t) \/ CloseEnds(t)

LoopStep(i) ==
  TaskStep(i) \/ LoopStarts(i) \/ LoopEnds(i) \/ LoopLosesConnection(i)

CallStep ==
  TaskStep(Caller) \/ SendReturns \/ SendFails
    \/ DisconnectGranted \/ JoinEnds \/ ShutEnds

Next ==
  \/ CallStep
  \/ \E i \in Loops : LoopStep(i)
  \/ AddConnection \/ Send \/ RemoveConnection
  \/ \E wanted \in BOOLEAN : Subscribe(wanted)
  \/ \E s \in Sockets, how \in {"dropped", "closed"} : PeerEnds(s, how)

(* The event loop runs every ready task, sleeps end, and opening, closing  *)
(* and sending have timeouts of their own.  Nobody has to call the manager *)
(* and no socket has to be lost.                                           *)
Fairness == WF_vars(CallStep) /\ \A i \in Loops : WF_vars(LoopStep(i))

Spec == Init /\ [][Next]_vars
FairSpec == Spec /\ Fairness

-----------------------------------------------------------------------------
(* Properties                                                              *)

(* Never two open sockets for one connection, although several tasks may   *)
(* be reconnecting it at once (the loop and a failed send both handle the  *)
(* same loss) and each of them closes whatever _websocket then is.  It is  *)
(* true because a loss is noticed by all its tasks before the next         *)
(* handshake can end (Settled).                                            *)
OneOpenSocket == Cardinality({s \in Sockets : socket[s] = "open"}) <= 1

(* Symbols are subscribed only on connections the manager still has.       *)
SubscribedIsListed == subscribed => life = "listed"

(* Both: the manager's books and the sockets there are.                    *)
SocketsAreKnown == OneOpenSocket /\ SubscribedIsListed

(* remove_connection and shutdown return with the connection DISCONNECTED, *)
(* whatever losses are being handled while disconnect() awaits the loop    *)
(* and the closing handshake.                                              *)
RemoveEndsDisconnected ==
  [][ op = "remove" /\ op' = "none" => state' = "DISCONNECTED" ]_vars

(* connect() called from inside connect(), to retry a ConnectionError:     *)
(* the task waits for a lock that only it can release.                     *)
WaitsForItself == \E t \in Tasks : lock = t /\ pc[t] = "lock"

(* Every manager call returns and gives the manager's lock back, however   *)
(* losses, backoffs, cancellations and the two locks interleave, unless a  *)
(* task waits for itself: that is the only deadlock.                       *)
CallsReturnOrSelfWait == op # "none" ~> op = "none" \/ WaitsForItself

(* Handling a loss comes to an end: the connection does not stay           *)
(* RECONNECTING with nobody left to reconnect it, except by that deadlock. *)
LossResolves == state = "RECONNECTING" ~> state # "RECONNECTING" \/ WaitsForItself

(* "Real-time streaming with reconnect/backoff": a manager call returns,   *)
(* with the connection or without it.                                      *)
CallsReturn == op # "none" ~> op = "none"
=============================================================================
