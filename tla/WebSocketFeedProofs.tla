------------------------- MODULE WebSocketFeedProofs -------------------------
(***************************************************************************)
(* Proofs about WebSocketFeed, for any number of sockets and of attempts:  *)
(* one socket at a time, subscriptions only on listed connections, and a   *)
(* removal that ends DISCONNECTED.  The argument is on who holds the       *)
(* connection's lock, and on which tasks use the socket that is open.      *)
(***************************************************************************)
EXTENDS WebSocketFeed, SequenceTheorems, FiniteSetTheorems, TLAPS

NoneOpen == \A s \in Sockets : socket[s] # "open"

(* disconnect() has set DISCONNECTED and awaits the loop or the handshake. *)
Leaving == pc[Caller] \in {"joining", "shutting"}

(* Who opens a socket, and who disconnects, holds the lock.                *)
LockInv ==
  /\ \A t \in Tasks : pc[t] = "opening" => lock = t /\ state # "CONNECTED"
  /\ Leaving => lock = Caller /\ op = "remove" /\ state = "DISCONNECTED"

(* Tasks that read, send on or close a socket.                             *)
Uses(t) ==
  \/ pc[t] \in {"reading", "sending", "closing"}
  \/ t = Caller /\ pc[t] = "shutting"

(* An open socket is the current one, no task uses another beside it, and  *)
(* the state leaves CONNECTED only when it is lost or about to be closed.  *)
OpenInv ==
  /\ \A t \in Tasks : Uses(t) => using[t] # NoSocket
  /\ \A s \in Sockets : socket[s] = "open" =>
       /\ websocket = s
       /\ state = "CONNECTED" \/ Leaving
       /\ \A t \in Tasks : Uses(t) => using[t] = s

(* While the newest loop reconnects, nothing is open: it cannot be closing *)
(* a socket when disconnect() cancels it.                                  *)
LastLoopInv ==
  loopTask # 0 =>
    /\ socket[loopTask] # "unused" /\ pc[loopTask] # "closing"
    /\ pc[loopTask] \in {"backoff", "lock", "opening"} => NoneOpen

(* Where the manager's call is, and what it has done to its books.         *)
CallInv ==
  /\ op = "remove" => pc[Caller] = "lock" \/ Leaving
  /\ op = "add" => /\ lock = Caller /\ ~subscribed
                   /\ pc[Caller] \in {"opening", "backoff", "lock", "closing"}
  /\ subscribed \/ op # "none" => life = "listed"
  /\ life = "listed" /\ op # "add" => loopTask # 0
  /\ life = "new" => /\ lock = Free /\ op = "none" /\ NoneOpen
                     /\ \A t \in Tasks : pc[t] = "idle"
  /\ \A i \in Loops : socket[i] = "unused" => pc[i] = "idle"

IInv == TypeOK /\ LockInv /\ OpenInv /\ LastLoopInv /\ CallInv

-----------------------------------------------------------------------------
(* The identities of tasks and sockets.                                    *)
LEMMA Identities ==
  /\ Caller \in Tasks /\ Loops = Sockets /\ Caller = 0
  /\ \A s \in Sockets : s \in Tasks /\ s # Caller /\ s # NoSocket /\ s # 0
  /\ \A t \in Tasks : t # Free /\ (t # Caller => t \in Sockets) /\ (t # 0 => t \in Sockets)
BY WebSocketAssumption DEF Caller, Loops, Tasks, Sockets, NoSocket

(* A queue without one of its tasks is a queue of tasks.                   *)
LEMMA LeaveType ==
  ASSUME NEW queue \in Seq(Tasks), NEW t
  PROVE  Leave(queue, t) \in Seq(Tasks)
<1> DEFINE places == {j \in 1 .. Len(queue) : queue[j] = t}
<1>1. CASE places = {}
  BY <1>1 DEF Leave
<1>2. CASE places # {}
  <2>1. PICK k \in 1 .. Len(queue) : Leave(queue, t) = RemoveAt(queue, k)
    BY <1>2 DEF Leave
  <2>2. SubSeq(queue, 1, k - 1) \in Seq(Tasks)
    <3>1. \A i \in 1 .. k - 1 : queue[i] \in Tasks
      OBVIOUS
    <3>2. QED BY <3>1, SubSeqProperties
  <2>3. SubSeq(queue, k + 1, Len(queue)) \in Seq(Tasks)
    <3>1. \A i \in k + 1 .. Len(queue) : queue[i] \in Tasks
      OBVIOUS
    <3>2. QED BY <3>1, SubSeqProperties
  <2>4. QED BY <2>1, <2>2, <2>3, ConcatProperties DEF RemoveAt
<1>3. QED BY <1>1, <1>2

-----------------------------------------------------------------------------
(* A task without a socket connects, or queues to do so.                   *)
LEMMA ConnectLockedHolds ==
  ASSUME IInv, NEW t \in Tasks, lock = Free, ConnectLocked(t),
         pc[t] \in {"backoff", "closing", "lock"}, t = Caller => op # "remove",
         waiters' \in Seq(Tasks), websocket' \in Sockets \cup {NoSocket},
         socket' \in [Sockets -> {"unused", "open", "dropped", "closed"}],
         \A s \in Sockets : socket[s] = "unused" <=> socket'[s] = "unused",
         UNCHANGED <<attempts, loopTask, using, life, subscribed>>,
         \/ NoneOpen'
         \/ UNCHANGED <<websocket, socket>>
  PROVE  IInv'
<1> USE Identities
<1>0. op # "add" /\ life # "new" /\ ~Leaving
  BY DEF IInv, CallInv, LockInv
<1>1. CASE state \in {"CONNECTING", "CONNECTED"}
  <2>1. /\ lock' = Free /\ UNCHANGED state
        /\ pc' = [pc EXCEPT ![t] = IF t = Caller THEN "idle" ELSE "done"]
        /\ op' = IF t = Caller THEN "none" ELSE op
    BY <1>1 DEF ConnectLocked, Return, At
  <2>2. TypeOK'
    BY <2>1 DEF IInv, TypeOK
  <2>3. LockInv'
    BY <1>0, <2>1 DEF IInv, TypeOK, LockInv, Leaving
  <2>4. OpenInv'
    BY <1>0, <2>1 DEF IInv, TypeOK, OpenInv, Uses, Leaving, NoneOpen
  <2>5. LastLoopInv'
    BY <2>1 DEF IInv, TypeOK, LastLoopInv, NoneOpen
  <2>6. CallInv'
    BY <1>0, <2>1 DEF IInv, TypeOK, CallInv, Leaving
  <2>7. QED BY <2>2, <2>3, <2>4, <2>5, <2>6 DEF IInv
<1>2. CASE state \notin {"CONNECTING", "CONNECTED"}
  <2>1. /\ lock' = t /\ state' = "CONNECTING" /\ UNCHANGED op
        /\ pc' = [pc EXCEPT ![t] = "opening"]
    BY <1>2 DEF ConnectLocked, At
  <2>2. NoneOpen'
    BY <1>0, <1>2 DEF IInv, OpenInv, Uses, NoneOpen
  <2>3. TypeOK'
    BY <2>1 DEF IInv, TypeOK
  <2>4. LockInv'
    BY <1>0, <2>1 DEF IInv, TypeOK, LockInv, Leaving
  <2>5. OpenInv' /\ LastLoopInv'
    BY <1>0, <2>1, <2>2 DEF IInv, TypeOK, OpenInv, Uses, LastLoopInv, NoneOpen
  <2>6. CallInv'
    BY <1>0, <2>1 DEF IInv, TypeOK, CallInv, Leaving
  <2>7. QED BY <2>3, <2>4, <2>5, <2>6 DEF IInv
<1>3. QED BY <1>1, <1>2

LEMMA ReconnectHolds ==
  ASSUME IInv, NEW t \in Tasks, Connect(t), websocket' = NoSocket, NoneOpen',
         pc[t] \in {"backoff", "closing"},
         socket' \in [Sockets -> {"unused", "open", "dropped", "closed"}],
         \A s \in Sockets : socket[s] = "unused" <=> socket'[s] = "unused",
         UNCHANGED <<attempts, loopTask, using, life, subscribed>>
  PROVE  IInv'
<1> USE Identities
<1>1. CASE LockIsFree
  <2>1. t = Caller => op # "remove"
    BY DEF IInv, CallInv, Leaving
  <2>2. ConnectLocked(t) /\ lock = Free /\ waiters' \in Seq(Tasks)
    BY <1>1 DEF Connect, LockIsFree, IInv, TypeOK
  <2>3. websocket' \in Sockets \cup {NoSocket}
    OBVIOUS
  <2>4. QED BY <2>1, <2>2, <2>3, ConnectLockedHolds
<1>2. CASE ~LockIsFree
  <2>1. /\ waiters' = Append(waiters, t) /\ UNCHANGED <<state, lock, op>>
        /\ pc' = [pc EXCEPT ![t] = "lock"]
    BY <1>2 DEF Connect, At
  <2>2. TypeOK'
    BY <2>1 DEF IInv, TypeOK
  <2>3. LockInv'
    BY <2>1 DEF IInv, TypeOK, LockInv, Leaving
  <2>4. OpenInv' /\ LastLoopInv'
    BY <2>1 DEF IInv, TypeOK, OpenInv, Uses, LastLoopInv, NoneOpen
  <2>5. CallInv'
    BY <2>1 DEF IInv, TypeOK, CallInv, Leaving
  <2>6. QED BY <2>2, <2>3, <2>4, <2>5 DEF IInv
<1>3. QED BY <1>1, <1>2

LEMMA ConnectGrantedHolds ==
  ASSUME IInv, NEW t \in Tasks, ConnectGranted(t)
  PROVE  IInv'
<1>1. /\ ConnectLocked(t) /\ lock = Free /\ pc[t] = "lock"
      /\ t = Caller => op # "remove"
      /\ waiters # <<>> /\ waiters' = Tail(waiters)
      /\ UNCHANGED <<websocket, attempts, loopTask, socket, using, life, subscribed>>
  BY DEF ConnectGranted, Granted, managerVars
<1>2. waiters' \in Seq(Tasks)
  BY <1>1, HeadTailProperties DEF IInv, TypeOK
<1>3. websocket' \in Sockets \cup {NoSocket}
      /\ socket' \in [Sockets -> {"unused", "open", "dropped", "closed"}]
  BY <1>1 DEF IInv, TypeOK
<1>4. QED BY <1>1, <1>2, <1>3, ConnectLockedHolds

LEMMA OpenSucceedsHolds ==
  ASSUME IInv, NEW t \in Tasks, OpenSucceeds(t)
  PROVE  IInv'
<1> USE Identities
<1>1. PICK s \in Sockets :
        /\ socket[s] = "unused"
        /\ socket' = [socket EXCEPT ![s] = "open"]
        /\ websocket' = s /\ loopTask' = s
        /\ pc' = [pc EXCEPT ![s] = "new", ![t] = IF t = Caller THEN "idle" ELSE "done"]
  BY DEF OpenSucceeds, NextSocket
<1>2. /\ pc[t] = "opening" /\ Settled
      /\ state' = "CONNECTED" /\ attempts' = 0 /\ lock' = Free
      /\ op' = IF t = Caller THEN "none" ELSE op
      /\ UNCHANGED <<waiters, using, life, subscribed>>
  BY DEF OpenSucceeds, managerVars
<1>3. lock = t /\ state # "CONNECTED" /\ ~Leaving /\ t # s
  BY <1>1, <1>2 DEF IInv, LockInv, CallInv, Leaving
<1>4. NoneOpen
  BY <1>2, <1>3 DEF IInv, OpenInv, Uses, NoneOpen
<1>5. \A u \in Tasks : ~Uses(u)
  BY <1>2, <1>3, <1>4 DEF Settled, NoneOpen, IInv, TypeOK, OpenInv, Uses, Leaving
<1>6. TypeOK'
  BY <1>1, <1>2, WebSocketAssumption DEF IInv, TypeOK
<1>7. LockInv'
  BY <1>1, <1>2, <1>3 DEF IInv, TypeOK, LockInv, Leaving
<1>8. OpenInv'
  BY <1>1, <1>2, <1>3, <1>4, <1>5 DEF IInv, TypeOK, OpenInv, Uses, NoneOpen
<1>9. LastLoopInv' /\ CallInv'
  BY <1>1, <1>2, <1>3, <1>4 DEF IInv, TypeOK, LastLoopInv, CallInv, Leaving
<1>10. QED BY <1>6, <1>7, <1>8, <1>9 DEF IInv

LEMMA OpenFailsHolds ==
  ASSUME IInv, NEW t \in Tasks, OpenFails(t) \/ OpenRefused(t)
  PROVE  IInv'
<1> USE Identities
<1>1. /\ pc[t] = "opening" /\ UNCHANGED <<websocket, loopTask, waiters, socket, using, subscribed>>
  BY DEF OpenFails, OpenRefused
<1>2. lock = t /\ NoneOpen /\ ~Leaving /\ life # "new"
  BY <1>1 DEF IInv, LockInv, OpenInv, Uses, NoneOpen, CallInv, Leaving
<1>3. CASE /\ state' = "ERROR" /\ lock' = Free /\ Return(t) /\ Unlist(t) /\ UNCHANGED attempts
  <2>1. /\ pc' = [pc EXCEPT ![t] = IF t = Caller THEN "idle" ELSE "done"]
        /\ op' = IF t = Caller THEN "none" ELSE op
        /\ life' = IF t = Caller /\ op = "add" THEN "gone" ELSE life
    BY <1>3 DEF Return, At, Unlist
  <2>2. TypeOK'
    BY <1>1, <1>3, <2>1 DEF IInv, TypeOK
  <2>3. LockInv'
    BY <1>1, <1>2, <1>3, <2>1 DEF IInv, TypeOK, LockInv, Leaving
  <2>4. OpenInv' /\ LastLoopInv'
    BY <1>1, <1>2, <2>1 DEF IInv, TypeOK, OpenInv, Uses, LastLoopInv, NoneOpen
  <2>5. CallInv'
    BY <1>1, <1>2, <1>3, <2>1 DEF IInv, TypeOK, CallInv, Leaving
  <2>6. QED BY <2>2, <2>3, <2>4, <2>5 DEF IInv
<1>4. CASE /\ attempts < MaxReconnect
           /\ state' = "RECONNECTING" /\ attempts' = attempts + 1
           /\ At(t, "backoff") /\ UNCHANGED <<lock, op, life>>
  <2>1. pc' = [pc EXCEPT ![t] = "backoff"]
    BY <1>4 DEF At
  <2>2. TypeOK'
    BY <1>1, <1>4, <2>1, WebSocketAssumption DEF IInv, TypeOK
  <2>3. LockInv'
    BY <1>1, <1>2, <1>4, <2>1 DEF IInv, TypeOK, LockInv, Leaving
  <2>4. OpenInv' /\ LastLoopInv'
    BY <1>1, <1>2, <2>1 DEF IInv, TypeOK, OpenInv, Uses, LastLoopInv, NoneOpen
  <2>5. CallInv'
    BY <1>1, <1>2, <1>4, <2>1 DEF IInv, TypeOK, CallInv, Leaving
  <2>6. QED BY <2>2, <2>3, <2>4, <2>5 DEF IInv
<1>5. QED BY <1>3, <1>4 DEF OpenFails, OpenRefused

-----------------------------------------------------------------------------
(* Who handles a loss used a socket that is gone, so nothing is open.      *)
LEMMA LoseHolds ==
  ASSUME IInv, NEW t \in Tasks, Lose(t), pc[t] \in {"reading", "sending"},
         socket[using[t]] # "open", pc[t] = "sending" => t = Caller
  PROVE  IInv'
<1> USE Identities
<1>1. UNCHANGED <<websocket, loopTask, lock, waiters, socket, using, life, subscribed>>
  BY DEF Lose, lockVars, managerVars
<1>2. NoneOpen /\ life # "new" /\ (t = Caller => op \notin {"add", "remove"} /\ ~Leaving)
  <2>1. NoneOpen
    <3>1. Uses(t)
      BY DEF Uses
    <3>2. ASSUME NEW s \in Sockets, socket[s] = "open" PROVE FALSE
      BY <3>1, <3>2 DEF IInv, OpenInv
    <3>3. QED BY <3>2 DEF NoneOpen
  <2>2. life # "new" /\ (t = Caller => op \notin {"add", "remove"} /\ ~Leaving)
    BY DEF IInv, CallInv, Leaving
  <2>3. QED BY <2>1, <2>2
<1>3. CASE UNCHANGED <<state, attempts>> /\ Return(t)
  <2>1. /\ pc' = [pc EXCEPT ![t] = IF t = Caller THEN "idle" ELSE "done"]
        /\ op' = IF t = Caller THEN "none" ELSE op
    BY <1>3 DEF Return, At
  <2>2. TypeOK'
    BY <1>1, <1>3, <2>1 DEF IInv, TypeOK
  <2>3. LockInv'
    BY <1>1, <1>2, <1>3, <2>1 DEF IInv, TypeOK, LockInv, Leaving
  <2>4. OpenInv' /\ LastLoopInv'
    BY <1>1, <1>2, <2>1 DEF IInv, TypeOK, OpenInv, Uses, LastLoopInv, NoneOpen
  <2>5. CallInv'
    BY <1>1, <1>2, <2>1 DEF IInv, TypeOK, CallInv, Leaving
  <2>6. QED BY <2>2, <2>3, <2>4, <2>5 DEF IInv
<1>4. CASE /\ state # "DISCONNECTED" /\ attempts < MaxReconnect
           /\ state' = "RECONNECTING" /\ attempts' = attempts + 1
           /\ At(t, "backoff") /\ UNCHANGED op
  <2>1. pc' = [pc EXCEPT ![t] = "backoff"]
    BY <1>4 DEF At
  <2>2. TypeOK'
    BY <1>1, <1>4, <2>1, WebSocketAssumption DEF IInv, TypeOK
  <2>3. LockInv'
    BY <1>1, <1>2, <1>4, <2>1 DEF IInv, TypeOK, LockInv, Leaving
  <2>4. OpenInv' /\ LastLoopInv'
    BY <1>1, <1>2, <2>1 DEF IInv, TypeOK, OpenInv, Uses, LastLoopInv, NoneOpen
  <2>5. CallInv'
    BY <1>1, <1>2, <1>4, <2>1 DEF IInv, TypeOK, CallInv, Leaving
  <2>6. QED BY <2>2, <2>3, <2>4, <2>5 DEF IInv
<1>5. CASE state # "DISCONNECTED" /\ state' = "ERROR" /\ Return(t) /\ UNCHANGED attempts
  <2>1. /\ pc' = [pc EXCEPT ![t] = IF t = Caller THEN "idle" ELSE "done"]
        /\ op' = IF t = Caller THEN "none" ELSE op
    BY <1>5 DEF Return, At
  <2>2. TypeOK'
    BY <1>1, <1>5, <2>1 DEF IInv, TypeOK
  <2>3. LockInv'
    BY <1>1, <1>2, <1>5, <2>1 DEF IInv, TypeOK, LockInv, Leaving
  <2>4. OpenInv' /\ LastLoopInv'
    BY <1>1, <1>2, <2>1 DEF IInv, TypeOK, OpenInv, Uses, LastLoopInv, NoneOpen
  <2>5. CallInv'
    BY <1>1, <1>2, <2>1 DEF IInv, TypeOK, CallInv, Leaving
  <2>6. QED BY <2>2, <2>3, <2>4, <2>5 DEF IInv
<1>6. QED BY <1>3, <1>4, <1>5 DEF Lose

LEMMA BackoffEndsHolds ==
  ASSUME IInv, NEW t \in Tasks, BackoffEnds(t)
  PROVE  IInv'
<1> USE Identities
<1>1. pc[t] = "backoff" /\ UNCHANGED <<attempts, loopTask, socket, life, subscribed>>
  BY DEF BackoffEnds, managerVars
<1>2. CASE websocket # NoSocket /\ socket[websocket] = "open"
  <2>1. /\ using' = [using EXCEPT ![t] = websocket] /\ pc' = [pc EXCEPT ![t] = "closing"]
        /\ UNCHANGED <<state, websocket, lock, waiters, op>>
    BY <1>2 DEF BackoffEnds, At, lockVars
  <2>2. t # loopTask
    BY <1>1, <1>2 DEF IInv, TypeOK, LastLoopInv, NoneOpen
  <2>3. TypeOK'
    BY <1>1, <2>1 DEF IInv, TypeOK
  <2>4. LockInv' /\ CallInv'
    BY <1>1, <2>1 DEF IInv, TypeOK, LockInv, CallInv, Leaving, NoneOpen
  <2>5. OpenInv' /\ LastLoopInv'
    BY <1>1, <1>2, <2>1, <2>2 DEF IInv, TypeOK, OpenInv, Uses, LastLoopInv, Leaving, NoneOpen
  <2>6. QED BY <2>3, <2>4, <2>5 DEF IInv
<1>3. CASE ~(websocket # NoSocket /\ socket[websocket] = "open")
  <2>1. websocket' = NoSocket /\ Connect(t) /\ UNCHANGED using
    BY <1>3 DEF BackoffEnds
  <2>2. NoneOpen'
    BY <1>1, <1>3 DEF IInv, OpenInv, Uses, NoneOpen
  <2>3. socket' \in [Sockets -> {"unused", "open", "dropped", "closed"}]
    BY <1>1 DEF IInv, TypeOK
  <2>4. QED BY <1>1, <2>1, <2>2, <2>3, ReconnectHolds
<1>4. QED BY <1>2, <1>3

LEMMA CloseEndsHolds ==
  ASSUME IInv, NEW t \in Tasks, CloseEnds(t)
  PROVE  IInv'
<1> USE Identities
<1>1. /\ pc[t] = "closing" /\ websocket' = NoSocket /\ Connect(t)
      /\ socket' = [socket EXCEPT ![using[t]] = IF @ = "open" THEN "closed" ELSE @]
      /\ UNCHANGED <<attempts, loopTask, using, life, subscribed>>
  BY DEF CloseEnds, CloseSocket, managerVars
<1>2. NoneOpen'
  BY <1>1 DEF IInv, TypeOK, OpenInv, Uses, NoneOpen
<1>3. socket' \in [Sockets -> {"unused", "open", "dropped", "closed"}]
      /\ \A s \in Sockets : socket[s] = "unused" <=> socket'[s] = "unused"
  BY <1>1 DEF IInv, TypeOK
<1>4. QED BY <1>1, <1>2, <1>3, ReconnectHolds

-----------------------------------------------------------------------------
LEMMA LoopHolds ==
  ASSUME IInv, NEW i \in Loops, LoopStarts(i) \/ LoopEnds(i)
  PROVE  IInv'
<1> USE Identities
<1>1. /\ i \in Tasks /\ i # Caller /\ pc[i] \in {"new", "reading"}
      /\ UNCHANGED <<state, websocket, attempts, loopTask, lock, waiters, socket, op, life, subscribed>>
  BY DEF LoopStarts, LoopEnds, Return, connVars, lockVars, managerVars
<1>2. \/ pc' = [pc EXCEPT ![i] = "done"] /\ UNCHANGED using
      \/ /\ websocket # NoSocket /\ using' = [using EXCEPT ![i] = websocket]
         /\ pc' = [pc EXCEPT ![i] = "reading"]
  BY <1>1 DEF LoopStarts, LoopEnds, Return, At
<1>3. TypeOK'
  BY <1>1, <1>2 DEF IInv, TypeOK
<1>4. LockInv' /\ LastLoopInv'
  BY <1>1, <1>2 DEF IInv, TypeOK, LockInv, LastLoopInv, Leaving, NoneOpen
<1>5. OpenInv'
  BY <1>1, <1>2 DEF IInv, TypeOK, OpenInv, Uses, Leaving
<1>6. CallInv'
  BY <1>1, <1>2 DEF IInv, TypeOK, CallInv, Leaving, NoneOpen
<1>7. QED BY <1>3, <1>4, <1>5, <1>6 DEF IInv

LEMMA PeerEndsHolds ==
  ASSUME IInv, NEW s \in Sockets, NEW how \in {"dropped", "closed"}, PeerEnds(s, how)
  PROVE  IInv'
<1> USE Identities DEF PeerEnds, connVars, lockVars, managerVars
<1>1. TypeOK'
  BY DEF IInv, TypeOK
<1>2. LockInv' /\ OpenInv'
  BY DEF IInv, TypeOK, LockInv, OpenInv, Uses, Leaving
<1>3. LastLoopInv' /\ CallInv'
  BY DEF IInv, TypeOK, LastLoopInv, CallInv, Leaving, NoneOpen
<1>4. QED BY <1>1, <1>2, <1>3 DEF IInv

-----------------------------------------------------------------------------
(* The manager's calls                                                     *)
LEMMA AddConnectionHolds == ASSUME IInv, AddConnection PROVE IInv'
<1> USE Identities
<1>1. /\ life = "new" /\ life' = "listed" /\ state' = "CONNECTING" /\ lock' = Caller
      /\ pc' = [pc EXCEPT ![Caller] = "opening"] /\ op' = "add"
      /\ UNCHANGED <<websocket, attempts, loopTask, waiters, socket, using, subscribed>>
  BY DEF AddConnection, At
<1>2. NoneOpen /\ ~subscribed /\ \A t \in Tasks : pc[t] = "idle"
  BY <1>1 DEF IInv, CallInv
<1>3. TypeOK'
  BY <1>1 DEF IInv, TypeOK
<1>4. LockInv' /\ OpenInv' /\ LastLoopInv'
  BY <1>1, <1>2 DEF IInv, TypeOK, LockInv, OpenInv, Uses, LastLoopInv, Leaving, NoneOpen
<1>5. CallInv'
  BY <1>1, <1>2 DEF IInv, TypeOK, CallInv, Leaving
<1>6. QED BY <1>3, <1>4, <1>5 DEF IInv

LEMMA SendHolds == ASSUME IInv, Send \/ SendReturns PROVE IInv'
<1> USE Identities
<1>1. CASE Send
  <2>1. /\ op = "none" /\ life = "listed" /\ websocket # NoSocket
        /\ op' = "send" /\ pc' = [pc EXCEPT ![Caller] = "sending"]
        /\ using' = [using EXCEPT ![Caller] = websocket]
        /\ UNCHANGED <<state, websocket, attempts, loopTask, lock, waiters, socket, life, subscribed>>
    BY <1>1 DEF Send, At, connVars, lockVars, managerVars
  <2>2. ~Leaving
    BY <2>1 DEF IInv, LockInv
  <2>3. TypeOK'
    BY <2>1 DEF IInv, TypeOK
  <2>4. LockInv' /\ LastLoopInv' /\ CallInv'
    BY <2>1 DEF IInv, TypeOK, LockInv, LastLoopInv, CallInv, Leaving, NoneOpen
  <2>5. OpenInv'
    BY <2>1, <2>2 DEF IInv, TypeOK, OpenInv, Uses
  <2>6. QED BY <2>3, <2>4, <2>5 DEF IInv
<1>2. CASE SendReturns
  <2>1. /\ pc[Caller] = "sending" /\ pc' = [pc EXCEPT ![Caller] = "idle"] /\ op' = "none"
        /\ UNCHANGED <<state, websocket, attempts, loopTask, lock, waiters, socket, using, life, subscribed>>
    BY <1>2 DEF SendReturns, Return, At, connVars, lockVars, managerVars
  <2>2. op \notin {"add", "remove"}
    BY <2>1 DEF IInv, CallInv, Leaving
  <2>3. TypeOK'
    BY <2>1 DEF IInv, TypeOK
  <2>4. LockInv' /\ LastLoopInv' /\ OpenInv'
    BY <2>1 DEF IInv, TypeOK, LockInv, LastLoopInv, OpenInv, Uses, Leaving, NoneOpen
  <2>5. CallInv'
    BY <2>1, <2>2 DEF IInv, TypeOK, CallInv, NoneOpen
  <2>6. QED BY <2>3, <2>4, <2>5 DEF IInv
<1>3. QED BY <1>1, <1>2

LEMMA SubscribeHolds ==
  ASSUME IInv, NEW wanted \in BOOLEAN, Subscribe(wanted)
  PROVE  IInv'
<1> USE DEF Subscribe, connVars, lockVars
<1>1. TypeOK'
  BY DEF IInv, TypeOK
<1>2. LockInv' /\ OpenInv' /\ LastLoopInv'
  BY DEF IInv, LockInv, OpenInv, Uses, LastLoopInv, Leaving, NoneOpen
<1>3. CallInv'
  BY DEF IInv, CallInv, Leaving, NoneOpen
<1>4. QED BY <1>1, <1>2, <1>3 DEF IInv

(* disconnect() closes the socket, or has none to close and is over.       *)
LEMMA CloseAndForgetHolds ==
  ASSUME IInv, CloseAndForget, state' = "DISCONNECTED", waiters' \in Seq(Tasks),
         op # "add", life = "listed", \A t \in Tasks : t # Caller => pc[t] # "opening",
         UNCHANGED <<attempts, loopTask, socket>>
  PROVE  IInv'
<1> USE Identities
<1>1. CASE websocket # NoSocket /\ socket[websocket] = "open"
  <2>1. /\ using' = [using EXCEPT ![Caller] = websocket]
        /\ pc' = [pc EXCEPT ![Caller] = "shutting"]
        /\ lock' = Caller /\ op' = "remove"
        /\ UNCHANGED <<websocket, life, subscribed>>
    BY <1>1 DEF CloseAndForget, At, managerVars
  <2>2. TypeOK'
    BY <2>1 DEF IInv, TypeOK
  <2>3. LockInv' /\ LastLoopInv' /\ CallInv'
    BY <2>1 DEF IInv, TypeOK, LockInv, LastLoopInv, CallInv, Leaving, NoneOpen
  <2>4. OpenInv'
    BY <1>1, <2>1 DEF IInv, TypeOK, OpenInv, Uses, Leaving
  <2>5. QED BY <2>2, <2>3, <2>4 DEF IInv
<1>2. CASE ~(websocket # NoSocket /\ socket[websocket] = "open")
  <2>1. /\ websocket' = NoSocket /\ lock' = Free
        /\ pc' = [pc EXCEPT ![Caller] = "idle"] /\ op' = "none"
        /\ life' = "gone" /\ subscribed' = FALSE /\ UNCHANGED using
    BY <1>2 DEF CloseAndForget, Return, At, Forget
  <2>2. NoneOpen'
    BY <1>2 DEF IInv, OpenInv, Uses, NoneOpen
  <2>3. TypeOK'
    BY <2>1 DEF IInv, TypeOK
  <2>4. LockInv' /\ LastLoopInv' /\ CallInv'
    BY <2>1, <2>2 DEF IInv, TypeOK, LockInv, LastLoopInv, CallInv, Leaving
  <2>5. OpenInv'
    BY <2>1, <2>2 DEF IInv, TypeOK, OpenInv, Uses, NoneOpen
  <2>6. QED BY <2>3, <2>4, <2>5 DEF IInv
<1>3. QED BY <1>1, <1>2

(* disconnect() behind its lock.                                           *)
LEMMA DisconnectLockedHolds ==
  ASSUME IInv, NEW rest \in Seq(Tasks), DisconnectLocked(rest), lock = Free,
         op # "add", life = "listed", UNCHANGED <<attempts, loopTask, socket>>
  PROVE  IInv'
<1> USE Identities
<1>1. \A t \in Tasks : pc[t] # "opening"
  BY DEF IInv, LockInv
<1>2. CASE pc[loopTask] = "done"
  <2>1. CloseAndForget /\ waiters' = rest /\ state' = "DISCONNECTED"
    BY <1>2 DEF DisconnectLocked
  <2>2. QED BY <1>1, <2>1, CloseAndForgetHolds
<1>3. CASE pc[loopTask] # "done"
  <2>1. loopTask \in Sockets /\ pc[loopTask] # "closing"
    BY DEF IInv, TypeOK, LastLoopInv, CallInv
  <2>2. /\ state' = "DISCONNECTED" /\ lock' = Caller /\ op' = "remove"
        /\ waiters' = Leave(rest, loopTask) /\ UNCHANGED <<websocket, using, life, subscribed>>
        /\ pc' = [pc EXCEPT ![Caller] = "joining", ![loopTask] = "done"]
    BY <1>3, <2>1 DEF DisconnectLocked, CancelLoop, managerVars
  <2>3. TypeOK'
    BY <2>1, <2>2, LeaveType DEF IInv, TypeOK
  <2>4. LockInv' /\ LastLoopInv'
    BY <1>1, <2>1, <2>2 DEF IInv, TypeOK, LockInv, LastLoopInv, Leaving, NoneOpen
  <2>5. OpenInv'
    BY <2>1, <2>2 DEF IInv, TypeOK, OpenInv, Uses, Leaving
  <2>6. CallInv'
    BY <2>1, <2>2 DEF IInv, TypeOK, LastLoopInv, CallInv, Leaving
  <2>7. QED BY <2>3, <2>4, <2>5, <2>6 DEF IInv
<1>4. QED BY <1>2, <1>3

LEMMA RemoveConnectionHolds == ASSUME IInv, RemoveConnection PROVE IInv'
<1> USE Identities
<1>1. op = "none" /\ life = "listed" /\ UNCHANGED <<attempts, loopTask, socket>>
  BY DEF RemoveConnection
<1>2. CASE LockIsFree
  <2>1. DisconnectLocked(waiters) /\ lock = Free /\ waiters \in Seq(Tasks)
    BY <1>2 DEF RemoveConnection, LockIsFree, IInv, TypeOK
  <2>2. QED BY <1>1, <2>1, DisconnectLockedHolds
<1>3. CASE ~LockIsFree
  <2>1. /\ waiters' = Append(waiters, Caller) /\ pc' = [pc EXCEPT ![Caller] = "lock"]
        /\ op' = "remove" /\ UNCHANGED <<state, websocket, lock, using, life, subscribed>>
    BY <1>3 DEF RemoveConnection, At, managerVars
  <2>2. ~Leaving
    BY <1>1 DEF IInv, LockInv
  <2>3. TypeOK'
    BY <1>1, <2>1 DEF IInv, TypeOK
  <2>4. LockInv' /\ LastLoopInv' /\ CallInv'
    BY <1>1, <2>1 DEF IInv, TypeOK, LockInv, LastLoopInv, CallInv, Leaving, NoneOpen
  <2>5. OpenInv'
    BY <1>1, <2>1, <2>2 DEF IInv, TypeOK, OpenInv, Uses
  <2>6. QED BY <2>3, <2>4, <2>5 DEF IInv
<1>4. QED BY <1>2, <1>3

LEMMA DisconnectGrantedHolds ==
  ASSUME IInv, DisconnectGranted
  PROVE  IInv' /\ state' = "DISCONNECTED"
<1>1. /\ op = "remove" /\ lock = Free /\ waiters # <<>> /\ pc[Caller] = "lock"
      /\ DisconnectLocked(Tail(waiters)) /\ UNCHANGED <<attempts, loopTask, socket>>
  BY DEF DisconnectGranted
<1>2. Tail(waiters) \in Seq(Tasks)
  BY <1>1, HeadTailProperties DEF IInv, TypeOK
<1>3. life = "listed"
  BY <1>1 DEF IInv, CallInv, TypeOK
<1>4. QED BY <1>1, <1>2, <1>3, DisconnectLockedHolds DEF DisconnectLocked

LEMMA JoinEndsHolds ==
  ASSUME IInv, JoinEnds
  PROVE  IInv' /\ state' = "DISCONNECTED"
<1>1. /\ pc[Caller] = "joining" /\ CloseAndForget
      /\ UNCHANGED <<state, attempts, loopTask, waiters, socket>>
  BY DEF JoinEnds
<1>2. /\ state = "DISCONNECTED" /\ op = "remove" /\ life = "listed"
      /\ \A t \in Tasks : t # Caller => pc[t] # "opening"
  BY <1>1 DEF IInv, LockInv, CallInv, Leaving
<1>3. waiters' \in Seq(Tasks) /\ state' = "DISCONNECTED"
  BY <1>1, <1>2 DEF IInv, TypeOK
<1>4. QED BY <1>1, <1>2, <1>3, CloseAndForgetHolds

LEMMA ShutEndsHolds ==
  ASSUME IInv, ShutEnds
  PROVE  IInv' /\ state' = "DISCONNECTED"
<1> USE Identities
<1>1. /\ pc[Caller] = "shutting" /\ websocket' = NoSocket /\ lock' = Free
      /\ socket' = [socket EXCEPT ![using[Caller]] = IF @ = "open" THEN "closed" ELSE @]
      /\ pc' = [pc EXCEPT ![Caller] = "idle"] /\ op' = "none"
      /\ life' = "gone" /\ subscribed' = FALSE
      /\ UNCHANGED <<state, attempts, loopTask, waiters, using>>
  BY DEF ShutEnds, CloseSocket, Return, At, Forget
<1>2. /\ state = "DISCONNECTED" /\ \A t \in Tasks : t # Caller => pc[t] # "opening"
  BY <1>1 DEF IInv, LockInv, Leaving
<1>3. NoneOpen'
  BY <1>1 DEF IInv, TypeOK, OpenInv, Uses, NoneOpen
<1>4. TypeOK'
  BY <1>1 DEF IInv, TypeOK
<1>5. LockInv' /\ LastLoopInv'
  BY <1>1, <1>2, <1>3 DEF IInv, TypeOK, LockInv, LastLoopInv, Leaving
<1>6. OpenInv' /\ CallInv'
  BY <1>1, <1>3 DEF IInv, TypeOK, OpenInv, Uses, CallInv, Leaving, NoneOpen
<1>7. QED BY <1>1, <1>2, <1>4, <1>5, <1>6 DEF IInv

-----------------------------------------------------------------------------
LEMMA InitHolds == Init => IInv
<1> SUFFICES ASSUME Init PROVE IInv
  OBVIOUS
<1> USE Identities, WebSocketAssumption DEF Init
<1>1. TypeOK
  <2>1. <<>> \in Seq(Tasks) /\ 0 \in 0 .. MaxReconnect
    OBVIOUS
  <2>2. QED BY <2>1 DEF TypeOK
<1>2. LockInv /\ OpenInv /\ LastLoopInv /\ CallInv
  BY DEF LockInv, OpenInv, Uses, LastLoopInv, CallInv, Leaving, NoneOpen
<1>3. QED BY <1>1, <1>2 DEF IInv

(* A step of a task that connects, of a loop or of the manager's call.     *)
LEMMA TaskStepHolds ==
  ASSUME IInv, NEW t \in Tasks, TaskStep(t)
  PROVE  IInv' /\ (op = "remove" => op' = op)
<1>1. IInv'
  BY ConnectGrantedHolds, OpenSucceedsHolds, OpenFailsHolds, BackoffEndsHolds, CloseEndsHolds
     DEF TaskStep
<1>2. ASSUME op = "remove" PROVE op' = op
  <2>1. t = Caller => pc[t] \notin {"opening", "backoff", "closing"}
    BY <1>2 DEF IInv, CallInv, Leaving
  <2>2. t # Caller
    BY <1>2, <2>1 DEF TaskStep, ConnectGranted, OpenSucceeds, OpenFails, OpenRefused, BackoffEnds, CloseEnds
  <2>3. QED BY <2>2 DEF TaskStep, ConnectGranted, ConnectLocked, Connect, Return,
                        OpenSucceeds, OpenFails, OpenRefused, BackoffEnds, CloseEnds
<1>3. QED BY <1>1, <1>2

LEMMA LoopStepHolds ==
  ASSUME IInv, NEW i \in Loops, LoopStep(i)
  PROVE  IInv' /\ (op = "remove" => op' = op)
<1> USE Identities
<1>1. CASE TaskStep(i)
  BY <1>1, TaskStepHolds
<1>2. CASE LoopStarts(i) \/ LoopEnds(i)
  BY <1>2, LoopHolds DEF LoopStarts, LoopEnds, Return
<1>3. CASE LoopLosesConnection(i)
  <2>1. pc[i] = "reading" /\ socket[using[i]] # "open" /\ Lose(i) /\ i # Caller
    BY <1>3 DEF LoopLosesConnection
  <2>2. QED BY <2>1, LoseHolds DEF Lose, Return
<1>4. QED BY <1>1, <1>2, <1>3 DEF LoopStep

LEMMA CallStepHolds ==
  ASSUME IInv, CallStep
  PROVE  IInv' /\ (op = "remove" /\ op' = "none" => state' = "DISCONNECTED")
<1> USE Identities
<1>1. CASE TaskStep(Caller)
  BY <1>1, TaskStepHolds
<1>2. CASE SendReturns \/ SendFails
  <2>1. op # "remove"
    BY <1>2 DEF SendReturns, SendFails, IInv, CallInv, Leaving
  <2>2. SendFails => IInv'
    BY LoseHolds DEF SendFails
  <2>3. QED BY <1>2, <2>1, <2>2, SendHolds
<1>3. CASE DisconnectGranted \/ JoinEnds \/ ShutEnds
  BY <1>3, DisconnectGrantedHolds, JoinEndsHolds, ShutEndsHolds
<1>4. QED BY <1>1, <1>2, <1>3 DEF CallStep

LEMMA NextHolds ==
  ASSUME IInv, [Next]_vars
  PROVE  IInv' /\ (op = "remove" /\ op' = "none" => state' = "DISCONNECTED")
<1>1. CASE CallStep
  BY <1>1, CallStepHolds
<1>2. ASSUME NEW i \in Loops, LoopStep(i)
      PROVE  IInv' /\ (op = "remove" => op' = op)
  BY <1>2, LoopStepHolds
<1>3. CASE AddConnection \/ Send \/ RemoveConnection
  <2>1. op = "none"
    BY <1>3 DEF AddConnection, Send, RemoveConnection
  <2>2. QED BY <1>3, <2>1, AddConnectionHolds, SendHolds, RemoveConnectionHolds
<1>4. ASSUME NEW wanted \in BOOLEAN, Subscribe(wanted)
      PROVE  IInv' /\ UNCHANGED op
  BY <1>4, SubscribeHolds DEF Subscribe
<1>5. ASSUME NEW s \in Sockets, NEW how \in {"dropped", "closed"}, PeerEnds(s, how)
      PROVE  IInv' /\ UNCHANGED op
  BY <1>5, PeerEndsHolds DEF PeerEnds
<1>6. CASE UNCHANGED vars
  <2>1. IInv'
    BY <1>6 DEF vars, connVars, lockVars, managerVars, IInv, TypeOK, LockInv, OpenInv, Uses,
                LastLoopInv, CallInv, Leaving, NoneOpen
  <2>2. UNCHANGED op
    BY <1>6 DEF vars
  <2>3. QED BY <2>1, <2>2
<1>7. QED BY <1>1, <1>2, <1>3, <1>4, <1>5, <1>6 DEF Next

(* The inductive invariant holds in every reachable state.                 *)
THEOREM Invariance == Spec => []IInv
<1>1. IInv /\ [Next]_vars => IInv'
  BY NextHolds
<1>2. QED BY <1>1, InitHolds, PTL DEF Spec

(* The variables keep their types: reconnection attempts stay within their *)
(* maximum, and only tasks queue at the lock.                              *)
THEOREM TypeCorrect == Spec => []TypeOK
<1>1. QED BY Invariance, PTL DEF IInv

(* A connection never has two open sockets, however its loops, a failed    *)
(* send and disconnect() interleave, and only listed connections have      *)
(* subscriptions.                                                          *)
THEOREM SocketsAlwaysKnown == Spec => []SocketsAreKnown
<1>1. IInv => OneOpenSocket
  <2> SUFFICES ASSUME IInv PROVE OneOpenSocket
    OBVIOUS
  <2> DEFINE open == {s \in Sockets : socket[s] = "open"}
  <2>1. open \subseteq {websocket}
    BY DEF IInv, OpenInv
  <2>2. IsFiniteSet({websocket}) /\ Cardinality({websocket}) = 1
    BY FS_Singleton
  <2>3. Cardinality(open) <= Cardinality({websocket})
    BY <2>1, <2>2, FS_Subset
  <2>4. QED BY <2>2, <2>3 DEF OneOpenSocket
<1>2. IInv => SubscribedIsListed
  BY DEF IInv, CallInv, SubscribedIsListed
<1>3. QED BY Invariance, <1>1, <1>2, PTL DEF SocketsAreKnown

(* The newest loop is never closing a socket, so that disconnect()'s       *)
(* cancellation always reaches it.                                         *)
THEOREM NewestLoopIsCancellable == Spec => [](loopTask # 0 => pc[loopTask] # "closing")
<1>1. QED BY Invariance, PTL DEF IInv, LastLoopInv

(* remove_connection and shutdown return with the connection DISCONNECTED. *)
THEOREM RemoveAlwaysEndsDisconnected == Spec => RemoveEndsDisconnected
<1>1. IInv /\ [Next]_vars =>
        [ op = "remove" /\ op' = "none" => state' = "DISCONNECTED" ]_vars
  BY NextHolds
<1>2. QED BY Invariance, <1>1, PTL DEF Spec, RemoveEndsDisconnected
=============================================================================
