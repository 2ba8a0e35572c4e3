----------------------------- MODULE FixSession -----------------------------
(***************************************************************************)
(* protocols/fix_handler.py: a FIXSession and the FIXConnection around it. *)
(*                                                                         *)
(* Tasks of one event loop: a client in start(), whose connect() the       *)
(* monitor later repeats; a task in stop(); a read loop and a heartbeat    *)
(* loop per socket; and the application, which sends at any time.  An      *)
(* action is the code between two awaits that suspend.  writer.drain()     *)
(* suspends only behind a full buffer, which a new socket does not have.   *)
(* A message and the task that dispatches it are one action: the event     *)
(* loop runs that task before it can see the end of the socket.  Message   *)
(* contents, statistics and application handlers are left out.             *)
(***************************************************************************)
EXTENDS Naturals, Sequences, FiniteSets

CONSTANTS
  MaxSockets,   \* bound: sockets that can be opened
  MaxAttempts,  \* config.max_reconnect_attempts
  MaxSends      \* bound: the highest number of a message that is not a logon

ASSUME FixAssumption ==
  /\ MaxSockets \in Nat \ {0}
  /\ MaxAttempts \in Nat \ {0}
  /\ MaxSends \in Nat

Sockets  == 1 .. MaxSockets
NoSocket == 0
Numbers  == 1 .. MaxSends + MaxSockets + 1

VARIABLES
  state,       \* FIXSession._state
  seqOut,      \* _seq_num_out
  conn,        \* _reader and _writer, which are set and cleared together
  running,     \* _running
  tasks,       \* _tasks
  client,      \* FIXConnection: "off", in start(), or with a monitor task
  connecting,  \* where the client is in connect()
  attempt,     \* its attempt, 0 outside connect()
  stop,        \* where the task in stop() is suspended
  at,          \* the index in _tasks that disconnect() awaits
  socket,      \* per socket: unused, open, lost or closed by disconnect()
  reads,       \* per socket: its _read_loop
  source,      \* per read loop: the socket it reads from
  beats,       \* per socket: its _heartbeat_loop
  answered,    \* open sockets on which the peer answered the logon
  written,     \* history: messages written to an open socket
  raced        \* history: a start() and a stop() overlapped

clientVars == <<client, connecting, attempt>>
stopVars   == <<stop, at>>
loopVars   == <<reads, source, beats>>
history    == <<written, raced>>
vars == <<state, seqOut, conn, running, tasks, clientVars, stopVars, socket,
          loopVars, answered, history>>

States == {"DISCONNECTED", "CONNECTING", "LOGON_SENT", "LOGGED_ON", "LOGOUT_SENT",
           "CLOSING"}
Messages == [socket : Sockets, n : Numbers, type : {"logon", "logout", "other"}]

TypeOK ==
  /\ state \in States
  /\ seqOut \in Numbers
  /\ conn \in Sockets \cup {NoSocket}
  /\ running \in BOOLEAN /\ raced \in BOOLEAN
  /\ tasks \in Seq({"read", "beat"} \X Sockets)
  /\ client \in {"off", "starting", "monitoring"}
  /\ connecting \in {"no", "opening", "retry"}
  /\ attempt \in 0 .. MaxAttempts
  /\ stop \in {"idle", "joined", "draining", "cancelling", "closing"}
  /\ at \in 0 .. 2 * MaxSockets
  /\ socket \in [Sockets -> {"unused", "open", "lost", "closed"}]
  /\ reads \in [Sockets -> {"none", "reading", "cancelled", "done"}]
  /\ source \in [Sockets -> Sockets]
  /\ beats \in [Sockets -> {"none", "sleeping", "done"}]
  /\ answered \in SUBSET Sockets
  /\ written \in SUBSET Messages

Init ==
  /\ state = "DISCONNECTED"
  /\ seqOut = 1
  /\ conn = NoSocket
  /\ running = FALSE
  /\ tasks = <<>>
  /\ client = "off" /\ connecting = "no" /\ attempt = 0
  /\ stop = "idle" /\ at = 0
  /\ socket = [s \in Sockets |-> "unused"]
  /\ reads = [s \in Sockets |-> "none"]
  /\ source = [s \in Sockets |-> s]
  /\ beats = [s \in Sockets |-> "none"]
  /\ answered = {}
  /\ written = {} /\ raced = FALSE

-----------------------------------------------------------------------------
(* Sending                                                                 *)

(* What a new message adds to the wire; without a writer _send_raw raises. *)
OnWire(s, type) ==
  IF s # NoSocket /\ socket[s] = "open"
    THEN {[socket |-> s, n |-> seqOut, type |-> type]} ELSE {}

Number_Again ==  \* mutant: the number is used without being consumed
  /\ seqOut <= MaxSends
  /\ written' = written \cup OnWire(conn, "other")
  /\ UNCHANGED seqOut

(* send(): number, increment and write without a suspension in between;    *)
(* the number is consumed also when there is no writer.                    *)
Number ==
  /\ seqOut <= MaxSends
  /\ seqOut' = seqOut + 1
  /\ written' = written \cup OnWire(conn, "other")

Send ==
  /\ Number
  /\ UNCHANGED <<state, conn, running, tasks, clientVars, stopVars, socket, loopVars,
                 answered, raced>>

(* _heartbeat_loop wakes up.                                               *)
BeatWakes(i) ==
  /\ beats[i] = "sleeping"
  /\ IF state = "LOGGED_ON" THEN Number ELSE UNCHANGED <<seqOut, written>>
  /\ beats' = [beats EXCEPT ![i] = IF running THEN @ ELSE "done"]
  /\ UNCHANGED <<state, conn, running, tasks, clientVars, stopVars, socket, reads,
                 source, answered, raced>>

-----------------------------------------------------------------------------
(* FIXConnection.start(), the monitor, and connect()                       *)

Start ==
  /\ client = "off"
  /\ IF state = "DISCONNECTED"
       THEN /\ client' = "starting"
            /\ state' = "CONNECTING"
            /\ connecting' = "opening"
            /\ attempt' = 1
       ELSE /\ client' = "monitoring"
            /\ UNCHANGED <<state, connecting, attempt>>
  /\ raced' = (raced \/ stop # "idle")
  /\ UNCHANGED <<seqOut, conn, running, tasks, stopVars, socket, loopVars, answered,
                 written>>

(* The monitor looks every five seconds, and for DISCONNECTED only.        *)
MonitorWakes ==
  /\ client = "monitoring" /\ connecting = "no"
  /\ state = "DISCONNECTED"
  /\ state' = "CONNECTING"
  /\ connecting' = "opening"
  /\ attempt' = 1
  /\ UNCHANGED <<seqOut, conn, running, tasks, client, stopVars, socket, loopVars,
                 answered, history>>

NextSocket(s) == socket[s] = "unused" /\ \A r \in 1 .. s - 1 : socket[r] # "unused"

(* Both loops are created, then the logon is written; how says whether the *)
(* socket is lost by then, in which case _send_logon raises.               *)
NewSession_NewList(s, how) ==  \* mutant: _tasks is replaced, not extended
  /\ socket' = [socket EXCEPT ![s] = how]
  /\ conn' = s
  /\ running' = TRUE
  /\ tasks' = <<<<"read", s>>, <<"beat", s>>>>
  /\ reads' = [reads EXCEPT ![s] = "reading"]
  /\ beats' = [beats EXCEPT ![s] = "sleeping"]
  /\ seqOut' = seqOut + 1
  /\ UNCHANGED raced

NewSession(s, how) ==
  /\ socket' = [socket EXCEPT ![s] = how]
  /\ conn' = s
  /\ running' = TRUE
  /\ tasks' = tasks \o <<<<"read", s>>, <<"beat", s>>>>
  /\ reads' = [reads EXCEPT ![s] = "reading"]
  /\ beats' = [beats EXCEPT ![s] = "sleeping"]
  /\ seqOut' = seqOut + 1
  /\ UNCHANGED raced

Opened(s) ==
  /\ connecting = "opening"
  /\ NextSocket(s)
  /\ NewSession(s, "open")
  /\ written' = written \cup {[socket |-> s, n |-> seqOut, type |-> "logon"]}
  /\ state' = "LOGON_SENT"
  /\ connecting' = "no" /\ attempt' = 0
  /\ client' = "monitoring"
  /\ UNCHANGED <<stopVars, source, answered>>

(* connect() raises: out of start(), which then creates no monitor, or     *)
(* into the monitor, which carries on.                                     *)
ConnectRaises ==
  /\ connecting' = "no" /\ attempt' = 0
  /\ client' = IF client = "starting" THEN "off" ELSE client

OpenedAndLost(s) ==
  /\ connecting = "opening"
  /\ NextSocket(s)
  /\ NewSession(s, "lost")
  /\ ConnectRaises
  /\ UNCHANGED <<state, stopVars, source, answered, written>>

Refused_OffByOne ==  \* mutant: > in place of >=
  /\ connecting = "opening"
  /\ IF attempt > MaxAttempts
       THEN state' = "DISCONNECTED" /\ ConnectRaises
       ELSE connecting' = "retry" /\ UNCHANGED <<state, client, attempt>>
  /\ UNCHANGED <<seqOut, conn, running, tasks, stopVars, socket, loopVars, answered,
                 history>>

Refused ==
  /\ connecting = "opening"
  /\ IF attempt >= MaxAttempts
       THEN state' = "DISCONNECTED" /\ ConnectRaises
       ELSE connecting' = "retry" /\ UNCHANGED <<state, client, attempt>>
  /\ UNCHANGED <<seqOut, conn, running, tasks, stopVars, socket, loopVars, answered,
                 history>>

Retry ==
  /\ connecting = "retry"
  /\ connecting' = "opening"
  /\ attempt' = attempt + 1
  /\ UNCHANGED <<state, seqOut, conn, running, tasks, client, stopVars, socket,
                 loopVars, answered, history>>

-----------------------------------------------------------------------------
(* _read_loop and _dispatch                                                *)

Reading(i) == reads[i] \in {"reading", "cancelled"}

(* A message from the peer.  A loop that is told to stop, or that finds    *)
(* another one at its reader, ends; the dispatch follows all the same.  A  *)
(* cancelled loop has its last messages dispatched before it notices.      *)
Hear(i, type) ==
  LET clash == \E j \in Sockets \ {i} : reads[j] = "reading" /\ source[j] = conn
      ends  == reads[i] = "reading" /\ (~running \/ conn = NoSocket \/ clash)
  IN /\ Reading(i) /\ socket[source[i]] = "open"
     /\ type = "LOGON" => source[i] \notin answered
     /\ type = "TEST_REQUEST" => source[i] \in answered
     /\ answered' = IF type = "LOGON" THEN answered \cup {source[i]} ELSE answered
     /\ reads' = IF ends THEN [reads EXCEPT ![i] = "done"] ELSE reads
     /\ running' = (running /\ ~(ends /\ clash))
     /\ source' = IF ends \/ reads[i] = "cancelled" THEN source
                  ELSE [source EXCEPT ![i] = conn]
     /\ state' = CASE type = "LOGON"  -> "LOGGED_ON"
                   [] type = "LOGOUT" -> "LOGOUT_SENT"
                   [] OTHER           -> IF ends THEN "DISCONNECTED" ELSE state
     /\ IF type = "TEST_REQUEST" THEN Number ELSE UNCHANGED <<seqOut, written>>
     /\ UNCHANGED <<conn, tasks, clientVars, stopVars, socket, beats, raced>>

ReadEnds_NoTransition(i) ==  \* mutant: the state is left to disconnect()
  /\ reads[i] = "reading" /\ socket[source[i]] # "open"
  /\ reads' = [reads EXCEPT ![i] = "done"]
  /\ running' = FALSE
  /\ UNCHANGED <<state, seqOut, conn, tasks, clientVars, stopVars, socket, source,
                 beats, answered, history>>

(* The end of the stream or an error.                                      *)
ReadEnds(i) ==
  /\ reads[i] = "reading" /\ socket[source[i]] # "open"
  /\ reads' = [reads EXCEPT ![i] = "done"]
  /\ running' = FALSE
  /\ state' = "DISCONNECTED"
  /\ UNCHANGED <<seqOut, conn, tasks, clientVars, stopVars, socket, source, beats,
                 answered, history>>

ReadCancelled(i) ==
  /\ reads[i] = "cancelled"
  /\ reads' = [reads EXCEPT ![i] = "done"]
  /\ state' = "DISCONNECTED"
  /\ UNCHANGED <<seqOut, conn, running, tasks, clientVars, stopVars, socket, source,
                 beats, answered, history>>

PeerCloses(s) ==
  /\ socket[s] = "open"
  /\ socket' = [socket EXCEPT ![s] = "lost"]
  /\ answered' = answered \ {s}
  /\ UNCHANGED <<state, seqOut, conn, running, tasks, clientVars, stopVars, loopVars,
                 history>>

-----------------------------------------------------------------------------
(* FIXConnection.stop() and disconnect()                                   *)

Live(task) ==
  IF task[1] = "read" THEN Reading(task[2]) ELSE beats[task[2]] = "sleeping"

(* cancel(): a heartbeat loop does nothing more, a read loop will.         *)
CancelTask(task) ==
  IF task[1] = "read"
    THEN reads' = [reads EXCEPT ![task[2]] = "cancelled"] /\ UNCHANGED beats
    ELSE beats' = [beats EXCEPT ![task[2]] = "done"] /\ UNCHANGED reads

(* `for task in self._tasks`, from index k on: cancel the next task that   *)
(* is not done and await it.  Tasks appended meanwhile are met as well.    *)
(* After the last one the list is cleared and the writer closed.           *)
Walk_ReadLoopsOnly(k, s) ==  \* mutant: the heartbeat loops are left to notice _running
  LET live == {j \in k .. Len(tasks) : tasks[j][1] = "read" /\ Live(tasks[j])}
  IN IF live # {}
       THEN /\ at' = CHOOSE j \in live : \A l \in live : j <= l
            /\ CancelTask(tasks[at'])
            /\ stop' = "cancelling"
            /\ state' = s
            /\ UNCHANGED <<tasks, conn, socket>>
       ELSE /\ tasks' = <<>>
            /\ at' = 0
            /\ UNCHANGED <<conn, reads, beats>>
            /\ IF conn # NoSocket
                 THEN /\ socket' = [socket EXCEPT ![conn] = "closed"]
                      /\ stop' = "closing"
                      /\ state' = s
                 ELSE /\ stop' = "idle"
                      /\ state' = "DISCONNECTED"
                      /\ UNCHANGED socket

Walk(k, s) ==
  LET live == {j \in k .. Len(tasks) : Live(tasks[j])}
  IN IF live # {}
       THEN /\ at' = CHOOSE j \in live : \A l \in live : j <= l
            /\ CancelTask(tasks[at'])
            /\ stop' = "cancelling"
            /\ state' = s
            /\ UNCHANGED <<tasks, conn, socket>>
       ELSE /\ tasks' = <<>>
            /\ at' = 0
            /\ UNCHANGED <<conn, reads, beats>>
            /\ IF conn # NoSocket
                 THEN /\ socket' = [socket EXCEPT ![conn] = "closed"]
                      /\ stop' = "closing"
                      /\ state' = s
                 ELSE /\ stop' = "idle"
                      /\ state' = "DISCONNECTED"
                      /\ UNCHANGED socket

Hangup == running' = FALSE /\ Walk(1, "CLOSING")

(* The logout takes a number and does not consume it.  Its drain() returns *)
(* at once, suspends, or raises on a lost socket.                          *)
Disconnect ==
  IF state \in {"LOGGED_ON", "LOGON_SENT"}
    THEN /\ written' = written \cup OnWire(conn, "logout")
         /\ \/ conn # NoSocket /\ Hangup
            \/ /\ conn # NoSocket /\ stop' = "draining"
               /\ UNCHANGED <<state, conn, running, tasks, at, socket, reads, beats>>
            \/ /\ conn # NoSocket => socket[conn] # "open"
               /\ stop' = "idle"
               /\ UNCHANGED <<state, conn, running, tasks, at, socket, reads, beats>>
    ELSE Hangup /\ UNCHANGED written

(* stop() first cancels and awaits the monitor, wherever it is.            *)
Stop ==
  /\ stop = "idle" /\ (client # "off" \/ tasks # <<>>)
  /\ IF client = "monitoring"
       THEN /\ client' = "off"
            /\ connecting' = "no" /\ attempt' = 0
            /\ stop' = "joined"
            /\ UNCHANGED <<state, conn, running, tasks, at, socket, reads, beats, written>>
       ELSE Disconnect /\ UNCHANGED clientVars
  /\ raced' = (raced \/ client = "starting")
  /\ UNCHANGED <<seqOut, source, answered>>

MonitorJoined ==
  /\ stop = "joined"
  /\ Disconnect
  /\ UNCHANGED <<seqOut, clientVars, source, answered, raced>>

Drained ==
  /\ stop = "draining"
  /\ Hangup
  /\ UNCHANGED <<seqOut, clientVars, source, answered, history>>

DrainRaises ==
  /\ stop = "draining"
  /\ conn # NoSocket => socket[conn] # "open"
  /\ stop' = "idle"
  /\ UNCHANGED <<state, seqOut, conn, running, tasks, clientVars, at, socket, loopVars,
                 answered, history>>

TaskJoined ==
  /\ stop = "cancelling" /\ ~Live(tasks[at])
  /\ Walk(at + 1, state)
  /\ UNCHANGED <<seqOut, running, clientVars, source, answered, history>>

(* wait_closed() returned; whatever _writer is by now is forgotten.        *)
WriterClosed ==
  /\ stop = "closing"
  /\ conn' = NoSocket
  /\ state' = "DISCONNECTED"
  /\ stop' = "idle"
  /\ UNCHANGED <<seqOut, running, tasks, clientVars, at, socket, loopVars, answered,
                 history>>

-----------------------------------------------------------------------------
Connecting ==
  Refused \/ \E s \in Sockets : Opened(s) \/ OpenedAndLost(s)

Stopping == MonitorJoined \/ Drained \/ DrainRaises \/ TaskJoined \/ WriterClosed

Next ==
  \/ Send
  \/ \E i \in Sockets : \/ BeatWakes(i) \/ ReadEnds(i) \/ ReadCancelled(i)
                        \/ \E type \in {"LOGON", "LOGOUT", "TEST_REQUEST"} : Hear(i, type)
                        \/ PeerCloses(i)
  \/ Start \/ MonitorWakes \/ Connecting \/ Retry
  \/ Stop \/ Stopping

(* Ready tasks run, sleeps end, opening has a timeout.  The peer, the      *)
(* application and the user may do nothing.                                *)
Fairness ==
  /\ WF_vars(MonitorWakes) /\ WF_vars(Connecting) /\ WF_vars(Retry)
  /\ WF_vars(Stopping)
  /\ \A i \in Sockets : WF_vars(ReadEnds(i)) /\ WF_vars(ReadCancelled(i))

Spec == Init /\ [][Next]_vars
FairSpec == Spec /\ Fairness

-----------------------------------------------------------------------------
(* Properties                                                              *)

(* Whoever sends, over reconnections too, every message but a logout goes  *)
(* out with a higher number than all those before it.                      *)
NumbersAscend ==
  [][ \A m \in written' \ written, k \in written :
        m.type # "logout" /\ k.type # "logout" => k.n < m.n ]_vars

(* A session that says LOGGED_ON has a read loop at its socket and a       *)
(* heartbeat loop, unless stop() is under way or once overlapped start().  *)
LoggedOnIsServed ==
  state = "LOGGED_ON" /\ stop = "idle" /\ ~raced =>
    /\ running
    /\ \E i \in Sockets : reads[i] = "reading" /\ source[i] = conn
    /\ \E i \in Sockets : beats[i] = "sleeping"

(* Every loop that is alive is in _tasks, where disconnect() finds it:     *)
(* also those of a connect() that ran while disconnect() was waiting.      *)
LoopsAreKnown ==
  \A i \in Sockets :
    /\ Reading(i) => \E j \in 1 .. Len(tasks) : tasks[j] = <<"read", i>>
    /\ beats[i] = "sleeping" => \E j \in 1 .. Len(tasks) : tasks[j] = <<"beat", i>>

(* Both: no session without its loops, and no loop without its session.    *)
SessionIsServed == LoggedOnIsServed /\ LoopsAreKnown

(* When stop() returns nothing of the session is left, however many        *)
(* connections were lost before, unless a start() overlapped.              *)
StopReturns == stop # "idle" /\ stop' = "idle" /\ tasks' = <<>>
StopEndsAll ==
  [][ StopReturns /\ ~raced' =>
        /\ state' = "DISCONNECTED" /\ conn' = NoSocket /\ client' # "monitoring"
        /\ \A s \in Sockets : /\ ~Reading(s)' /\ beats'[s] # "sleeping"
                              /\ socket'[s] # "open" ]_vars

(* A lost connection is noticed and replaced, or a replacement attempted:  *)
(* no state in which a peer may leave the session hides it from the        *)
(* monitor.                                                                *)
LossIsNoticed ==
  conn # NoSocket /\ client = "monitoring" /\ socket[conn] = "lost"
    ~> state = "CONNECTING" \/ client # "monitoring" \/ raced

(* "sequence number tracking": no number goes out twice on a connection.   *)
NumbersUnique ==
  \A m, k \in written : m.socket = k.socket /\ m.n = k.n => m = k
=============================================================================
