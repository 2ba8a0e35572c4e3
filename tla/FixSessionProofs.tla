-------------------------- MODULE FixSessionProofs --------------------------
(***************************************************************************)
(* Proofs about FixSession, for any number of sockets, attempts and        *)
(* messages.  The numbers ascend because only four kinds of step touch     *)
(* them, and a message that is not a logout consumes its own.  A session   *)
(* is served, and stop() leaves nothing of it, because no start() overlaps *)
(* a stop() that has begun to end the loops one by one.                    *)
(***************************************************************************)
EXTENDS FixSession, SequenceTheorems, WellFoundedInduction, TLAPS

numberVars == <<seqOut, written>>

(* The next number is above that of every message but the logouts.         *)
NextIsHighest ==
  /\ seqOut \in Nat
  /\ \A m \in written : m.n \in Nat /\ (m.type # "logout" => m.n < seqOut)

SendsLogon ==
  /\ seqOut' = seqOut + 1
  /\ \/ UNCHANGED written
     \/ \E s \in Sockets :
          written' = written \cup {[socket |-> s, n |-> seqOut, type |-> "logon"]}

SendsLogout ==
  /\ UNCHANGED seqOut
  /\ written' = written \cup OnWire(conn, "logout")

-----------------------------------------------------------------------------
(* disconnect() sends a logout or nothing.                                 *)
LEMMA DisconnectSends ==
  ASSUME Disconnect
  PROVE  UNCHANGED written \/ written' = written \cup OnWire(conn, "logout")
  BY DEF Disconnect

(* What a step does to the numbers, whichever task takes it.               *)
LEMMA StepSends ==
  ASSUME [Next]_vars
  PROVE  UNCHANGED numberVars \/ Number \/ SendsLogon \/ SendsLogout
<1> USE DEF numberVars, history
<1>1. CASE Send
  BY <1>1 DEF Send
<1>2. ASSUME NEW i \in Sockets, BeatWakes(i)
      PROVE  UNCHANGED numberVars \/ Number
  BY <1>2 DEF BeatWakes
<1>3. ASSUME NEW i \in Sockets, ReadEnds(i) \/ ReadCancelled(i) \/ PeerCloses(i)
      PROVE  UNCHANGED numberVars
  BY <1>3 DEF ReadEnds, ReadCancelled, PeerCloses
<1>4. ASSUME NEW i \in Sockets, NEW type \in {"LOGON", "LOGOUT", "TEST_REQUEST"},
             Hear(i, type)
      PROVE  UNCHANGED numberVars \/ Number
  BY <1>4 DEF Hear
<1>5. CASE Start \/ MonitorWakes \/ Retry \/ Refused
  BY <1>5 DEF Start, MonitorWakes, Retry, Refused
<1>6. ASSUME NEW s \in Sockets, Opened(s) \/ OpenedAndLost(s)
      PROVE  SendsLogon
  BY <1>6 DEF Opened, OpenedAndLost, NewSession, SendsLogon
<1>7. CASE Stop
  <2>1. UNCHANGED seqOut
    BY <1>7 DEF Stop
  <2>2. UNCHANGED written \/ Disconnect
    BY <1>7 DEF Stop
  <2>3. QED BY <2>1, <2>2, DisconnectSends DEF SendsLogout
<1>8. CASE MonitorJoined
  <2>1. UNCHANGED seqOut /\ Disconnect
    BY <1>8 DEF MonitorJoined
  <2>2. QED BY <2>1, DisconnectSends DEF SendsLogout
<1>9. CASE Drained \/ DrainRaises \/ TaskJoined \/ WriterClosed
  BY <1>9 DEF Drained, DrainRaises, TaskJoined, WriterClosed
<1>10. CASE UNCHANGED vars
  BY <1>10 DEF vars
<1>11. QED
  BY <1>1, <1>2, <1>3, <1>4, <1>5, <1>6, <1>7, <1>8, <1>9, <1>10
     DEF Next, Connecting, Stopping

(* A message that goes onto the wire carries the present number.           *)
LEMMA OnWireIsNext ==
  ASSUME NEW s, NEW type, NEW m \in OnWire(s, type)
  PROVE  m.n = seqOut /\ m.type = type
  BY DEF OnWire

LEMMA HighestHolds ==
  ASSUME NextIsHighest, [Next]_vars
  PROVE  /\ NextIsHighest'
         /\ \A m \in written' \ written, k \in written :
              m.type # "logout" /\ k.type # "logout" => k.n < m.n
<1>1. CASE UNCHANGED numberVars
  BY <1>1 DEF numberVars, NextIsHighest
<1>2. CASE Number
  <2>1. seqOut' = seqOut + 1 /\ seqOut \in Nat
    BY <1>2 DEF Number, NextIsHighest
  <2>2. \A m \in written' \ written : m.n = seqOut
    BY <1>2, OnWireIsNext DEF Number
  <2>3. QED BY <2>1, <2>2 DEF NextIsHighest
<1>3. CASE SendsLogon
  <2>1. seqOut' = seqOut + 1 /\ seqOut \in Nat
    BY <1>3 DEF SendsLogon, NextIsHighest
  <2>2. \A m \in written' \ written : m.n = seqOut
    BY <1>3 DEF SendsLogon
  <2>3. QED BY <2>1, <2>2 DEF NextIsHighest
<1>4. CASE SendsLogout
  <2>1. \A m \in written' \ written : m.n = seqOut /\ m.type = "logout"
    BY <1>4, OnWireIsNext DEF SendsLogout
  <2>2. QED BY <1>4, <2>1 DEF SendsLogout, NextIsHighest
<1>5. QED BY <1>1, <1>2, <1>3, <1>4, StepSends

(* However sends of the application, heartbeats, answers to test requests  *)
(* and reconnections interleave, the numbers of all messages but logouts   *)
(* ascend.                                                                 *)
THEOREM NumbersAlwaysAscend == Spec => NumbersAscend
<1>1. Init => NextIsHighest
  BY DEF Init, NextIsHighest
<1>2. NextIsHighest /\ [Next]_vars => NextIsHighest'
  BY HighestHolds
<1>3. NextIsHighest /\ [Next]_vars =>
        [\A m \in written' \ written, k \in written :
           m.type # "logout" /\ k.type # "logout" => k.n < m.n]_vars
  BY HighestHolds
<1>4. QED BY <1>1, <1>2, <1>3, PTL DEF Spec, NumbersAscend

-----------------------------------------------------------------------------
(* Types, the session's loops, and what stop() leaves.                     *)

(* A socket that was not opened has no loops, and there is still a number  *)
(* for its logon and room for its loops in _tasks.                         *)
UnusedInv ==
  \A s \in Sockets : socket[s] = "unused" =>
    /\ reads[s] = "none" /\ beats[s] = "none" /\ source[s] = s
    /\ \A j \in 1 .. Len(tasks) : tasks[j][2] # s
    /\ Len(tasks) <= 2 * (s - 1)
    /\ seqOut <= MaxSends + s
    /\ conn # s

BoundInv ==
  /\ Len(tasks) <= 2 * MaxSockets
  /\ connecting # "no" => client # "off"
  /\ connecting = "retry" => attempt < MaxAttempts

(* The tasks that disconnect() has passed in its list have ended.          *)
WalkInv ==
  stop = "cancelling" => at \in 1 .. Len(tasks) /\ \A j \in 1 .. at - 1 : ~Live(tasks[j])

(* disconnect() has not begun: the only loop that reads has the connection *)
(* and a heartbeat beside it, and a session without one is lost.           *)
Quiet == stop \in {"idle", "joined", "draining"}

QuietInv ==
  /\ \A i, j \in Sockets : reads[i] = "reading" /\ reads[j] = "reading" => i = j
  /\ \A i \in Sockets : reads[i] # "cancelled"
  /\ \A i \in Sockets : reads[i] = "reading" =>
       running /\ conn # NoSocket /\ source[i] = conn /\ beats[i] = "sleeping"
  /\ state = "LOGGED_ON" => \E i \in Sockets : reads[i] = "reading"
  /\ state = "DISCONNECTED" \/ connecting # "no" =>
       \A i \in Sockets : reads[i] # "reading" /\ socket[i] # "open"
  /\ state \in {"LOGGED_ON", "LOGON_SENT"} \/ stop = "draining" => conn # NoSocket
  /\ conn # NoSocket => tasks # <<>>

(* While no start() and stop() have overlapped, stop() is alone with the   *)
(* loops, and what it closes is the only socket that was open.             *)
SoloInv ==
  /\ stop # "idle" => client = "off"
  /\ connecting # "no" => state = "CONNECTING"
  /\ Quiet => QuietInv
  /\ \A s \in Sockets : socket[s] = "open" => conn = s
  /\ stop = "closing" => /\ conn # NoSocket /\ socket[conn] = "closed"
                         /\ \A i \in Sockets : ~Reading(i) /\ beats[i] # "sleeping"

IInv ==
  TypeOK /\ UnusedInv /\ BoundInv /\ WalkInv /\ LoopsAreKnown /\ (~raced => SoloInv)

(* The indices before an index.                                            *)
LEMMA BeforeIndex ==
  ASSUME NEW n \in Nat, NEW a \in 1 .. n
  PROVE  \A j \in 1 .. a - 1 : j \in 1 .. n /\ j < a /\ j \in Nat
OBVIOUS

(* The entries of _tasks, one by one.                                      *)
LEMMA TaskTypes ==
  ASSUME TypeOK
  PROVE  /\ Len(tasks) \in Nat
         /\ \A j \in 1 .. Len(tasks) : /\ tasks[j] \in {"read", "beat"} \X Sockets
                                      /\ tasks[j][1] \in {"read", "beat"}
                                      /\ tasks[j][2] \in Sockets
<1>1. tasks \in Seq({"read", "beat"} \X Sockets)
  BY DEF TypeOK
<1>2. Len(tasks) \in Nat /\ \A j \in 1 .. Len(tasks) : tasks[j] \in {"read", "beat"} \X Sockets
  BY <1>1
<1>3. QED BY <1>2

(* Two entries at the end of a sequence.                                   *)
LEMMA TwoMore ==
  ASSUME NEW S, NEW q \in Seq(S), NEW a \in S, NEW b \in S
  PROVE  /\ q \o <<a, b>> \in Seq(S) /\ Len(q \o <<a, b>>) = Len(q) + 2
         /\ \A j \in 1 .. Len(q) : (q \o <<a, b>>)[j] = q[j]
         /\ (q \o <<a, b>>)[Len(q) + 1] = a /\ (q \o <<a, b>>)[Len(q) + 2] = b
<1>1. <<a, b>> \in Seq(S) /\ Len(<<a, b>>) = 2 /\ Len(q) \in Nat
  OBVIOUS
<1>2. /\ q \o <<a, b>> \in Seq(S) /\ Len(q \o <<a, b>>) = Len(q) + 2
      /\ \A j \in 1 .. Len(q) + 2 :
           (q \o <<a, b>>)[j] = IF j <= Len(q) THEN q[j] ELSE <<a, b>>[j - Len(q)]
  BY <1>1, ConcatProperties
<1>3. /\ \A j \in 1 .. Len(q) : j \in 1 .. Len(q) + 2 /\ j <= Len(q)
      /\ \A d \in {1, 2} : /\ Len(q) + d \in 1 .. Len(q) + 2
                          /\ ~(Len(q) + d <= Len(q)) /\ Len(q) + d - Len(q) = d
  BY <1>1
<1>4. QED BY <1>2, <1>3

(* Loops that only end keep the passed tasks ended, and the list complete. *)
LoopsOnlyEnd ==
  /\ UNCHANGED tasks
  /\ \A i \in Sockets : Reading(i)' => Reading(i)
  /\ \A i \in Sockets : beats'[i] = "sleeping" => beats[i] = "sleeping"

LEMMA EndingHolds ==
  ASSUME IInv, LoopsOnlyEnd
  PROVE  /\ LoopsAreKnown'
         /\ \A j \in 1 .. Len(tasks) : ~Live(tasks[j]) => ~Live(tasks[j])'
         /\ UNCHANGED <<stop, at>> => WalkInv'
<1>1. LoopsAreKnown'
  BY DEF IInv, LoopsAreKnown, LoopsOnlyEnd
<1>2. \A j \in 1 .. Len(tasks) : ~Live(tasks[j]) => ~Live(tasks[j])'
  BY TaskTypes DEF IInv, LoopsOnlyEnd, Live
<1>3. UNCHANGED <<stop, at>> => WalkInv'
  <2>1. SUFFICES ASSUME UNCHANGED <<stop, at>>, stop = "cancelling"
                 PROVE  at \in 1 .. Len(tasks) /\ \A j \in 1 .. at - 1 : ~Live(tasks[j])'
    BY DEF WalkInv, LoopsOnlyEnd
  <2>2. at \in 1 .. Len(tasks) /\ Len(tasks) \in Nat /\ \A j \in 1 .. at - 1 : ~Live(tasks[j])
    BY <2>1, TaskTypes DEF IInv, WalkInv
  <2>3. QED BY <1>2, <2>2
<1>4. QED BY <1>1, <1>2, <1>3

LEMMA NumberTyped ==
  ASSUME TypeOK, Number
  PROVE  /\ seqOut' \in Numbers /\ written' \in SUBSET Messages
         /\ \A s \in Sockets : seqOut' <= MaxSends + s
<1> USE FixAssumption DEF TypeOK, Number, Numbers, Sockets, NoSocket
<1>1. seqOut' \in Numbers /\ \A s \in Sockets : seqOut' <= MaxSends + s
  OBVIOUS
<1>2. \A s \in Sockets : [socket |-> s, n |-> seqOut, type |-> "other"] \in Messages
  BY DEF Messages
<1>3. OnWire(conn, "other") \in SUBSET Messages
  BY <1>2 DEF OnWire
<1>4. QED BY <1>1, <1>3

LEMMA SendHolds == ASSUME IInv, Send PROVE IInv'
<1> USE FixAssumption DEF Send, clientVars, stopVars, loopVars, history
<1>1. TypeOK'
  BY NumberTyped DEF IInv, TypeOK
<1>2. UnusedInv'
  BY NumberTyped DEF IInv, UnusedInv
<1>3. BoundInv'
  BY DEF IInv, BoundInv, TypeOK
<1>4. WalkInv' /\ LoopsAreKnown'
  BY EndingHolds DEF LoopsOnlyEnd, Reading, IInv, TypeOK
<1>5. ~raced' => SoloInv'
  BY DEF IInv, SoloInv, QuietInv, Quiet, Reading, TypeOK
<1>6. QED BY <1>1, <1>2, <1>3, <1>4, <1>5 DEF IInv

LEMMA BeatWakesHolds == ASSUME IInv, NEW i \in Sockets, BeatWakes(i) PROVE IInv'
<1> USE FixAssumption DEF BeatWakes, clientVars, stopVars, loopVars, history
<1>1. TypeOK'
  <2>1. beats' \in [Sockets -> {"none", "sleeping", "done"}]
    BY DEF IInv, TypeOK
  <2>2. CASE state = "LOGGED_ON"
    BY <2>1, <2>2, NumberTyped DEF IInv, TypeOK
  <2>3. CASE state # "LOGGED_ON"
    BY <2>1, <2>3 DEF IInv, TypeOK
  <2>4. QED BY <2>2, <2>3
<1>2. UnusedInv'
  <2>1. beats[i] = "sleeping" => socket[i] # "unused"
    BY DEF IInv, UnusedInv
  <2>2. seqOut' = seqOut \/ \A s \in Sockets : seqOut' <= MaxSends + s
    BY NumberTyped DEF IInv
  <2>3. UNCHANGED <<socket, reads, source, tasks, conn>>
    OBVIOUS
  <2>4. ASSUME NEW s \in Sockets, socket[s] = "unused" PROVE beats'[s] = "none"
    BY <2>1, <2>4 DEF IInv, UnusedInv, TypeOK
  <2>5. ASSUME NEW s \in Sockets, socket[s] = "unused" PROVE seqOut' <= MaxSends + s
    BY <2>2, <2>5 DEF IInv, UnusedInv
  <2>6. UnusedInv
    BY DEF IInv
  <2> HIDE DEF BeatWakes
  <2>7. QED BY <2>3, <2>4, <2>5, <2>6 DEF UnusedInv
<1>3. BoundInv'
  BY DEF IInv, BoundInv, TypeOK
<1>4. WalkInv' /\ LoopsAreKnown'
  BY EndingHolds DEF LoopsOnlyEnd, Reading, IInv, TypeOK
<1>5. ~raced' => SoloInv'
  BY DEF IInv, SoloInv, QuietInv, Quiet, Reading, TypeOK
<1>6. QED BY <1>1, <1>2, <1>3, <1>4, <1>5 DEF IInv

LEMMA StartHolds == ASSUME IInv, Start PROVE IInv'
<1> USE FixAssumption DEF Start, clientVars, stopVars, loopVars, history
<1>1. TypeOK'
  BY DEF IInv, TypeOK, States, BoundInv
<1>2. UnusedInv'
  BY DEF IInv, UnusedInv, TypeOK, Sockets
<1>3. BoundInv'
  BY DEF IInv, BoundInv, TypeOK
<1>4. WalkInv' /\ LoopsAreKnown'
  BY EndingHolds DEF LoopsOnlyEnd, Reading, IInv, TypeOK
<1>5. ~raced' => SoloInv'
  BY DEF IInv, SoloInv, QuietInv, Quiet, Reading, TypeOK
<1>6. QED BY <1>1, <1>2, <1>3, <1>4, <1>5 DEF IInv

LEMMA MonitorWakesHolds == ASSUME IInv, MonitorWakes PROVE IInv'
<1> USE FixAssumption DEF MonitorWakes, clientVars, stopVars, loopVars, history
<1>1. TypeOK'
  BY DEF IInv, TypeOK, States, BoundInv
<1>2. UnusedInv'
  BY DEF IInv, UnusedInv, TypeOK, Sockets
<1>3. BoundInv'
  BY DEF IInv, BoundInv, TypeOK
<1>4. WalkInv' /\ LoopsAreKnown'
  BY EndingHolds DEF LoopsOnlyEnd, Reading, IInv, TypeOK
<1>5. ~raced' => SoloInv'
  BY DEF IInv, SoloInv, QuietInv, Quiet, Reading, TypeOK
<1>6. QED BY <1>1, <1>2, <1>3, <1>4, <1>5 DEF IInv

LEMMA RetryHolds == ASSUME IInv, Retry PROVE IInv'
<1> USE FixAssumption DEF Retry, clientVars, stopVars, loopVars, history
<1>1. TypeOK'
  BY DEF IInv, TypeOK, States, BoundInv
<1>2. UnusedInv'
  BY DEF IInv, UnusedInv, TypeOK, Sockets
<1>3. BoundInv'
  BY DEF IInv, BoundInv, TypeOK
<1>4. WalkInv' /\ LoopsAreKnown'
  BY EndingHolds DEF LoopsOnlyEnd, Reading, IInv, TypeOK
<1>5. ~raced' => SoloInv'
  BY DEF IInv, SoloInv, QuietInv, Quiet, Reading, TypeOK
<1>6. QED BY <1>1, <1>2, <1>3, <1>4, <1>5 DEF IInv

LEMMA RefusedHolds == ASSUME IInv, Refused PROVE IInv'
<1> USE FixAssumption DEF Refused, ConnectRaises, clientVars, stopVars, loopVars, history
<1>1. TypeOK'
  BY DEF IInv, TypeOK, States
<1>2. UnusedInv'
  BY DEF IInv, UnusedInv, TypeOK, Sockets
<1>3. BoundInv'
  BY DEF IInv, BoundInv, TypeOK
<1>4. WalkInv' /\ LoopsAreKnown'
  BY EndingHolds DEF LoopsOnlyEnd, Reading, IInv, TypeOK
<1>5. ~raced' => SoloInv'
  BY DEF IInv, SoloInv, QuietInv, Quiet, Reading, TypeOK
<1>6. QED BY <1>1, <1>2, <1>3, <1>4, <1>5 DEF IInv

(* A new session: two more tasks at the end of the list.                   *)
LEMMA NewSessionHolds ==
  ASSUME IInv, NEW s \in Sockets, NEW how \in {"open", "lost"},
         NextSocket(s), NewSession(s, how), UNCHANGED <<source, at, stop>>
  PROVE  /\ tasks' \in Seq({"read", "beat"} \X Sockets) /\ seqOut' \in Numbers
         /\ socket' \in [Sockets -> {"unused", "open", "lost", "closed"}]
         /\ reads' \in [Sockets -> {"none", "reading", "cancelled", "done"}]
         /\ beats' \in [Sockets -> {"none", "sleeping", "done"}]
         /\ Len(tasks') <= 2 * MaxSockets /\ tasks' # <<>>
         /\ UnusedInv' /\ WalkInv' /\ LoopsAreKnown'
<1> USE FixAssumption
<1>0. /\ tasks \in Seq({"read", "beat"} \X Sockets) /\ Len(tasks) \in Nat
      /\ socket[s] = "unused" /\ s \in Nat \ {0} /\ s <= MaxSockets
      /\ seqOut \in Nat /\ seqOut >= 1
  BY TaskTypes DEF IInv, TypeOK, NextSocket, Sockets, Numbers
<1>1. /\ tasks' \in Seq({"read", "beat"} \X Sockets) /\ Len(tasks') = Len(tasks) + 2
      /\ \A j \in 1 .. Len(tasks) : tasks'[j] = tasks[j]
      /\ tasks'[Len(tasks) + 1] = <<"read", s>> /\ tasks'[Len(tasks) + 2] = <<"beat", s>>
  <2>1. <<"read", s>> \in {"read", "beat"} \X Sockets /\ <<"beat", s>> \in {"read", "beat"} \X Sockets
    OBVIOUS
  <2>2. QED BY <1>0, <2>1, TwoMore DEF NewSession
<1>2. /\ socket' \in [Sockets -> {"unused", "open", "lost", "closed"}]
      /\ reads' \in [Sockets -> {"none", "reading", "cancelled", "done"}]
      /\ beats' \in [Sockets -> {"none", "sleeping", "done"}]
  BY DEF IInv, TypeOK, NewSession
<1>3. /\ Len(tasks) <= 2 * (s - 1) /\ seqOut <= MaxSends + s
      /\ \A j \in 1 .. Len(tasks) : tasks[j][2] # s
  BY <1>0 DEF IInv, UnusedInv
<1>4. Len(tasks') <= 2 * MaxSockets /\ tasks' # <<>>
  <2>1. Len(tasks') <= 2 * MaxSockets
    BY <1>0, <1>1, <1>3
  <2>2. tasks' # <<>>
    BY <1>0, <1>1, EmptySeq
  <2>3. QED BY <2>1, <2>2
<1>5. seqOut' \in Numbers
  BY <1>0, <1>3 DEF NewSession, Numbers
<1>6. UnusedInv'
  <2>1. SUFFICES ASSUME NEW t \in Sockets, socket'[t] = "unused"
                 PROVE  /\ reads'[t] = "none" /\ beats'[t] = "none" /\ source'[t] = t
                        /\ \A j \in 1 .. Len(tasks') : tasks'[j][2] # t
                        /\ Len(tasks') <= 2 * (t - 1)
                        /\ seqOut' <= MaxSends + t
                        /\ conn' # t
    BY DEF UnusedInv
  <2>2. t # s /\ socket[t] = "unused"
    BY <2>1 DEF IInv, TypeOK, NewSession
  <2>3. t > s /\ t \in Nat
    BY <1>0, <2>2 DEF NextSocket, Sockets
  <2>4. reads'[t] = "none" /\ beats'[t] = "none" /\ source'[t] = t /\ conn' # t
    BY <2>2 DEF IInv, TypeOK, NewSession, UnusedInv
  <2>5. \A j \in 1 .. Len(tasks') : tasks'[j][2] # t
    <3>1. \A j \in 1 .. Len(tasks) : tasks[j][2] # t
      BY <2>2 DEF IInv, UnusedInv
    <3>2. ASSUME NEW j \in 1 .. Len(tasks') PROVE tasks'[j][2] # t
      <4>1. j \in 1 .. Len(tasks) \/ j = Len(tasks) + 1 \/ j = Len(tasks) + 2
        BY <1>0, <1>1
      <4>2. QED BY <1>1, <2>2, <3>1, <4>1
    <3>3. QED BY <3>2
  <2>6. Len(tasks') <= 2 * (t - 1) /\ seqOut' <= MaxSends + t
    BY <1>0, <1>1, <1>3, <2>3 DEF NewSession
  <2>7. QED BY <2>4, <2>5, <2>6
<1>7. LoopsAreKnown'
  <2>1. ASSUME NEW i \in Sockets, Reading(i)'
        PROVE  \E j \in 1 .. Len(tasks') : tasks'[j] = <<"read", i>>
    <3>1. CASE i = s
      <4>1. Len(tasks) + 1 \in 1 .. Len(tasks')
        BY <1>0, <1>1
      <4>2. QED BY <1>1, <3>1, <4>1
    <3>2. CASE i # s
      <4>1. Reading(i)
        BY <1>2, <2>1, <3>2 DEF Reading, NewSession, IInv, TypeOK
      <4>2. PICK j \in 1 .. Len(tasks) : tasks[j] = <<"read", i>>
        BY <4>1 DEF IInv, LoopsAreKnown
      <4>3. j \in 1 .. Len(tasks') /\ tasks'[j] = <<"read", i>>
        BY <1>0, <1>1, <4>2
      <4>4. QED BY <4>3
    <3>3. QED BY <3>1, <3>2
  <2>2. ASSUME NEW i \in Sockets, beats'[i] = "sleeping"
        PROVE  \E j \in 1 .. Len(tasks') : tasks'[j] = <<"beat", i>>
    <3>1. CASE i = s
      <4>1. Len(tasks) + 2 \in 1 .. Len(tasks')
        BY <1>0, <1>1
      <4>2. QED BY <1>1, <3>1, <4>1
    <3>2. CASE i # s
      <4>1. beats[i] = "sleeping"
        BY <2>2, <3>2 DEF NewSession, IInv, TypeOK
      <4>2. PICK j \in 1 .. Len(tasks) : tasks[j] = <<"beat", i>>
        BY <4>1 DEF IInv, LoopsAreKnown
      <4>3. j \in 1 .. Len(tasks') /\ tasks'[j] = <<"beat", i>>
        BY <1>0, <1>1, <4>2
      <4>4. QED BY <4>3
    <3>3. QED BY <3>1, <3>2
  <2>3. QED BY <2>1, <2>2 DEF LoopsAreKnown
<1>8. WalkInv'
  <2>1. SUFFICES ASSUME stop = "cancelling"
                 PROVE  at \in 1 .. Len(tasks') /\ \A j \in 1 .. at - 1 : ~Live(tasks[j])'
    BY DEF WalkInv
  <2>2. at \in 1 .. Len(tasks) /\ \A j \in 1 .. at - 1 : ~Live(tasks[j])
    BY <2>1 DEF IInv, WalkInv
  <2>3. ASSUME NEW j \in 1 .. at - 1 PROVE ~Live(tasks[j])'
    <3>1. j \in 1 .. Len(tasks)
      BY <1>0, <2>2
    <3>2. tasks[j][2] # s /\ tasks[j][2] \in Sockets /\ tasks'[j] = tasks[j] /\ ~Live(tasks[j])
      BY <1>1, <1>3, <2>2, <3>1, TaskTypes DEF IInv
    <3>3. QED BY <3>2 DEF Live, Reading, NewSession, IInv, TypeOK
  <2>4. QED BY <1>0, <1>1, <2>2, <2>3
<1>9. QED BY <1>1, <1>2, <1>4, <1>5, <1>6, <1>7, <1>8

LEMMA OpenedHolds ==
  ASSUME IInv, NEW s \in Sockets, Opened(s) \/ OpenedAndLost(s) PROVE IInv'
<1> USE FixAssumption DEF Opened, OpenedAndLost, ConnectRaises, clientVars, stopVars, history
<1>0. PICK how \in {"open", "lost"} : NewSession(s, how)
  OBVIOUS
<1>1. /\ tasks' \in Seq({"read", "beat"} \X Sockets) /\ seqOut' \in Numbers
      /\ socket' \in [Sockets -> {"unused", "open", "lost", "closed"}]
      /\ reads' \in [Sockets -> {"none", "reading", "cancelled", "done"}]
      /\ beats' \in [Sockets -> {"none", "sleeping", "done"}]
      /\ Len(tasks') <= 2 * MaxSockets /\ tasks' # <<>>
      /\ UnusedInv' /\ WalkInv' /\ LoopsAreKnown'
  BY <1>0, NewSessionHolds
<1>2. TypeOK'
  <2>1. written' \in SUBSET Messages
    <3>1. [socket |-> s, n |-> seqOut, type |-> "logon"] \in Messages
      BY DEF Messages, IInv, TypeOK
    <3>2. QED BY <3>1 DEF IInv, TypeOK
  <2>2. QED BY <1>0, <1>1, <2>1 DEF IInv, TypeOK, NewSession, States
<1>3. BoundInv'
  BY <1>1 DEF IInv, BoundInv, TypeOK
<1>4. ASSUME ~raced' PROVE SoloInv'
  <2>1. /\ stop = "idle" /\ state = "CONNECTING" /\ connecting # "no"
        /\ \A i \in Sockets : reads[i] \notin {"reading", "cancelled"} /\ socket[i] # "open"
    BY <1>0, <1>4 DEF IInv, BoundInv, SoloInv, QuietInv, Quiet, NewSession
  <2>2. source[s] = s /\ s # NoSocket
    BY DEF IInv, UnusedInv, NextSocket, Sockets, NoSocket
  <2>3. /\ conn' = s /\ running' /\ source' = source /\ stop' = "idle" /\ connecting' = "no"
        /\ state' \in {"LOGON_SENT", "CONNECTING"}
        /\ \A i \in Sockets : reads'[i] = "reading" <=> i = s
        /\ \A i \in Sockets : reads'[i] # "cancelled"
        /\ beats'[s] = "sleeping"
        /\ \A i \in Sockets : socket'[i] = "open" => i = s
    BY <1>0, <2>1 DEF NewSession, IInv, TypeOK
  <2>4. QuietInv'
    BY <1>1, <2>2, <2>3 DEF QuietInv
  <2>5. QED BY <2>3, <2>4 DEF SoloInv
<1>5. QED BY <1>1, <1>2, <1>3, <1>4 DEF IInv

LEMMA ReadEndsHolds == ASSUME IInv, NEW i \in Sockets, ReadEnds(i) PROVE IInv'
<1> USE FixAssumption DEF ReadEnds, clientVars, stopVars, loopVars, history
<1>1. TypeOK'
  BY DEF IInv, TypeOK, States, Sockets, NoSocket
<1>2. UnusedInv'
  BY DEF IInv, UnusedInv, TypeOK, Sockets
<1>3. BoundInv'
  BY DEF IInv, BoundInv, TypeOK
<1>4. WalkInv' /\ LoopsAreKnown'
  BY EndingHolds DEF LoopsOnlyEnd, Reading, IInv, TypeOK
<1>5. ~raced' => SoloInv'
  <2>1. SUFFICES ASSUME ~raced PROVE SoloInv'
    OBVIOUS
  <2>2. ASSUME Quiet PROVE QuietInv'
    BY <2>1, <2>2 DEF IInv, SoloInv, QuietInv, TypeOK
  <2>3. stop = "closing" => \A j \in Sockets : ~Reading(j)' /\ beats'[j] # "sleeping"
    BY <2>1 DEF IInv, SoloInv, TypeOK, Reading
  <2>4. connecting = "no"
    BY <2>1 DEF IInv, BoundInv, SoloInv, QuietInv, Quiet
  <2>5. QED BY <2>1, <2>2, <2>3, <2>4 DEF IInv, SoloInv, Quiet
<1>6. QED BY <1>1, <1>2, <1>3, <1>4, <1>5 DEF IInv

LEMMA ReadCancelledHolds == ASSUME IInv, NEW i \in Sockets, ReadCancelled(i) PROVE IInv'
<1> USE FixAssumption DEF ReadCancelled, clientVars, stopVars, loopVars, history
<1>1. TypeOK'
  BY DEF IInv, TypeOK, States, Sockets, NoSocket
<1>2. UnusedInv'
  BY DEF IInv, UnusedInv, TypeOK, Sockets
<1>3. BoundInv'
  BY DEF IInv, BoundInv, TypeOK
<1>4. WalkInv' /\ LoopsAreKnown'
  BY EndingHolds DEF LoopsOnlyEnd, Reading, IInv, TypeOK
<1>5. ~raced' => SoloInv'
  <2>1. SUFFICES ASSUME ~raced PROVE SoloInv'
    OBVIOUS
  <2>2. ASSUME Quiet PROVE QuietInv'
    BY <2>1, <2>2 DEF IInv, SoloInv, QuietInv, TypeOK
  <2>3. stop = "closing" => \A j \in Sockets : ~Reading(j)' /\ beats'[j] # "sleeping"
    BY <2>1 DEF IInv, SoloInv, TypeOK, Reading
  <2>4. connecting = "no"
    BY <2>1 DEF IInv, BoundInv, SoloInv, QuietInv, Quiet
  <2>5. QED BY <2>1, <2>2, <2>3, <2>4 DEF IInv, SoloInv, Quiet
<1>6. QED BY <1>1, <1>2, <1>3, <1>4, <1>5 DEF IInv

LEMMA PeerClosesHolds == ASSUME IInv, NEW i \in Sockets, PeerCloses(i) PROVE IInv'
<1> USE FixAssumption DEF PeerCloses, clientVars, stopVars, loopVars, history
<1>1. TypeOK'
  BY DEF IInv, TypeOK, States, Sockets, NoSocket
<1>2. UnusedInv'
  BY DEF IInv, UnusedInv, TypeOK, Sockets
<1>3. BoundInv'
  BY DEF IInv, BoundInv, TypeOK
<1>4. WalkInv' /\ LoopsAreKnown'
  BY EndingHolds DEF LoopsOnlyEnd, Reading, IInv, TypeOK
<1>5. ~raced' => SoloInv'
  BY DEF IInv, SoloInv, QuietInv, Quiet, Reading, TypeOK
<1>6. QED BY <1>1, <1>2, <1>3, <1>4, <1>5 DEF IInv

LEMMA DrainRaisesHolds == ASSUME IInv, DrainRaises PROVE IInv'
<1> USE FixAssumption DEF DrainRaises, clientVars, stopVars, loopVars, history
<1>1. TypeOK'
  BY DEF IInv, TypeOK, States, Sockets, NoSocket
<1>2. UnusedInv'
  BY DEF IInv, UnusedInv, TypeOK, Sockets
<1>3. BoundInv'
  BY DEF IInv, BoundInv, TypeOK
<1>4. WalkInv' /\ LoopsAreKnown'
  BY EndingHolds DEF LoopsOnlyEnd, Reading, IInv, TypeOK, WalkInv
<1>5. ~raced' => SoloInv'
  BY DEF IInv, SoloInv, QuietInv, Quiet, Reading, TypeOK
<1>6. QED BY <1>1, <1>2, <1>3, <1>4, <1>5 DEF IInv

LEMMA WriterClosedHolds == ASSUME IInv, WriterClosed PROVE IInv'
<1> USE FixAssumption DEF WriterClosed, clientVars, stopVars, loopVars, history
<1>1. TypeOK'
  BY DEF IInv, TypeOK, States, Sockets, NoSocket
<1>2. UnusedInv'
  <2>1. \A s \in Sockets : s # NoSocket
    BY DEF Sockets, NoSocket
  <2>2. QED BY <2>1 DEF IInv, UnusedInv
<1>3. BoundInv'
  BY DEF IInv, BoundInv, TypeOK
<1>4. WalkInv' /\ LoopsAreKnown'
  BY EndingHolds DEF LoopsOnlyEnd, Reading, IInv, TypeOK, WalkInv
<1>5. ~raced' => SoloInv'
  <2>1. SUFFICES ASSUME ~raced PROVE SoloInv'
    OBVIOUS
  <2>2. \A i \in Sockets : socket[i] # "open" /\ ~Reading(i) /\ beats[i] # "sleeping"
    BY <2>1 DEF IInv, SoloInv
  <2>3. connecting = "no" /\ client = "off"
    BY <2>1 DEF IInv, SoloInv, BoundInv
  <2>4. QED BY <2>2, <2>3 DEF SoloInv, QuietInv, Reading
<1>6. QED BY <1>1, <1>2, <1>3, <1>4, <1>5 DEF IInv

(* A message that is heard: what becomes of the loop.                      *)
LEMMA HearHolds ==
  ASSUME IInv, NEW i \in Sockets, NEW type \in {"LOGON", "LOGOUT", "TEST_REQUEST"}, Hear(i, type)
  PROVE  IInv'
<1> USE FixAssumption DEF clientVars, stopVars, loopVars, history
<1> DEFINE clash == \E j \in Sockets \ {i} : reads[j] = "reading" /\ source[j] = conn
           ends == reads[i] = "reading" /\ (~running \/ conn = NoSocket \/ clash)
<1>0. /\ Reading(i) /\ socket[source[i]] = "open"
      /\ reads' = IF ends THEN [reads EXCEPT ![i] = "done"] ELSE reads
      /\ running' = (running /\ ~(ends /\ clash))
      /\ source' = IF ends \/ reads[i] = "cancelled" THEN source ELSE [source EXCEPT ![i] = conn]
      /\ answered' \in {answered, answered \cup {source[i]}}
      /\ state' = CASE type = "LOGON"  -> "LOGGED_ON"
                    [] type = "LOGOUT" -> "LOGOUT_SENT"
                    [] OTHER           -> IF ends THEN "DISCONNECTED" ELSE state
      /\ Number \/ UNCHANGED <<seqOut, written>>
      /\ UNCHANGED <<conn, tasks, clientVars, stopVars, socket, beats, raced>>
  BY DEF Hear
<1>1. TypeOK'
  <2>1. seqOut' \in Numbers /\ written' \in SUBSET Messages
    BY <1>0, NumberTyped DEF IInv, TypeOK
  <2>2. source' \in [Sockets -> Sockets]
    BY <1>0 DEF IInv, TypeOK, Reading
  <2>3. reads' \in [Sockets -> {"none", "reading", "cancelled", "done"}]
    BY <1>0 DEF IInv, TypeOK
  <2>4. state' \in States /\ answered' \in SUBSET Sockets /\ running' \in BOOLEAN
    BY <1>0 DEF IInv, TypeOK, States
  <2>5. QED BY <1>0, <2>1, <2>2, <2>3, <2>4 DEF IInv, TypeOK
<1>2. UnusedInv'
  <2>1. socket[i] # "unused"
    BY <1>0 DEF IInv, UnusedInv, Reading
  <2>2. seqOut' = seqOut \/ \A s \in Sockets : seqOut' <= MaxSends + s
    BY <1>0, NumberTyped DEF IInv
  <2>3. \A s \in Sockets \ {i} : reads'[s] = reads[s] /\ source'[s] = source[s]
    BY <1>0 DEF IInv, TypeOK
  <2>4. QED BY <1>0, <2>1, <2>2, <2>3 DEF IInv, UnusedInv
<1>3. BoundInv'
  BY <1>0 DEF IInv, BoundInv
<1>4. WalkInv' /\ LoopsAreKnown'
  <2>1. LoopsOnlyEnd
    BY <1>0 DEF LoopsOnlyEnd, Reading, IInv, TypeOK
  <2>2. QED BY <1>0, <2>1, EndingHolds
<1>5. ASSUME ~raced' PROVE SoloInv'
  <2>1. SoloInv /\ connecting = "no"
    BY <1>0, <1>5 DEF IInv, SoloInv, QuietInv, Quiet, Reading, BoundInv
  <2>2. CASE Quiet
    <3>1. reads[i] = "reading" /\ ~ends /\ source[i] = conn
      BY <1>0, <2>1, <2>2 DEF SoloInv, QuietInv, Reading
    <3>2. reads' = reads /\ source' = source /\ running' = running
      BY <1>0, <3>1 DEF IInv, TypeOK
    <3>3. state # "DISCONNECTED" /\ conn # NoSocket
      BY <2>1, <2>2, <3>1 DEF SoloInv, QuietInv
    <3>4. state' # "DISCONNECTED"
      BY <1>0, <3>1, <3>3
    <3>5. QuietInv'
      BY <1>0, <2>1, <2>2, <3>1, <3>2, <3>3, <3>4 DEF SoloInv, QuietInv
    <3>6. QED BY <1>0, <2>1, <2>2, <3>2, <3>5 DEF SoloInv, Quiet
  <2>3. CASE ~Quiet
    <3>1. stop # "closing"
      BY <1>0, <2>1 DEF SoloInv
    <3>2. QED BY <1>0, <2>1, <2>3, <3>1 DEF SoloInv, Quiet
  <2>4. QED BY <2>2, <2>3
<1>6. QED BY <1>1, <1>2, <1>3, <1>4, <1>5 DEF IInv

-----------------------------------------------------------------------------
(* The walk of disconnect() through _tasks.                                *)

Less == {p \in Nat \X Nat : p[1] < p[2]}

LEMMA LessWellFounded == IsWellFoundedOn(Less, Nat)
  BY NatLessThanWellFounded DEF OpToRel, Less

(* A set of numbers that is not empty has a least one.                     *)
LEMMA LeastExists ==
  ASSUME NEW T \in SUBSET Nat, T # {}
  PROVE  \E x \in T : \A y \in T : x <= y
<1>1. PICK x \in T : \A y \in T : <<y, x>> \notin Less
  BY LessWellFounded, WFMin
<1>2. \A y \in T : ~(y < x)
  BY <1>1 DEF Less
<1>3. QED BY <1>1, <1>2

Gone ==
  /\ state = "DISCONNECTED" /\ conn = NoSocket /\ client # "monitoring"
  /\ \A i \in Sockets : ~Reading(i) /\ beats[i] # "sleeping" /\ socket[i] # "open"

(* disconnect() goes on from index k, where all before have ended.         *)
LEMMA WalkHolds ==
  ASSUME IInv, NEW k \in Nat \ {0}, NEW s \in States, Walk(k, s),
         \A j \in 1 .. Len(tasks) : j < k => ~Live(tasks[j]),
         UNCHANGED <<seqOut, source, answered, client, connecting, attempt>>,
         running' \in BOOLEAN, raced' \in BOOLEAN, written' \in SUBSET Messages,
         ~raced' => ~raced /\ client = "off"
  PROVE  IInv' /\ (stop' = "idle" /\ ~raced' => Gone')
<1> USE FixAssumption
<1> DEFINE live == {j \in k .. Len(tasks) : Live(tasks[j])}
<1>0. /\ Len(tasks) \in Nat
      /\ \A j \in 1 .. Len(tasks) : tasks[j][1] \in {"read", "beat"} /\ tasks[j][2] \in Sockets
  BY TaskTypes DEF IInv
<1>1. ~raced' => ~raced /\ client = "off" /\ connecting = "no"
  BY DEF IInv, BoundInv
<1>2. CASE live # {}
  <2>1. PICK m \in live : \A l \in live : m <= l
    <3>1. live \in SUBSET Nat
      BY <1>0
    <3>2. QED BY <1>2, <3>1, LeastExists
  <2>2. at' \in live /\ \A l \in live : at' <= l
    <3>1. at' = CHOOSE j \in live : \A l \in live : j <= l
      BY <1>2 DEF Walk
    <3>2. QED BY <2>1, <3>1
  <2>3. /\ CancelTask(tasks[at']) /\ stop' = "cancelling" /\ state' = s
        /\ UNCHANGED <<tasks, conn, socket>>
    BY <1>2 DEF Walk
  <2>4. at' \in 1 .. Len(tasks) /\ Live(tasks[at'])
        /\ tasks[at'][1] \in {"read", "beat"} /\ tasks[at'][2] \in Sockets
    BY <1>0, <2>2
  <2>5. /\ reads' \in [Sockets -> {"none", "reading", "cancelled", "done"}]
        /\ beats' \in [Sockets -> {"none", "sleeping", "done"}]
        /\ \A i \in Sockets : reads[i] = "none" => reads'[i] = "none"
        /\ \A i \in Sockets : beats[i] = "none" => beats'[i] = "none"
    BY <2>3, <2>4 DEF CancelTask, Live, Reading, IInv, TypeOK
  <2>6. LoopsOnlyEnd
    BY <2>3, <2>4 DEF LoopsOnlyEnd, CancelTask, Live, Reading, IInv, TypeOK
  <2>7. TypeOK'
    <3>1. at' \in 0 .. 2 * MaxSockets
      BY <1>0, <2>4 DEF IInv, BoundInv
    <3>2. QED BY <2>3, <2>5, <3>1 DEF IInv, TypeOK
  <2>8. UnusedInv' /\ BoundInv'
    BY <2>3, <2>5 DEF IInv, UnusedInv, BoundInv
  <2>9. LoopsAreKnown'
    BY <2>6, EndingHolds
  <2>10. WalkInv'
    <3>1. \A j \in 1 .. at' - 1 : j \in 1 .. Len(tasks) /\ j < at' /\ j \in Nat
      BY <1>0, <2>4, BeforeIndex
    <3>2. ASSUME NEW j \in 1 .. at' - 1 PROVE ~Live(tasks[j])
      <4>1. j \in 1 .. Len(tasks) /\ j < at' /\ j \in Nat
        BY <3>1
      <4>2. CASE j < k
        BY <4>1, <4>2
      <4>3. CASE ~(j < k)
        <5>1. j \in k .. Len(tasks)
          BY <1>0, <4>1, <4>3
        <5>2. j \notin live
          <6>1. at' \in Nat /\ ~(at' <= j)
            BY <1>0, <2>4, <4>1
          <6>2. QED BY <2>2, <6>1
        <5>3. QED BY <5>1, <5>2
      <4>4. QED BY <4>2, <4>3
    <3>3. \A j \in 1 .. Len(tasks) : ~Live(tasks[j]) => ~Live(tasks[j])'
      BY <2>6, EndingHolds
    <3>4. QED BY <2>3, <2>4, <3>1, <3>2, <3>3 DEF WalkInv
  <2>11. ~raced' => SoloInv'
    BY <1>1, <2>3 DEF IInv, SoloInv, Quiet
  <2>12. QED BY <2>3, <2>7, <2>8, <2>9, <2>10, <2>11 DEF IInv
<1>3. CASE live = {}
  <2>1. \A i \in Sockets : ~Reading(i) /\ beats[i] # "sleeping"
    <3>1. ASSUME NEW j \in 1 .. Len(tasks) PROVE ~Live(tasks[j])
      <4>1. j < k \/ j \in k .. Len(tasks)
        BY <1>0
      <4>2. QED BY <1>3, <4>1
    <3>2. ASSUME NEW i \in Sockets, Reading(i) PROVE FALSE
      <4>1. PICK j \in 1 .. Len(tasks) : tasks[j] = <<"read", i>>
        BY <3>2 DEF IInv, LoopsAreKnown
      <4>2. Live(tasks[j])
        BY <3>2, <4>1 DEF Live
      <4>3. QED BY <3>1, <4>2
    <3>3. ASSUME NEW i \in Sockets, beats[i] = "sleeping" PROVE FALSE
      <4>1. PICK j \in 1 .. Len(tasks) : tasks[j] = <<"beat", i>>
        BY <3>3 DEF IInv, LoopsAreKnown
      <4>2. Live(tasks[j])
        BY <3>3, <4>1 DEF Live
      <4>3. QED BY <3>1, <4>2
    <3>4. QED BY <3>2, <3>3
  <2>2. /\ tasks' = <<>> /\ at' = 0 /\ UNCHANGED <<conn, reads, beats>>
        /\ IF conn # NoSocket
             THEN /\ socket' = [socket EXCEPT ![conn] = "closed"]
                  /\ stop' = "closing" /\ state' = s
             ELSE stop' = "idle" /\ state' = "DISCONNECTED" /\ UNCHANGED socket
    BY <1>3 DEF Walk
  <2>3. /\ socket' \in [Sockets -> {"unused", "open", "lost", "closed"}]
        /\ \A i \in Sockets : socket'[i] = "unused" => socket[i] = "unused"
        /\ \A i \in Sockets : socket'[i] = "open" => socket[i] = "open"
        /\ conn # NoSocket => conn \in Sockets /\ socket'[conn] = "closed"
    BY <2>2 DEF IInv, TypeOK
  <2>4. TypeOK'
    <3>1. tasks' \in Seq({"read", "beat"} \X Sockets) /\ at' \in 0 .. 2 * MaxSockets
      BY <2>2
    <3>2. state' \in States /\ stop' \in {"idle", "closing"}
      BY <2>2 DEF States
    <3>3. QED BY <2>2, <2>3, <3>1, <3>2 DEF IInv, TypeOK
  <2>5. UnusedInv' /\ BoundInv'
    <3>1. Len(tasks') = 0 /\ \A t \in Sockets : 0 <= 2 * (t - 1)
      BY <2>2 DEF Sockets
    <3>2. QED BY <2>2, <2>3, <3>1 DEF IInv, UnusedInv, BoundInv
  <2>6. LoopsAreKnown' /\ WalkInv'
    BY <2>1, <2>2 DEF LoopsAreKnown, WalkInv, Reading
  <2>7. ASSUME ~raced' PROVE SoloInv' /\ (stop' = "idle" => Gone')
    <3>1. \A i \in Sockets : socket'[i] = "open" => conn = i
      BY <1>1, <2>3, <2>7 DEF IInv, SoloInv
    <3>2. \A i \in Sockets : i # NoSocket
      BY DEF Sockets, NoSocket
    <3>3. \A i \in Sockets : ~Reading(i)' /\ beats'[i] # "sleeping" /\ reads'[i] \notin {"reading", "cancelled"}
      BY <2>1, <2>2 DEF Reading
    <3>4. CASE conn # NoSocket
      BY <1>1, <2>2, <2>3, <2>7, <3>1, <3>3, <3>4 DEF SoloInv, Quiet
    <3>5. CASE conn = NoSocket
      <4>1. /\ stop' = "idle" /\ state' = "DISCONNECTED" /\ conn' = NoSocket
            /\ \A i \in Sockets : socket'[i] # "open"
        BY <2>2, <3>1, <3>2, <3>5
      <4>2. QED BY <1>1, <2>7, <3>3, <4>1 DEF SoloInv, QuietInv, Gone
    <3>6. QED BY <3>4, <3>5
  <2>8. QED BY <2>4, <2>5, <2>6, <2>7 DEF IInv
<1>4. QED BY <1>2, <1>3

(* disconnect() from its logout on.                                        *)
LEMMA DisconnectHolds ==
  ASSUME IInv, Disconnect, stop \in {"idle", "joined"},
         UNCHANGED <<seqOut, source, answered, client, connecting, attempt>>,
         raced' \in BOOLEAN, ~raced' => ~raced /\ client = "off"
  PROVE  IInv' /\ (stop' = "idle" /\ tasks' = <<>> /\ ~raced' => Gone')
<1> USE FixAssumption
<1>0. ~raced' => ~raced /\ client = "off" /\ connecting = "no"
  BY DEF IInv, BoundInv
<1>1. written' \in SUBSET Messages
  <2>1. \A s \in Sockets : [socket |-> s, n |-> seqOut, type |-> "logout"] \in Messages
    BY DEF IInv, TypeOK, Messages
  <2>2. OnWire(conn, "logout") \in SUBSET Messages
    BY <2>1 DEF OnWire, IInv, TypeOK
  <2>3. QED BY <2>2 DEF Disconnect, IInv, TypeOK
<1>2. CASE Hangup
  <2>1. Walk(1, "CLOSING") /\ running' = FALSE /\ "CLOSING" \in States
    BY <1>2 DEF Hangup, States
  <2>2. \A j \in 1 .. Len(tasks) : j < 1 => ~Live(tasks[j])
    <3>1. Len(tasks) \in Nat
      BY TaskTypes DEF IInv
    <3>2. \A j \in 1 .. Len(tasks) : ~(j < 1)
      BY <3>1
    <3>3. QED BY <3>2
  <2>3. 1 \in Nat \ {0}
    OBVIOUS
  <2>4. QED BY <1>1, <2>1, <2>2, <2>3, WalkHolds
<1>3. CASE /\ state \in {"LOGGED_ON", "LOGON_SENT"}
           /\ \/ conn # NoSocket /\ stop' = "draining"
              \/ stop' = "idle"
           /\ UNCHANGED <<state, conn, running, tasks, at, socket, reads, beats>>
  <2>1. TypeOK' /\ UnusedInv' /\ BoundInv'
    BY <1>1, <1>3 DEF IInv, TypeOK, UnusedInv, BoundInv
  <2>2. LoopsAreKnown' /\ WalkInv'
    BY <1>3 DEF IInv, LoopsAreKnown, WalkInv, Reading
  <2>3. ASSUME ~raced' PROVE SoloInv' /\ tasks' # <<>>
    <3>1. SoloInv /\ QuietInv /\ conn # NoSocket /\ tasks # <<>>
      BY <1>0, <1>3, <2>3 DEF IInv, SoloInv, Quiet, QuietInv
    <3>2. QuietInv'
      BY <1>3, <3>1 DEF QuietInv
    <3>3. QED BY <1>0, <1>3, <2>3, <3>1, <3>2 DEF SoloInv
  <2>4. QED BY <2>1, <2>2, <2>3 DEF IInv
<1>4. QED BY <1>2, <1>3 DEF Disconnect

LEMMA StopHolds == ASSUME IInv, Stop PROVE IInv' /\ (StopReturns /\ ~raced' => Gone')
<1> USE DEF clientVars, StopReturns
<1>1. CASE client = "monitoring"
  <2>1. /\ client' = "off" /\ connecting' = "no" /\ attempt' = 0 /\ stop' = "joined" /\ raced' = raced
        /\ stop = "idle"
        /\ UNCHANGED <<state, conn, running, tasks, at, socket, reads, beats, written, seqOut,
                       source, answered>>
    BY <1>1 DEF Stop, IInv, TypeOK
  <2>2. TypeOK' /\ UnusedInv' /\ BoundInv'
    BY <2>1, FixAssumption DEF IInv, TypeOK, UnusedInv, BoundInv
  <2>3. LoopsAreKnown' /\ WalkInv'
    BY <2>1 DEF IInv, LoopsAreKnown, WalkInv, Reading
  <2>4. ~raced => SoloInv'
    BY <2>1 DEF IInv, SoloInv, QuietInv, Quiet
  <2>5. QED BY <2>1, <2>2, <2>3, <2>4 DEF IInv
<1>2. CASE client # "monitoring"
  <2>1. /\ Disconnect /\ stop = "idle"
        /\ UNCHANGED <<client, connecting, attempt, seqOut, source, answered>>
        /\ raced' = (raced \/ client = "starting")
    BY <1>2 DEF Stop
  <2>2. raced' \in BOOLEAN /\ (~raced' => ~raced /\ client = "off")
    BY <1>2, <2>1 DEF IInv, TypeOK
  <2>3. QED BY <2>1, <2>2, DisconnectHolds
<1>3. QED BY <1>1, <1>2

LEMMA StoppingHolds == ASSUME IInv, Stopping PROVE IInv' /\ (StopReturns /\ ~raced' => Gone')
<1> USE DEF clientVars, StopReturns, history
<1>0. raced \in BOOLEAN /\ (~raced /\ stop # "idle" => client = "off")
  BY DEF IInv, TypeOK, SoloInv
<1>1. CASE MonitorJoined
  <2>1. /\ Disconnect /\ stop = "joined"
        /\ UNCHANGED <<client, connecting, attempt, seqOut, source, answered, raced>>
    BY <1>1 DEF MonitorJoined
  <2>2. QED BY <1>0, <2>1, DisconnectHolds
<1>2. CASE Drained
  <2>1. /\ Walk(1, "CLOSING") /\ running' = FALSE /\ stop = "draining" /\ "CLOSING" \in States
        /\ UNCHANGED <<client, connecting, attempt, seqOut, source, answered, raced, written>>
    BY <1>2 DEF Drained, Hangup, States
  <2>2. Len(tasks) \in Nat /\ written \in SUBSET Messages
    BY TaskTypes DEF IInv, TypeOK
  <2>3. \A j \in 1 .. Len(tasks) : ~(j < 1)
    BY <2>2
  <2>4. 1 \in Nat \ {0}
    OBVIOUS
  <2>5. QED BY <1>0, <2>1, <2>2, <2>3, <2>4, WalkHolds
<1>3. CASE DrainRaises
  <2>1. ~(~raced' /\ tasks' = <<>>)
    BY <1>0, <1>3 DEF DrainRaises, IInv, SoloInv, QuietInv, Quiet
  <2>2. QED BY <1>3, <2>1, DrainRaisesHolds
<1>4. CASE TaskJoined
  <2>1. /\ Walk(at + 1, state) /\ stop = "cancelling" /\ ~Live(tasks[at])
        /\ UNCHANGED <<client, connecting, attempt, seqOut, source, answered, raced, written, running>>
    BY <1>4 DEF TaskJoined
  <2>2. /\ Len(tasks) \in Nat /\ written \in SUBSET Messages /\ running \in BOOLEAN
        /\ state \in States
    BY TaskTypes DEF IInv, TypeOK
  <2>3. at \in 1 .. Len(tasks) /\ \A j \in 1 .. at - 1 : ~Live(tasks[j])
    BY <2>1 DEF IInv, WalkInv
  <2>4. at + 1 \in Nat \ {0} /\ \A j \in 1 .. Len(tasks) : j < at + 1 => j \in 1 .. at - 1 \/ j = at
    BY <2>2, <2>3
  <2>5. \A j \in 1 .. Len(tasks) : j < at + 1 => ~Live(tasks[j])
    BY <2>1, <2>3, <2>4
  <2>6. QED BY <1>0, <2>1, <2>2, <2>4, <2>5, WalkHolds
<1>5. CASE WriterClosed
  <2>1. ASSUME ~raced' PROVE Gone'
    <3>1. SoloInv /\ raced' = raced
      BY <1>5, <2>1 DEF WriterClosed, IInv
    <3>2. \A i \in Sockets : socket[i] # "open" /\ ~Reading(i) /\ beats[i] # "sleeping"
      BY <1>5, <3>1 DEF SoloInv, WriterClosed
    <3>3. client = "off"
      BY <1>0, <1>5, <2>1, <3>1 DEF WriterClosed
    <3>4. QED BY <1>5, <3>2, <3>3 DEF WriterClosed, Gone, Reading, loopVars
  <2>2. QED BY <1>5, <2>1, WriterClosedHolds
<1>6. QED BY <1>1, <1>2, <1>3, <1>4, <1>5 DEF Stopping

-----------------------------------------------------------------------------
LEMMA InitHolds == Init => IInv
<1> SUFFICES ASSUME Init PROVE IInv
  OBVIOUS
<1> USE FixAssumption DEF Init
<1>1. TypeOK
  <2>1. 1 \in Numbers /\ 0 \in 0 .. MaxAttempts /\ 0 \in 0 .. 2 * MaxSockets
    BY DEF Numbers
  <2>2. state \in States /\ seqOut \in Numbers /\ tasks \in Seq({"read", "beat"} \X Sockets)
    BY <2>1 DEF States
  <2>3. /\ socket \in [Sockets -> {"unused", "open", "lost", "closed"}]
        /\ reads \in [Sockets -> {"none", "reading", "cancelled", "done"}]
        /\ source \in [Sockets -> Sockets]
        /\ beats \in [Sockets -> {"none", "sleeping", "done"}]
    OBVIOUS
  <2>4. /\ conn \in Sockets \cup {NoSocket}
        /\ running \in BOOLEAN /\ raced \in BOOLEAN
        /\ answered \in SUBSET Sockets /\ written \in SUBSET Messages
        /\ attempt \in 0 .. MaxAttempts /\ at \in 0 .. 2 * MaxSockets
    BY <2>1
  <2>5. /\ client \in {"off", "starting", "monitoring"}
        /\ connecting \in {"no", "opening", "retry"}
        /\ stop \in {"idle", "joined", "draining", "cancelling", "closing"}
    OBVIOUS
  <2>6. QED BY <2>2, <2>3, <2>4, <2>5 DEF TypeOK
<1>2. UnusedInv
  <2>1. \A s \in Sockets : s >= 1 /\ s \in Nat /\ s # NoSocket
    BY DEF Sockets, NoSocket
  <2>2. Len(tasks) = 0
    OBVIOUS
  <2>3. \A s \in Sockets : 0 <= 2 * (s - 1) /\ 1 <= MaxSends + s
    BY <2>1
  <2>4. QED BY <2>1, <2>2, <2>3 DEF UnusedInv
<1>3. BoundInv /\ WalkInv
  BY DEF BoundInv, WalkInv
<1>4. LoopsAreKnown /\ SoloInv
  BY DEF LoopsAreKnown, Reading, SoloInv, QuietInv
<1>5. QED BY <1>1, <1>2, <1>3, <1>4 DEF IInv

LEMMA NextHolds == ASSUME IInv, [Next]_vars PROVE IInv' /\ (StopReturns /\ ~raced' => Gone')
<1>1. ASSUME NEW i \in Sockets,
             \/ BeatWakes(i) \/ ReadEnds(i) \/ ReadCancelled(i) \/ PeerCloses(i)
             \/ \E type \in {"LOGON", "LOGOUT", "TEST_REQUEST"} : Hear(i, type)
      PROVE  IInv' /\ UNCHANGED stop
  <2>1. IInv'
    BY <1>1, BeatWakesHolds, ReadEndsHolds, ReadCancelledHolds, PeerClosesHolds, HearHolds
  <2>2. UNCHANGED stop
    BY <1>1 DEF BeatWakes, ReadEnds, ReadCancelled, PeerCloses, Hear, stopVars
  <2>3. QED BY <2>1, <2>2
<1>2. ASSUME Send \/ Start \/ MonitorWakes \/ Connecting \/ Retry
      PROVE  IInv' /\ UNCHANGED stop
  <2>1. IInv'
    BY <1>2, SendHolds, StartHolds, MonitorWakesHolds, RetryHolds, RefusedHolds, OpenedHolds
       DEF Connecting
  <2>2. UNCHANGED stop
    BY <1>2 DEF Send, Start, MonitorWakes, Connecting, Retry, Refused, Opened, OpenedAndLost, stopVars
  <2>3. QED BY <2>1, <2>2
<1>3. CASE Stop
  BY <1>3, StopHolds
<1>4. CASE Stopping
  BY <1>4, StoppingHolds
<1>5. CASE UNCHANGED vars
  <2>1. TypeOK' /\ UnusedInv' /\ BoundInv'
    BY <1>5 DEF vars, clientVars, stopVars, loopVars, history, IInv, TypeOK, UnusedInv, BoundInv
  <2>2. WalkInv' /\ LoopsAreKnown'
    BY <1>5 DEF vars, stopVars, loopVars, IInv, WalkInv, LoopsAreKnown, Reading, Live
  <2>3. ~raced' => SoloInv'
    BY <1>5 DEF vars, clientVars, stopVars, loopVars, history, IInv, SoloInv, QuietInv, Quiet, Reading
  <2>4. stop' = stop
    BY <1>5 DEF vars, stopVars
  <2>5. QED BY <2>1, <2>2, <2>3, <2>4 DEF IInv, StopReturns
<1>6. QED
  BY <1>1, <1>2, <1>3, <1>4, <1>5 DEF Next, StopReturns

(* A session that says LOGGED_ON has the loops that serve it.              *)
LEMMA ServedFromInvariant == ASSUME IInv PROVE LoggedOnIsServed
<1>1. SUFFICES ASSUME state = "LOGGED_ON", stop = "idle", ~raced
               PROVE  /\ running
                      /\ \E i \in Sockets : reads[i] = "reading" /\ source[i] = conn
                      /\ \E i \in Sockets : beats[i] = "sleeping"
  BY DEF LoggedOnIsServed
<1>2. QuietInv
  BY <1>1 DEF IInv, SoloInv, Quiet
<1>3. QED BY <1>1, <1>2 DEF QuietInv

(* The inductive invariant holds in every reachable state.                 *)
THEOREM Invariance == Spec => []IInv
<1>1. IInv /\ [Next]_vars => IInv'
  BY NextHolds
<1>2. QED BY <1>1, InitHolds, PTL DEF Spec

(* The variables keep their types: there is a number for every message and *)
(* an entry of _tasks for every loop, over all reconnections.              *)
THEOREM TypeCorrect == Spec => []TypeOK
<1>1. QED BY Invariance, PTL DEF IInv

(* No session that says LOGGED_ON is without its loops, and no loop that   *)
(* is alive is missing from _tasks, where disconnect() looks for it.       *)
THEOREM SessionAlwaysServed == Spec => []SessionIsServed
<1>1. IInv => SessionIsServed
  BY ServedFromInvariant DEF IInv, SessionIsServed
<1>2. QED BY Invariance, <1>1, PTL

(* When stop() has cleared the session and returns, nothing of it is left, *)
(* unless a start() overlapped.                                            *)
THEOREM StopAlwaysEndsAll == Spec => StopEndsAll
<1>1. IInv /\ [Next]_vars =>
        [ StopReturns /\ ~raced' =>
            /\ state' = "DISCONNECTED" /\ conn' = NoSocket /\ client' # "monitoring"
            /\ \A s \in Sockets : /\ ~Reading(s)' /\ beats'[s] # "sleeping"
                                  /\ socket'[s] # "open" ]_vars
  BY NextHolds DEF Gone
<1>2. QED BY Invariance, <1>1, PTL DEF Spec, StopEndsAll
=============================================================================
