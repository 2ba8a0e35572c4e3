------------------------------ MODULE DataSync ------------------------------
(***************************************************************************)
(* data/sync_manager.py: DataSyncManager and a SequenceManager per symbol. *)
(*                                                                         *)
(* The network loses, duplicates and reorders: a packet may be received at *)
(* any time after its creation, any number of times, and those a source    *)
(* numbers in any order.  receive_packet is run by threads (its classes    *)
(* are guarded by threading.Lock), each serving one symbol.  It takes the  *)
(* lock of the sequence manager three times and writes the status between, *)
(* so an action is the code from one of these to the next.  Counters,      *)
(* latencies, handlers, checksums, the retransmission buffer and the retry *)
(* counts of gaps are left out.                                            *)
(***************************************************************************)
EXTENDS Naturals, FiniteSets

CONSTANTS
  Symbols,    \* symbols registered for synchronisation
  Receivers,  \* threads that run receive_packet
  Serves,     \* [Receivers -> Symbols]: the feed of a thread
  Numbered,   \* symbols whose source brings its own sequence numbers
  MaxSeq,     \* bound: the highest sequence number
  None        \* no symbol

ASSUME SyncAssumption ==
  /\ IsFiniteSet(Symbols)
  /\ Serves \in [Receivers -> Symbols]
  /\ Numbered \subseteq Symbols
  /\ MaxSeq \in Nat
  /\ None \notin Symbols

VARIABLES
  managers,   \* per symbol: its SequenceManager
  network,    \* <<symbol, number>> of every packet numbered here
  status,     \* per symbol: state and gaps of its SyncStatus
  pc,         \* per thread: where in receive_packet it is
  seen,       \* per thread: the gaps it read last
  orphan,     \* threads whose SyncStatus object was replaced under them
  resetting,  \* the symbol between the two halves of reset_symbol
  raced       \* history: symbols whose calls overlapped, and none alone has
              \* written the status since

vars == <<managers, network, status, pc, seen, orphan, resetting, raced>>

Numbers == 1 .. MaxSeq
Gap     == [start : Numbers, end : Numbers]
Manager == [current : 0 .. MaxSeq, expected : 1 .. MaxSeq + 1,
            received : SUBSET Numbers, gaps : SUBSET Gap]
Statuses == [state : {"DISCONNECTED", "SYNCED", "OUT_OF_SYNC"}, gaps : SUBSET Gap]

TypeOK ==
  /\ managers \in [Symbols -> Manager]
  /\ network \in SUBSET (Symbols \X Numbers)
  /\ status \in [Symbols -> Statuses]
  /\ pc \in [Receivers -> {"idle", "called", "recorded", "judging", "judged", "copied"}]
  /\ seen \in [Receivers -> SUBSET Gap]
  /\ orphan \in SUBSET Receivers
  /\ resetting \in Symbols \cup {None}
  /\ raced \in SUBSET Symbols

-----------------------------------------------------------------------------
(* SequenceManager: each operator is one method under its lock.            *)

FreshManager == [current |-> 0, expected |-> 1, received |-> {}, gaps |-> {}]

Resolve_LooksAtTheEnd(gaps, received) ==  \* mutant: only the last number is asked for
  {g \in gaps : g.end \notin received}

(* SequenceManager._resolve_gaps *)
Resolve(gaps, received) ==
  {g \in gaps : \E n \in g.start .. g.end : n \notin received}

NewGap_FromCurrent(m, n) ==  \* mutant: the gap starts at the last number received
  IF n > m.expected THEN {[start |-> m.current, end |-> n - 1]} ELSE {}

(* The gap that record_received detects, if any.                           *)
NewGap(m, n) ==
  IF n > m.expected THEN {[start |-> m.expected, end |-> n - 1]} ELSE {}

RecordReceived_ExpectedMovesBack(m, n) ==  \* mutant: expected always follows the packet
  [current  |-> IF n > m.current THEN n ELSE m.current,
   expected |-> n + 1,
   received |-> m.received \cup {n},
   gaps     |-> Resolve(m.gaps \cup NewGap(m, n), m.received \cup {n})]

RecordReceived_CurrentFollows(m, n) ==  \* mutant: _current_seq is the last number seen
  [current  |-> n,
   expected |-> IF n >= m.expected THEN n + 1 ELSE m.expected,
   received |-> m.received \cup {n},
   gaps     |-> Resolve(m.gaps \cup NewGap(m, n), m.received \cup {n})]

(* record_received of a number that is not a duplicate.                    *)
RecordReceived(m, n) ==
  [current  |-> IF n > m.current THEN n ELSE m.current,
   expected |-> IF n >= m.expected THEN n + 1 ELSE m.expected,
   received |-> m.received \cup {n},
   gaps     |-> Resolve(m.gaps \cup NewGap(m, n), m.received \cup {n})]

(* get_missing_sequences *)
Missing(m) == (UNION {g.start .. g.end : g \in m.gaps}) \ m.received

-----------------------------------------------------------------------------
FreshStatus == [state |-> "DISCONNECTED", gaps |-> {}]

Init ==
  /\ managers = [s \in Symbols |-> FreshManager]
  /\ network = {}
  /\ status = [s \in Symbols |-> FreshStatus]
  /\ pc = [r \in Receivers |-> "idle"]
  /\ seen = [r \in Receivers |-> {}]
  /\ orphan = {}
  /\ resetting = None
  /\ raced = {}

(* create_packet without a sequence number: get_next_sequence.             *)
CreatePacket(s) ==
  /\ s \notin Numbered
  /\ LET n == managers[s].current + 1
     IN /\ n <= MaxSeq
        /\ managers' = [managers EXCEPT ![s].current = n]
        /\ network' = network \cup {<<s, n>>}
  /\ UNCHANGED <<status, pc, seen, orphan, resetting, raced>>

(* No other thread is in receive_packet with the symbol of r.              *)
Alone(r) == \A q \in Receivers \ {r} : Serves[q] = Serves[r] => pc[q] = "idle"

(* receive_packet looks up the sequence manager and the status, ...         *)
LookUp(r) ==
  /\ pc[r] = "idle"
  /\ pc' = [pc EXCEPT ![r] = "called"]
  /\ raced' = IF Alone(r) THEN raced ELSE raced \cup {Serves[r]}
  /\ UNCHANGED <<managers, network, status, seen, orphan, resetting>>

Delivered(r, n) ==
  /\ pc[r] = "called"
  /\ Serves[r] \in Numbered \/ <<Serves[r], n>> \in network

(* ... returns at once when its packet is a duplicate, ...                 *)
Duplicate(r, n) ==
  /\ Delivered(r, n)
  /\ n \in managers[Serves[r]].received
  /\ pc' = [pc EXCEPT ![r] = "idle"]
  /\ orphan' = orphan \ {r}
  /\ UNCHANGED <<managers, network, status, seen, resetting, raced>>

(* ... and records its number otherwise.                                   *)
Receive(r, n) ==
  LET s == Serves[r]
  IN /\ Delivered(r, n)
     /\ n \notin managers[s].received
     /\ managers' = [managers EXCEPT ![s] = RecordReceived(@, n)]
     /\ pc' = [pc EXCEPT ![r] = "recorded"]
     /\ raced' = IF Alone(r) /\ r \notin orphan THEN raced \ {s} ELSE raced
     /\ UNCHANGED <<network, status, seen, orphan, resetting>>

ReadGaps(r) ==
  /\ pc[r] \in {"recorded", "judged"}
  /\ seen' = [seen EXCEPT ![r] = managers[Serves[r]].gaps]
  /\ pc' = [pc EXCEPT ![r] = IF @ = "recorded" THEN "judging" ELSE "copied"]
  /\ UNCHANGED <<managers, network, status, orphan, resetting, raced>>

(* status.state follows whether there were gaps.                           *)
WriteState(r) ==
  LET s == Serves[r]
  IN /\ pc[r] = "judging"
     /\ status' = IF r \in orphan THEN status ELSE
          [status EXCEPT ![s].state = IF seen[r] = {} THEN "SYNCED" ELSE "OUT_OF_SYNC"]
     /\ pc' = [pc EXCEPT ![r] = "judged"]
     /\ UNCHANGED <<managers, network, seen, orphan, resetting, raced>>

WriteGaps(r) ==
  /\ pc[r] = "copied"
  /\ status' = IF r \in orphan THEN status
               ELSE [status EXCEPT ![Serves[r]].gaps = seen[r]]
  /\ pc' = [pc EXCEPT ![r] = "idle"]
  /\ seen' = [seen EXCEPT ![r] = {}]
  /\ orphan' = orphan \ {r}
  /\ UNCHANGED <<managers, network, resetting, raced>>

(* reset_symbol resets the sequence manager, then replaces the status; the *)
(* lock it holds is not one that receive_packet takes.                     *)
ResetSequence(s) ==
  /\ resetting = None
  /\ managers[s] # FreshManager
  /\ managers' = [managers EXCEPT ![s] = FreshManager]
  /\ resetting' = s
  /\ UNCHANGED <<network, status, pc, seen, orphan, raced>>

ResetStatus_InPlace ==  \* mutant: the status object is cleared, not replaced
  /\ resetting # None
  /\ status' = [status EXCEPT ![resetting] = FreshStatus]
  /\ resetting' = None
  /\ UNCHANGED <<managers, network, pc, seen, orphan, raced>>

ResetStatus ==
  /\ resetting # None
  /\ status' = [status EXCEPT ![resetting] = FreshStatus]
  /\ orphan' = orphan \cup {r \in Receivers : Serves[r] = resetting /\ pc[r] # "idle"}
  /\ resetting' = None
  /\ UNCHANGED <<managers, network, pc, seen, raced>>

Next ==
  \/ \E s \in Symbols : CreatePacket(s) \/ ResetSequence(s)
  \/ \E r \in Receivers : LookUp(r) \/ ReadGaps(r) \/ WriteState(r) \/ WriteGaps(r)
  \/ \E r \in Receivers, n \in Numbers : Receive(r, n) \/ Duplicate(r, n)
  \/ ResetStatus

Spec == Init /\ [][Next]_vars

-----------------------------------------------------------------------------
(* Properties                                                              *)

(* Every recorded gap still lacks a number, lies below the next expected   *)
(* number and shares none with another gap: get_missing_sequences lists no *)
(* number twice, and total_missing does not count one twice.               *)
GapsWellFormed ==
  \A s \in Symbols : \A g \in managers[s].gaps :
    /\ g.end < managers[s].expected
    /\ \E n \in g.start .. g.end : n \notin managers[s].received
    /\ \A h \in managers[s].gaps \ {g} : g.end < h.start \/ h.end < g.start

(* The missing numbers are exactly those below the next expected one that  *)
(* have not been received, whatever the order of arrival.                  *)
MissingIsExact ==
  \A s \in Symbols :
    Missing(managers[s]) = (1 .. managers[s].expected - 1) \ managers[s].received

(* Both: what a caller is told to ask for again is right and complete.     *)
GapsAreExact == GapsWellFormed /\ MissingIsExact

(* A number given to a new packet is not one received since the last       *)
(* reset, from this sender or another: also when a packet that was         *)
(* numbered before the reset arrives after it.                             *)
NumbersAreFresh ==
  [][ \A s \in Symbols \ Numbered :
        managers'[s].current = managers[s].current + 1
          => managers'[s].current \notin managers[s].received ]_vars

(* When nobody is working on a symbol its status says the truth: SYNCED    *)
(* without gaps, OUT_OF_SYNC with exactly the gaps of its manager; a reset *)
(* in the middle of receive_packet leaves DISCONNECTED at worst.  Calls    *)
(* that overlap on one symbol may leave it stale, since each writes what   *)
(* it read before the other; the next number received by a call that has   *)
(* the symbol to itself puts it right.                                     *)
StatusSettles ==
  \A s \in Symbols \ raced :
    resetting # s /\ (\A r \in Receivers : Serves[r] = s => pc[r] = "idle")
      => CASE status[s].state = "SYNCED"      -> managers[s].gaps = {} /\ status[s].gaps = {}
           [] status[s].state = "OUT_OF_SYNC" -> managers[s].gaps # {}
                                                 /\ status[s].gaps = managers[s].gaps
           [] OTHER                           -> status[s].gaps = {}

(* The managers do what SequenceTracker promises.                          *)
Tracker == INSTANCE SequenceTracker WITH
  got     <- [s \in Symbols |-> managers[s].received],
  missing <- [s \in Symbols |-> Missing(managers[s])]

TracksExactly == Tracker!Spec
=============================================================================
