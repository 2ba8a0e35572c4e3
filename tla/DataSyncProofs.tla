--------------------------- MODULE DataSyncProofs ---------------------------
(***************************************************************************)
(* Proofs about DataSync, for any set of symbols and threads and any bound *)
(* on the sequence numbers.  All but the last theorem rest on one          *)
(* invariant of each sequence manager, ManagerInv, that record_received    *)
(* preserves; the last adds what a thread knows in receive_packet.         *)
(***************************************************************************)
EXTENDS DataSync, TLAPS

(* Every number below expected is received or lies in a gap; expected is   *)
(* one above the highest number received; current is above them all.       *)
ManagerInv(m) ==
  /\ m \in Manager
  /\ \A n \in m.received : n < m.expected /\ n <= m.current
  /\ m.expected = 1 \/ m.expected - 1 \in m.received
  /\ \A n \in Numbers : n < m.expected /\ n \notin m.received
       => \E g \in m.gaps : n \in g.start .. g.end
  /\ \A g \in m.gaps :
       /\ g.end < m.expected
       /\ \E n \in g.start .. g.end : n \notin m.received
  /\ \A g, h \in m.gaps : g # h => g.end < h.start \/ h.end < g.start

AllManagers == \A s \in Symbols : ManagerInv(managers[s])
IInv == TypeOK /\ AllManagers

-----------------------------------------------------------------------------
(* Lemmas about the operators of the sequence manager.                     *)

(* A new manager satisfies the invariant and misses nothing.               *)
LEMMA FreshHolds == ManagerInv(FreshManager) /\ Missing(FreshManager) = {}
  <1> USE SyncAssumption
  <1>1. FreshManager \in Manager
    BY DEF FreshManager, Manager, Numbers
  <1> QED BY <1>1 DEF ManagerInv, FreshManager, Missing, Numbers

(* record_received of a new number preserves the invariant.                *)
LEMMA RecordHolds ==
  ASSUME NEW m, ManagerInv(m), NEW n \in Numbers, n \notin m.received
  PROVE  ManagerInv(RecordReceived(m, n))
  <1> DEFINE r == RecordReceived(m, n)
  <1>0. /\ MaxSeq \in Nat
        /\ m.current \in 0 .. MaxSeq /\ m.expected \in 1 .. MaxSeq + 1
        /\ m.received \in SUBSET Numbers /\ m.gaps \in SUBSET Gap
        /\ n \in Nat /\ 1 <= n /\ n <= MaxSeq
    BY SyncAssumption DEF ManagerInv, Manager, Numbers
  <1>1. /\ r.current = IF n > m.current THEN n ELSE m.current
        /\ r.expected = IF n >= m.expected THEN n + 1 ELSE m.expected
        /\ r.received = m.received \cup {n}
        /\ r.gaps = {g \in m.gaps \cup NewGap(m, n) :
                       \E k \in g.start .. g.end : k \notin m.received \cup {n}}
    BY DEF RecordReceived, Resolve
  <1>2. NewGap(m, n) \in SUBSET Gap
    BY <1>0 DEF NewGap, Gap, Numbers
  <1>3. r \in Manager
    <2>1. r.gaps \in SUBSET Gap
      BY <1>0, <1>1, <1>2
    <2>2. r.current \in 0 .. MaxSeq /\ r.expected \in 1 .. MaxSeq + 1
          /\ r.received \in SUBSET Numbers
      BY <1>0, <1>1
    <2> QED BY <2>1, <2>2 DEF RecordReceived, Manager
  <1>4. \A k \in r.received : k < r.expected /\ k <= r.current
    BY <1>0, <1>1 DEF ManagerInv, Numbers
  <1>5. r.expected = 1 \/ r.expected - 1 \in r.received
    BY <1>0, <1>1 DEF ManagerInv
  <1>6. ASSUME NEW k \in Numbers, k < r.expected, k \notin r.received
        PROVE  \E g \in r.gaps : k \in g.start .. g.end
    <2>0. k \in Nat /\ k # n /\ k \notin m.received
      BY <1>1, <1>6 DEF Numbers
    <2>1. CASE k < m.expected
      <3>1. PICK g \in m.gaps : k \in g.start .. g.end
        BY <2>0, <2>1 DEF ManagerInv
      <3> QED BY <3>1, <2>0, <1>1
    <2>2. CASE k >= m.expected
      <3>1. n > m.expected /\ k <= n - 1
        BY <2>0, <2>2, <1>0, <1>1, <1>6
      <3> DEFINE g == [start |-> m.expected, end |-> n - 1]
      <3>2. g \in NewGap(m, n)
        BY <3>1 DEF NewGap
      <3>3. k \in g.start .. g.end
        BY <3>1, <2>0, <2>2, <1>0
      <3> QED BY <3>2, <3>3, <2>0, <1>1
    <2> QED BY <2>1, <2>2, <2>0, <1>0
  <1>7. ASSUME NEW g \in r.gaps
        PROVE  /\ g.end < r.expected
               /\ \E k \in g.start .. g.end : k \notin r.received
    <2>1. CASE g \in m.gaps
      <3>1. g.end < m.expected /\ g.end \in Nat
        BY <2>1, <1>0 DEF ManagerInv, Gap, Numbers
      <3> QED BY <3>1, <1>0, <1>1
    <2>2. CASE g \in NewGap(m, n)
      BY <2>2, <1>0, <1>1 DEF NewGap
    <2> QED BY <2>1, <2>2, <1>1
  <1>8. ASSUME NEW g \in r.gaps, NEW h \in r.gaps, g # h
        PROVE  g.end < h.start \/ h.end < g.start
    <2>1. CASE g \in m.gaps /\ h \in m.gaps
      BY <2>1, <1>8 DEF ManagerInv
    <2>2. CASE g \in m.gaps /\ h \in NewGap(m, n)
      BY <2>2 DEF ManagerInv, NewGap
    <2>3. CASE g \in NewGap(m, n) /\ h \in m.gaps
      BY <2>3 DEF ManagerInv, NewGap
    <2>4. CASE g \in NewGap(m, n) /\ h \in NewGap(m, n)
      BY <2>4, <1>8 DEF NewGap
    <2> QED BY <2>1, <2>2, <2>3, <2>4, <1>1
  <1> QED BY <1>3, <1>4, <1>5, <1>6, <1>7, <1>8 DEF ManagerInv

(* Handing out a number preserves the invariant.                           *)
LEMMA NextNumberHolds ==
  ASSUME NEW m, ManagerInv(m), m.current + 1 <= MaxSeq
  PROVE  ManagerInv([m EXCEPT !.current = m.current + 1])
  <1> DEFINE r == [m EXCEPT !.current = m.current + 1]
  <1>1. /\ m \in Manager /\ MaxSeq \in Nat
        /\ m.current \in 0 .. MaxSeq
        /\ m.received \in SUBSET Numbers
    BY SyncAssumption DEF ManagerInv, Manager
  <1>2. /\ r \in Manager
        /\ r.current = m.current + 1 /\ r.expected = m.expected
        /\ r.received = m.received /\ r.gaps = m.gaps
    BY <1>1 DEF Manager
  <1>3. \A n \in r.received : n < r.expected /\ n <= r.current
    BY <1>1, <1>2 DEF ManagerInv, Numbers
  <1> QED BY <1>2, <1>3 DEF ManagerInv

(* What get_missing_sequences lists under the invariant.                   *)
LEMMA MissingExact ==
  ASSUME NEW m, ManagerInv(m)
  PROVE  Missing(m) = (1 .. m.expected - 1) \ m.received
  <1>1. /\ MaxSeq \in Nat /\ m.expected \in 1 .. MaxSeq + 1
        /\ m.gaps \in SUBSET Gap
    BY SyncAssumption DEF ManagerInv, Manager
  <1>2. ASSUME NEW n \in Missing(m)
        PROVE  n \in 1 .. m.expected - 1 /\ n \notin m.received
    <2>1. PICK g \in m.gaps : n \in g.start .. g.end
      BY <1>2 DEF Missing
    <2>2. g.start \in Nat /\ g.start >= 1 /\ g.end \in Nat /\ g.end < m.expected
      BY <1>1, <2>1 DEF ManagerInv, Gap, Numbers
    <2> QED BY <1>1, <1>2, <2>1, <2>2 DEF Missing
  <1>3. ASSUME NEW n \in 1 .. m.expected - 1, n \notin m.received
        PROVE  n \in Missing(m)
    <2>1. n \in Numbers /\ n < m.expected
      BY <1>1 DEF Numbers
    <2>2. PICK g \in m.gaps : n \in g.start .. g.end
      BY <1>3, <2>1 DEF ManagerInv
    <2> QED BY <1>3, <2>2 DEF Missing
  <1> QED BY <1>2, <1>3

(* Below the highest received number nothing but received numbers and      *)
(* missing ones: the answer is that of SequenceTracker.                    *)
LEMMA MissingIsHoles ==
  ASSUME NEW m, ManagerInv(m)
  PROVE  Missing(m) = Tracker!Holes(m.received)
  <1>1. /\ MaxSeq \in Nat /\ m.expected \in 1 .. MaxSeq + 1
        /\ m.received \in SUBSET Numbers
    BY SyncAssumption DEF ManagerInv, Manager
  <1>2. ASSUME NEW n \in 1 .. m.expected - 1, n \notin m.received
        PROVE  n \in Tracker!Holes(m.received)
    <2>1. m.expected - 1 \in m.received /\ n < m.expected - 1 /\ n \in 1 .. MaxSeq
      BY <1>1, <1>2 DEF ManagerInv
    <2> QED BY <2>1, <1>2 DEF Tracker!Holes
  <1>3. ASSUME NEW n \in Tracker!Holes(m.received)
        PROVE  n \in 1 .. m.expected - 1 /\ n \notin m.received
    <2>1. n \in 1 .. MaxSeq /\ n \notin m.received
      BY DEF Tracker!Holes
    <2>2. PICK k \in m.received : n < k
      BY DEF Tracker!Holes
    <2>3. k < m.expected /\ k \in Nat
      BY <1>1, <2>2 DEF ManagerInv, Numbers
    <2> QED BY <1>1, <2>1, <2>2, <2>3
  <1> QED BY <1>2, <1>3, MissingExact

-----------------------------------------------------------------------------
(* The invariant holds initially and is preserved by every step.           *)

LEMMA InitInv == Init => IInv
  <1> SUFFICES ASSUME Init PROVE IInv
    OBVIOUS
  <1> USE SyncAssumption DEF Init
  <1>1. managers \in [Symbols -> Manager]
    BY FreshHolds DEF ManagerInv
  <1>2. status \in [Symbols -> Statuses]
    BY DEF FreshStatus, Statuses
  <1>3. TypeOK
    BY <1>1, <1>2 DEF TypeOK
  <1>4. AllManagers
    BY FreshHolds DEF AllManagers
  <1> QED BY <1>3, <1>4 DEF IInv

(* Changing one manager to another that satisfies ManagerInv is enough.    *)
LEMMA OneManager ==
  ASSUME managers \in [Symbols -> Manager], AllManagers,
         NEW s \in Symbols, NEW m, ManagerInv(m),
         managers' = [managers EXCEPT ![s] = m]
  PROVE  managers' \in [Symbols -> Manager] /\ AllManagers'
  <1>1. \A t \in Symbols : managers'[t] = IF t = s THEN m ELSE managers[t]
    OBVIOUS
  <1> QED BY <1>1 DEF AllManagers, ManagerInv

LEMMA StepInv == IInv /\ [Next]_vars => IInv'
  <1> SUFFICES ASSUME IInv, [Next]_vars PROVE IInv'
    OBVIOUS
  <1> USE SyncAssumption
  <1>0. TypeOK /\ AllManagers
    BY DEF IInv
  <1>1. ASSUME NEW s \in Symbols, CreatePacket(s) PROVE IInv'
    <2> DEFINE m == [managers[s] EXCEPT !.current = managers[s].current + 1]
    <2>1. ManagerInv(managers[s]) /\ managers[s].current + 1 <= MaxSeq
      BY <1>0, <1>1 DEF AllManagers, CreatePacket
    <2>2. ManagerInv(m)
      BY <2>1, NextNumberHolds
    <2>3. managers' = [managers EXCEPT ![s] = m]
      BY <1>1 DEF CreatePacket
    <2>4. managers' \in [Symbols -> Manager] /\ AllManagers'
      BY <1>0, <2>2, <2>3, OneManager DEF TypeOK
    <2>5. managers[s].current + 1 \in Numbers
      BY <2>1 DEF ManagerInv, Manager, Numbers
    <2>6. network' \in SUBSET (Symbols \X Numbers)
      BY <1>0, <1>1, <2>5 DEF CreatePacket, TypeOK
    <2> QED BY <1>0, <1>1, <2>4, <2>6 DEF CreatePacket, TypeOK, IInv
  <1>2. ASSUME NEW r \in Receivers, NEW n \in Numbers, Receive(r, n) PROVE IInv'
    <2> DEFINE s == Serves[r]
    <2>1. s \in Symbols /\ ManagerInv(managers[s]) /\ n \notin managers[s].received
      BY <1>0, <1>2 DEF AllManagers, Receive
    <2>2. ManagerInv(RecordReceived(managers[s], n))
      BY <2>1, RecordHolds
    <2>3. managers' = [managers EXCEPT ![s] = RecordReceived(managers[s], n)]
      BY <1>0, <1>2, <2>1 DEF Receive, TypeOK
    <2>4. managers' \in [Symbols -> Manager] /\ AllManagers'
      BY <1>0, <2>1, <2>2, <2>3, OneManager DEF TypeOK
    <2> QED BY <1>0, <1>2, <2>4 DEF Receive, TypeOK, IInv
  <1>3. ASSUME NEW s \in Symbols, ResetSequence(s) PROVE IInv'
    <2>1. managers' \in [Symbols -> Manager] /\ AllManagers'
      BY <1>0, <1>3, FreshHolds, OneManager DEF ResetSequence, TypeOK
    <2> QED BY <1>0, <1>3, <2>1 DEF ResetSequence, TypeOK, IInv
  <1>4. ASSUME UNCHANGED managers, TypeOK' PROVE IInv'
    BY <1>0, <1>4 DEF IInv, AllManagers
  <1>5. ASSUME NEW r \in Receivers, ReadGaps(r) PROVE IInv'
    <2>1. managers[Serves[r]].gaps \in SUBSET Gap
      BY <1>0 DEF TypeOK, Manager
    <2>2. TypeOK'
      BY <1>0, <1>5, <2>1 DEF ReadGaps, TypeOK
    <2> QED BY <1>4, <1>5, <2>2 DEF ReadGaps
  <1>6. ASSUME NEW r \in Receivers, WriteState(r) PROVE IInv'
    <2>1. status' \in [Symbols -> Statuses]
      BY <1>0, <1>6 DEF WriteState, TypeOK, Statuses
    <2>2. TypeOK'
      BY <1>0, <1>6, <2>1 DEF WriteState, TypeOK
    <2> QED BY <1>4, <1>6, <2>2 DEF WriteState
  <1>7. ASSUME NEW r \in Receivers, WriteGaps(r) PROVE IInv'
    <2>1. status' \in [Symbols -> Statuses]
      BY <1>0, <1>7 DEF WriteGaps, TypeOK, Statuses
    <2>2. TypeOK'
      BY <1>0, <1>7, <2>1 DEF WriteGaps, TypeOK
    <2> QED BY <1>4, <1>7, <2>2 DEF WriteGaps
  <1>8. ASSUME ResetStatus PROVE IInv'
    <2>1. status' \in [Symbols -> Statuses]
      BY <1>0, <1>8 DEF ResetStatus, TypeOK, FreshStatus, Statuses
    <2>2. TypeOK'
      BY <1>0, <1>8, <2>1 DEF ResetStatus, TypeOK
    <2> QED BY <1>4, <1>8, <2>2 DEF ResetStatus
  <1>10. ASSUME NEW r \in Receivers, LookUp(r) PROVE IInv'
    <2>1. TypeOK'
      BY <1>0, <1>10 DEF LookUp, TypeOK
    <2> QED BY <1>4, <1>10, <2>1 DEF LookUp
  <1>11. ASSUME NEW r \in Receivers, NEW n \in Numbers, Duplicate(r, n) PROVE IInv'
    <2>1. TypeOK'
      BY <1>0, <1>11 DEF Duplicate, TypeOK
    <2> QED BY <1>4, <1>11, <2>1 DEF Duplicate
  <1>12. CASE UNCHANGED vars
    <2>1. TypeOK'
      BY <1>0, <1>12 DEF vars, TypeOK
    <2> QED BY <1>4, <1>12, <2>1 DEF vars
  <1> QED BY <1>1, <1>2, <1>3, <1>5, <1>6, <1>7, <1>8, <1>10, <1>11, <1>12 DEF Next

THEOREM Invariance == Spec => []IInv
  BY InitInv, StepInv, PTL DEF Spec

-----------------------------------------------------------------------------
(* The variables keep their types: no gap and no counter ever leaves the   *)
(* range of the sequence numbers.                                          *)
THEOREM TypeCorrect == Spec => []TypeOK
  <1>1. IInv => TypeOK
    BY DEF IInv
  <1> QED BY <1>1, Invariance, PTL

(* get_missing_sequences answers exactly the numbers below the next        *)
(* expected one that were not received.                                    *)
THEOREM MissingIsAlwaysExact == Spec => []MissingIsExact
  <1>1. IInv => MissingIsExact
    BY MissingExact DEF IInv, AllManagers, MissingIsExact
  <1> QED BY <1>1, Invariance, PTL

(* The recorded gaps are disjoint, open and below the next expected number.*)
THEOREM GapsStayWellFormed == Spec => []GapsWellFormed
  <1>1. IInv => GapsWellFormed
    BY DEF IInv, AllManagers, ManagerInv, GapsWellFormed
  <1> QED BY <1>1, Invariance, PTL

(* Gaps and missing numbers are exact.                                     *)
THEOREM GapsStayExact == Spec => []GapsAreExact
  BY MissingIsAlwaysExact, GapsStayWellFormed, PTL DEF GapsAreExact

(* A number handed out was not received since the last reset.              *)
THEOREM NumbersStayFresh == Spec => NumbersAreFresh
  <1>1. IInv /\ [Next]_vars =>
          [ \A s \in Symbols \ Numbered :
              managers'[s].current = managers[s].current + 1
                => managers'[s].current \notin managers[s].received ]_vars
    <2> SUFFICES ASSUME IInv, NEW s \in Symbols,
                        managers'[s].current = managers[s].current + 1
                 PROVE  managers'[s].current \notin managers[s].received
      OBVIOUS
    <2>1. ManagerInv(managers[s])
      BY DEF IInv, AllManagers
    <2>2. \A n \in managers[s].received : n <= managers[s].current
      BY <2>1 DEF ManagerInv
    <2>3. managers[s].current \in Nat
      BY <2>1, SyncAssumption DEF ManagerInv, Manager
    <2> QED BY <2>2, <2>3
  <1> QED BY <1>1, Invariance, PTL DEF Spec, NumbersAreFresh

-----------------------------------------------------------------------------
(* DataSync implements SequenceTracker: receive_packet is its Deliver,     *)
(* the first half of reset_symbol its Forget, all else stutters.           *)

LEMMA RefinesInit == Init => Tracker!Init
  BY FreshHolds DEF Init, Tracker!Init, FreshManager

trackerVars == <<[s \in Symbols |-> managers[s].received],
                 [s \in Symbols |-> Missing(managers[s])]>>

LEMMA RefinesNext == IInv /\ IInv' /\ [Next]_vars => [Tracker!Next]_trackerVars
  <1> SUFFICES ASSUME IInv, IInv', [Next]_vars
               PROVE  Tracker!Next \/ UNCHANGED trackerVars
    BY DEF trackerVars
  <1> USE SyncAssumption
  <1>0. /\ TypeOK /\ AllManagers
        /\ AllManagers'
    BY DEF IInv
  <1>1. ASSUME NEW s \in Symbols, CreatePacket(s) PROVE UNCHANGED trackerVars
    <2>1. \A t \in Symbols : /\ managers'[t].received = managers[t].received
                             /\ managers'[t].gaps = managers[t].gaps
      BY <1>0, <1>1 DEF CreatePacket, TypeOK, Manager
    <2>2. \A t \in Symbols : Missing(managers'[t]) = Missing(managers[t])
      BY <2>1 DEF Missing
    <2> QED BY <2>1, <2>2 DEF trackerVars
  <1>2. ASSUME NEW r \in Receivers, NEW n \in Numbers, Receive(r, n)
        PROVE  Tracker!Next
    <2> DEFINE s == Serves[r]
               m == RecordReceived(managers[s], n)
    <2>1. s \in Symbols /\ n \in 1 .. MaxSeq
      BY DEF Numbers
    <2>2. managers' = [managers EXCEPT ![s] = m]
      BY <1>0, <1>2, <2>1 DEF Receive, TypeOK
    <2>3. \A t \in Symbols : managers'[t] = IF t = s THEN m ELSE managers[t]
      BY <1>0, <2>2 DEF TypeOK
    <2>4. m.received = managers[s].received \cup {n}
      BY DEF RecordReceived
    <2>5. Missing(m) = Tracker!Holes(managers[s].received \cup {n})
      <3>1. ManagerInv(m)
        BY <1>0, <2>1, <2>3 DEF AllManagers
      <3> QED BY <3>1, <2>4, MissingIsHoles
    <2>6. Tracker!Deliver(s, n)
      BY <2>1, <2>3, <2>4, <2>5 DEF Tracker!Deliver
    <2> QED BY <2>1, <2>6 DEF Tracker!Next
  <1>3. ASSUME NEW s \in Symbols, ResetSequence(s) PROVE Tracker!Next
    <2>1. \A t \in Symbols : managers'[t] = IF t = s THEN FreshManager ELSE managers[t]
      BY <1>0, <1>3 DEF ResetSequence, TypeOK
    <2>2. FreshManager.received = {} /\ Missing(FreshManager) = {}
      BY FreshHolds DEF FreshManager
    <2>3. Tracker!Forget(s)
      BY <2>1, <2>2 DEF Tracker!Forget
    <2> QED BY <2>3 DEF Tracker!Next
  <1>4. ASSUME UNCHANGED managers PROVE UNCHANGED trackerVars
    BY <1>4 DEF trackerVars
  <1> QED
    BY <1>1, <1>2, <1>3, <1>4
       DEF Next, vars, LookUp, Duplicate, ReadGaps, WriteState, WriteGaps, ResetStatus

(* What the sequence managers answer is what SequenceTracker allows, for   *)
(* any order, loss and duplication of packets and any number of threads.   *)
THEOREM ImplementsTracker == Spec => TracksExactly
  <1>1. Spec => []IInv /\ Init /\ [][Next]_vars
    BY Invariance DEF Spec
  <1> QED BY <1>1, RefinesInit, RefinesNext, PTL
             DEF TracksExactly, Tracker!Spec, trackerVars
-----------------------------------------------------------------------------
(* The status.  A symbol is raced while calls on it overlap, since each     *)
(* writes what it read before the other, and until one alone has received  *)
(* a number; the invariant speaks of the other symbols.                    *)

(* The status s says the truth about a manager with these gaps.            *)
Truthful(s, gaps) ==
  CASE s.state = "SYNCED"      -> gaps = {} /\ s.gaps = {}
    [] s.state = "OUT_OF_SYNC" -> gaps # {} /\ s.gaps = gaps
    [] OTHER                   -> s.gaps = {}

(* A symbol that is not raced is served by one call at a time.             *)
AloneInv ==
  \A q, r \in Receivers :
    Serves[q] = Serves[r] /\ Serves[r] \notin raced /\ q # r
      => pc[q] = "idle" \/ pc[r] = "idle"

(* The writes of an orphan are lost.                                       *)
OrphanInv ==
  \A r \in orphan :
    /\ pc[r] # "idle"
    /\ Serves[r] \notin raced => status[Serves[r]] = FreshStatus

SettledInv ==
  \A s \in Symbols \ raced :
    resetting # s /\ (\A r \in Receivers : Serves[r] = s => pc[r] \in {"idle", "called"})
      => Truthful(status[s], managers[s].gaps)

(* Between the three locked sections of receive_packet nobody but the      *)
(* thread itself changes the gaps it has read or the status it writes.     *)
SeenInv ==
  \A r \in Receivers : r \notin orphan /\ resetting # Serves[r] /\ Serves[r] \notin raced =>
    /\ pc[r] \in {"judging", "copied"} => seen[r] = managers[Serves[r]].gaps
    /\ pc[r] \in {"judged", "copied"} =>
         status[Serves[r]].state = IF managers[Serves[r]].gaps = {} THEN "SYNCED" ELSE "OUT_OF_SYNC"

StatusInv == AloneInv /\ OrphanInv /\ SettledInv /\ SeenInv

(* A new status is true of any manager.                                    *)
LEMMA FreshIsTruthful == \A gaps : Truthful(FreshStatus, gaps)
  BY DEF Truthful, FreshStatus

LEMMA StatusInit == Init => StatusInv
  <1> SUFFICES ASSUME Init PROVE StatusInv
    OBVIOUS
  <1>1. SettledInv
    BY FreshIsTruthful DEF Init, SettledInv
  <1> QED BY <1>1 DEF Init, StatusInv, AloneInv, OrphanInv, SeenInv

(* A step of one thread concerns its symbol only, and leaves the status    *)
(* right when no other thread serves it.                                   *)
LEMMA ThreadOfSymbol ==
  ASSUME IInv, StatusInv, NEW r \in Receivers, resetting' = resetting,
         \A q \in Receivers : q # r =>
           pc'[q] = pc[q] /\ seen'[q] = seen[q] /\ (q \in orphan' <=> q \in orphan),
         \A s \in Symbols : s # Serves[r] =>
           /\ status'[s] = status[s] /\ managers'[s].gaps = managers[s].gaps
           /\ s \in raced' <=> s \in raced,
         orphan' \subseteq Receivers,
         r \in orphan' => pc'[r] # "idle",
         Serves[r] \notin raced' =>
           /\ \A q \in Receivers : q # r /\ Serves[q] = Serves[r] => pc[q] = "idle"
           /\ r \in orphan' => status'[Serves[r]] = FreshStatus
           /\ resetting # Serves[r] /\ pc'[r] \in {"idle", "called"} =>
                Truthful(status'[Serves[r]], managers'[Serves[r]].gaps)
           /\ r \notin orphan' /\ resetting # Serves[r] =>
                /\ pc'[r] \in {"judging", "copied"} => seen'[r] = managers'[Serves[r]].gaps
                /\ pc'[r] \in {"judged", "copied"} =>
                     status'[Serves[r]].state =
                       IF managers'[Serves[r]].gaps = {} THEN "SYNCED" ELSE "OUT_OF_SYNC"
  PROVE  StatusInv'
  <1> USE SyncAssumption
  <1>0. \A q \in Receivers : Serves[q] \in Symbols
    OBVIOUS
  <1>1. AloneInv'
    <2> SUFFICES ASSUME NEW p \in Receivers, NEW q \in Receivers, Serves[p] = Serves[q],
                        Serves[q] \notin raced', p # q
                 PROVE  pc'[p] = "idle" \/ pc'[q] = "idle"
      BY DEF AloneInv
    <2>1. CASE Serves[q] = Serves[r]
      BY <2>1
    <2>2. CASE Serves[q] # Serves[r]
      BY <2>2, <1>0 DEF StatusInv, AloneInv
    <2> QED BY <2>1, <2>2
  <1>2. OrphanInv'
    <2> SUFFICES ASSUME NEW q \in orphan'
                 PROVE  pc'[q] # "idle" /\ (Serves[q] \notin raced' => status'[Serves[q]] = FreshStatus)
      BY DEF OrphanInv
    <2>1. CASE q = r
      BY <2>1
    <2>2. CASE q # r
      <3>1. q \in Receivers /\ q \in orphan /\ pc'[q] = pc[q] /\ pc[q] # "idle"
        BY <2>2 DEF StatusInv, OrphanInv
      <3>2. CASE Serves[q] = Serves[r]
        BY <2>2, <3>1, <3>2
      <3>3. CASE Serves[q] # Serves[r]
        BY <1>0, <3>1, <3>3 DEF StatusInv, OrphanInv
      <3> QED BY <3>1, <3>2, <3>3
    <2> QED BY <2>1, <2>2
  <1>3. SettledInv'
    <2> SUFFICES ASSUME NEW s \in Symbols, s \notin raced', resetting' # s,
                        \A q \in Receivers : Serves[q] = s => pc'[q] \in {"idle", "called"}
                 PROVE  Truthful(status'[s], managers'[s].gaps)
      BY DEF SettledInv
    <2>1. CASE s = Serves[r]
      BY <2>1
    <2>2. CASE s # Serves[r]
      <3>1. \A q \in Receivers : Serves[q] = s => pc[q] \in {"idle", "called"}
        BY <2>2
      <3>2. Truthful(status[s], managers[s].gaps)
        BY <2>2, <3>1 DEF StatusInv, SettledInv
      <3> QED BY <2>2, <3>2
    <2> QED BY <2>1, <2>2
  <1>4. SeenInv'
    <2> SUFFICES ASSUME NEW q \in Receivers, q \notin orphan', resetting' # Serves[q],
                        Serves[q] \notin raced'
                 PROVE  /\ pc'[q] \in {"judging", "copied"} => seen'[q] = managers'[Serves[q]].gaps
                        /\ pc'[q] \in {"judged", "copied"} =>
                             status'[Serves[q]].state =
                               IF managers'[Serves[q]].gaps = {} THEN "SYNCED" ELSE "OUT_OF_SYNC"
      BY DEF SeenInv
    <2>1. CASE q = r
      BY <2>1
    <2>2. CASE q # r
      <3>1. CASE Serves[q] = Serves[r]
        BY <2>2, <3>1
      <3>2. CASE Serves[q] # Serves[r]
        BY <1>0, <2>2, <3>2 DEF StatusInv, SeenInv
      <3> QED BY <3>1, <3>2
    <2> QED BY <2>1, <2>2
  <1> QED BY <1>1, <1>2, <1>3, <1>4 DEF StatusInv

LEMMA StatusStep == ASSUME IInv, StatusInv, [Next]_vars PROVE StatusInv'
  <1> USE SyncAssumption
  <1>0. TypeOK
    BY DEF IInv
  <1>1. ASSUME UNCHANGED <<status, pc, seen, orphan, resetting, raced>>,
               \A s \in Symbols : managers'[s].gaps = managers[s].gaps
        PROVE  StatusInv'
    <2>1. AloneInv' /\ OrphanInv'
      BY <1>1 DEF StatusInv, AloneInv, OrphanInv
    <2>2. SettledInv'
      BY <1>1 DEF StatusInv, SettledInv
    <2>3. SeenInv'
      BY <1>1 DEF StatusInv, SeenInv
    <2> QED BY <2>1, <2>2, <2>3 DEF StatusInv
  <1>2. ASSUME NEW s \in Symbols, CreatePacket(s) PROVE StatusInv'
    <2>1. \A t \in Symbols : managers'[t].gaps = managers[t].gaps
      BY <1>0, <1>2 DEF CreatePacket, TypeOK, Manager
    <2> QED BY <1>1, <1>2, <2>1 DEF CreatePacket
  <1>3. ASSUME NEW s \in Symbols, ResetSequence(s) PROVE StatusInv'
    <2>1. \A t \in Symbols : t # s => managers'[t] = managers[t]
      BY <1>0, <1>3 DEF ResetSequence, TypeOK
    <2>2. resetting = None /\ resetting' = s /\ None \notin Symbols
          /\ UNCHANGED <<status, pc, seen, orphan, raced>>
      BY <1>3 DEF ResetSequence
    <2>3. AloneInv' /\ OrphanInv'
      BY <2>2 DEF StatusInv, AloneInv, OrphanInv
    <2>4. SettledInv'
      BY <2>1, <2>2 DEF StatusInv, SettledInv
    <2>5. SeenInv'
      BY <2>1, <2>2 DEF StatusInv, SeenInv
    <2> QED BY <2>3, <2>4, <2>5 DEF StatusInv
  <1>4. ASSUME ResetStatus PROVE StatusInv'
    <2> DEFINE s == resetting
    <2>1. s \in Symbols /\ resetting' = None /\ None \notin Symbols
          /\ UNCHANGED <<managers, pc, seen, raced>>
      BY <1>0, <1>4 DEF ResetStatus, TypeOK
    <2>2. \A t \in Symbols : status'[t] = IF t = s THEN FreshStatus ELSE status[t]
      BY <1>0, <1>4 DEF ResetStatus, TypeOK
    <2>3. orphan' = orphan \cup {r \in Receivers : Serves[r] = s /\ pc[r] # "idle"}
      BY <1>4 DEF ResetStatus
    <2>4. OrphanInv'
      <3>1. orphan \subseteq Receivers
        BY <1>0 DEF TypeOK
      <3>2. \A q \in orphan' : Serves[q] \in Symbols /\ pc[q] # "idle"
                              /\ (q \in orphan \/ Serves[q] = s)
        BY <2>3, <3>1 DEF StatusInv, OrphanInv
      <3>3. \A q \in orphan' : Serves[q] \notin raced => status'[Serves[q]] = FreshStatus
        BY <2>2, <3>2 DEF StatusInv, OrphanInv
      <3> QED BY <2>1, <3>2, <3>3 DEF OrphanInv
    <2>5. SettledInv'
      <3> SUFFICES ASSUME NEW t \in Symbols, t \notin raced',
                          \A r \in Receivers : Serves[r] = t => pc'[r] \in {"idle", "called"}
                   PROVE  Truthful(status'[t], managers'[t].gaps)
        BY DEF SettledInv
      <3>1. CASE t = s
        BY <2>2, <3>1, FreshIsTruthful
      <3>2. CASE t # s
        <4>1. Truthful(status[t], managers[t].gaps)
          BY <2>1, <3>2 DEF StatusInv, SettledInv
        <4> QED BY <2>1, <2>2, <3>2, <4>1
      <3> QED BY <3>1, <3>2
    <2>6. SeenInv'
      <3> SUFFICES ASSUME NEW r \in Receivers, r \notin orphan', Serves[r] \notin raced'
                   PROVE  /\ pc'[r] \in {"judging", "copied"} => seen'[r] = managers'[Serves[r]].gaps
                          /\ pc'[r] \in {"judged", "copied"} =>
                               status'[Serves[r]].state =
                                 IF managers'[Serves[r]].gaps = {} THEN "SYNCED" ELSE "OUT_OF_SYNC"
        BY DEF SeenInv
      <3>1. Serves[r] \in Symbols /\ r \notin orphan
        BY <2>3
      <3>2. CASE Serves[r] = s
        BY <2>1, <2>3, <3>2
      <3>3. CASE Serves[r] # s
        BY <2>1, <2>2, <3>1, <3>3 DEF StatusInv, SeenInv
      <3> QED BY <3>2, <3>3
    <2>7. AloneInv'
      BY <2>1 DEF StatusInv, AloneInv
    <2> QED BY <2>4, <2>5, <2>6, <2>7 DEF StatusInv
  <1>5. ASSUME NEW r \in Receivers, \/ LookUp(r) \/ ReadGaps(r) \/ WriteState(r) \/ WriteGaps(r)
                                    \/ \E n \in Numbers : Receive(r, n) \/ Duplicate(r, n)
        PROVE  StatusInv'
    <2> DEFINE s == Serves[r]
    <2>0. /\ s \in Symbols /\ DOMAIN pc = Receivers /\ DOMAIN seen = Receivers
          /\ DOMAIN status = Symbols /\ DOMAIN managers = Symbols
          /\ status[s] \in Statuses /\ orphan \subseteq Receivers
      <3>1. s \in Symbols
        OBVIOUS
      <3>2. /\ DOMAIN pc = Receivers /\ DOMAIN seen = Receivers
            /\ DOMAIN status = Symbols /\ DOMAIN managers = Symbols
        BY <1>0 DEF TypeOK
      <3>3. status[s] \in Statuses /\ orphan \subseteq Receivers
        BY <1>0, <3>1 DEF TypeOK
      <3> QED BY <3>1, <3>2, <3>3
    <2>a. r \in orphan => pc[r] # "idle"
      BY DEF StatusInv, OrphanInv
    <2>b. s \notin raced /\ pc[r] # "idle" =>
            \A q \in Receivers : q # r /\ Serves[q] = s => pc[q] = "idle"
      BY DEF StatusInv, AloneInv
    <2>1. r \in orphan /\ s \notin raced => status[s] = FreshStatus
      BY DEF StatusInv, OrphanInv
    <2>2. s \notin raced /\ resetting # s /\ pc[r] \in {"idle", "called"}
          /\ (\A q \in Receivers : q # r /\ Serves[q] = s => pc[q] = "idle")
            => Truthful(status[s], managers[s].gaps)
      BY <2>0 DEF StatusInv, SettledInv
    <2>3. r \notin orphan /\ resetting # s /\ s \notin raced =>
            /\ pc[r] \in {"judging", "copied"} => seen[r] = managers[s].gaps
            /\ pc[r] \in {"judged", "copied"} =>
                 status[s].state = IF managers[s].gaps = {} THEN "SYNCED" ELSE "OUT_OF_SYNC"
      BY DEF StatusInv, SeenInv
    <2>4. CASE LookUp(r)
      <3>1. pc[r] = "idle" /\ pc'[r] = "called" /\ \A q \in Receivers : q # r => pc'[q] = pc[q]
        BY <2>0, <2>4 DEF LookUp
      <3>2. UNCHANGED <<managers, status, seen, orphan, resetting>>
        BY <2>4 DEF LookUp
      <3>3. /\ \A t \in Symbols : t # s => (t \in raced' <=> t \in raced)
            /\ s \notin raced' =>
                 s \notin raced /\ \A q \in Receivers : q # r /\ Serves[q] = s => pc[q] = "idle"
        BY <2>4 DEF LookUp, Alone
      <3>4. s \notin raced' /\ resetting # s => Truthful(status'[s], managers'[s].gaps)
        BY <2>2, <3>1, <3>2, <3>3
      <3>5. r \notin orphan' /\ pc'[r] \notin {"judging", "judged", "copied"}
        BY <2>a, <3>1, <3>2
      <3> QED BY <2>0, <3>1, <3>2, <3>3, <3>4, <3>5, ThreadOfSymbol
    <2>5. CASE ReadGaps(r)
      <3>1. /\ \/ pc[r] = "recorded" /\ pc'[r] = "judging"
               \/ pc[r] = "judged" /\ pc'[r] = "copied"
            /\ seen'[r] = managers[s].gaps
            /\ \A q \in Receivers : q # r => pc'[q] = pc[q] /\ seen'[q] = seen[q]
        <4>1. /\ pc' = [pc EXCEPT ![r] = IF pc[r] = "recorded" THEN "judging" ELSE "copied"]
              /\ pc[r] \in {"recorded", "judged"}
              /\ seen' = [seen EXCEPT ![r] = managers[s].gaps]
          BY <2>5 DEF ReadGaps
        <4>2. /\ pc'[r] = IF pc[r] = "recorded" THEN "judging" ELSE "copied"
              /\ \A q \in Receivers : q # r => pc'[q] = pc[q]
          BY <2>0, <4>1
        <4>3. seen'[r] = managers[s].gaps /\ \A q \in Receivers : q # r => seen'[q] = seen[q]
          BY <2>0, <4>1
        <4> QED BY <4>1, <4>2, <4>3
      <3>2. UNCHANGED <<managers, status, orphan, resetting, raced>>
        BY <2>5 DEF ReadGaps
      <3>3. r \notin orphan' /\ resetting # s /\ s \notin raced =>
              /\ pc'[r] \in {"judging", "copied"} => seen'[r] = managers'[s].gaps
              /\ pc'[r] \in {"judged", "copied"} =>
                   status'[s].state = IF managers'[s].gaps = {} THEN "SYNCED" ELSE "OUT_OF_SYNC"
        BY <2>3, <3>1, <3>2
      <3>4. pc[r] # "idle" /\ pc'[r] \notin {"idle", "called"}
        BY <3>1
      <3> QED BY <2>0, <2>b, <2>1, <3>1, <3>2, <3>3, <3>4, ThreadOfSymbol
    <2>6. CASE WriteState(r)
      <3>1. /\ pc[r] = "judging" /\ pc'[r] = "judged"
            /\ \A q \in Receivers : q # r => pc'[q] = pc[q]
        BY <2>0, <2>6 DEF WriteState
      <3>2. UNCHANGED <<managers, seen, orphan, resetting, raced>>
        BY <2>6 DEF WriteState
      <3>3. /\ \A t \in Symbols : t # s => status'[t] = status[t]
            /\ r \in orphan => status'[s] = status[s]
            /\ r \notin orphan =>
                 status'[s].state = IF seen[r] = {} THEN "SYNCED" ELSE "OUT_OF_SYNC"
        BY <2>0, <2>6 DEF WriteState, Statuses
      <3>4. r \notin orphan' /\ resetting # s /\ s \notin raced =>
              status'[s].state = IF managers'[s].gaps = {} THEN "SYNCED" ELSE "OUT_OF_SYNC"
        BY <2>3, <3>1, <3>2, <3>3
      <3>5. pc'[r] \notin {"idle", "called", "judging", "copied"}
        BY <3>1
      <3>6. pc[r] # "idle" /\ (r \in orphan' /\ s \notin raced => status'[s] = FreshStatus)
        BY <2>1, <3>1, <3>2, <3>3
      <3> QED BY <2>0, <2>b, <3>1, <3>2, <3>3, <3>4, <3>5, <3>6, ThreadOfSymbol
    <2>7. CASE WriteGaps(r)
      <3>1. /\ pc[r] = "copied" /\ pc'[r] = "idle" /\ r \notin orphan'
            /\ \A q \in Receivers : q # r =>
                 pc'[q] = pc[q] /\ seen'[q] = seen[q] /\ (q \in orphan' <=> q \in orphan)
            /\ orphan' \subseteq Receivers
        BY <2>0, <2>7 DEF WriteGaps
      <3>2. UNCHANGED <<managers, resetting, raced>>
        BY <2>7 DEF WriteGaps
      <3>3. /\ \A t \in Symbols : t # s => status'[t] = status[t]
            /\ r \in orphan => status'[s] = status[s]
            /\ r \notin orphan => status'[s].state = status[s].state /\ status'[s].gaps = seen[r]
        BY <2>0, <2>7 DEF WriteGaps, Statuses
      <3>4. resetting # s /\ s \notin raced => Truthful(status'[s], managers'[s].gaps)
        <4>1. CASE r \in orphan
          BY <4>1, <2>1, <3>3, FreshIsTruthful
        <4>2. CASE r \notin orphan
          BY <4>2, <2>3, <3>1, <3>2, <3>3 DEF Truthful
        <4> QED BY <4>1, <4>2
      <3>5. pc[r] # "idle" /\ pc'[r] \notin {"judging", "judged", "copied"}
        BY <3>1
      <3> QED BY <2>0, <2>b, <3>1, <3>2, <3>3, <3>4, <3>5, ThreadOfSymbol
    <2>8. ASSUME NEW n \in Numbers, Receive(r, n) PROVE StatusInv'
      <3>1. /\ pc'[r] = "recorded" /\ \A q \in Receivers : q # r => pc'[q] = pc[q]
            /\ \A t \in Symbols : t # s => managers'[t] = managers[t]
            /\ pc[r] = "called"
        BY <2>0, <2>8 DEF Receive, Delivered
      <3>2. UNCHANGED <<status, seen, orphan, resetting>>
        BY <2>8 DEF Receive
      <3>3. pc[r] # "idle" /\ pc'[r] \notin {"idle", "called", "judging", "judged", "copied"}
        BY <3>1
      <3>4. /\ \A t \in Symbols : t # s => (t \in raced' <=> t \in raced)
            /\ s \notin raced' => s \notin raced \/ (Alone(r) /\ r \notin orphan)
        BY <2>8 DEF Receive
      <3>5. s \notin raced' =>
              \A q \in Receivers : q # r /\ Serves[q] = s => pc[q] = "idle"
        BY <2>b, <3>3, <3>4 DEF Alone
      <3>6. s \notin raced' /\ r \in orphan' => status'[s] = FreshStatus
        BY <2>1, <3>2, <3>4
      <3> QED BY <2>0, <3>1, <3>2, <3>3, <3>4, <3>5, <3>6, ThreadOfSymbol
    <2>9. ASSUME NEW n \in Numbers, Duplicate(r, n) PROVE StatusInv'
      <3>1. /\ pc[r] = "called" /\ pc'[r] = "idle" /\ r \notin orphan'
            /\ \A q \in Receivers : q # r => pc'[q] = pc[q] /\ (q \in orphan' <=> q \in orphan)
            /\ orphan' \subseteq Receivers
        BY <2>0, <2>9 DEF Duplicate, Delivered
      <3>2. UNCHANGED <<managers, status, seen, resetting, raced>>
        BY <2>9 DEF Duplicate
      <3>3. pc[r] # "idle" /\ pc'[r] \notin {"judging", "judged", "copied"}
        BY <3>1
      <3>4. s \notin raced /\ resetting # s => Truthful(status'[s], managers'[s].gaps)
        BY <2>2, <2>b, <3>1, <3>2, <3>3
      <3> QED BY <2>0, <2>b, <3>1, <3>2, <3>3, <3>4, ThreadOfSymbol
    <2> QED BY <1>5, <2>4, <2>5, <2>6, <2>7, <2>8, <2>9
  <1>6. CASE UNCHANGED vars
    BY <1>1, <1>6 DEF vars
  <1> QED BY <1>2, <1>3, <1>4, <1>5, <1>6 DEF Next

(* Once nobody works on a symbol its status says the truth about its       *)
(* manager, however receptions and resets interleave and for any number of *)
(* threads, unless calls on it overlapped and none alone has received a    *)
(* number since.                                                           *)
THEOREM StatusAlwaysSettles == Spec => []StatusSettles
  <1>1. Init => StatusInv
    BY StatusInit
  <1>2. IInv /\ StatusInv /\ [Next]_vars => StatusInv'
    BY StatusStep
  <1>3. StatusInv => StatusSettles
    <2> SUFFICES ASSUME StatusInv, NEW s \in Symbols \ raced, resetting # s,
                        \A r \in Receivers : Serves[r] = s => pc[r] = "idle"
                 PROVE  Truthful(status[s], managers[s].gaps)
      BY DEF StatusSettles, Truthful
    <2> QED BY DEF StatusInv, SettledInv
  <1> QED BY <1>1, <1>2, <1>3, Invariance, PTL DEF Spec

=============================================================================
