-------------------------- MODULE SequenceTracker --------------------------
(***************************************************************************)
(* What data/sync_manager.py promises about sequence numbers, per symbol:  *)
(* whichever order packets arrive in, and however often, it knows exactly  *)
(* which numbers below the highest received one are missing.               *)
(***************************************************************************)
EXTENDS Naturals

CONSTANTS
  Symbols,  \* the symbols that are tracked
  MaxSeq    \* bound: the highest sequence number

VARIABLES
  got,     \* per symbol: the numbers received since the last reset
  missing  \* per symbol: what get_missing_sequences() answers

Holes(S) == {n \in 1 .. MaxSeq : n \notin S /\ \E k \in S : n < k}

Init ==
  /\ got = [s \in Symbols |-> {}]
  /\ missing = [s \in Symbols |-> {}]

Deliver(s, n) ==
  /\ got' = [got EXCEPT ![s] = @ \cup {n}]
  /\ missing' = [missing EXCEPT ![s] = Holes(got[s] \cup {n})]

Forget(s) ==
  /\ got' = [got EXCEPT ![s] = {}]
  /\ missing' = [missing EXCEPT ![s] = {}]

Next ==
  \E s \in Symbols : Forget(s) \/ \E n \in 1 .. MaxSeq : Deliver(s, n)

Spec == Init /\ [][Next]_<<got, missing>>
=============================================================================
