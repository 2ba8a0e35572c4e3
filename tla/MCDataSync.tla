----------------------------- MODULE MCDataSync -----------------------------
(* Instance of DataSync for TLC: the packets of s1 are numbered by         *)
(* create_packet and received by two threads, the feed of s2 numbers its   *)
(* own and has one.                                                        *)
EXTENDS DataSync

CONSTANTS s1, s2, r1, r2, r3

MCServes == [r \in Receivers |-> IF r = r3 THEN s2 ELSE s1]

(* Two symbols share only reset_symbol's lock, so the second is kept small: *)
(* the run does not go on where it has received a number above 1 or is in   *)
(* receive_packet at the same time as the first.                            *)
SecondIsShort ==
  /\ managers[s2].expected <= 2
  /\ pc[r3] # "idle" => pc[r1] = "idle" /\ pc[r2] = "idle"
=============================================================================
