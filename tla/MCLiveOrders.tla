---------------------------- MODULE MCLiveOrders ----------------------------
(* Instance of LiveOrders for TLC.                                         *)
EXTENDS LiveOrders

CONSTANTS o1, o2, o3

(* Two orders go through everything.  The run goes on with a third only    *)
(* where two submissions overlapped in a LIVE engine that is not being     *)
(* stopped, and nothing is being cancelled: it meets the limits they broke. *)
ThirdAfterOverlap ==
  o3 \in registered =>
    kind = "network" /\ peak > 1 /\ mode = "LIVE" /\ stop = <<"no">> /\ cancelling = {}
=============================================================================
