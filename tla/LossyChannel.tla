---------------------------- MODULE LossyChannel ----------------------------
\* What the asynchronous side of a stream cache promises its consumer: a channel
\* of bounded capacity that keeps the order of what it holds and gives away only its
\* head.  What does not fit is refused, or takes the place of the oldest.
EXTENDS Integers, Sequences

CONSTANTS
  Data,       \* what is sent
  Capacities  \* what a channel may be made to hold

VARIABLES channel, capacity

Init == channel = << >> /\ capacity \in Capacities

\* A datum goes in at the tail; any number of the oldest may be lost for it.
Put(d) ==
  \E lost \in 0..Len(channel) :
    /\ channel' = Append(SubSeq(channel, lost + 1, Len(channel)), d)
    /\ Len(channel') <= capacity
  /\ UNCHANGED capacity

\* The oldest goes out.
Take == channel # << >> /\ channel' = Tail(channel) /\ UNCHANGED capacity

Next == Take \/ \E d \in Data : Put(d)

Spec == Init /\ [][Next]_<<channel, capacity>>
=============================================================================
