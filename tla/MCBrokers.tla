------------------------------ MODULE MCBrokers ------------------------------
\* Two tasks and two orders for Brokers and OandaBroker.
EXTENDS Brokers, TLC

CONSTANTS o1, o2

\* Half a unit, and a whole one.
MCHalves == o1 :> 1 @@ o2 :> 2
=============================================================================
