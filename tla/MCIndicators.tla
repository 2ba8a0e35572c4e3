----------------------------- MODULE MCIndicators -----------------------------
\* Two series whose data hashes differ.
EXTENDS Indicators, TLC

CONSTANTS d1, d2

MCHashOf == d1 :> 1 @@ d2 :> 2
=============================================================================
