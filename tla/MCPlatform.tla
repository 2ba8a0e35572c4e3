------------------------------ MODULE MCPlatform ------------------------------
\* Two symbols whose four data use three cache keys, two of the data with one hash;
\* a plugin that needs the other; a broker with a long or a short position.
EXTENDS Platform, TLC

CONSTANTS s1, s2, i1, i2, i3, i4, k1, k2, k3, n1, n2, d1, d2

MCSymbolOf == i1 :> s1 @@ i2 :> s2 @@ i3 :> s1 @@ i4 :> s2
MCKeyOf == i1 :> k1 @@ i2 :> k1 @@ i3 :> k2 @@ i4 :> k3
MCHashOf == i1 :> 1 @@ i2 :> 2 @@ i3 :> 3 @@ i4 :> 3
MCTimeOf == i1 :> 1 @@ i2 :> 1 @@ i3 :> 2 @@ i4 :> 2

MCRequires == n1 :> {} @@ n2 :> {n1}

MCBrokerPositions == {[side |-> "BUY", quantity |-> 2, average |-> 12],
                      [side |-> "SELL", quantity |-> 1, average |-> 24]}

MCSeriesHash == d1 :> 1 @@ d2 :> 2
=============================================================================
