------------------------------ MODULE Accounts ------------------------------
\* PositionManager, src/trading/position_manager.py, with Position of
\* src/trading/models.py, and PositionSynchronizer, src/portfolio/position_sync.py,
\* called with the manager's positions.
\*
\* All of it is synchronous: an action is one call.  Prices are in a unit
\* that most averages are whole numbers of, and the fills that would give another
\* are not explored: the code's decimals round at the 28th digit instead.
\* Left out: commission, slippage, unrealised profit, callbacks and the bounded
\* history, which nothing reads, and broker positions without a price.
EXTENDS Integers, FiniteSets

CONSTANTS
  Symbols,
  Quantities,       \* quantities of fills
  Prices,           \* prices of fills, in fractions fine enough for the averages
  BrokerPositions,  \* positions a broker may report for a symbol
  PriceTolerance,   \* price_tolerance_pct
  CriticalDiff,     \* max_quantity_diff_pct
  Policies,         \* which of auto_reconcile, reconcile_on_critical are set
  MaxCalls          \* bound: fills and synchronisations

VARIABLES
  policy,      \* the synchroniser's configuration
  books,       \* _positions
  cash,        \* history: money the fills brought in, per symbol
  realized,    \* realized_pnl over _trades, per symbol
  exact,       \* history: no fill was larger than what it reduced, none reconciled
  agreed,      \* history: the broker's positions, just after a reconciliation
  calls

accountVars == <<policy, books, cash, realized, exact, agreed, calls>>

Sides == {"BUY", "SELL"}
Position == [side : Sides, quantity : Nat \ {0}, average : Nat \ {0}]
Nobody == [s \in {} |-> 0]   \* no position at all

Init ==
  /\ policy \in Policies
  /\ books = Nobody
  /\ cash = [s \in Symbols |-> 0] /\ realized = [s \in Symbols |-> 0]
  /\ exact = [s \in Symbols |-> TRUE]
  /\ agreed = Nobody /\ calls = 0

Sign(side) == IF side = "BUY" THEN 1 ELSE -1
Least(a, b) == IF a < b THEN a ELSE b
Distance(a, b) == IF a < b THEN b - a ELSE a - b

\* Position.add_fill.
Averaged(position, quantity, price) ==
  (position.quantity * position.average + quantity * price) \div (position.quantity + quantity)

Enlarged(position, quantity, price) ==
  [position EXCEPT !.quantity = @ + quantity, !.average = Averaged(position, quantity, price)]

Divides(position, quantity, price) ==
  (position.quantity * position.average + quantity * price) % (position.quantity + quantity) = 0

\* mutant: the profit of a short position has the sign of a long one
Profit_OfLong(position, quantity, price) == quantity * (price - position.average)

\* _calculate_realized_pnl, of the whole fill even when the position is smaller.
Profit(position, quantity, price) ==
  Sign(position.side) * quantity * (price - position.average)

\* process_fill of a fill on the other side: a trade, and a position that shrinks
\* or goes; the part of the fill beyond it opens nothing.
Reduce(s, side, quantity, price) ==
  LET position == books[s]
      left == position.quantity - Least(quantity, position.quantity)
  IN /\ realized' = [realized EXCEPT ![s] = @ + Profit(position, quantity, price)]
     /\ books' = IF left = 0 THEN [o \in DOMAIN books \ {s} |-> books[o]]
                 ELSE [books EXCEPT ![s].quantity = left]
     /\ exact' = [exact EXCEPT ![s] = @ /\ quantity <= position.quantity]

\* process_fill of a first fill, or of one on the position's own side.
Enlarge(s, side, quantity, price) ==
  /\ s \in DOMAIN books => Divides(books[s], quantity, price)
  /\ books' = [o \in DOMAIN books \union {s} |->
       IF o # s THEN books[o]
       ELSE IF s \in DOMAIN books THEN Enlarged(books[s], quantity, price)
       ELSE [side |-> side, quantity |-> quantity, average |-> price]]
  /\ UNCHANGED <<realized, exact>>

Fill(s, side, quantity, price) ==
  /\ calls < MaxCalls /\ calls' = calls + 1 /\ agreed' = Nobody
  /\ cash' = [cash EXCEPT ![s] = @ - Sign(side) * quantity * price]
  /\ IF s \in DOMAIN books /\ books[s].side # side
     THEN Reduce(s, side, quantity, price)
     ELSE Enlarge(s, side, quantity, price)
  /\ UNCHANGED policy

-----------------------------------------------------------------------------
\* _compare_positions: the kinds of difference of one symbol.
Differences(s, local, broker) ==
  IF s \notin DOMAIN local THEN {"MISSING_LOCALLY"}
  ELSE IF s \notin DOMAIN broker THEN {"MISSING_ON_BROKER"}
  ELSE {kind \in {"SIDE", "QUANTITY", "PRICE"} :
          CASE kind = "SIDE" -> local[s].side # broker[s].side
            [] kind = "QUANTITY" -> local[s].quantity # broker[s].quantity
            [] kind = "PRICE" -> Distance(local[s].average, broker[s].average) * 100
                                   > PriceTolerance * broker[s].average}

\* A wrong side, a position the broker does not have, a quantity far off.
Critical(s, local, broker) ==
  LET found == Differences(s, local, broker)
  IN \/ found \intersect {"SIDE", "MISSING_ON_BROKER"} # {}
     \/ /\ "QUANTITY" \in found
        /\ Distance(local[s].quantity, broker[s].quantity) * 100
             > CriticalDiff * broker[s].quantity

All(broker) == DOMAIN books \union DOMAIN broker

\* has_critical makes every difference reconciled, not only the critical ones.
Reconciles(broker) ==
  \/ policy = "auto"
  \/ policy = "critical" /\ \E s \in All(broker) : Critical(s, books, broker)

\* _reconcile_single, once for each difference of a symbol both have.
Corrected(position, broker, found) ==
  [side |-> IF "SIDE" \in found THEN broker.side ELSE position.side,
   quantity |-> IF "QUANTITY" \in found THEN broker.quantity ELSE position.quantity,
   average |-> IF "PRICE" \in found THEN broker.average ELSE position.average]

\* sync.  A position that the broker lacks is deleted from the map sync built,
\* which leaves the books as they are, as does one that the books lack.
Sync(broker) ==
  LET both == DOMAIN books \intersect DOMAIN broker
  IN /\ calls < MaxCalls /\ calls' = calls + 1
     /\ IF Reconciles(broker)
        THEN /\ books' = [s \in DOMAIN books |->
                  IF s \in both
                  THEN Corrected(books[s], broker[s], Differences(s, books, broker))
                  ELSE books[s]]
             /\ exact' = [s \in Symbols |->
                  exact[s] /\ (s \in both => Differences(s, books, broker) = {})]
             /\ agreed' = broker
        ELSE UNCHANGED <<books, exact>> /\ agreed' = Nobody
     /\ UNCHANGED <<policy, cash, realized>>

Views == UNION {[S -> BrokerPositions] : S \in SUBSET Symbols}

Next ==
  \/ \E s \in Symbols, side \in Sides, quantity \in Quantities, price \in Prices :
       Fill(s, side, quantity, price)
  \/ \E broker \in Views : Sync(broker)

-----------------------------------------------------------------------------
\* The shape of the books.
TypeOK ==
  /\ policy \in Policies /\ calls \in 0..MaxCalls
  /\ DOMAIN books \subseteq Symbols
  /\ \A s \in DOMAIN books : books[s] \in Position
  /\ cash \in [Symbols -> Int] /\ realized \in [Symbols -> Int]
  /\ exact \in [Symbols -> BOOLEAN]

Held(s) ==
  IF s \notin DOMAIN books THEN 0
  ELSE Sign(books[s].side) * books[s].quantity * books[s].average

\* The profit of the recorded trades is what the fills brought in, but for what is
\* still tied up in the position, in any order of fills on both sides that no fill
\* larger than the position and no reconciliation has disturbed.
BooksBalance == \A s \in Symbols : exact[s] => realized[s] = cash[s] + Held(s)

\* After a reconciliation the same broker positions differ from the books in
\* nothing but positions that one side does not have at all.
ReconciledAgree ==
  \A s \in DOMAIN books \intersect DOMAIN agreed : Differences(s, books, agreed) = {}
=============================================================================
