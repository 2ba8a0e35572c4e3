----------------------------- MODULE RiskLimits -----------------------------
\* RiskManager, src/risk/risk_manager.py, over a Portfolio,
\* src/portfolio/portfolio.py, with the default limits.
\*
\* The live engine checks an order and awaits the broker before anything is booked,
\* so that several orders may be admitted against one portfolio.  It checks at the
\* order's limit price or at a constant, never at the market's price, while the
\* portfolio is valued at its positions' current prices.  Nothing in the repository
\* books a fill in the portfolio; its tests do it as Book does here.
\* Left out: the fills of sales of more than is held (short positions, whose value
\* the code counts like that of long ones), custom rules, costs, snapshots and
\* summaries.
EXTENDS Integers, FiniteSets

CONSTANTS
  Symbols,
  Quantities,   \* quantities of orders
  Prices,       \* limit prices, fill prices and market prices
  Cash,         \* initial_cash
  MaxOrders     \* bound: orders checked

VARIABLES
  cash,       \* _cash
  held,       \* quantity of each symbol in _positions
  price,      \* current_price of each position, 0 for None
  admitted,   \* history: the orders that passed check_order and are not booked
  fits,       \* history: the symbol booked last, if its check was on the safe side
  checked     \* orders checked so far

riskVars == <<cash, held, price, admitted, fits, checked>>

MaxSize == 10            \* _max_position_size_percent
MaxConcentration == 25   \* _max_concentration_percent
MaxExposure == 100       \* _max_total_exposure_percent
MaxDrawdown == 20        \* _max_drawdown_percent
Estimate == 100          \* the price a market order is checked at
Nothing == "none"

Init ==
  /\ cash = Cash
  /\ held = [s \in Symbols |-> 0]
  /\ price = [s \in Symbols |-> 0]
  /\ admitted = {} /\ fits = Nothing /\ checked = 0

TotalOf(f) == LET sum[S \in SUBSET Symbols] ==
                    IF S = {} THEN 0
                    ELSE LET s == CHOOSE x \in S : TRUE IN f[s] + sum[S \ {s}]
              IN sum[Symbols]

\* positions_value and total_value: a position without a price has no value.
PositionsValue == TotalOf([s \in Symbols |-> held[s] * price[s]])
TotalValue == cash + PositionsValue

\* At most this many percent of the portfolio, or no portfolio to relate it to.
Within(value, percent) == TotalValue <= 0 \/ value * 100 <= percent * TotalValue

\* _check_drawdown_limit: from the initial value, not from a peak.
DrawdownFits == (Cash - TotalValue) * 100 < MaxDrawdown * Cash

\* _check_concentration_limit: a sale adds nothing to the symbol.
ConcentrationFits(s, side, quantity, at) ==
  Within((held[s] + IF side = "BUY" THEN quantity ELSE 0) * at, MaxConcentration)

\* The other checks of check_order: position size, exposure, buying power.
SizeFits(quantity, at) == Within(quantity * at, MaxSize)
ExposureFits(quantity, at) == Within(PositionsValue + quantity * at, MaxExposure)
Affordable(quantity, at) == quantity * at <= cash

\* check_order, in the order of its checks; a sale passes the same ones.
Passes(s, side, quantity, at) ==
  /\ DrawdownFits
  /\ SizeFits(quantity, at)
  /\ ConcentrationFits(s, side, quantity, at)
  /\ ExposureFits(quantity, at)
  /\ Affordable(quantity, at)

\* The price the engine checks at: limit_price, or the estimate if there is none.
CheckedAt(limit) == IF limit = 0 THEN Estimate ELSE limit

Order == [symbol : Symbols, side : {"BUY", "SELL"}, quantity : Quantities,
          limit : Prices \union {0}, number : 1..MaxOrders, alone : BOOLEAN]

\* Every admitted order that something came between and its booking.
Disturbed == {[o EXCEPT !.alone = FALSE] : o \in admitted}

Check(s, side, quantity, limit) ==
  /\ checked < MaxOrders /\ checked' = checked + 1
  /\ Passes(s, side, quantity, CheckedAt(limit))
  /\ admitted' = Disturbed \union
       {[symbol |-> s, side |-> side, quantity |-> quantity, limit |-> limit,
         number |-> checked + 1, alone |-> admitted = {}]}
  /\ UNCHANGED <<cash, held, price, fits>>

\* A limit is kept; a market order is filled at any price.
Fillable(order, fill) ==
  order.limit = 0 \/ IF order.side = "BUY" THEN fill <= order.limit ELSE fill >= order.limit

\* The check was on the safe side: its price bounds the symbol's marks before and
\* after, the mark did not fall, and the fill is no worse than the mark.
SafeSide(order, fill, mark) ==
  /\ order.alone
  /\ price[order.symbol] <= mark /\ mark <= CheckedAt(order.limit)
  /\ IF order.side = "BUY" THEN fill <= mark ELSE fill >= mark

\* A fill: update_position, with update_cash for a purchase and record_trade for a
\* sale.  The position keeps the current price it has, or is marked at the fill;
\* a position that is closed is removed.
Book(order, fill, mark) ==
  LET s == order.symbol
      sign == IF order.side = "BUY" THEN 1 ELSE -1
      left == held[s] + sign * order.quantity
  IN /\ Fillable(order, fill) /\ mark \in {fill, price[s]} /\ left >= 0
     /\ held' = [held EXCEPT ![s] = left]
     /\ cash' = cash - sign * order.quantity * fill
     /\ price' = [price EXCEPT ![s] = IF left = 0 THEN 0 ELSE mark]
     /\ admitted' = {[o EXCEPT !.alone = FALSE] : o \in admitted \ {order}}
     /\ fits' = IF SafeSide(order, fill, mark) THEN s ELSE Nothing
     /\ UNCHANGED checked

\* Position.update_price: nothing that was checked before is safe.
Move(s, new) ==
  /\ held[s] > 0 /\ new # price[s]
  /\ price' = [price EXCEPT ![s] = new]
  /\ admitted' = Disturbed /\ fits' = Nothing
  /\ UNCHANGED <<cash, held, checked>>

Next ==
  \/ \E s \in Symbols, side \in {"BUY", "SELL"}, quantity \in Quantities,
          limit \in Prices \union {0} : Check(s, side, quantity, limit)
  \/ \E order \in admitted, fill \in Prices, mark \in Prices \union {0} :
       Book(order, fill, mark)
  \/ \E s \in Symbols, new \in Prices : Move(s, new)

-----------------------------------------------------------------------------
\* The shape of portfolio and admitted orders.
TypeOK ==
  /\ cash \in Int /\ held \in [Symbols -> Nat] /\ price \in [Symbols -> Prices \union {0}]
  /\ admitted \subseteq Order /\ checked \in 0..MaxOrders
  /\ fits \in Symbols \union {Nothing}

\* An order that passed check_order, is booked before anything else happens, and was
\* checked on the safe side (at a price its symbol is marked at or below, with a fill
\* no worse than the mark) leaves cash, a symbol that holds at most its share of the
\* portfolio, no more in positions than the portfolio is worth, and a portfolio that
\* may still trade: the checks are made on the state before the fill, and two of them
\* relate it to amounts after it.  Otherwise no limit is kept: one order can break
\* it whose symbol trades above the limit price or the estimate it was checked at,
\* and so can orders that were admitted together.
LimitsHold ==
  fits # Nothing =>
    /\ cash >= 0
    /\ held[fits] * price[fits] * 100 <= MaxConcentration * TotalValue
    /\ PositionsValue * 100 <= MaxExposure * TotalValue
    /\ DrawdownFits
=============================================================================
