---------------------------- MODULE BacktestEngine ----------------------------
(***************************************************************************)
(* One run of the backtest engine (trading/backtest_engine.py): it walks   *)
(* over the candles behind the first MIN_CANDLES, enters with one order    *)
(* and leaves on a signal or, at the end, by force.                        *)
(*                                                                         *)
(* Rates are in 1/Unit, prices paid or got in 1/Unit and money in          *)
(* 1/Unit^2, so that every product of the code is exact; a quantity is a   *)
(* whole number of the smallest lots a float tells apart.  The signal is   *)
(* any the evaluator may give on the candles before this one.              *)
(***************************************************************************)
EXTENDS Integers, Sequences

CONSTANTS
  Unit,
  Slip, Com,   \* slippage_pct and commission_pct
  Initial,     \* initial_capital, in units of money
  Prices,      \* closing prices
  Orders,      \* order_config: type and value; an amount is in whole money
  MaxCandles   \* bound: candles behind the first MIN_CANDLES

ASSUME RatesAssumption == Unit \in Nat \ {0} /\ Slip \in 0..Unit /\ Com \in 0..Unit
ASSUME MoneyAssumption == Initial \in Nat \ {0} /\ Prices \subseteq Nat
ASSUME OrdersAssumption == Orders \subseteq [type : STRING, value : Int]
ASSUME CandlesAssumption == MaxCandles \in Nat

VARIABLES
  order,    \* order_config
  length,   \* candles behind the first MIN_CANDLES
  at,       \* candles of those seen
  capital, qty,
  entry,    \* position_entry_price
  entryAt,  \* position_entry_time
  close,    \* the last closing price
  curve,    \* equity_curve
  trades,   \* when each trade was entered and left
  gain, loss, \* gross_profit and gross_loss of the trades so far
  done

engineVars == <<order, length, at, capital, qty, entry, entryAt, close, curve, trades,
                gain, loss, done>>

EngineTypeOK ==
  /\ order \in Orders /\ length \in 0..MaxCandles /\ at \in 0..length
  /\ capital \in Nat /\ qty \in Nat /\ entry \in Nat /\ entryAt \in 0..at /\ close \in Nat
  /\ curve \in Seq(Nat) /\ Len(curve) = at
  /\ trades \in Seq([from : 1..MaxCandles, to : 1..MaxCandles])
  /\ gain \in Nat /\ loss \in Nat /\ done \in BOOLEAN

EngineInit ==
  /\ order \in Orders /\ length \in 0..MaxCandles /\ at = 0
  /\ capital = Initial /\ qty = 0 /\ entry = 0 /\ entryAt = 0 /\ close = 0
  /\ curve = <<>> /\ trades = <<>> /\ gain = 0 /\ loss = 0 /\ done = FALSE

----------------------------------------------------------------------------
Ratio == IF order.value < 0 THEN 0 ELSE IF order.value > Unit THEN Unit ELSE order.value

\* _calc_qty
CalcQty(price) ==
  IF price <= 0 THEN 0
  ELSE CASE order.type = "fixed_amount"    -> (order.value * Unit) \div price
         [] order.type = "balance_ratio"   -> (capital * Ratio) \div (Unit * Unit * price)
         [] order.type = "fixed_quantity"  -> order.value
         [] OTHER                          -> 0

\* cost + commission <= capital, of the quantity before it is cut to lots.
Affordable(price) ==
  CASE order.type = "fixed_amount"    -> order.value * Unit * (Unit + Com) <= capital
    [] order.type = "balance_ratio"   -> Ratio * (Unit + Com) <= Unit * Unit
    [] OTHER                          -> price * order.value * (Unit + Com) <= capital

\* What a purchase takes from the capital, and what a sale brings, commission included.
Paid(price, lots) == price * lots * (Unit + Com)
Got(price, lots)  == price * lots * (Unit - Com)

\* Mutant: the commission of the entry is left out of the cost basis.
BasisWithoutFee == entry * qty * Unit

CostBasis == Paid(entry, qty)

\* Mutant: whether the commission can be paid too is not asked.
EnterOnCost(price) ==
  LET lots == CalcQty(price)
  IN IF lots > 0 /\ price * lots * Unit <= capital
     THEN /\ capital' = capital - Paid(price, lots)
          /\ qty' = lots /\ entry' = price /\ entryAt' = at + 1
     ELSE UNCHANGED <<capital, qty, entry, entryAt>>

Enter(price) ==
  LET lots == CalcQty(price)
  IN IF lots > 0 /\ Affordable(price) /\ Paid(price, lots) <= capital
     THEN /\ capital' = capital - Paid(price, lots)
          /\ qty' = lots /\ entry' = price /\ entryAt' = at + 1
     ELSE UNCHANGED <<capital, qty, entry, entryAt>>

\* Leaves the position at candle t.
LeavePosition(price, t) ==
  LET got == Got(price, qty)
      pnl == got - CostBasis
  IN /\ capital' = capital + got
     /\ gain' = IF pnl > 0 THEN gain + pnl ELSE gain
     /\ loss' = IF pnl > 0 THEN loss ELSE loss - pnl
     /\ trades' = Append(trades, [from |-> entryAt, to |-> t])
     /\ qty' = 0 /\ entry' = 0 /\ entryAt' = 0

\* One candle.  A position that is left is not entered again before the next one.
Candle(price, matched) ==
  /\ ~done /\ at < length
  /\ at' = at + 1 /\ close' = price
  /\ curve' = Append(curve, capital + qty * price * Unit * Unit)
  /\ \/ matched /\ qty > 0 /\ LeavePosition(price * (Unit - Slip), at + 1)
     \/ matched /\ qty = 0 /\ Enter(price * (Unit + Slip)) /\ UNCHANGED <<trades, gain, loss>>
     \/ ~matched /\ UNCHANGED <<capital, qty, entry, entryAt, trades, gain, loss>>
  /\ UNCHANGED <<order, length, done>>

\* The end: what is still held is sold at the last close, and the figures are computed.
Finish ==
  /\ ~done /\ at = length
  /\ done' = TRUE
  /\ IF qty > 0
     THEN LeavePosition(close * (Unit - Slip), at)
     ELSE UNCHANGED <<capital, qty, entry, entryAt, trades, gain, loss>>
  /\ UNCHANGED <<order, length, at, close, curve>>

EngineNext == (\E p \in Prices, matched \in BOOLEAN : Candle(p, matched)) \/ Finish
EngineSpec == EngineInit /\ [][EngineNext]_engineVars

----------------------------------------------------------------------------
\* max_drawdown_pct is at least lost/of: the curve falls from some point by that share.
DrawdownAtLeast(lost, of) ==
  \E k \in DOMAIN curve : \E m \in 1..k : (curve[m] - curve[k]) * of >= lost * curve[m]

\* Nothing is made or lost between the account and the trades.
CapitalIsExplained == capital + CostBasis = Initial + gain - loss

\* Trades follow each other, and only one left by force at the last candle may end in the
\* candle it was entered in.
TradesAreApart ==
  /\ \A k \in DOMAIN trades :
       /\ trades[k].from <= trades[k].to /\ trades[k].to <= at
       /\ trades[k].from = trades[k].to => done
       /\ \A m \in 1..(k - 1) : trades[m].to < trades[k].from
  /\ qty > 0 => \A k \in DOMAIN trades : trades[k].to < entryAt

\* The loss reported is one the reported drawdown knows of, unless the last trade ended in
\* the last candle, whose costs the curve does not see.
DrawdownSeesLoss ==
  done /\ capital < Initial /\ (\A k \in DOMAIN trades : trades[k].to < length)
    => DrawdownAtLeast(Initial - capital, Initial)

(* The figures of a backtest agree with each other: the final capital is the initial one
   with the gross profit and without the gross loss, to the last unit, trades do not
   overlap, and the drawdown is no smaller than the loss (backtest_engine.py:97-200, 211-246). *)
BooksBalance == CapitalIsExplained /\ TradesAreApart /\ DrawdownSeesLoss
=============================================================================
