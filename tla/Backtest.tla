------------------------------ MODULE Backtest ------------------------------
(***************************************************************************)
(* The backtest of the embedded trading application: the loop over price   *)
(* bars of run_backtest_sim (app/simulator.py of external/Quant.ai/        *)
(* backend) with the portfolio it moves (app/trading_engine.py).           *)
(*                                                                         *)
(* One ticker.  Prices, the volatility and the strategy's signals are      *)
(* inputs.  Money is in whole units, rates in per cent and the arithmetic  *)
(* exact; share counts are truncated as in the code.  The time of a bar is *)
(* its minute of the day.                                                  *)
(***************************************************************************)
EXTENDS Integers

CONSTANTS
    InitialCash,
    Prices, Volatilities,  \* of the bars
    BarTimes,              \* times of day that a bar may have
    Slippage,              \* slippage_rate
    PerShare, PerOrder,    \* commission_per_share, min_commission_per_order
    SoftLimit, HardLimit,  \* soft_dd, hard_dd
    MaxLosses,             \* max_consecutive_losses
    Risk,                  \* risk_per_trade_pct
    StopDistance,          \* trailing_stop_atr_mult
    MaxSize,               \* max_position_size_pct
    MaxBars                \* bound on the bars before the account is locked

Bid(price) == price - (price * Slippage) \div 100

ASSUME BacktestAssumption ==
    /\ {InitialCash, Slippage, PerShare, PerOrder, SoftLimit, HardLimit} \subseteq Nat
    /\ {MaxLosses, Risk, StopDistance, MaxSize, MaxBars} \subseteq Nat \ {0}
    /\ InitialCash > 0
    /\ Prices \subseteq Nat \ {0} /\ Volatilities \subseteq Nat
    /\ BarTimes \subseteq 0..1439

\* A share is worth its sale: no stock trades below the commission.
ASSUME SaleAssumption ==
    \A p \in Prices : Bid(p) \in Nat /\ PerShare <= Bid(p) /\ PerOrder <= Bid(p)

VARIABLES
    sizing,    \* position_sizing_mode, "atr" or "fixed"
    intraday,  \* is_intraday
    focus,     \* market_open_focus
    bars,      \* bars seen, those of a locked account not counted
    time,      \* time of the last bar
    cash,
    shares, cost,  \* the position and its avg_cost
    peak,      \* peak_equity
    losses,    \* consecutive_losses
    pnl,       \* realized_pnl
    fees,      \* commissions in the ledger
    closed     \* the liquidation bar of this day was seen (not in the code)

settings == <<sizing, intraday, focus>>
account  == <<cash, shares, cost, losses, pnl, fees>>
vars     == <<settings, bars, time, account, peak, closed>>

Init ==
    /\ sizing \in {"atr", "fixed"} /\ intraday \in BOOLEAN /\ focus \in BOOLEAN
    /\ bars = 0 /\ time = 0
    /\ cash = InitialCash /\ peak = InitialCash
    /\ shares = 0 /\ cost = 0
    /\ losses = 0 /\ pnl = 0 /\ fees = 0
    /\ closed = FALSE

-----------------------------------------------------------------------------
(* The portfolio *)

Ask(price) == price + (price * Slippage) \div 100

Commission(n) ==
    IF PerShare = 0 THEN 0 ELSE IF n * PerShare > PerOrder THEN n * PerShare ELSE PerOrder

\* A purchase that costs more than the cash there is fails.
Buy(price, n) ==
    LET total == n * Ask(price) + Commission(n)
    IN  IF n = 0 \/ total > cash THEN UNCHANGED account
        ELSE /\ cash' = cash - total
             /\ shares' = n /\ cost' = Ask(price)
             /\ fees' = fees + Commission(n)
             /\ UNCHANGED <<losses, pnl>>

\* Fault: the commission is in the ledger and not taken off.
RevenueGross(price) == shares * Bid(price)

Revenue(price) == shares * Bid(price) - Commission(shares)

\* The simulator sells all it has; a sale without a loss ends a row of losses.
Sell(price) ==
    LET gain == shares * (Bid(price) - cost)
    IN  /\ cash' = cash + Revenue(price)
        /\ pnl' = pnl + gain
        /\ losses' = IF gain < 0 THEN losses + 1 ELSE 0
        /\ fees' = fees + Commission(shares)
        /\ shares' = 0 /\ cost' = 0

Equity(price) == cash + shares * price

-----------------------------------------------------------------------------
(* Risk *)

Top(price) == IF Equity(price) > peak THEN Equity(price) ELSE peak

Drawdown(limit, top, equity) == 100 * (top - equity) >= limit * top

\* risk_multiplier, in halves.
Multiplier(top, equity) ==
    IF Drawdown(HardLimit, top, equity) THEN 0
    ELSE IF Drawdown(SoftLimit, top, equity) \/ losses >= MaxLosses THEN 1
    ELSE 2

Largest(price) == (cash * MaxSize) \div (100 * price)

AtRisk(atr, multiplier) == (cash * Risk * multiplier) \div (200 * atr * StopDistance)

\* How many shares a flat account buys.  A fixed size knows no risk.
Size(price, atr, multiplier) ==
    IF sizing = "fixed" THEN Largest(price)
    ELSE IF multiplier = 0 THEN 0
    ELSE IF atr # 0 /\ AtRisk(atr, multiplier) < Largest(price) THEN AtRisk(atr, multiplier)
    ELSE Largest(price)

-----------------------------------------------------------------------------
(* The loop *)

At(hour, minute) == 60 * hour + minute

LiquidationTime == IF focus THEN At(10, 30) ELSE At(15, 55)

\* Fault: positions are opened all day, also with the early liquidation.
LastEntryOfDay == At(15, 53)

LastEntry == IF focus THEN At(10, 15) ELSE At(15, 53)

Liquidates == intraday /\ time' = LiquidationTime

MayEnter == intraday => At(9, 35) <= time' /\ time' <= LastEntry

\* A flat account whose drawdown is beyond the hard limit.
Locked == sizing = "atr" /\ shares = 0 /\ Drawdown(HardLimit, peak, cash)

\* The next bar is a later one of the day or the first one of another day.
Advance(t) ==
    /\ bars < MaxBars \/ Locked
    /\ bars' = IF Locked THEN bars ELSE bars + 1
    /\ time' = t
    /\ \E newDay \in BOOLEAN :
           /\ newDay \/ t > time
           /\ closed' = (Liquidates \/ (closed /\ ~newDay))

Liquidate(price) == Liquidates /\ shares > 0 /\ Sell(price)

Exit(price) == ~Liquidates /\ shares > 0 /\ Sell(price)

Enter(price, atr) ==
    /\ shares = 0
    /\ MayEnter
    /\ Buy(price, Size(price, atr, Multiplier(Top(price), Equity(price))))

\* The strategy says HOLD, or nothing it says can be done.
Hold == ~(Liquidates /\ shares > 0) /\ UNCHANGED account

Bar ==
    \E t \in BarTimes, price \in Prices, atr \in Volatilities :
        /\ Advance(t)
        /\ peak' = Top(price)
        /\ Liquidate(price) \/ Exit(price) \/ Enter(price, atr) \/ Hold
        /\ UNCHANGED settings

Next == Bar

Spec == Init /\ [][Next]_vars

\* The loop takes one bar after the other, as long as there are bars.
FairSpec == Spec /\ WF_vars(Bar)

-----------------------------------------------------------------------------
(* Properties *)

\* Cash, position, profit and commissions account for the initial cash to the
\* last unit, whatever was bought, refused, sold or liquidated, and the account
\* is never overdrawn (Portfolio.buy, Portfolio.sell).
BooksBalance ==
    /\ cash + shares * cost = InitialCash + pnl - fees
    /\ cash >= 0

\* An intraday account is flat from the liquidation bar until the next day; it
\* holds over night only if the day had no bar of exactly that minute
\* (run_backtest_sim).
FlatOvernight == intraday /\ closed => shares = 0

-----------------------------------------------------------------------------
(* What the documentation says *)

\* README.md of Quant.ai, line 45: "Hard Drawdown Limit (12%): Temporarily
\* locks the trading engine": while bars keep coming, a locked account is
\* unlocked again.  (It is not: a flat account moves neither its equity nor
\* its peak.)
LockIsTemporary == Locked ~> ~Locked
=============================================================================
