--------------------------- MODULE Backtest_proofs ---------------------------
(***************************************************************************)
(* Backtest for any prices, volatilities, signals and risk settings, and   *)
(* any number of bars.                                                     *)
(***************************************************************************)
EXTENDS Backtest, TLAPS

Types ==
    /\ sizing \in {"atr", "fixed"} /\ intraday \in BOOLEAN /\ focus \in BOOLEAN
    /\ time \in Int
    /\ cash \in Nat /\ shares \in Nat /\ cost \in Int
    /\ peak \in Nat /\ losses \in Nat /\ pnl \in Int /\ fees \in Int
    /\ closed \in BOOLEAN

\* The types make the balance an inductive invariant.
Books == Types /\ BooksBalance

\* After the liquidation bar of a day its entries are over.
NightInv == FlatOvernight /\ (intraday /\ closed => time >= LiquidationTime)

IInv == Books /\ NightInv

-----------------------------------------------------------------------------
(* Arithmetic *)

LEMMA ProductNat ==
  ASSUME NEW a \in Nat, NEW b \in Nat
  PROVE  a * b \in Nat
  OBVIOUS

LEMMA ProductSplits ==
  ASSUME NEW n \in Nat, NEW a \in Int, NEW b \in Int
  PROVE  n * (a - b) = n * a - n * b /\ n * a \in Int /\ n * b \in Int
  OBVIOUS

LEMMA QuotientNat ==
  ASSUME NEW a \in Nat, NEW b \in Nat \ {0}
  PROVE  a \div b \in Nat
  OBVIOUS

LEMMA ProductGrows ==
  ASSUME NEW n \in Nat \ {0}, NEW a \in Nat, NEW b \in Nat, a <= b
  PROVE  a <= n * b /\ n * a <= n * b
  OBVIOUS

-----------------------------------------------------------------------------
(* The portfolio *)

LEMMA PriceTypes ==
  ASSUME NEW p \in Prices
  PROVE  p \in Nat \ {0} /\ Ask(p) \in Nat /\ Bid(p) \in Nat
  <1>1. p \in Nat \ {0} /\ Slippage \in Nat /\ Bid(p) \in Nat
    BY BacktestAssumption, SaleAssumption
  <1>2. p * Slippage \in Nat
    BY <1>1, ProductNat
  <1>3. (p * Slippage) \div 100 \in Nat
    BY <1>2, QuotientNat
  <1> QED
    BY <1>1, <1>3 DEF Ask

LEMMA CommissionNat ==
  ASSUME NEW n \in Nat
  PROVE  Commission(n) \in Nat
  <1>1. PerShare \in Nat /\ PerOrder \in Nat
    BY BacktestAssumption
  <1>2. n * PerShare \in Nat
    BY <1>1, ProductNat
  <1> QED
    BY <1>1, <1>2 DEF Commission

\* A sale never costs more than it brings.
LEMMA RevenueNat ==
  ASSUME shares \in Nat \ {0}, NEW p \in Prices
  PROVE  Revenue(p) \in Nat
  <1>1. /\ PerShare \in Nat /\ PerOrder \in Nat /\ Bid(p) \in Nat
        /\ PerShare <= Bid(p) /\ PerOrder <= Bid(p)
    BY BacktestAssumption, SaleAssumption
  <1>2. shares * PerShare <= shares * Bid(p) /\ PerOrder <= shares * Bid(p)
    BY <1>1, ProductGrows
  <1>3. shares * PerShare \in Nat /\ shares * Bid(p) \in Nat
    BY <1>1, ProductNat
  <1> QED
    BY <1>1, <1>2, <1>3 DEF Revenue, Commission

LEMMA SizeNat ==
  ASSUME Types, NEW p \in Prices, NEW atr \in Volatilities, NEW m \in 0..2
  PROVE  Size(p, atr, m) \in Nat
  <1>1. /\ cash \in Nat /\ MaxSize \in Nat /\ Risk \in Nat /\ StopDistance \in Nat \ {0}
        /\ atr \in Nat /\ p \in Nat \ {0} /\ m \in Nat
    BY BacktestAssumption DEF Types
  <1>2. Largest(p) \in Nat
    <2>1. cash * MaxSize \in Nat
      BY <1>1, ProductNat
    <2>2. 100 * p \in Nat \ {0}
      BY <1>1
    <2> QED
      BY <2>1, <2>2, QuotientNat DEF Largest
  <1>3. ASSUME atr # 0 PROVE AtRisk(atr, m) \in Nat
    <2>1. cash * Risk \in Nat
      BY <1>1, ProductNat
    <2>2. cash * Risk * m \in Nat
      BY <1>1, <2>1, ProductNat
    <2>3. 200 * atr \in Nat \ {0}
      BY <1>1, <1>3
    <2>4. 200 * atr * StopDistance \in Nat
      BY <1>1, <2>3, ProductNat
    <2>5. StopDistance <= (200 * atr) * StopDistance
      BY <1>1, <2>3, ProductGrows
    <2>6. 200 * atr * StopDistance \in Nat \ {0}
      BY <1>1, <2>4, <2>5
    <2> QED
      BY <2>2, <2>6, QuotientNat DEF AtRisk
  <1> QED
    BY <1>2, <1>3 DEF Size

LEMMA MultiplierType ==
  ASSUME NEW a, NEW b
  PROVE  Multiplier(a, b) \in 0..2
  BY DEF Multiplier

LEMMA SellBalances ==
  ASSUME Books, shares \in Nat \ {0}, NEW p \in Prices, Sell(p)
  PROVE  /\ cash' \in Nat /\ shares' = 0 /\ cost' = 0 /\ losses' \in Nat
         /\ pnl' \in Int /\ fees' \in Int
         /\ cash' = InitialCash + pnl' - fees'
  <1> DEFINE gain == shares * (Bid(p) - cost)
  <1>1. /\ cash \in Nat /\ cost \in Int /\ losses \in Nat /\ pnl \in Int /\ fees \in Int
        /\ InitialCash \in Nat
        /\ cash + shares * cost = InitialCash + pnl - fees
    BY BacktestAssumption DEF Books, Types, BooksBalance
  <1>2. /\ cash' = cash + Revenue(p) /\ pnl' = pnl + gain
        /\ fees' = fees + Commission(shares) /\ shares' = 0 /\ cost' = 0
        /\ losses' = IF gain < 0 THEN losses + 1 ELSE 0
    BY DEF Sell
  <1>3. Bid(p) \in Nat /\ Commission(shares) \in Nat /\ Revenue(p) \in Nat
    BY PriceTypes, CommissionNat, RevenueNat
  <1>4. /\ gain = shares * Bid(p) - shares * cost
        /\ shares * Bid(p) \in Int /\ shares * cost \in Int
    BY <1>1, <1>3, ProductSplits
  <1>5. Revenue(p) = shares * Bid(p) - Commission(shares)
    BY DEF Revenue
  <1> HIDE DEF gain
  <1> QED
    BY <1>1, <1>2, <1>3, <1>4, <1>5

LEMMA BuyBalances ==
  ASSUME Books, shares = 0, NEW p \in Prices, NEW n \in Nat, Buy(p, n)
  PROVE  /\ cash' \in Nat /\ shares' \in Nat /\ cost' \in Int /\ losses' \in Nat
         /\ pnl' \in Int /\ fees' \in Int
         /\ cash' + shares' * cost' = InitialCash + pnl' - fees'
  <1>1. /\ cash \in Nat /\ cost \in Int /\ losses \in Nat /\ pnl \in Int /\ fees \in Int
        /\ InitialCash \in Nat
        /\ cash + shares * cost = InitialCash + pnl - fees
    BY BacktestAssumption DEF Books, Types, BooksBalance
  <1>2. CASE UNCHANGED account
    BY <1>1, <1>2 DEF account
  <1>3. CASE ~UNCHANGED account
    <2> DEFINE paid == n * Ask(p)
    <2>1. /\ ~(paid + Commission(n) > cash)
          /\ cash' = cash - (paid + Commission(n))
          /\ shares' = n /\ cost' = Ask(p) /\ fees' = fees + Commission(n)
          /\ UNCHANGED <<losses, pnl>>
      BY <1>3 DEF Buy
    <2>2. Ask(p) \in Nat /\ Commission(n) \in Nat
      BY PriceTypes, CommissionNat
    <2>3. paid \in Nat /\ shares' * cost' = paid
      BY <2>1, <2>2, ProductNat
    <2>4. shares * cost = 0
      BY <1>1
    <2> HIDE DEF paid
    <2> QED
      BY <1>1, <2>1, <2>2, <2>3, <2>4
  <1> QED
    BY <1>2, <1>3

-----------------------------------------------------------------------------
(* The loop *)

LEMMA InitInv == Init => IInv
  <1> SUFFICES ASSUME Init
               PROVE  IInv
    OBVIOUS
  <1>1. Types
    <2>1. InitialCash \in Nat
      BY BacktestAssumption
    <2>2. closed \in BOOLEAN /\ intraday \in BOOLEAN /\ focus \in BOOLEAN
      BY Zenon DEF Init
    <2> QED
      BY <2>1, <2>2 DEF Init, Types
  <1>2. BooksBalance
    <2>1. shares * cost = 0
      BY DEF Init
    <2> QED
      BY <2>1, BacktestAssumption DEF Init, BooksBalance
  <1>3. NightInv
    BY DEF Init, NightInv, FlatOvernight
  <1> QED
    BY <1>1, <1>2, <1>3 DEF IInv, Books

LEMMA PeakNat ==
  ASSUME Types, NEW p \in Prices
  PROVE  Top(p) \in Nat
  <1>1. p \in Nat /\ shares \in Nat /\ cash \in Nat /\ peak \in Nat
    BY BacktestAssumption DEF Types
  <1>2. shares * p \in Nat
    BY <1>1, ProductNat
  <1> QED
    BY <1>1, <1>2 DEF Top, Equity

\* Whatever is done with a bar, the books balance.
LEMMA BarBalances ==
  ASSUME Books, NEW t \in BarTimes, NEW p \in Prices, NEW atr \in Volatilities,
         Advance(t), peak' = Top(p), UNCHANGED settings,
         Liquidate(p) \/ Exit(p) \/ Enter(p, atr) \/ Hold
  PROVE  Books'
  <1>1. /\ sizing' \in {"atr", "fixed"} /\ intraday' \in BOOLEAN /\ focus' \in BOOLEAN
        /\ time' \in Int /\ closed' \in BOOLEAN
    BY BacktestAssumption DEF Books, Types, Advance, settings, Liquidates
  <1>2. peak' \in Nat
    BY PeakNat DEF Books
  <1>3. /\ cash' \in Nat /\ shares' \in Nat /\ cost' \in Int /\ losses' \in Nat
        /\ pnl' \in Int /\ fees' \in Int
        /\ cash' + shares' * cost' = InitialCash + pnl' - fees'
    <2>1. CASE Liquidate(p) \/ Exit(p)
      <3>1. Sell(p) /\ shares \in Nat \ {0}
        BY <2>1 DEF Liquidate, Exit, Books, Types
      <3>2. cash' + 0 * 0 = cash' /\ cash' \in Nat
        BY <3>1, SellBalances
      <3> QED
        BY <3>1, <3>2, SellBalances
    <2>2. CASE Enter(p, atr)
      <3> DEFINE n == Size(p, atr, Multiplier(Top(p), Equity(p)))
      <3>1. n \in Nat
        BY SizeNat, MultiplierType DEF Books
      <3>2. Buy(p, n) /\ shares = 0
        BY <2>2 DEF Enter
      <3> HIDE DEF n
      <3> QED
        BY <3>1, <3>2, BuyBalances
    <2>3. CASE Hold
      BY <2>3 DEF Hold, account, Books, Types, BooksBalance
    <2> QED
      BY <2>1, <2>2, <2>3
  <1> QED
    BY <1>1, <1>2, <1>3 DEF Books, Types, BooksBalance

\* The liquidation is behind the last entry, in both modes.
LEMMA EntriesEndFirst ==
  ASSUME focus \in BOOLEAN
  PROVE  LastEntry < LiquidationTime /\ LastEntry \in Nat /\ LiquidationTime \in Nat
  BY DEF LastEntry, LiquidationTime, At

\* A flat account that the day is over for does not enter.
LEMMA BarKeepsNight ==
  ASSUME IInv, NEW t \in BarTimes, NEW p \in Prices, NEW atr \in Volatilities,
         Advance(t), UNCHANGED settings,
         Liquidate(p) \/ Exit(p) \/ Enter(p, atr) \/ Hold
  PROVE  NightInv'
  <1>1. /\ time \in Int /\ t \in Int /\ focus \in BOOLEAN /\ intraday \in BOOLEAN
        /\ closed \in BOOLEAN /\ shares \in Nat
        /\ intraday' = intraday /\ focus' = focus /\ time' = t
        /\ LiquidationTime' = LiquidationTime
    BY BacktestAssumption DEF IInv, Books, Types, Advance, settings, LiquidationTime
  <1>2. SUFFICES ASSUME intraday, closed'
                 PROVE  shares' = 0 /\ t >= LiquidationTime
    BY <1>1 DEF NightInv, FlatOvernight
  <1>3. \/ t = LiquidationTime
        \/ closed /\ t > time
    BY <1>1, <1>2 DEF Advance, Liquidates
  <1>4. t >= LiquidationTime
    BY <1>1, <1>2, <1>3, EntriesEndFirst DEF IInv, NightInv
  <1>5. CASE Liquidate(p) \/ Exit(p)
    BY <1>4, <1>5 DEF Liquidate, Exit, Sell
  <1>6. CASE Enter(p, atr)
    <2>1. t <= LastEntry
      BY <1>1, <1>2, <1>6 DEF Enter, MayEnter
    <2> QED
      BY <1>1, <1>4, <2>1, EntriesEndFirst
  <1>7. CASE Hold
    <2>1. shares' = shares
      BY <1>7 DEF Hold, account
    <2>2. CASE t = LiquidationTime
      BY <1>1, <1>2, <1>7, <2>1, <2>2 DEF Hold, Liquidates
    <2>3. CASE closed
      BY <1>2, <1>4, <2>1, <2>3 DEF IInv, NightInv, FlatOvernight
    <2> QED
      BY <1>3, <2>2, <2>3
  <1> QED
    BY <1>4, <1>5, <1>6, <1>7

LEMMA BarKeepsInv == IInv /\ [Next]_vars => IInv'
  <1> SUFFICES ASSUME IInv, [Next]_vars
               PROVE  IInv'
    OBVIOUS
  <1>1. CASE Bar
    <2>1. PICK t \in BarTimes, p \in Prices, atr \in Volatilities :
              /\ Advance(t) /\ peak' = Top(p) /\ UNCHANGED settings
              /\ Liquidate(p) \/ Exit(p) \/ Enter(p, atr) \/ Hold
      BY <1>1 DEF Bar
    <2>2. Books'
      BY <2>1, BarBalances DEF IInv
    <2>3. NightInv'
      BY <2>1, BarKeepsNight
    <2> QED
      BY <2>2, <2>3 DEF IInv
  <1>2. CASE UNCHANGED vars
    BY <1>2 DEF vars, settings, account, IInv, Books, Types, BooksBalance, NightInv,
        FlatOvernight, LiquidationTime
  <1> QED
    BY <1>1, <1>2 DEF Next

\* For any prices and settings the books of a backtest balance to the last
\* unit and the cash is never negative (Portfolio.buy, Portfolio.sell).
THEOREM AccountsBalance == Spec => []BooksBalance
  <1>1. IInv => BooksBalance
    BY DEF IInv, Books
  <1> QED
    BY InitInv, BarKeepsInv, <1>1, PTL DEF Spec

\* However bars are spaced, an account is flat once the liquidation bar of the
\* day was seen (run_backtest_sim).
THEOREM NothingOvernight == Spec => []FlatOvernight
  <1>1. IInv => FlatOvernight
    BY DEF IInv, NightInv
  <1> QED
    BY InitInv, BarKeepsInv, <1>1, PTL DEF Spec

-----------------------------------------------------------------------------
(* The lock *)

\* A flat account's equity is its cash, which is below its peak when it is
\* locked: the next bar finds the same drawdown and buys nothing.
LEMMA LockedBuysNothing ==
  ASSUME Types, Locked, NEW p \in Prices, NEW atr \in Volatilities
  PROVE  Top(p) = peak /\ Size(p, atr, Multiplier(Top(p), Equity(p))) = 0
  <1>1. /\ cash \in Nat /\ peak \in Nat /\ shares = 0 /\ p \in Nat
        /\ HardLimit \in Nat /\ sizing = "atr"
        /\ 100 * (peak - cash) >= HardLimit * peak
    BY BacktestAssumption DEF Types, Locked, Drawdown
  <1>2. Equity(p) = cash
    BY <1>1 DEF Equity
  <1>3. cash <= peak
    <2>1. HardLimit * peak \in Nat
      BY <1>1, ProductNat
    <2> QED
      BY <1>1, <2>1
  <1>4. Top(p) = peak
    BY <1>1, <1>2, <1>3 DEF Top
  <1>5. Multiplier(Top(p), Equity(p)) = 0
    BY <1>1, <1>2, <1>4 DEF Multiplier, Drawdown
  <1> QED
    BY <1>1, <1>4, <1>5 DEF Size

LEMMA LockStays ==
  ASSUME IInv, Locked, [Next]_vars
  PROVE  Locked'
  <1>1. CASE Bar
    <2>1. PICK t \in BarTimes, p \in Prices, atr \in Volatilities :
              /\ Advance(t) /\ peak' = Top(p) /\ UNCHANGED settings
              /\ Liquidate(p) \/ Exit(p) \/ Enter(p, atr) \/ Hold
      BY <1>1 DEF Bar
    <2>2. shares = 0 /\ Types
      BY DEF Locked, IInv, Books
    <2>3. UNCHANGED account
      <3>1. CASE Liquidate(p) \/ Exit(p)
        BY <2>2, <3>1 DEF Liquidate, Exit
      <3>2. CASE Enter(p, atr)
        BY <2>2, <3>2, LockedBuysNothing DEF Enter, Buy
      <3>3. CASE Hold
        BY <3>3 DEF Hold
      <3> QED
        BY <2>1, <3>1, <3>2, <3>3
    <2>4. peak' = peak
      BY <2>1, <2>2, LockedBuysNothing
    <2> QED
      BY <2>1, <2>3, <2>4 DEF Locked, Drawdown, settings, account
  <1>2. CASE UNCHANGED vars
    BY <1>2 DEF vars, settings, account, Locked, Drawdown
  <1> QED
    BY <1>1, <1>2 DEF Next

\* Whatever prices do, the hard limit never unlocks a flat account: a backtest
\* keeps what the documentation promises only by never locking one.
THEOREM NoLockEnds == Spec => (LockIsTemporary => []~Locked)
  <1>1. IInv /\ [Next]_vars /\ Locked => Locked'
    BY LockStays
  <1> QED
    BY InitInv, BarKeepsInv, <1>1, PTL DEF Spec, LockIsTemporary
=============================================================================
