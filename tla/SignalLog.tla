------------------------------ MODULE SignalLog ------------------------------
(***************************************************************************)
(* The signals table as the execution process reads it (state/repos.py and *)
(* latest_trade_row of runtime/execution_signal.py).  A log is a function  *)
(* from candles to "none", "hold" or "trade"; candles are numbered in the  *)
(* order of their timestamps.                                              *)
(***************************************************************************)
EXTENDS Integers, FiniteSets, FiniteSetsExt

CONSTANTS
    DayLen,       \* candles of a trading day
    RecentDays,   \* days looked back on (3 in the code)
    Verdicts      \* what the observer may write

ASSUME SignalAssumption ==
    /\ DayLen \in Nat \ {0} /\ RecentDays \in Nat \ {0}
    /\ Verdicts \subseteq {"hold", "trade"}

DayOf(i) == (i - 1) \div DayLen

\* A trade already written is never replaced by a later write of its candle.
PreserveExistingTrade(log, i) == log[i] = "trade"

TradeRows(log, day) == {i \in DOMAIN log : log[i] = "trade" /\ DayOf(i) = day}

\* Days with any row, the most recent RecentDays of them.
DistinctRecentDays(log) ==
    LET days == {DayOf(i) : i \in {j \in DOMAIN log : log[j] # "none"}}
    IN  {d \in days : Cardinality({e \in days : e > d}) < RecentDays}

\* The days are visited from today backwards and every trade row met replaces
\* the one before it, so what is returned is the last trade of the OLDEST day
\* that has one; 0 when there is none.
LatestTradeRow(log, today) ==
    LET days   == {today} \cup DistinctRecentDays(log)
        traded == {d \in days : TradeRows(log, d) # {}}
    IN  IF traded = {} THEN 0 ELSE Max(TradeRows(log, Min(traded)))
=============================================================================
