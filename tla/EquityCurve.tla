----------------------------- MODULE EquityCurve -----------------------------
(***************************************************************************)
(* The walk along the trades of a strategy, oldest first, that the hero    *)
(* block, the strategy list and the horizon table make: the total, the     *)
(* wins, the curve of the running total and its deepest fall.  A step is   *)
(* one turn of the loop.                                                   *)
(***************************************************************************)
EXTENDS TradeFigures, Sequences

CONSTANTS
  Deals,      \* the rows that trades may have, with the profit that is stored
  MaxTrades   \* bound: length of the list

\* The stored profit, or the one that the row yields.
Profit(d) == IF d.pnl # NoFigure THEN d.pnl ELSE Pnl(d)

ASSUME EquityAssumption ==
  /\ \A d \in Deals : Profit(d) \in Int \cup {NoFigure}
  /\ MaxTrades \in Nat

VARIABLES
  left,      \* the trades still to come
  curve,     \* the running totals so far (sparkline)
  peak,      \* the highest of them, or NoFigure
  drawdown,  \* the deepest fall below a peak, not positive
  wins,
  booked     \* the profits that were counted, in order (history)

equityVars == <<left, curve, peak, drawdown, wins, booked>>

EquityTypeOK ==
  /\ left \in Seq(Deals)
  /\ booked \in Seq(Int)
  /\ curve \in Seq(Int)
  /\ Len(curve) = Len(booked)
  /\ peak \in Int \cup {NoFigure}
  /\ drawdown \in Int /\ drawdown <= 0
  /\ wins \in 0..Len(curve)

EquityInit ==
  /\ \E n \in 0..MaxTrades : left \in [1..n -> Deals]
  /\ curve = << >>
  /\ peak = NoFigure
  /\ drawdown = 0
  /\ wins = 0
  /\ booked = << >>

Total == IF curve = << >> THEN 0 ELSE curve[Len(curve)]

\* Mutant: the curve falls from zero before it has a peak.
PeakFromZero(total) == IF (IF peak = NoFigure THEN 0 ELSE peak) < total THEN total
                       ELSE IF peak = NoFigure THEN 0 ELSE peak

\* The first total is the first peak.
PeakWith(total) == IF peak = NoFigure THEN total ELSE IF peak < total THEN total ELSE peak

\* A trade without a profit counts as a trade and for nothing else.
SkipOpen ==
  /\ left # << >> /\ Profit(Head(left)) = NoFigure
  /\ left' = Tail(left)
  /\ UNCHANGED <<curve, peak, drawdown, wins, booked>>

Book ==
  /\ left # << >> /\ Profit(Head(left)) # NoFigure
  /\ LET profit == Profit(Head(left))
         total  == Total + profit
         fall   == total - PeakWith(total)
     IN /\ curve' = Append(curve, total)
        /\ peak' = PeakWith(total)
        /\ drawdown' = IF fall < drawdown THEN fall ELSE drawdown
        /\ wins' = IF profit > 0 THEN wins + 1 ELSE wins
        /\ booked' = Append(booked, profit)
  /\ left' = Tail(left)

EquityNext == SkipOpen \/ Book

EquitySpec == EquityInit /\ [][EquityNext]_equityVars

------------------------------------------------------------------------------
(* Properties.                                                              *)

\* The fall between any two points of the curve.
Fall(i, j) == curve[j] - curve[i]

\* The drawdown is the deepest fall from a point of the curve to a later one, the
\* total is the end of the curve, and the curve rises by the profits, whatever
\* order wins, losses and open trades come in.
DrawdownIsDeepest ==
  /\ \A i, j \in 1..Len(curve) : i <= j => drawdown <= Fall(i, j)
  /\ drawdown # 0 => \E i, j \in 1..Len(curve) : i < j /\ drawdown = Fall(i, j)
  /\ \A i \in 1..Len(curve) : booked[i] = IF i = 1 THEN curve[1] ELSE Fall(i - 1, i)
==============================================================================
