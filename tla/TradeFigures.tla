---------------------------- MODULE TradeFigures ----------------------------
(***************************************************************************)
(* The figures of one trade: its profit, its extremes while it was held,   *)
(* and its R-multiple.                                                     *)
(*                                                                         *)
(* A trade has a side, a quantity, the prices it was opened and closed at, *)
(* its fees and its initial stop.  Prices are counted in ticks; a figure   *)
(* that is not there is NoFigure.                                          *)
(***************************************************************************)
EXTENDS Integers

CONSTANT NoFigure   \* None

ASSUME FiguresAssumption == NoFigure \notin Int

LongSides  == {"buy"}
ShortSides == {"sell", "short", "cover"}
Sides      == LongSides \cup ShortSides

\* What one unit gains between the entry and price p.
Move(t, p) == IF t.side \in LongSides THEN p - t.entry ELSE t.entry - p

\* Net of the fees; only a closed trade has one.
Pnl(t) == IF t.exit = NoFigure THEN NoFigure ELSE Move(t, t.exit) * t.quantity - t.fees

\* The prices of a set of candles lie between these.
Low(candles)  == (CHOOSE c \in candles : \A d \in candles : c.low <= d.low).low
High(candles) == (CHOOSE c \in candles : \A d \in candles : d.high <= c.high).high

\* Mutant: covers are priced like buys.
LongExtremes(t, lo, hi) ==
  [mae |-> IF lo < t.entry THEN (lo - t.entry) * t.quantity ELSE 0,
   mfe |-> IF hi > t.entry THEN (hi - t.entry) * t.quantity ELSE 0]

\* The largest loss and the largest gain, neither of the wrong sign.
Extremes(t, lo, hi) ==
  LET worst == IF t.side \in LongSides THEN lo ELSE hi
      best  == IF t.side \in LongSides THEN hi ELSE lo
  IN [mae |-> IF Move(t, worst) < 0 THEN Move(t, worst) * t.quantity ELSE 0,
      mfe |-> IF Move(t, best) > 0 THEN Move(t, best) * t.quantity ELSE 0]

\* What the trade risks per unit: positive for a stop on the losing side.
Risk(t) == IF t.side \in LongSides THEN t.entry - t.stop ELSE t.stop - t.entry

\* The gain in units of the risk, as a pair gain, risk; never for want of a stop,
\* and a stop of 0 is none.
RMultiple(t) ==
  IF t.exit = NoFigure \/ t.stop = NoFigure \/ t.stop = 0 THEN NoFigure
  ELSE IF Risk(t) = 0 THEN NoFigure
  ELSE [gain |-> Move(t, t.exit), risk |-> Risk(t)]
=============================================================================
