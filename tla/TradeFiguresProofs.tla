-------------------------- MODULE TradeFiguresProofs --------------------------
(***************************************************************************)
(* What the figures of trades mean: of one trade, for all prices, stops    *)
(* and quantities; of a drilldown, for all trades, windows and clients;    *)
(* and of an equity curve, for all lists of trades.                        *)
(*                                                                         *)
(* Figures are taken over finite sets of candles, so the first part has    *)
(* the inductions that the others need.  They are stated for a set P in    *)
(* place of a predicate and rest on strict inclusion being well-founded.   *)
(***************************************************************************)
EXTENDS Drilldown, EquityCurve, FiniteSetTheorems, SequenceTheorems,
        WellFoundedInduction, TLAPS

------------------------------------------------------------------------------
(* Inductions.                                                              *)

\* Every non-empty set of finite sets has a smallest member.
LEMMA SmallestSet ==
  ASSUME NEW S, NEW F \in SUBSET FiniteSubsetsOf(S), F # {}
  PROVE  \E T \in F : \A U \in F : U \subseteq T => U = T
<1>1. IsWellFoundedOn(StrictSubsetOrdering(S), FiniteSubsetsOf(S))
  BY FS_StrictSubsetOrderingWellFounded
<1>3. PICK T \in F : \A U \in F : ~ (<<U, T>> \in StrictSubsetOrdering(S))
  BY <1>1, WFMin
<1>4. \A U \in F : U \subseteq T => U = T
  <2>1. TAKE U \in F
  <2>2. <<U, T>> \notin StrictSubsetOrdering(S)
    BY <1>3
  <2>3. U \in SUBSET S /\ T \in SUBSET S
    BY DEF FiniteSubsetsOf
  <2>4. QED
    BY <2>2, <2>3 DEF StrictSubsetOrdering
<1>5. QED
  BY <1>4


\* Induction over a finite set: P holds the subsets for which a claim is true.
LEMMA SubsetInduction ==
  ASSUME NEW S, IsFiniteSet(S), NEW P,
         \A T \in SUBSET S : (\A x \in T : T \ {x} \in P) => T \in P
  PROVE  \A T \in SUBSET S : T \in P
<1> DEFINE F == {T \in SUBSET S : T \notin P}
<1>1. SUFFICES ASSUME F # {} PROVE FALSE
  OBVIOUS
<1>2. F \in SUBSET FiniteSubsetsOf(S)
  BY FS_Subset DEF FiniteSubsetsOf
<1>3. PICK T \in F : \A U \in F : U \subseteq T => U = T
  <2> HIDE DEF F
  <2>1. QED
    BY <1>1, <1>2, SmallestSet
<1>4. ASSUME NEW x \in T
      PROVE  T \ {x} \in P
  <2>1. T \ {x} \in SUBSET S /\ T \ {x} \subseteq T /\ T \ {x} # T
    BY <1>3, <1>4
  <2>2. QED
    BY <1>3, <2>1
<1>5. QED
  BY <1>3, <1>4

\* Induction over the naturals, with a set in place of a predicate.
LEMMA NaturalInduction ==
  ASSUME NEW P, 0 \in P, \A n \in Nat : n \in P => n + 1 \in P
  PROVE  \A n \in Nat : n \in P
<1> SUFFICES ASSUME NEW n \in Nat, n \notin P PROVE FALSE
  OBVIOUS
<1> DEFINE Q == {T \in SUBSET (0..n) : \E m \in 0..n : T = 0..m /\ m \notin P}
<1>1. Q \in SUBSET FiniteSubsetsOf(0..n)
  BY FS_Interval, FS_Subset DEF FiniteSubsetsOf
<1>2. Q # {}
  <2>1. 0..n \in Q
    OBVIOUS
  <2>2. QED
    BY <2>1
<1>3. PICK T \in Q : \A U \in Q : U \subseteq T => U = T
  <2> HIDE DEF Q
  <2>1. QED
    BY <1>1, <1>2, SmallestSet
<1>4. PICK m \in 0..n : T = 0..m /\ m \notin P
  BY <1>3
<1>5. m - 1 \in Nat /\ m - 1 \notin P
  BY <1>4
<1>6. 0..(m - 1) \in Q /\ 0..(m - 1) \subseteq T
  BY <1>4, <1>5
<1>7. m \in T /\ m \notin 0..(m - 1)
  BY <1>4
<1>8. QED
  BY <1>3, <1>6, <1>7

\* A figure that every member of a finite set has is least for one of them, and
\* greatest for one.
LEMMA LeastFigure ==
  ASSUME NEW S, IsFiniteSet(S), S # {}, NEW f \in [S -> Int]
  PROVE  \E a \in S : \A b \in S : f[a] <= f[b]
<1> DEFINE P == {T \in SUBSET S : T # {} => \E a \in T : \A b \in T : f[a] <= f[b]}
<1>1. ASSUME NEW T \in SUBSET S, \A x \in T : T \ {x} \in P PROVE T \in P
  <2> SUFFICES ASSUME NEW x \in T PROVE \E a \in T : \A b \in T : f[a] <= f[b]
    OBVIOUS
  <2>1. CASE T = {x}
    BY <2>1
  <2>2. CASE T # {x}
    <3>1. PICK a \in T \ {x} : \A b \in T \ {x} : f[a] <= f[b]
      BY <1>1, <2>2
    <3>2. f[x] \in Int /\ \A b \in T : f[b] \in Int
      OBVIOUS
    <3>3. CASE f[x] <= f[a]
      BY <3>1, <3>2, <3>3
    <3>4. CASE f[a] <= f[x]
      BY <3>1, <3>2, <3>4
    <3>5. QED
      BY <3>2, <3>3, <3>4
  <2>3. QED
    BY <2>1, <2>2
<1>2. S \in P
  <2> HIDE DEF P
  <2>1. QED
    BY <1>1, SubsetInduction
<1>3. QED
  BY <1>2

LEMMA GreatestFigure ==
  ASSUME NEW S, IsFiniteSet(S), S # {}, NEW f \in [S -> Int]
  PROVE  \E a \in S : \A b \in S : f[b] <= f[a]
<1> DEFINE g == [x \in S |-> 0 - f[x]]
<1>1. g \in [S -> Int] /\ \A x \in S : g[x] = 0 - f[x] /\ f[x] \in Int
  OBVIOUS
<1> HIDE DEF g
<1>2. PICK a \in S : \A b \in S : g[a] <= g[b]
  BY <1>1, LeastFigure
<1>3. \A b \in S : f[b] <= f[a]
  BY <1>1, <1>2
<1>4. QED
  BY <1>3

------------------------------------------------------------------------------
(* One trade.                                                               *)

\* A product with a quantity keeps the order of its other factor.
LEMMA TimesQuantity ==
  ASSUME NEW a \in Int, NEW b \in Int, NEW q \in Nat, a <= b
  PROVE  a * q <= b * q
  OBVIOUS

\* Any price between the lowest and the highest moves the trade by no less than the
\* worst of the two and by no more than the best.
LEMMA MoveIsBetween ==
  ASSUME NEW t, t.side \in Sides, t.entry \in Int,
         NEW lo \in Int, NEW hi \in Int, NEW p \in lo..hi
  PROVE  IF t.side \in LongSides
         THEN Move(t, lo) <= Move(t, p) /\ Move(t, p) <= Move(t, hi)
         ELSE Move(t, hi) <= Move(t, p) /\ Move(t, p) <= Move(t, lo)
  BY DEF Move

\* compute_mae_mfe: while it was held the trade was never worth less than its MAE and
\* never more than its MFE, for every side, quantity and path of the price.
THEOREM ExtremesBoundEveryPrice ==
  ASSUME NEW t, t.side \in Sides, t.entry \in Int, t.quantity \in Nat,
         NEW lo \in Int, NEW hi \in Int, NEW p \in lo..hi
  PROVE  LET e == Extremes(t, lo, hi) IN
         /\ e.mae <= Move(t, p) * t.quantity /\ Move(t, p) * t.quantity <= e.mfe
         /\ e.mae <= 0 /\ 0 <= e.mfe
<1> DEFINE worst == Move(t, IF t.side \in LongSides THEN lo ELSE hi)
           best  == Move(t, IF t.side \in LongSides THEN hi ELSE lo)
           q     == t.quantity
<1>1. worst \in Int /\ best \in Int /\ Move(t, p) \in Int /\ q \in Nat
  BY DEF Move
<1>2. worst <= Move(t, p) /\ Move(t, p) <= best
  BY MoveIsBetween
<1>3. Extremes(t, lo, hi) = [mae |-> IF worst < 0 THEN worst * q ELSE 0,
                             mfe |-> IF best > 0 THEN best * q ELSE 0]
  BY DEF Extremes
<1> HIDE DEF worst, best, q
<1>4. worst * q <= Move(t, p) * q /\ Move(t, p) * q <= best * q
  BY <1>1, <1>2, TimesQuantity
<1>5. 0 * q = 0 /\ worst * q \in Int /\ best * q \in Int /\ Move(t, p) * q \in Int
  BY <1>1
<1>6. worst < 0 => worst * q <= 0
  BY <1>1, <1>5, TimesQuantity
<1>7. best > 0 => 0 <= best * q
  BY <1>1, <1>5, TimesQuantity
<1>8. ~(worst < 0) => 0 <= Move(t, p) * q
  BY <1>1, <1>2, <1>5, TimesQuantity
<1>9. ~(best > 0) => Move(t, p) * q <= 0
  BY <1>1, <1>2, <1>5, TimesQuantity
<1>10. t.quantity = q
  BY DEF q
<1> QED
  BY <1>3, <1>4, <1>5, <1>6, <1>7, <1>8, <1>9, <1>10

\* compute_r_multiple: a trade that is stopped out at its initial stop has lost one
\* risk, whichever side it is on and on whichever side of the entry the stop is; only
\* a stop at 0 or at the entry has no R-multiple.
THEOREM StopOutLosesOneRisk ==
  ASSUME NEW t, t.side \in Sides, t.entry \in Int, t.stop \in Int, t.exit = t.stop,
         t.stop # 0, t.stop # t.entry
  PROVE  RMultiple(t).gain = -RMultiple(t).risk /\ RMultiple(t).risk # 0
<1>1. t.exit # NoFigure /\ t.stop # NoFigure
  BY FiguresAssumption DEF FiguresAssumption
<1>2. Risk(t) \in Int /\ Risk(t) # 0 /\ Move(t, t.exit) = -Risk(t)
  BY DEF Risk, Move
<1>3. RMultiple(t) = [gain |-> Move(t, t.exit), risk |-> Risk(t)]
  BY <1>1, <1>2 DEF RMultiple
<1> QED
  BY <1>2, <1>3

\* compute_pnl is net of the fees and compute_r_multiple is gross, so that they
\* agree on who won only up to the fees: an R-multiple divides a positive gain
\* exactly when the P&L and the fees together are positive.  A trade with a profit
\* always has a positive gain; one with a positive gain may have lost to its fees.
THEOREM ProfitsHaveAPositiveGain ==
  ASSUME NEW t, t.side \in Sides, t.entry \in Int, t.exit \in Int, t.stop \in Int,
         t.quantity \in Nat \ {0}, t.fees \in Int, RMultiple(t) # NoFigure
  PROVE  /\ RMultiple(t).gain > 0 <=> Pnl(t) + t.fees > 0
         /\ t.fees >= 0 /\ Pnl(t) > 0 => RMultiple(t).gain > 0
<1> DEFINE gain == Move(t, t.exit)
           q    == t.quantity
           fees == t.fees
<1>1. gain \in Int /\ q \in Nat /\ 1 <= q /\ fees \in Int
  BY DEF Move
<1>2. Pnl(t) = gain * q - fees
  BY <1>1, FiguresAssumption DEF FiguresAssumption, Pnl
<1>3. RMultiple(t).gain = gain
  BY DEF RMultiple
<1> HIDE DEF gain, q, fees
<1>4. gain * q \in Int /\ (gain * q > 0 <=> gain > 0)
  BY <1>1
<1>5. Pnl(t) + fees = gain * q
  BY <1>1, <1>2, <1>4
<1>6. fees >= 0 /\ Pnl(t) > 0 => gain * q > 0
  BY <1>1, <1>2, <1>4
<1>7. QED
  BY <1>3, <1>4, <1>5, <1>6 DEF fees

------------------------------------------------------------------------------
(* Drilldowns.                                                              *)

\* The lowest low and the highest high of candles are those of some minute.
LEMMA CandlesHaveExtremes ==
  ASSUME NEW W \in SUBSET Minutes, W # {}
  PROVE  /\ \E m \in W : Low(CandlesOf(W)) = Candle[m].low
         /\ \E m \in W : High(CandlesOf(W)) = Candle[m].high
         /\ \A m \in W : /\ Low(CandlesOf(W)) <= Candle[m].low
                         /\ Candle[m].high <= High(CandlesOf(W))
<1> DEFINE lows  == [m \in W |-> Candle[m].low]
           highs == [m \in W |-> Candle[m].high]
           C     == CandlesOf(W)
<1>1. IsFiniteSet(W)
  BY FS_Subset, DrilldownAssumption DEF DrilldownAssumption
<1>2. lows \in [W -> Int] /\ highs \in [W -> Int]
  BY DrilldownAssumption DEF DrilldownAssumption
<1>3. PICK a \in W : \A b \in W : Candle[a].low <= Candle[b].low
  <2>1. PICK a \in W : \A b \in W : lows[a] <= lows[b]
    <3> HIDE DEF lows
    <3>1. QED
      BY <1>1, <1>2, LeastFigure
  <2>2. QED
    BY <2>1
<1>4. PICK z \in W : \A b \in W : Candle[b].high <= Candle[z].high
  <2>1. PICK z \in W : \A b \in W : highs[b] <= highs[z]
    <3> HIDE DEF highs
    <3>1. QED
      BY <1>1, <1>2, GreatestFigure
  <2>2. QED
    BY <2>1
<1>5. \E c \in C : \A d \in C : c.low <= d.low
  BY <1>3 DEF CandlesOf
<1>6. \E c \in C : \A d \in C : d.high <= c.high
  BY <1>4 DEF CandlesOf
<1>7. PICK c \in C : Low(C) = c.low /\ \A d \in C : c.low <= d.low
  BY <1>5 DEF Low
<1>8. PICK b \in C : High(C) = b.high /\ \A d \in C : d.high <= b.high
  BY <1>6 DEF High
<1>9. QED
  BY <1>7, <1>8 DEF CandlesOf

\* Extremes of a window are gains it offered, and bound all of them.
LEMMA ExtremesAreGains ==
  ASSUME NEW t \in Trades, Window[t] # {}, Upright(t),
         NEW e, e = Extremes(Trade[t], Low(CandlesOf(Window[t])), High(CandlesOf(Window[t])))
  PROVE  {e.mae, e.mfe} \subseteq Gains(t) /\ \A g \in Gains(t) : e.mae <= g /\ g <= e.mfe
<1> DEFINE W       == Window[t]
           lo      == Low(CandlesOf(W))
           hi      == High(CandlesOf(W))
           row     == Trade[t]
           Gain(p) == Move(row, p) * row.quantity
           Price(p) == p = row.entry \/ \E m \in W : p \in Candle[m].low..Candle[m].high
<1>1. /\ W \in SUBSET Minutes /\ W # {}
      /\ row.side \in Sides /\ row.entry \in Int /\ row.quantity \in Nat
      /\ \A m \in W : Candle[m].low \in Nat /\ Candle[m].high \in Nat
  BY DrilldownAssumption DEF DrilldownAssumption
<1>2. /\ \E m \in W : lo = Candle[m].low
      /\ \E m \in W : hi = Candle[m].high
      /\ \A m \in W : lo <= Candle[m].low /\ Candle[m].high <= hi
      /\ \A m \in W : Candle[m].low <= Candle[m].high
  <2> HIDE DEF W
  <2>1. \A m \in W : Candle[m].low <= Candle[m].high
    BY DEF Upright, W
  <2>2. QED
    BY <1>1, <2>1, CandlesHaveExtremes
<1>3. \A g : g \in Gains(t) <=> \E p : Price(p) /\ g = Gain(p)
  BY DEF Gains
<1> HIDE DEF W, lo, hi, row
<1>4. lo \in Int /\ hi \in Int /\ lo <= hi
  <2>1. PICK m \in W : lo = Candle[m].low
    BY <1>2
  <2>2. Candle[m].low <= Candle[m].high /\ Candle[m].high <= hi
    BY <1>2
  <2>3. hi \in Int /\ Candle[m].low \in Int /\ Candle[m].high \in Int
    BY <1>1, <1>2
  <2>4. QED
    BY <2>1, <2>2, <2>3
<1>5. \A p : Price(p) => p = row.entry \/ p \in lo..hi
  BY <1>1, <1>2, <1>4
<1>6. Price(row.entry) /\ Price(lo) /\ Price(hi)
  BY <1>1, <1>2
<1>7. e = Extremes(row, lo, hi)
  BY DEF W, lo, hi, row
<1>8. /\ \A p \in lo..hi : e.mae <= Gain(p) /\ Gain(p) <= e.mfe
      /\ e.mae <= 0 /\ 0 <= e.mfe
  <2>1. lo \in lo..hi
    BY <1>4
  <2>2. QED
    BY <1>1, <1>4, <1>7, <2>1, ExtremesBoundEveryPrice
<1>9. Gain(row.entry) = 0
  BY <1>1 DEF Move
<1>10. /\ e.mae \in {Gain(row.entry), Gain(lo), Gain(hi)}
       /\ e.mfe \in {Gain(row.entry), Gain(lo), Gain(hi)}
  BY <1>7, <1>9 DEF Extremes
<1> HIDE DEF Gain, Price
<1>11. {e.mae, e.mfe} \subseteq Gains(t)
  BY <1>3, <1>6, <1>10
<1>12. \A g \in Gains(t) : e.mae <= g /\ g <= e.mfe
  BY <1>3, <1>5, <1>8, <1>9
<1>13. QED
  BY <1>11, <1>12

\* What a drilldown holds is part of its trade's window, all of it if the trade is
\* alone or the candles come from a client.
HeldIsWhole ==
  \A r \in Requests : request[r].pc \in {"store", "pin"} =>
    LET t == request[r].trade
        held == request[r].minutes
    IN /\ held # {} /\ held \subseteq Window[t]
       /\ Alone(t) \/ request[r].pc = "store" => held = Window[t]

\* The candles of a lone trade came together and go together.
StoredIsWhole ==
  \A t \in Trades : Alone(t) => \A m, n \in Window[t] : stored[m] = stored[n]

PinnedBy(t, W) ==
  /\ W # {} /\ W \subseteq Window[t] /\ (Alone(t) => W = Window[t])
  /\ pinned[t] = Extremes(Trade[t], Low(CandlesOf(W)), High(CandlesOf(W)))

PinsAreReal == \A t \in Trades : pinned[t] # NoFigure => \E W \in SUBSET Minutes : PinnedBy(t, W)

DrilldownInv == DrilldownTypeOK /\ HeldIsWhole /\ StoredIsWhole /\ PinsAreReal

\* Extremes of some candles are two figures, and the worse of them is no gain.
LEMMA ExtremesAreTyped ==
  ASSUME NEW t \in Trades, NEW W \in SUBSET Minutes, W # {},
         NEW e, e = Extremes(Trade[t], Low(CandlesOf(W)), High(CandlesOf(W)))
  PROVE  e \in [mae : Int, mfe : Nat] /\ e.mae <= 0
<1> DEFINE lo  == Low(CandlesOf(W))
           hi  == High(CandlesOf(W))
           row == Trade[t]
<1>1. /\ row.side \in Sides /\ row.entry \in Int /\ row.quantity \in Nat
      /\ \A m \in W : Candle[m].low \in Nat /\ Candle[m].high \in Nat
  BY DrilldownAssumption DEF DrilldownAssumption
<1>2. lo \in Int /\ hi \in Int
  BY <1>1, CandlesHaveExtremes
<1> HIDE DEF lo, hi, row
<1>3. e = Extremes(row, lo, hi)
  BY DEF lo, hi, row
<1> DEFINE worst == Move(row, IF row.side \in LongSides THEN lo ELSE hi)
           best  == Move(row, IF row.side \in LongSides THEN hi ELSE lo)
           q     == row.quantity
<1>4. worst \in Int /\ best \in Int /\ q \in Nat
  BY <1>1, <1>2 DEF Move
<1>5. e = [mae |-> IF worst < 0 THEN worst * q ELSE 0, mfe |-> IF best > 0 THEN best * q ELSE 0]
  BY <1>3 DEF Extremes
<1> HIDE DEF worst, best, q
<1>6. worst * q \in Int /\ best * q \in Int /\ 0 * q = 0
  BY <1>4
<1>7. worst < 0 => worst * q <= 0
  BY <1>4, <1>6, TimesQuantity
<1>8. best > 0 => 0 <= best * q
  BY <1>4, <1>6, TimesQuantity
<1>9. QED
  BY <1>5, <1>6, <1>7, <1>8

\* Nothing stored, held or pinned satisfies the invariant.
LEMMA DrilldownBegins == DrilldownInit => DrilldownInv
BY DrilldownAssumption
   DEF DrilldownAssumption, DrilldownInit, DrilldownInv, DrilldownTypeOK, HeldIsWhole,
       StoredIsWhole, PinsAreReal, Ready, Ended

\* A request that asks or holds is one of the records that do.
LEMMA RequestShapes ==
  ASSUME DrilldownTypeOK, NEW r \in Requests
  PROVE  /\ request[r].pc = "chain" => request[r] \in Asking
         /\ request[r].pc \in {"store", "pin"} => request[r] \in Holding
BY DEF DrilldownTypeOK, Ready, Ended, Asking, Holding

\* What is read from the table is, for a lone trade, its whole window or nothing.
LEMMA ReadKeepsDrilldown ==
  ASSUME DrilldownInv, NEW r \in Requests, NEW t \in Trades, ReadCandles(r, t)
  PROVE  DrilldownInv'
<1> DEFINE new == IF CachedMinutes(t) # {}
                  THEN [pc |-> "pin", trade |-> t, minutes |-> CachedMinutes(t)]
                  ELSE [pc |-> "chain", trade |-> t, next |-> 1, spent |-> 0]
<1>1. /\ request' = [request EXCEPT ![r] = new]
      /\ UNCHANGED <<stored, pinned>>
  BY DEF ReadCandles
<1>2. CachedMinutes(t) \in SUBSET Minutes /\ CachedMinutes(t) \subseteq Window[t]
  BY DrilldownAssumption DEF DrilldownAssumption, CachedMinutes
<1>3. new \in Asking \cup Holding
  BY <1>2, DrilldownAssumption DEF DrilldownAssumption, Asking, Holding
<1>4. new.pc \in {"store", "pin"} =>
        /\ new.trade = t /\ new.pc = "pin" /\ new.minutes = CachedMinutes(t)
        /\ new.minutes # {}
  OBVIOUS
<1>5. Alone(t) /\ CachedMinutes(t) # {} => CachedMinutes(t) = Window[t]
  BY DEF DrilldownInv, StoredIsWhole, CachedMinutes
<1> HIDE DEF new
<1>6. /\ request'[r] = new /\ \A q \in Requests : q # r => request'[q] = request[q]
      /\ request' \in [Requests -> {Ready, Ended} \cup Asking \cup Holding]
  BY <1>1, <1>3 DEF DrilldownInv, DrilldownTypeOK
<1>7. HeldIsWhole'
  BY <1>2, <1>4, <1>5, <1>6 DEF DrilldownInv, HeldIsWhole, Alone
<1>8. QED
  BY <1>1, <1>6, <1>7 DEF DrilldownInv, DrilldownTypeOK, StoredIsWhole, PinsAreReal, PinnedBy, Alone

\* A request that ends, or asks on, holds nothing.
LEMMA AskingKeepsDrilldown ==
  ASSUME DrilldownInv, NEW r \in Requests, NEW new \in {Ready, Ended} \cup Asking,
         request' = [request EXCEPT ![r] = new], UNCHANGED <<stored, pinned>>
  PROVE  DrilldownInv'
<1>1. new.pc \notin {"store", "pin"}
  BY DEF Ready, Ended, Asking
<1>2. /\ request'[r] = new /\ \A q \in Requests : q # r => request'[q] = request[q]
      /\ request' \in [Requests -> {Ready, Ended} \cup Asking \cup Holding]
  BY DEF DrilldownInv, DrilldownTypeOK
<1>3. HeldIsWhole'
  BY <1>1, <1>2 DEF DrilldownInv, HeldIsWhole
<1>4. QED
  BY <1>2, <1>3 DEF DrilldownInv, DrilldownTypeOK, StoredIsWhole, PinsAreReal, PinnedBy

\* The first client that answers in time yields the whole window, or it yields nothing.
LEMMA ChainKeepsDrilldown ==
  ASSUME DrilldownInv, NEW r \in Requests, ClientFails(r) \/ ClientAnswers(r)
  PROVE  DrilldownInv'
<1>1. request[r] \in Asking
  BY RequestShapes DEF ClientFails, ClientAnswers, DrilldownInv
<1>2. CASE ClientFails(r)
  <2>1. PICK time \in 0..Budget(r) :
          request' = [request EXCEPT ![r].next = @ + 1, ![r].spent = @ + time]
    BY <1>2 DEF ClientFails
  <2>2. request[r].next + 1 \in 1..Clients + 1 /\ request[r].spent + time \in 0..Deadline
    BY <1>1, <1>2, DrilldownAssumption
       DEF ClientFails, ChainIsOver, Budget, Asking, DrilldownAssumption
  <2>3. PICK new \in Asking : request' = [request EXCEPT ![r] = new]
    <3>1. [request[r] EXCEPT !.next = @ + 1, !.spent = @ + time] \in Asking
      BY <1>1, <2>2 DEF Asking
    <3>2. QED
      BY <2>1, <3>1
  <2>4. QED
    BY <1>2, <2>3, AskingKeepsDrilldown DEF ClientFails
<1>3. CASE ClientAnswers(r)
  <2> DEFINE t   == request[r].trade
             new == [pc |-> "store", trade |-> t, minutes |-> Window[t]]
  <2>1. /\ request' = [request EXCEPT ![r] = new] /\ Window[t] # {}
        /\ UNCHANGED <<stored, pinned>>
    BY <1>3 DEF ClientAnswers
  <2>2. t \in Trades /\ new \in Holding
    BY <1>1, DrilldownAssumption DEF DrilldownAssumption, Asking, Holding
  <2>3. /\ request'[r] = new /\ \A q \in Requests : q # r => request'[q] = request[q]
        /\ request' \in [Requests -> {Ready, Ended} \cup Asking \cup Holding]
    BY <2>1, <2>2 DEF DrilldownInv, DrilldownTypeOK
  <2>4. HeldIsWhole'
    BY <2>1, <2>3 DEF DrilldownInv, HeldIsWhole, Alone
  <2>5. QED
    BY <2>1, <2>3, <2>4
       DEF DrilldownInv, DrilldownTypeOK, StoredIsWhole, PinsAreReal, PinnedBy
<1>4. QED
  BY <1>2, <1>3

\* A batch is a whole window or nothing, so a lone trade's candles stay together.
LEMMA StoreKeepsDrilldown ==
  ASSUME DrilldownInv, NEW r \in Requests, StoreCandles(r)
  PROVE  DrilldownInv'
<1> DEFINE t    == request[r].trade
           held == request[r].minutes
<1>1. request[r] \in Holding /\ t \in Trades
  BY RequestShapes DEF StoreCandles, DrilldownInv, Holding
<1>2. held = Window[t] /\ held # {}
  BY DEF StoreCandles, DrilldownInv, HeldIsWhole
<1>3. PICK batch \in {held, {}} :
        stored' = [m \in Minutes |-> IF m \in batch THEN CandleLife ELSE stored[m]]
  BY DEF StoreCandles, Batches
<1>4. stored' \in [Minutes -> 0..CandleLife]
  BY <1>3, DrilldownAssumption DEF DrilldownAssumption, DrilldownInv, DrilldownTypeOK
<1>5. StoredIsWhole'
  <2>1. SUFFICES ASSUME NEW u \in Trades, Alone(u), NEW m \in Window[u], NEW n \in Window[u]
                 PROVE  stored'[m] = stored'[n]
    BY DEF StoredIsWhole, Alone
  <2>2. m \in Minutes /\ n \in Minutes /\ stored[m] = stored[n]
    BY <2>1, DrilldownAssumption DEF DrilldownAssumption, DrilldownInv, StoredIsWhole
  <2>3. m \in batch <=> n \in batch
    BY <1>1, <1>2, <2>1 DEF Alone
  <2>4. QED
    BY <1>3, <2>2, <2>3
<1>6. /\ request' = [request EXCEPT ![r] = [request[r] EXCEPT !.pc = "pin"]]
      /\ UNCHANGED pinned
  BY DEF StoreCandles
<1> DEFINE new == [request[r] EXCEPT !.pc = "pin"]
<1>7. new \in Holding /\ new.pc = "pin" /\ new.trade = t /\ new.minutes = held
  BY <1>1 DEF Holding
<1> HIDE DEF new
<1>8. /\ request'[r] = new /\ \A q \in Requests : q # r => request'[q] = request[q]
      /\ request' \in [Requests -> {Ready, Ended} \cup Asking \cup Holding]
  BY <1>6, <1>7 DEF DrilldownInv, DrilldownTypeOK, new
<1>9. HeldIsWhole'
  BY <1>2, <1>7, <1>8 DEF DrilldownInv, HeldIsWhole, Alone
<1>10. QED
  BY <1>4, <1>5, <1>6, <1>8, <1>9
     DEF DrilldownInv, DrilldownTypeOK, PinsAreReal, PinnedBy

\* What is pinned comes from the candles held, those of the whole window or none.
LEMMA PinKeepsDrilldown ==
  ASSUME DrilldownInv, NEW r \in Requests, PinExtremes(r)
  PROVE  DrilldownInv'
<1>1. PICK t \in Trades, W \in SUBSET Minutes : t = request[r].trade /\ W = request[r].minutes
  BY RequestShapes DEF PinExtremes, DrilldownInv, Holding
<1> DEFINE e == Extremes(Trade[t], Low(CandlesOf(W)), High(CandlesOf(W)))
<1>2. W # {} /\ W \subseteq Window[t] /\ (Alone(t) => W = Window[t])
  BY <1>1 DEF PinExtremes, DrilldownInv, HeldIsWhole
<1>3. /\ pinned' = [pinned EXCEPT ![t] = e]
      /\ request' = [request EXCEPT ![r] = Ended]
      /\ UNCHANGED stored
  BY <1>1 DEF PinExtremes
<1>4. e \in [mae : Int, mfe : Nat] /\ e.mae <= 0
  BY <1>2, ExtremesAreTyped
<1>5. PinsAreReal'
  <2>1. PinnedBy(t, W)'
    <3>1. pinned'[t] = e
      BY <1>3 DEF DrilldownInv, DrilldownTypeOK
    <3>2. QED
      BY <1>2, <3>1 DEF PinnedBy, Alone
  <2>2. ASSUME NEW u \in Trades, u # t, pinned'[u] # NoFigure
        PROVE  \E V \in SUBSET Minutes : PinnedBy(u, V)'
    <3>1. pinned'[u] = pinned[u]
      BY <1>3, <2>2 DEF DrilldownInv, DrilldownTypeOK
    <3>2. PICK V \in SUBSET Minutes : PinnedBy(u, V)
      BY <2>2, <3>1 DEF DrilldownInv, PinsAreReal
    <3>3. PinnedBy(u, V)'
      BY <3>1, <3>2 DEF PinnedBy, Alone
    <3>4. QED
      BY <3>3
  <2>3. QED
    BY <2>1, <2>2 DEF PinsAreReal
<1> HIDE DEF e
<1>6. DrilldownTypeOK'
  BY <1>1, <1>3, <1>4 DEF DrilldownInv, DrilldownTypeOK
<1>7. /\ request'[r] = Ended /\ \A q \in Requests : q # r => request'[q] = request[q]
  BY <1>3 DEF DrilldownInv, DrilldownTypeOK
<1>8. HeldIsWhole' /\ StoredIsWhole'
  BY <1>3, <1>7 DEF DrilldownInv, HeldIsWhole, StoredIsWhole, Alone, Ended
<1>9. QED
  BY <1>5, <1>6, <1>8 DEF DrilldownInv

\* The invariant is kept by every step.
LEMMA DrilldownGoesOn ==
  DrilldownInv /\ [DrilldownNext]_drilldownVars => DrilldownInv'
<1> SUFFICES ASSUME DrilldownInv, [DrilldownNext]_drilldownVars PROVE DrilldownInv'
  OBVIOUS
<1>1. ASSUME NEW r \in Requests, NEW t \in Trades, ReadCandles(r, t) PROVE DrilldownInv'
  BY <1>1, ReadKeepsDrilldown
<1>2. ASSUME NEW r \in Requests, ClientFails(r) \/ ClientAnswers(r) PROVE DrilldownInv'
  BY <1>2, ChainKeepsDrilldown
<1>3. ASSUME NEW r \in Requests, ChainFails(r) \/ CandlesFail(r) PROVE DrilldownInv'
  BY <1>3, AskingKeepsDrilldown DEF ChainFails, CandlesFail
<1>4. ASSUME NEW r \in Requests, StoreCandles(r) PROVE DrilldownInv'
  BY <1>4, StoreKeepsDrilldown
<1>5. ASSUME NEW r \in Requests, PinExtremes(r) PROVE DrilldownInv'
  BY <1>5, PinKeepsDrilldown
<1>6. CASE CandlesAge
  <2>1. /\ stored' = [m \in Minutes |-> IF stored[m] > 0 THEN stored[m] - 1 ELSE 0]
        /\ UNCHANGED <<pinned, request>>
    BY <1>6 DEF CandlesAge
  <2>2. stored \in [Minutes -> 0..CandleLife] /\ CandleLife \in Nat
    BY DrilldownAssumption DEF DrilldownAssumption, DrilldownInv, DrilldownTypeOK
  <2>3. stored' \in [Minutes -> 0..CandleLife]
    BY <2>1, <2>2
  <2>4. StoredIsWhole'
    BY <2>1, DrilldownAssumption
       DEF DrilldownAssumption, DrilldownInv, StoredIsWhole, Alone
  <2>5. QED
    BY <2>1, <2>3, <2>4
       DEF DrilldownInv, DrilldownTypeOK, HeldIsWhole, PinsAreReal, PinnedBy, Alone
<1>7. CASE DrilldownRestart
  <2>1. request' = [r \in Requests |-> Ready] /\ UNCHANGED <<stored, pinned>>
    BY <1>7 DEF DrilldownRestart
  <2>2. HeldIsWhole'
    BY <2>1 DEF HeldIsWhole, Ready
  <2>3. QED
    BY <2>1, <2>2 DEF DrilldownInv, DrilldownTypeOK, StoredIsWhole, PinsAreReal, PinnedBy, Alone
<1>8. CASE UNCHANGED drilldownVars
  BY <1>8 DEF drilldownVars, DrilldownInv, DrilldownTypeOK, HeldIsWhole, StoredIsWhole,
              PinsAreReal, PinnedBy, Alone
<1>9. QED
  BY <1>1, <1>2, <1>3, <1>4, <1>5, <1>6, <1>7, <1>8 DEF DrilldownNext

\* So it always holds.
LEMMA DrilldownInvariant == DrilldownSpec => []DrilldownInv
BY DrilldownBegins, DrilldownGoesOn, PTL DEF DrilldownSpec

\* ohlc_cache and mae_mfe: the extremes on the row of a trade that overlaps no other
\* are the least and the greatest gain that its window offered, whatever candles
\* expire, stores fail, clients are cut off and processes restart on the way.
THEOREM LonePinsAreAlwaysWhole == DrilldownSpec => []LonePinsAreWhole
<1>1. DrilldownInv => LonePinsAreWhole
  <2> SUFFICES ASSUME DrilldownInv, NEW t \in Trades, Alone(t), Upright(t), pinned[t] # NoFigure
               PROVE  /\ {pinned[t].mae, pinned[t].mfe} \subseteq Gains(t)
                      /\ \A g \in Gains(t) : pinned[t].mae <= g /\ g <= pinned[t].mfe
    BY DEF LonePinsAreWhole
  <2>1. PICK W \in SUBSET Minutes : PinnedBy(t, W)
    BY DEF DrilldownInv, PinsAreReal
  <2>2. /\ Window[t] # {}
        /\ pinned[t] = Extremes(Trade[t], Low(CandlesOf(Window[t])), High(CandlesOf(Window[t])))
    BY <2>1 DEF PinnedBy
  <2>3. QED
    BY <2>2, ExtremesAreGains
<1>2. QED
  BY <1>1, DrilldownInvariant, PTL

------------------------------------------------------------------------------
(* Equity curves.                                                           *)

\* The peak is the highest point of the curve.
PeakIsHighest ==
  IF curve = << >> THEN peak = NoFigure
  ELSE /\ peak \in Int
       /\ \A i \in 1..Len(curve) : curve[i] <= peak
       /\ \E i \in 1..Len(curve) : curve[i] = peak

EquityInv == EquityTypeOK /\ PeakIsHighest /\ DrawdownIsDeepest

\* The curve of no trade satisfies the invariant.
LEMMA EquityBegins == EquityInit => EquityInv
<1> SUFFICES ASSUME EquityInit PROVE EquityInv
  OBVIOUS
<1>1. PICK n \in 0..MaxTrades : left \in [1..n -> Deals]
  BY DEF EquityInit
<1>2. left \in Seq(Deals)
  BY <1>1, EquityAssumption DEF EquityAssumption
<1>3. QED
  BY <1>2 DEF EquityInit, EquityInv, EquityTypeOK, PeakIsHighest, DrawdownIsDeepest

\* One more point: it falls from the peak, or it is the new peak.
LEMMA BookKeepsCurve ==
  ASSUME EquityInv, Book
  PROVE  EquityInv'
<1> DEFINE profit == Profit(Head(left))
           total  == Total + profit
           top    == PeakWith(total)
           n      == Len(curve)
<1>1. /\ left \in Seq(Deals) /\ left # << >>
      /\ curve \in Seq(Int) /\ booked \in Seq(Int) /\ n \in Nat /\ Len(booked) = n
      /\ drawdown \in Int /\ drawdown <= 0 /\ wins \in 0..n
  BY DEF EquityInv, EquityTypeOK, Book
<1>2. profit \in Int
  BY <1>1, EquityAssumption DEF EquityAssumption, Book
<1>3. /\ total \in Int /\ total = (IF n = 0 THEN 0 ELSE curve[n]) + profit
      /\ curve = << >> <=> n = 0
  BY <1>1, <1>2 DEF Total
<1>4. /\ curve' = Append(curve, total) /\ booked' = Append(booked, profit)
      /\ left' = Tail(left) /\ peak' = top
      /\ drawdown' = IF total - top < drawdown THEN total - top ELSE drawdown
      /\ wins' = IF profit > 0 THEN wins + 1 ELSE wins
  BY DEF Book
<1>5. /\ n = 0 => peak = NoFigure
      /\ n # 0 => /\ peak \in Int /\ \A i \in 1..n : curve[i] <= peak
                  /\ \E i \in 1..n : curve[i] = peak
      /\ \A i, j \in 1..n : i <= j => drawdown <= curve[j] - curve[i]
      /\ drawdown # 0 => \E i, j \in 1..n : i < j /\ drawdown = curve[j] - curve[i]
      /\ \A i \in 1..n : booked[i] = IF i = 1 THEN curve[1] ELSE curve[i] - curve[i - 1]
  BY <1>3 DEF EquityInv, PeakIsHighest, DrawdownIsDeepest, Fall
<1>6. top = IF n = 0 THEN total ELSE IF peak < total THEN total ELSE peak
  BY <1>5, FiguresAssumption DEF FiguresAssumption, PeakWith
<1> HIDE DEF profit, total, top
<1>7. /\ curve' \in Seq(Int) /\ Len(curve') = n + 1
      /\ booked' \in Seq(Int) /\ Len(booked') = n + 1
      /\ left' \in Seq(Deals)
  BY <1>1, <1>2, <1>3, <1>4
<1>8. /\ curve'[n + 1] = total /\ booked'[n + 1] = profit
      /\ \A i \in 1..n : curve'[i] = curve[i] /\ curve[i] \in Int /\ booked'[i] = booked[i]
  BY <1>1, <1>2, <1>3, <1>4
<1>9. n \in Nat /\ drawdown \in Int /\ drawdown <= 0 /\ total \in Int /\ wins \in 0..n
  BY <1>1, <1>3
<1> HIDE DEF n
<1>10. /\ top \in Int /\ total <= top
       /\ \A i \in 1..n : curve[i] <= top
       /\ top # total => \E i \in 1..n : curve[i] = top
  BY <1>5, <1>6, <1>8, <1>9
<1>11. /\ drawdown' \in Int /\ drawdown' <= 0 /\ drawdown' <= drawdown
       /\ drawdown' <= total - top /\ drawdown' \in {drawdown, total - top}
  BY <1>4, <1>9, <1>10
<1>12. \A i \in 1..(n + 1) : i \in 1..n \/ i = n + 1
  BY <1>9
<1>13. \A i \in 1..n : i \in 1..(n + 1) /\ i < n + 1
  BY <1>9
<1>14. n + 1 \in 1..(n + 1)
  BY <1>9
<1>15. \A i \in 1..(n + 1) : curve'[i] \in Int /\ curve'[i] <= top
  BY <1>8, <1>9, <1>10, <1>12
<1>16. EquityTypeOK'
  <2>1. wins' \in 0..(n + 1)
    BY <1>4, <1>9
  <2>2. QED
    BY <1>4, <1>7, <1>10, <1>11, <2>1 DEF EquityTypeOK
<1>17. PeakIsHighest'
  <2>1. curve' # << >>
    BY <1>7, <1>9
  <2>2. \E i \in 1..(n + 1) : curve'[i] = top
    BY <1>8, <1>10, <1>13, <1>14
  <2>3. QED
    BY <1>4, <1>7, <1>10, <1>15, <2>1, <2>2 DEF PeakIsHighest
<1>18. \A i, j \in 1..(n + 1) : i <= j => drawdown' <= curve'[j] - curve'[i]
  <2>1. TAKE i, j \in 1..(n + 1)
  <2>2. HAVE i <= j
  <2>3. CASE j = n + 1
    BY <1>8, <1>9, <1>10, <1>11, <1>15, <2>3
  <2>4. CASE j \in 1..n
    <3>1. i \in 1..n
      BY <1>9, <2>2, <2>4
    <3>2. drawdown <= curve[j] - curve[i] /\ curve'[i] = curve[i] /\ curve'[j] = curve[j]
      BY <1>5, <1>8, <2>2, <2>4, <3>1
    <3>3. QED
      BY <1>9, <1>11, <1>15, <3>2
  <2>5. QED
    BY <1>12, <2>3, <2>4
<1>19. drawdown' # 0 => \E i, j \in 1..(n + 1) : i < j /\ drawdown' = curve'[j] - curve'[i]
  <2>1. HAVE drawdown' # 0
  <2>2. CASE drawdown' = drawdown
    <3>1. PICK i \in 1..n, j \in 1..n : i < j /\ drawdown = curve[j] - curve[i]
      BY <1>5, <2>1, <2>2
    <3>2. QED
      BY <1>8, <1>13, <2>2, <3>1
  <2>3. CASE drawdown' = total - top
    <3>1. top # total
      BY <1>9, <2>1, <2>3
    <3>2. PICK i \in 1..n : curve[i] = top
      BY <1>10, <3>1
    <3>3. i < n + 1 /\ curve'[i] = top /\ i \in 1..(n + 1)
      BY <1>8, <1>13, <3>2
    <3>4. QED
      BY <1>8, <1>14, <2>3, <3>3
  <2>4. QED
    BY <1>11, <2>2, <2>3
<1>20. \A i \in 1..(n + 1) :
         booked'[i] = IF i = 1 THEN curve'[1] ELSE curve'[i] - curve'[i - 1]
  <2>1. TAKE i \in 1..(n + 1)
  <2>2. CASE i \in 1..n
    <3>1. i # 1 => i - 1 \in 1..n
      BY <1>9, <2>2
    <3>2. QED
      BY <1>5, <1>8, <2>2, <3>1
  <2>3. CASE i = n + 1 /\ n = 0
    BY <1>2, <1>3, <1>8, <2>3
  <2>4. CASE i = n + 1 /\ n # 0
    <3>1. i # 1 /\ i - 1 = n /\ n \in 1..n
      BY <1>9, <2>4
    <3>2. curve'[n] = curve[n] /\ curve[n] \in Int
      BY <1>8, <3>1
    <3>3. QED
      BY <1>2, <1>3, <1>8, <2>4, <3>1, <3>2
  <2>5. QED
    BY <1>12, <2>2, <2>3, <2>4
<1>21. DrawdownIsDeepest'
  BY <1>7, <1>18, <1>19, <1>20 DEF DrawdownIsDeepest, Fall
<1>22. QED
  BY <1>16, <1>17, <1>21 DEF EquityInv

\* So the invariant always holds.
LEMMA EquityInvariant == EquitySpec => []EquityInv
<1>1. EquityInv /\ [EquityNext]_equityVars => EquityInv'
  <2> SUFFICES ASSUME EquityInv, [EquityNext]_equityVars PROVE EquityInv'
    OBVIOUS
  <2>1. CASE SkipOpen
    <3>1. left' \in Seq(Deals)
      BY <2>1 DEF SkipOpen, EquityInv, EquityTypeOK
    <3>2. QED
      BY <2>1, <3>1
         DEF SkipOpen, EquityInv, EquityTypeOK, PeakIsHighest, DrawdownIsDeepest, Fall
  <2>2. CASE UNCHANGED equityVars
    BY <2>2 DEF equityVars, EquityInv, EquityTypeOK, PeakIsHighest, DrawdownIsDeepest, Fall
  <2>3. QED
    BY <2>1, <2>2, BookKeepsCurve DEF EquityNext
<1>2. QED
  BY <1>1, EquityBegins, PTL DEF EquitySpec

\* compute_max_drawdown and the curve beside it: whatever wins, losses and trades
\* without a profit come in whatever order, the drawdown is the deepest fall from a
\* point of the curve to a later one.
THEOREM DrawdownIsAlwaysDeepest == EquitySpec => []DrawdownIsDeepest
<1>1. EquityInv => DrawdownIsDeepest
  BY DEF EquityInv
<1>2. QED
  BY <1>1, EquityInvariant, PTL
==============================================================================
