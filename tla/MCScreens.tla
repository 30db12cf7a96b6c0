------------------------------ MODULE MCScreens ------------------------------
(***************************************************************************)
(* What the pages show: assessments, extremes, equity curves, trends and   *)
(* the journal.  The parts share no variable and call each other through   *)
(* results only, so a behaviour runs one of them and leaves the others as  *)
(* they began.                                                             *)
(***************************************************************************)
EXTENDS FundamentalCache, Drilldown, EquityCurve, TrendRadar, Journal

VARIABLE part

vars == <<fundamentalVars, drilldownVars, equityVars, radarVars, journalVars, part>>

\* A long and a short that overlap, and a cover alone with a candle on each side
\* of its entry.
TradeRows ==
  [long  |-> [side |-> "buy",   quantity |-> 2, entry |-> 3, exit |-> 4, fees |-> 1, stop |-> 2],
   short |-> [side |-> "short", quantity |-> 1, entry |-> 5, exit |-> 3, fees |-> 0, stop |-> 6],
   cover |-> [side |-> "cover", quantity |-> 2, entry |-> 4, exit |-> 3, fees |-> 0, stop |-> 0]]

TradeNames == DOMAIN TradeRows

CandleRows ==
  <<[low |-> 2, high |-> 4], [low |-> 3, high |-> 6], [low |-> 1, high |-> 5],
    [low |-> 4, high |-> 5], [low |-> 2, high |-> 3]>>

Windows == [long |-> {1, 2}, short |-> {2, 3}, cover |-> {4, 5}]

\* A win and two losses without a stored profit, a win with one, an open trade.
Deal(side, exit, pnl) ==
  [side |-> side, quantity |-> 1, entry |-> 3, exit |-> exit, fees |-> 1, pnl |-> pnl]

SomeDeals ==
  {Deal("buy", 6, NoFigure), Deal("sell", 3, NoFigure), Deal("buy", 2, NoFigure),
   Deal("cover", 3, 1), Deal("short", NoFigure, NoFigure)}

\* One symbol on two horizons, and a pick without a symbol.
SomePicks == {<<"NVDA", "short">>, <<"NVDA", "long">>, <<"AMD", "short">>}
NoSymbol  == {<<"", "short">>}
AllPicks  == SomePicks \cup NoSymbol

\* A hand-made trade, to be tagged, and two of bots, one with a null flag and a
\* comma in the name of its strategy.
JournalRows ==
  {[asset_class |-> "stock", broker |-> "ib",      agent |-> NoValue,   spec |-> << >>],
   [asset_class |-> "cfd",   broker |-> "ctrader", agent |-> "satoshi",
    spec |-> [horizon |-> "intraday", followed |-> "followed"]],
   [asset_class |-> "cfd",   broker |-> "ctrader", agent |-> "satoshi",
    spec |-> [strategy |-> "trend,fast", followed |-> NoValue]]}

JournalSpecs == {[horizon |-> h] : h \in {"intraday", "position"}}

TradeDates == <<{}, {"tue"}, {"tue"}>>

\* A list, and blanks alone.
JournalCompound == [v \in {"trend,fast", " "} |-> IF v = " " THEN {} ELSE {"trend", "fast"}]

\* Alone and together, with a value that is unknown and facets that are.
JournalUrls ==
  {<< >>,
   [asset_class |-> {"stock"}], [asset_class |-> {"cfd"}, horizon |-> {"intraday"}],
   [horizon |-> {"intraday", "position"}, broker |-> {"ib"}],
   [followed |-> {"no"}], [broker |-> {"alpaca", "ctrader"}, asset_class |-> {"cfd"}],
   [strategy |-> {"trend,fast"}, horizon |-> {" "}, broker |-> {"alpaca"}],
   [regime_tag |-> {"calm"}], [agent |-> {"satoshi"}, broker |-> {"ib"}]}

TypeOK == JournalTypeOK /\ FundamentalTypeOK /\ DrilldownTypeOK /\ EquityTypeOK /\ RadarTypeOK

Init ==
  /\ FundamentalInit /\ DrilldownInit /\ EquityInit /\ RadarInit /\ JournalInit
  /\ part \in {"assessments", "extremes", "curve", "trends", "journal"}
  /\ part # "assessments" => client
  /\ part # "curve" => left = << >>

Next ==
  \/ /\ part = "assessments" /\ FundamentalNext
     /\ UNCHANGED <<drilldownVars, equityVars, radarVars, journalVars, part>>
  \/ /\ part = "extremes" /\ DrilldownNext
     /\ UNCHANGED <<fundamentalVars, equityVars, radarVars, journalVars, part>>
  \/ /\ part = "curve" /\ EquityNext
     /\ UNCHANGED <<fundamentalVars, drilldownVars, radarVars, journalVars, part>>
  \/ /\ part = "trends" /\ RadarNext
     /\ UNCHANGED <<fundamentalVars, drilldownVars, equityVars, journalVars, part>>
  \/ /\ part = "journal" /\ JournalNext
     /\ UNCHANGED <<fundamentalVars, drilldownVars, equityVars, radarVars, part>>

Spec == Init /\ [][Next]_vars
==============================================================================
