------------------------------ MODULE Drilldown ------------------------------
(***************************************************************************)
(* The extremes of closed trades: a drilldown takes the candles of the     *)
(* trade's window from the table ohlc_candles, or from the first client of *)
(* a chain that has them, stores what it fetched, and pins the extremes it *)
(* finds on the trade.  A stored candle lives 24 hours, counted down here; *)
(* the clients of a chain share a deadline.                                *)
(*                                                                         *)
(* All trades are of one symbol: those of others share nothing.  The       *)
(* clients are stubs today; these answer, as the chain is made for.        *)
(***************************************************************************)
EXTENDS TradeFigures, FiniteSets

CONSTANTS
  Requests,     \* drilldown requests
  Trades,       \* closed trades
  Trade,        \* Trade[t] : the row of t
  Minutes,      \* the minutes that have a candle
  Candle,       \* Candle[m] : its low and high
  Window,       \* Window[t] : the minutes between the open and the close of t
  CandleLife,   \* life of a stored candle
  Clients,      \* number of clients in the chain
  Deadline,     \* time the chain has
  ClientLimit   \* time one client has

ASSUME DrilldownAssumption ==
  /\ \A t \in Trades :
       /\ Trade[t].side \in Sides
       /\ Trade[t].quantity \in Nat \ {0}
       /\ {Trade[t].entry, Trade[t].exit} \subseteq Nat
  /\ \A m \in Minutes : Candle[m].low \in Nat /\ Candle[m].high \in Nat
  /\ Window \in [Trades -> SUBSET Minutes] /\ IsFiniteSet(Minutes)
  /\ {CandleLife, Deadline, ClientLimit} \subseteq Nat \ {0}
  /\ Clients \in Nat

VARIABLES
  stored,    \* stored[m] : what is left of the life of the candle of minute m
  pinned,    \* pinned[t] : the extremes on t's row
  request    \* what each drilldown does

drilldownVars == <<stored, pinned, request>>

Ready == [pc |-> "ready"]
Ended == [pc |-> "ended"]

Asking  == [pc : {"chain"}, trade : Trades, next : 1..Clients + 1, spent : 0..Deadline]
Holding == [pc : {"store", "pin"}, trade : Trades, minutes : SUBSET Minutes]

DrilldownTypeOK ==
  /\ stored \in [Minutes -> 0..CandleLife]
  /\ pinned \in [Trades -> {NoFigure} \cup [mae : Int, mfe : Nat]]
  /\ \A t \in Trades : pinned[t] # NoFigure => pinned[t].mae <= 0
  /\ request \in [Requests -> {Ready, Ended} \cup Asking \cup Holding]

DrilldownInit ==
  /\ stored = [m \in Minutes |-> 0]
  /\ pinned = [t \in Trades |-> NoFigure]
  /\ request = [r \in Requests |-> Ready]

------------------------------------------------------------------------------
(* One drilldown.                                                           *)

\* The candles of the window that are stored and young.
CachedMinutes(t) == {m \in Window[t] : stored[m] > 0}

\* Any young candle of the window is a hit.  The column that says that the
\* extremes are known is not selected, so they are taken anew each time.
ReadCandles(r, t) ==
  /\ request[r].pc \in {"ready", "ended"}
  /\ request' = [request EXCEPT ![r] =
       IF CachedMinutes(t) # {}
       THEN [pc |-> "pin", trade |-> t, minutes |-> CachedMinutes(t)]
       ELSE [pc |-> "chain", trade |-> t, next |-> 1, spent |-> 0]]
  /\ UNCHANGED <<stored, pinned>>

\* The time a client is given.
Budget(r) ==
  IF Deadline - request[r].spent < ClientLimit THEN Deadline - request[r].spent ELSE ClientLimit

ChainIsOver(r) == request[r].next > Clients \/ request[r].spent >= Deadline

\* A client raises, has no candles, or is cut off at its budget.
ClientFails(r) ==
  /\ request[r].pc = "chain"
  /\ ~ChainIsOver(r)
  /\ \E time \in 0..Budget(r) :
       request' = [request EXCEPT ![r].next = @ + 1, ![r].spent = @ + time]
  /\ UNCHANGED <<stored, pinned>>

\* A client that answers has the whole window.
ClientAnswers(r) ==
  /\ request[r].pc = "chain"
  /\ ~ChainIsOver(r)
  /\ LET t == request[r].trade IN
     /\ Window[t] # {}
     /\ request' = [request EXCEPT ![r] = [pc |-> "store", trade |-> t, minutes |-> Window[t]]]
  /\ UNCHANGED <<stored, pinned>>

\* No candles: nothing is pinned.
ChainFails(r) ==
  /\ request[r].pc = "chain"
  /\ ChainIsOver(r)
  /\ request' = [request EXCEPT ![r] = Ended]
  /\ UNCHANGED <<stored, pinned>>

\* Mutant: no transaction around the batch.
AnyPart(minutes) == SUBSET minutes

\* One transaction stores the whole batch, or none of it.
Batches(minutes) == {minutes, {}}

\* The extremes are pinned either way.
StoreCandles(r) ==
  /\ request[r].pc = "store"
  /\ \E batch \in Batches(request[r].minutes) :
       stored' = [m \in Minutes |-> IF m \in batch THEN CandleLife ELSE stored[m]]
  /\ request' = [request EXCEPT ![r].pc = "pin"]
  /\ UNCHANGED pinned

CandlesOf(minutes) == {Candle[m] : m \in minutes}

PinExtremes(r) ==
  /\ request[r].pc = "pin"
  /\ LET t == request[r].trade
         candles == CandlesOf(request[r].minutes)
     IN pinned' = [pinned EXCEPT ![t] = Extremes(Trade[t], Low(candles), High(candles))]
  /\ request' = [request EXCEPT ![r] = Ended]
  /\ UNCHANGED stored

\* A statement fails or the connection is gone: the page is shown without extremes.
CandlesFail(r) ==
  /\ request[r].pc \in {"chain", "pin"}
  /\ request' = [request EXCEPT ![r] = Ended]
  /\ UNCHANGED <<stored, pinned>>

CandlesAge ==
  /\ stored' = [m \in Minutes |-> IF stored[m] > 0 THEN stored[m] - 1 ELSE 0]
  /\ UNCHANGED <<pinned, request>>

\* The tables stay, the requests are gone.
DrilldownRestart ==
  /\ request' = [r \in Requests |-> Ready]
  /\ UNCHANGED <<stored, pinned>>

DrilldownNext ==
  \/ \E r \in Requests :
       \/ \E t \in Trades : ReadCandles(r, t)
       \/ ClientFails(r) \/ ClientAnswers(r) \/ ChainFails(r)
       \/ StoreCandles(r) \/ PinExtremes(r) \/ CandlesFail(r)
  \/ CandlesAge
  \/ DrilldownRestart

DrilldownSpec == DrilldownInit /\ [][DrilldownNext]_drilldownVars

------------------------------------------------------------------------------
(* Properties.                                                              *)

\* Trades whose windows overlap share candles.
Alone(t) == \A u \in Trades \ {t} : Window[u] \cap Window[t] = {}

\* Nothing checks that a client's candles are not upside down.
Upright(t) == \A m \in Window[t] : Candle[m].low <= Candle[m].high

\* What t would have gained if it had been closed at any price of its window.
Gains(t) ==
  {Move(Trade[t], p) * Trade[t].quantity :
     p \in {Trade[t].entry} \cup UNION {Candle[m].low..Candle[m].high : m \in Window[t]}}

\* The extremes pinned on a trade are the least and the greatest of its possible
\* gains, if its candles make sense and no other trade overlaps it: no run of
\* expiries, failed stores and restarts leaves a part of its window in the table
\* for a later drilldown.
LonePinsAreWhole ==
  \A t \in Trades :
    Alone(t) /\ Upright(t) /\ pinned[t] # NoFigure =>
      /\ {pinned[t].mae, pinned[t].mfe} \subseteq Gains(t)
      /\ \A g \in Gains(t) : pinned[t].mae <= g /\ g <= pinned[t].mfe
==============================================================================
