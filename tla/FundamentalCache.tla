-------------------------- MODULE FundamentalCache --------------------------
(***************************************************************************)
(* The assessments of the analyst agents and their two caches.             *)
(*                                                                         *)
(* A reader (a drilldown, an approval card, the snapshot of a new trade)   *)
(* is served from the fresh cache while its entry lives, else it calls the *)
(* agent; a call that fails falls back on the stale cache, which keeps the *)
(* last answer of a symbol, whatever its age, until the cache is full.     *)
(* Calls of several readers overlap, and their answers come in any order.  *)
(* Each answer also moves the agent's health, which the banner shows.      *)
(*                                                                         *)
(* Time is counted down: an entry has ticks left to live, a call has ticks *)
(* before it times out, and an age is counted up to the age at which it is *)
(* old for everybody.                                                      *)
(***************************************************************************)
EXTENDS Integers, Sequences, FiniteSets

CONSTANTS
  Readers,      \* whoever asks for an assessment
  Symbols,      \* the symbols asked for
  Crypto,       \* those of the asset classes crypto and cfd
  CryptoTtl,    \* life of a fresh entry
  StockTtl,
  CallTimeout,  \* longest call of the agent
  StaleCap,     \* entries of the stale cache before it is pruned
  Pruned,       \* entries it then loses
  Hour, Day     \* ages at which the banner turns yellow and red

ASSUME FundamentalAssumption ==
  /\ Crypto \subseteq Symbols
  /\ CryptoTtl \in Nat /\ StockTtl \in Nat /\ CallTimeout \in Nat
  /\ StaleCap \in Nat /\ Pruned \in Nat /\ Hour \in Nat /\ Day \in Nat
  /\ 0 < CryptoTtl /\ CryptoTtl <= StockTtl /\ StockTtl <= Hour /\ Hour < Day
  /\ 0 < Pruned /\ Pruned < StaleCap

VARIABLES
  fresh,   \* fresh[s] : the entry of s in its TTLCache, or NoEntry
  stale,   \* the stale cache in the order of its insertions
  health,  \* health[a] : age of the last answer of agent a; Day if older or none
  client,  \* the MCP client exists
  reader   \* what each reader does

cacheVars == <<fresh, stale, health, client>>
fundamentalVars == <<cacheVars, reader>>

Agents == {"viktor", "satoshi"}

\* Route an asset class to its analyst agent.
AgentFor(s) == IF s \in Crypto THEN "satoshi" ELSE "viktor"

Ttl(s) == IF s \in Crypto THEN CryptoTtl ELSE StockTtl

\* The age from which an assessment is too old to be called fresh by anybody.
Old == StockTtl + CallTimeout
Ages == 0..Old

\* age : time since the agent made the assessment (history).
NoEntry == [left |-> 0, age |-> 0]
Entry   == [left : 1..StockTtl, age : Ages] \cup {NoEntry}

StaleEntry == [symbol : Symbols, age : Ages]

\* What a reader may be doing, or has been handed.
Idle    == [pc |-> "idle"]
Nothing == [pc |-> "nothing"]
Raised  == [pc |-> "raised"]
Call    == [pc : {"call"}, symbol : Symbols, left : 0..CallTimeout]
Served  == [pc : {"served"}, symbol : Symbols, age : Ages, stale : BOOLEAN]

FundamentalTypeOK ==
  /\ fresh \in [Symbols -> Entry]
  /\ stale \in Seq(StaleEntry)
  /\ Len(stale) <= StaleCap
  /\ health \in [Agents -> 0..Day]
  /\ client \in BOOLEAN
  /\ reader \in [Readers -> {Idle, Nothing, Raised} \cup Call \cup Served]

FundamentalInit ==
  /\ fresh = [s \in Symbols |-> NoEntry]
  /\ stale = << >>
  /\ health = [a \in Agents |-> Day]
  /\ client \in BOOLEAN
  /\ reader = [r \in Readers |-> Idle]

------------------------------------------------------------------------------
(* get_fundamental.                                                         *)

Serve(s, age, isStale) == [pc |-> "served", symbol |-> s, age |-> age, stale |-> isStale]

\* TTLCache: an entry is there while it has time left.
Cached(s) == fresh[s].left > 0

StaleAt(s) == {i \in 1..Len(stale) : stale[i].symbol = s}

\* Mutant: the fallback is handed out as it was stored.
AsStored(s) ==
  IF StaleAt(s) = {} THEN Nothing ELSE Serve(s, stale[CHOOSE i \in StaleAt(s) : TRUE].age, FALSE)

\* The last answer of a symbol, marked, or nothing.
AsStale(s) ==
  IF StaleAt(s) = {} THEN Nothing ELSE Serve(s, stale[CHOOSE i \in StaleAt(s) : TRUE].age, TRUE)

\* A fresh entry is served, without a client the stale one, else the agent is called.
Ask(r, s) ==
  /\ reader[r].pc # "call"
  /\ reader' = [reader EXCEPT ![r] =
       CASE Cached(s)             -> Serve(s, fresh[s].age, FALSE)
         [] ~Cached(s) /\ ~client -> AsStale(s)
         [] ~Cached(s) /\ client  -> [pc |-> "call", symbol |-> s, left |-> CallTimeout]]
  /\ UNCHANGED cacheVars

\* The entry is tested and read by two lookups: one that expires between them
\* raises a KeyError.
ExpiresBetweenLookups(r, s) ==
  /\ reader[r].pc # "call"
  /\ fresh[s].left = 1
  /\ reader' = [reader EXCEPT ![r] = Raised]
  /\ UNCHANGED cacheVars

\* Mutant: the oldest entries stay.
KeptStale == stale

\* At the cap the entries longest in the dict go.
PrunedStale ==
  IF Len(stale) >= StaleCap
  THEN SubSeq(stale, Len(stale) - (StaleCap - Pruned) + 1, Len(stale)) ELSE stale

\* Mutant: an entry is added for every answer.
Appended(entries, e) == Append(entries, e)

\* A symbol that is still there keeps its place.
Stored(entries, e) ==
  IF \E i \in 1..Len(entries) : entries[i].symbol = e.symbol
  THEN [i \in 1..Len(entries) |-> IF entries[i].symbol = e.symbol THEN e ELSE entries[i]]
  ELSE Append(entries, e)

RecordedSuccess(a) == 0

\* The agent made the assessment some time during the call; it lives from now.
Answer(r) ==
  /\ reader[r].pc = "call"
  /\ \E age \in 0..(CallTimeout - reader[r].left) :
       LET s == reader[r].symbol IN
       /\ fresh' = [fresh EXCEPT ![s] = [left |-> Ttl(s), age |-> age]]
       /\ stale' = Stored(PrunedStale, [symbol |-> s, age |-> age])
       /\ reader' = [reader EXCEPT ![r] = Serve(s, age, FALSE)]
       /\ health' = [health EXCEPT ![AgentFor(s)] = RecordedSuccess(AgentFor(s))]
  /\ UNCHANGED client

\* A timeout, a transport error, an answer that is no JSON.
CallFails(r) ==
  /\ reader[r].pc = "call"
  /\ reader' = [reader EXCEPT ![r] = AsStale(reader[r].symbol)]
  /\ UNCHANGED cacheVars

\* The fresh cache is at its size limit and makes room: external.
Evict(s) ==
  /\ Cached(s)
  /\ fresh' = [fresh EXCEPT ![s] = NoEntry]
  /\ UNCHANGED <<stale, health, client, reader>>

------------------------------------------------------------------------------
(* Time and the process.                                                    *)

Older(age) == IF age < Old THEN age + 1 ELSE Old

Aged(e) == IF e.left <= 1 THEN NoEntry ELSE [left |-> e.left - 1, age |-> Older(e.age)]

\* Time does not pass the limit of a call before the call has ended.
EntriesAge ==
  /\ \A r \in Readers : reader[r].pc = "call" => reader[r].left > 0
  /\ fresh' = [s \in Symbols |-> Aged(fresh[s])]
  /\ stale' = [i \in 1..Len(stale) |-> [stale[i] EXCEPT !.age = Older(@)]]
  /\ health' = [a \in Agents |-> IF health[a] < Day THEN health[a] + 1 ELSE Day]
  /\ reader' = [r \in Readers |->
       IF reader[r].pc = "call" THEN [reader[r] EXCEPT !.left = @ - 1] ELSE reader[r]]
  /\ UNCHANGED client

\* Caches and health live in the process, and the handshake may fail this time.
FundamentalRestart ==
  /\ fresh' = [s \in Symbols |-> NoEntry]
  /\ stale' = << >>
  /\ health' = [a \in Agents |-> Day]
  /\ client' \in BOOLEAN
  /\ reader' = [r \in Readers |-> Idle]

FundamentalNext ==
  \/ \E r \in Readers :
       \/ \E s \in Symbols : Ask(r, s) \/ ExpiresBetweenLookups(r, s)
       \/ Answer(r) \/ CallFails(r)
  \/ \E s \in Symbols : Evict(s)
  \/ EntriesAge
  \/ FundamentalRestart

FundamentalSpec == FundamentalInit /\ [][FundamentalNext]_fundamentalVars

------------------------------------------------------------------------------
(* The banner.                                                              *)

Severity(a) ==
  IF health[a] < Hour THEN "ok" ELSE IF health[a] < Day THEN "yellow" ELSE "red"

------------------------------------------------------------------------------
(* Properties.                                                              *)

\* What a reader is handed as fresh was made at most one life and one call ago,
\* although answers overtake each other and every answer lives from its arrival.
\* A symbol that is cached is never shown beside a banner that calls its agent
\* degraded.  And the stale cache has one entry per symbol, the answer that the
\* fresh cache holds: what readers get when the agent fails next is what they had
\* last.
AnswersAreHonest ==
  /\ \A r \in Readers :
       reader[r].pc = "served" /\ ~reader[r].stale =>
         reader[r].age < Ttl(reader[r].symbol) + CallTimeout
  /\ \A s \in Symbols :
       /\ Cardinality(StaleAt(s)) <= 1
       /\ Cached(s) =>
            /\ Severity(AgentFor(s)) = "ok"
            /\ \A i \in StaleAt(s) : stale[i].age = fresh[s].age
==============================================================================
