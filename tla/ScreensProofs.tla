---------------------------- MODULE ScreensProofs ----------------------------
(***************************************************************************)
(* Proofs about what the pages show, for any readers, symbols, picks,      *)
(* trades, URLs, lives, limits and sizes.                                  *)
(*                                                                         *)
(* Assessments: what an entry has aged it has lost of its life, and its    *)
(* agent has been silent no longer than that (FreshIsYoung); the stale     *)
(* cache has one entry per symbol (OneEntryEach), the one the fresh cache  *)
(* holds as long as it lives (StaleIsLast).                                *)
(*                                                                         *)
(* Journal: the number of a page is in the range of the count              *)
(* (PageExists), what was read in peace is what is there                   *)
(* (QuietPageIsTrue), and a selection by columns finds no fewer trades     *)
(* when it is listed than when it was counted (CountIsReached).            *)
(*                                                                         *)
(* Sums and lists are recursive: each has a lemma that its recursion has a *)
(* solution and one that tells what every solution is.                     *)
(***************************************************************************)
EXTENDS MCScreens, TradeFiguresProofs

------------------------------------------------------------------------------
(* Assessments.                                                             *)

\* Life used up pays for age, beyond the one call, and for the agent's silence.
FreshIsYoung ==
  \A s \in Symbols : Cached(s) =>
    /\ fresh[s].age + fresh[s].left <= Ttl(s) + CallTimeout
    /\ health[AgentFor(s)] + fresh[s].left <= Ttl(s)

ServedIsYoung ==
  \A r \in Readers : reader[r].pc = "served" /\ ~reader[r].stale =>
    reader[r].age < Ttl(reader[r].symbol) + CallTimeout

\* One entry per symbol, in any sequence of entries.
Single(entries) ==
  \A i, j \in 1..Len(entries) : entries[i].symbol = entries[j].symbol => i = j

OneEntryEach == Single(stale)

StaleIsLast ==
  \A s \in Symbols : Cached(s) =>
    \A i \in 1..Len(stale) : stale[i].symbol = s => stale[i].age = fresh[s].age

FundamentalInv == FundamentalTypeOK /\ FreshIsYoung /\ ServedIsYoung /\ OneEntryEach /\ StaleIsLast

------------------------------------------------------------------------------
(* Numbers and entries.                                                     *)

\* Lives are natural numbers, none longer than an hour.
LEMMA Numbers ==
  /\ StockTtl \in Nat /\ CallTimeout \in Nat /\ Hour \in Nat /\ Day \in Nat
  /\ Old \in Nat /\ 0 \in Ages /\ 0 < Hour /\ Hour <= Day
  /\ StaleCap \in Nat /\ Pruned \in Nat /\ 0 < Pruned /\ Pruned < StaleCap
  /\ \A s \in Symbols : Ttl(s) \in 1..StockTtl /\ Ttl(s) <= Hour /\ AgentFor(s) \in Agents
BY FundamentalAssumption DEF FundamentalAssumption, Ttl, Old, Ages, AgentFor, Agents

\* An age is capped and stays a natural number.
LEMMA OlderIsTyped ==
  ASSUME NEW age \in Ages
  PROVE  Older(age) \in Ages /\ Older(age) <= age + 1
BY Numbers DEF Older, Ages

\* What the fresh cache holds for a symbol has an age and a rest of its life.
LEMMA FreshIsTyped ==
  ASSUME FundamentalTypeOK, NEW s \in Symbols
  PROVE  /\ fresh[s].left \in 0..StockTtl /\ fresh[s].age \in Ages
         /\ fresh[s].left = 0 => fresh[s] = NoEntry
BY Numbers DEF FundamentalTypeOK, Entry, NoEntry

\* What the pruned cache holds, the cache held, in the same order.
LEMMA PrunedIsPart ==
  ASSUME FundamentalTypeOK
  PROVE  /\ PrunedStale \in Seq(StaleEntry)
         /\ Len(PrunedStale) < StaleCap
         /\ \E k \in Nat : /\ Len(PrunedStale) + k = Len(stale)
                           /\ \A i \in 1..Len(PrunedStale) : PrunedStale[i] = stale[i + k]
<1>1. stale \in Seq(StaleEntry) /\ Len(stale) \in Nat /\ Len(stale) <= StaleCap
  BY DEF FundamentalTypeOK
<1>2. CASE Len(stale) >= StaleCap
  <2> DEFINE k == Len(stale) - (StaleCap - Pruned)
  <2>1. Len(stale) = StaleCap
    BY <1>1, <1>2, Numbers
  <2>2. k \in Nat /\ k = Pruned /\ k + 1 \in 1..Len(stale)
    BY <1>1, <2>1, Numbers
  <2>3. PrunedStale = SubSeq(stale, k + 1, Len(stale))
    BY <1>2 DEF PrunedStale
  <2> HIDE DEF k
  <2>4. /\ PrunedStale \in Seq(StaleEntry)
        /\ Len(PrunedStale) = Len(stale) - k
        /\ \A i \in 1..Len(PrunedStale) : PrunedStale[i] = stale[i + k]
    <3>1. PICK n \in Nat : n = Len(stale)
      BY <1>1
    <3>2. k \in Nat /\ k + 1 \in 1..n /\ k + 1 <= n
      BY <2>2, <3>1
    <3>3. \A i \in (k + 1)..n : stale[i] \in StaleEntry
      BY <1>1, <3>1, <3>2
    <3>4. PICK kept : kept = PrunedStale
      OBVIOUS
    <3>5. /\ kept \in Seq(StaleEntry)
          /\ Len(kept) = IF k + 1 <= n THEN n - (k + 1) + 1 ELSE 0
          /\ \A i \in 1..(n - (k + 1) + 1) : kept[i] = stale[k + 1 + i - 1]
      BY <2>3, <3>1, <3>2, <3>3, <3>4, SubSeqProperties
    <3>6. PICK l : l = Len(kept)
      OBVIOUS
    <3>7. l = n - k /\ \A i \in 1..l : k + 1 + i - 1 = i + k /\ i \in 1..(n - (k + 1) + 1)
      BY <3>2, <3>5, <3>6
    <3>8. QED
      BY <3>1, <3>4, <3>5, <3>6, <3>7
  <2>5. Len(PrunedStale) + k = Len(stale) /\ Len(PrunedStale) < StaleCap
    <3>1. PICK n : n = Len(stale)
      OBVIOUS
    <3>2. PICK l : l = Len(PrunedStale)
      OBVIOUS
    <3>3. n = StaleCap /\ l = n - k
      BY <2>1, <2>4, <3>1, <3>2
    <3>4. l + k = n /\ l < StaleCap
      BY <2>2, <3>3, Numbers
    <3>5. QED
      BY <3>1, <3>2, <3>4
  <2>6. QED
    BY <2>2, <2>4, <2>5
<1>3. CASE ~(Len(stale) >= StaleCap)
  <2>1. PrunedStale = stale
    BY <1>3 DEF PrunedStale
  <2>2. \A i \in 1..Len(stale) : stale[i] = stale[i + 0]
    BY <1>1
  <2>3. QED
    BY <1>1, <1>3, <2>1, <2>2, Numbers
<1>4. QED
  BY <1>2, <1>3

\* An entry is stored in the place of the one of its symbol, or at the end.
LEMMA StoredIsSingle ==
  ASSUME NEW entries \in Seq(StaleEntry), Single(entries), NEW e \in StaleEntry
  PROVE  /\ Stored(entries, e) \in Seq(StaleEntry)
         /\ Len(Stored(entries, e)) <= Len(entries) + 1
         /\ Single(Stored(entries, e))
         /\ \A i \in 1..Len(Stored(entries, e)) :
              \/ Stored(entries, e)[i] = e
              \/ /\ i \in 1..Len(entries) /\ Stored(entries, e)[i] = entries[i]
                 /\ entries[i].symbol # e.symbol
<1> DEFINE new == Stored(entries, e)
<1>1. Len(entries) \in Nat
  OBVIOUS
<1>2. CASE \E i \in 1..Len(entries) : entries[i].symbol = e.symbol
  <2>1. new = [i \in 1..Len(entries) |-> IF entries[i].symbol = e.symbol THEN e ELSE entries[i]]
    BY <1>2 DEF Stored
  <2> HIDE DEF new
  <2>2. new \in [1..Len(entries) -> StaleEntry]
    BY <1>1, <2>1
  <2>3. new \in Seq(StaleEntry) /\ Len(new) = Len(entries)
    BY <1>1, <2>2
  <2>4. \A i \in 1..Len(entries) : new[i].symbol = entries[i].symbol
    BY <2>1
  <2>5. Single(new)
    BY <2>3, <2>4 DEF Single
  <2>6. \A i \in 1..Len(new) : new[i] = e \/ (new[i] = entries[i] /\ entries[i].symbol # e.symbol)
    BY <2>1, <2>3
  <2>7. QED
    BY <1>1, <2>3, <2>5, <2>6 DEF new
<1>3. CASE ~ \E i \in 1..Len(entries) : entries[i].symbol = e.symbol
  <2>1. new = Append(entries, e)
    BY <1>3 DEF Stored
  <2> HIDE DEF new
  <2>2. /\ new \in Seq(StaleEntry) /\ Len(new) = Len(entries) + 1
        /\ \A i \in 1..Len(entries) : new[i] = entries[i]
        /\ new[Len(entries) + 1] = e
    BY <1>1, <2>1
  <2>3. Single(new)
    BY <1>1, <1>3, <2>2 DEF Single
  <2>4. QED
    BY <1>1, <1>3, <2>2, <2>3 DEF new
<1>4. QED
  BY <1>2, <1>3

------------------------------------------------------------------------------
(* Steps.                                                                   *)

\* Empty caches and idle readers satisfy the invariant.
LEMMA FundamentalBegins == FundamentalInit => FundamentalInv
<1> SUFFICES ASSUME FundamentalInit
             PROVE  FundamentalInv
  OBVIOUS
<1>1. FundamentalTypeOK
  BY Numbers DEF FundamentalInit, FundamentalTypeOK, Entry
<1>2. \A s \in Symbols : ~Cached(s)
  BY DEF FundamentalInit, NoEntry, Cached
<1>3. ServedIsYoung
  BY DEF FundamentalInit, ServedIsYoung, Idle
<1>4. OneEntryEach
  BY DEF FundamentalInit, OneEntryEach, Single
<1>5. QED
  BY <1>1, <1>2, <1>3, <1>4 DEF FundamentalInv, FreshIsYoung, StaleIsLast

\* Steps of one reader that leave the caches.
LEMMA ReaderStep ==
  ASSUME FundamentalInv, UNCHANGED cacheVars, NEW r \in Readers, NEW state,
         state \in {Idle, Nothing, Raised} \cup Call \cup Served,
         reader' = [reader EXCEPT ![r] = state],
         state.pc = "served" /\ ~state.stale => state.age < Ttl(state.symbol) + CallTimeout
  PROVE  FundamentalInv'
<1>1. UNCHANGED <<fresh, stale, health, client>>
  BY DEF cacheVars
<1>2. FundamentalTypeOK'
  BY <1>1 DEF FundamentalInv, FundamentalTypeOK
<1>3. ServedIsYoung'
  <2>1. \A q \in Readers : reader'[q] = IF q = r THEN state ELSE reader[q]
    BY DEF FundamentalInv, FundamentalTypeOK
  <2>2. QED
    BY <2>1 DEF FundamentalInv, ServedIsYoung
<1>4. QED
  BY <1>1, <1>2, <1>3 DEF FundamentalInv, FreshIsYoung, OneEntryEach, StaleIsLast, Cached

\* The fallback is nothing, or the last answer with its mark.
LEMMA AsStaleIsTyped ==
  ASSUME FundamentalTypeOK, NEW s \in Symbols
  PROVE  AsStale(s) = Nothing \/ (AsStale(s) \in Served /\ AsStale(s).stale)
<1>1. CASE StaleAt(s) = {}
  BY <1>1 DEF AsStale
<1>2. CASE StaleAt(s) # {}
  <2>1. (CHOOSE i \in StaleAt(s) : TRUE) \in StaleAt(s)
    BY <1>2
  <2>2. PICK i \in StaleAt(s) : AsStale(s) = Serve(s, stale[i].age, TRUE)
    BY <1>2, <2>1 DEF AsStale
  <2>3. stale[i].age \in Ages
    <3>1. stale[i] \in StaleEntry
      BY DEF StaleAt, FundamentalTypeOK
    <3>2. QED
      BY <3>1 DEF StaleEntry
  <2>4. QED
    BY <2>2, <2>3 DEF Serve, Served
<1>3. QED
  BY <1>1, <1>2

\* get_fundamental up to the call: served from the fresh cache, or on to the agent.
LEMMA AskKeeps ==
  ASSUME FundamentalInv, NEW r \in Readers, NEW s \in Symbols, Ask(r, s)
  PROVE  FundamentalInv'
<1> USE DEF FundamentalInv
<1>1. CASE Cached(s)
  <2> DEFINE state == Serve(s, fresh[s].age, FALSE)
  <2>1. reader' = [reader EXCEPT ![r] = state] /\ UNCHANGED cacheVars
    BY <1>1 DEF Ask
  <2>2. state \in Served /\ state.age = fresh[s].age /\ state.symbol = s
    BY FreshIsTyped DEF Serve, Served
  <2>3. fresh[s].age < Ttl(s) + CallTimeout
    BY <1>1, FreshIsTyped, Numbers DEF FreshIsYoung, Cached, Ages
  <2> HIDE DEF state
  <2>4. QED
    BY <2>1, <2>2, <2>3, ReaderStep
<1>2. CASE ~Cached(s) /\ ~client
  <2>1. reader' = [reader EXCEPT ![r] = AsStale(s)] /\ UNCHANGED cacheVars
    BY <1>2 DEF Ask
  <2>2. QED
    BY <2>1, AsStaleIsTyped, ReaderStep DEF Nothing
<1>3. CASE ~Cached(s) /\ client
  <2> DEFINE state == [pc |-> "call", symbol |-> s, left |-> CallTimeout]
  <2>1. reader' = [reader EXCEPT ![r] = state] /\ UNCHANGED cacheVars
    BY <1>3 DEF Ask
  <2>2. state \in Call /\ state.pc # "served"
    BY Numbers DEF Call
  <2> HIDE DEF state
  <2>3. QED
    BY <2>1, <2>2, ReaderStep
<1>4. QED
  BY <1>1, <1>2, <1>3 DEF FundamentalTypeOK

\* An answer enters both caches at once, the stale one in place of its last.
LEMMA AnswerKeeps ==
  ASSUME FundamentalInv, NEW r \in Readers, Answer(r)
  PROVE  FundamentalInv'
<1> DEFINE s == reader[r].symbol
<1>1. PICK age \in 0..(CallTimeout - reader[r].left) :
        /\ fresh' = [fresh EXCEPT ![s] = [left |-> Ttl(s), age |-> age]]
        /\ stale' = Stored(PrunedStale, [symbol |-> s, age |-> age])
        /\ reader' = [reader EXCEPT ![r] = Serve(s, age, FALSE)]
        /\ health' = [health EXCEPT ![AgentFor(s)] = RecordedSuccess(AgentFor(s))]
  BY DEF Answer
<1>2. client' = client /\ reader[r] \in Call
  BY DEF Answer, FundamentalInv, FundamentalTypeOK, Idle, Nothing, Raised, Served
<1>3. s \in Symbols /\ age \in Ages /\ age <= CallTimeout
  BY <1>2, Numbers DEF Call, Ages, Old
<1> HIDE DEF s
<1> DEFINE e == [symbol |-> s, age |-> age]
           old == PrunedStale
<1>4. e \in StaleEntry /\ e.symbol = s /\ e.age = age
  BY <1>3 DEF StaleEntry
<1> HIDE DEF e
<1>5. PICK k \in Nat : /\ Len(old) + k = Len(stale)
                       /\ \A i \in 1..Len(old) : old[i] = stale[i + k]
  BY PrunedIsPart DEF FundamentalInv
<1>6. old \in Seq(StaleEntry) /\ Len(old) < StaleCap /\ Len(old) \in Nat
  BY PrunedIsPart DEF FundamentalInv
<1> HIDE DEF old
<1>7. Single(old)
  <2> SUFFICES ASSUME NEW i \in 1..Len(old), NEW j \in 1..Len(old), old[i].symbol = old[j].symbol
               PROVE  i = j
    BY DEF Single
  <2>1. i + k \in 1..Len(stale) /\ j + k \in 1..Len(stale) /\ i \in Nat /\ j \in Nat
    BY <1>5, <1>6
  <2>2. stale[i + k].symbol = stale[j + k].symbol
    BY <1>5
  <2>3. i + k = j + k
    BY <2>1, <2>2 DEF FundamentalInv, OneEntryEach, Single
  <2>4. QED
    BY <2>1, <2>3
<1>8. /\ stale' \in Seq(StaleEntry) /\ Len(stale') <= StaleCap /\ Single(stale')
      /\ \A i \in 1..Len(stale') :
           \/ stale'[i] = e
           \/ i \in 1..Len(old) /\ stale'[i] = old[i] /\ old[i].symbol # s
  <2>1. stale' = Stored(old, e)
    BY <1>1 DEF old, e
  <2>2. Len(Stored(old, e)) <= Len(old) + 1 /\ Stored(old, e) \in Seq(StaleEntry)
    BY <1>4, <1>6, <1>7, StoredIsSingle
  <2>3. Len(Stored(old, e)) <= StaleCap
    BY <1>6, <2>2, Numbers
  <2>4. /\ Single(Stored(old, e))
        /\ \A i \in 1..Len(Stored(old, e)) :
             \/ Stored(old, e)[i] = e
             \/ i \in 1..Len(old) /\ Stored(old, e)[i] = old[i] /\ old[i].symbol # e.symbol
    BY <1>4, <1>6, <1>7, StoredIsSingle
  <2>5. QED
    BY <1>4, <2>1, <2>2, <2>3, <2>4
<1>9. \A q \in Symbols : fresh'[q] = IF q = s THEN [left |-> Ttl(s), age |-> age] ELSE fresh[q]
  BY <1>1, <1>3 DEF FundamentalInv, FundamentalTypeOK
<1>10. \A a \in Agents : health'[a] = IF a = AgentFor(s) THEN 0 ELSE health[a]
  BY <1>1, <1>3, Numbers DEF FundamentalInv, FundamentalTypeOK, RecordedSuccess
<1>11. FundamentalTypeOK'
  <2>1. [left |-> Ttl(s), age |-> age] \in Entry
    BY <1>3, Numbers DEF Entry
  <2>2. Serve(s, age, FALSE) \in Served
    BY <1>3 DEF Serve, Served
  <2>3. fresh' \in [Symbols -> Entry]
    BY <1>1, <2>1 DEF FundamentalInv, FundamentalTypeOK
  <2>4. reader' \in [Readers -> {Idle, Nothing, Raised} \cup Call \cup Served]
    BY <1>1, <2>2 DEF FundamentalInv, FundamentalTypeOK
  <2>5. health' \in [Agents -> 0..Day]
    <3>1. 0 \in 0..Day
      BY Numbers
    <3>2. health' = [health EXCEPT ![AgentFor(s)] = 0]
      BY <1>1 DEF RecordedSuccess
    <3>3. QED
      BY <3>1, <3>2 DEF FundamentalInv, FundamentalTypeOK
  <2>6. QED
    BY <1>2, <1>8, <2>3, <2>4, <2>5 DEF FundamentalInv, FundamentalTypeOK
<1>12. FreshIsYoung'
  <2> SUFFICES ASSUME NEW q \in Symbols, Cached(q)'
               PROVE  /\ fresh'[q].age + fresh'[q].left <= Ttl(q) + CallTimeout
                      /\ health'[AgentFor(q)] + fresh'[q].left <= Ttl(q)
    BY DEF FreshIsYoung
  <2>1. CASE q = s
    BY <1>3, <1>9, <1>10, <2>1, Numbers DEF Ages
  <2>2. CASE q # s
    <3>1. fresh'[q] = fresh[q] /\ Cached(q)
      BY <1>9, <2>2 DEF Cached
    <3>2. AgentFor(q) \in Agents /\ health[AgentFor(q)] \in Nat /\ Ttl(q) \in Nat /\ fresh[q].left \in Nat
      BY Numbers, FreshIsTyped DEF FundamentalInv, FundamentalTypeOK
    <3>3. health'[AgentFor(q)] \in Nat /\ health'[AgentFor(q)] <= health[AgentFor(q)]
      BY <1>10, <3>2
    <3>4. QED
      BY <3>1, <3>2, <3>3 DEF FundamentalInv, FreshIsYoung
  <2>3. QED
    BY <2>1, <2>2
<1>13. ServedIsYoung'
  <2>1. \A q \in Readers : reader'[q] = IF q = r THEN Serve(s, age, FALSE) ELSE reader[q]
    BY <1>1 DEF FundamentalInv, FundamentalTypeOK
  <2>2. age < Ttl(s) + CallTimeout
    BY <1>3, Numbers DEF Ages
  <2>3. QED
    BY <2>1, <2>2 DEF FundamentalInv, ServedIsYoung, Serve
<1>14. StaleIsLast'
  <2> SUFFICES ASSUME NEW q \in Symbols, Cached(q)', NEW i \in 1..Len(stale'), stale'[i].symbol = q
               PROVE  stale'[i].age = fresh'[q].age
    BY DEF StaleIsLast
  <2>1. CASE stale'[i] = e
    BY <1>4, <1>9, <2>1
  <2>2. CASE i \in 1..Len(old) /\ stale'[i] = old[i] /\ old[i].symbol # s
    <3>1. fresh'[q] = fresh[q] /\ Cached(q)
      BY <1>9, <2>2 DEF Cached
    <3>2. i + k \in 1..Len(stale) /\ old[i] = stale[i + k]
      BY <1>5, <1>6, <2>2
    <3>3. QED
      BY <2>2, <3>1, <3>2 DEF FundamentalInv, StaleIsLast
  <2>3. QED
    BY <1>8, <2>1, <2>2
<1>15. QED
  BY <1>8, <1>11, <1>12, <1>13, <1>14 DEF FundamentalInv, OneEntryEach

\* A tick takes from each life what it adds to each age and to each silence.
LEMMA AgeKeeps ==
  ASSUME FundamentalInv, EntriesAge
  PROVE  FundamentalInv'
<1>1. \A s \in Symbols : fresh'[s] = Aged(fresh[s])
  BY DEF EntriesAge
<1>2. stale \in Seq(StaleEntry) /\ Len(stale) \in Nat /\ Len(stale) <= StaleCap
  BY DEF FundamentalInv, FundamentalTypeOK
<1>3. \A i \in 1..Len(stale) :
        LET e == [stale[i] EXCEPT !.age = Older(@)] IN
        e \in StaleEntry /\ e.symbol = stale[i].symbol /\ e.age = Older(stale[i].age)
  <2> SUFFICES ASSUME NEW i \in 1..Len(stale)
               PROVE  LET e == [stale[i] EXCEPT !.age = Older(@)] IN
                      e \in StaleEntry /\ e.symbol = stale[i].symbol /\ e.age = Older(stale[i].age)
    OBVIOUS
  <2>1. stale[i] \in StaleEntry
    BY <1>2
  <2>2. Older(stale[i].age) \in Ages
    BY <2>1, OlderIsTyped DEF StaleEntry
  <2>3. QED
    BY <2>1, <2>2 DEF StaleEntry
<1>4. /\ stale' \in Seq(StaleEntry) /\ Len(stale') = Len(stale)
      /\ \A i \in 1..Len(stale) :
           stale'[i].symbol = stale[i].symbol /\ stale'[i].age = Older(stale[i].age)
  <2>1. stale' = [i \in 1..Len(stale) |-> [stale[i] EXCEPT !.age = Older(@)]]
    BY DEF EntriesAge
  <2>2. stale' \in [1..Len(stale) -> StaleEntry]
    BY <1>3, <2>1
  <2>3. stale' \in Seq(StaleEntry) /\ Len(stale') = Len(stale)
    BY <1>2, <2>2
  <2>4. QED
    BY <1>3, <2>1, <2>3
<1>5. \A s \in Symbols :
        /\ Aged(fresh[s]) \in Entry
        /\ Aged(fresh[s]).left > 0 =>
             /\ Cached(s)
             /\ Aged(fresh[s]).left = fresh[s].left - 1
             /\ Aged(fresh[s]).age = Older(fresh[s].age)
  <2> SUFFICES ASSUME NEW s \in Symbols
               PROVE  /\ Aged(fresh[s]) \in Entry
                      /\ Aged(fresh[s]).left > 0 =>
                           /\ Cached(s)
                           /\ Aged(fresh[s]).left = fresh[s].left - 1
                           /\ Aged(fresh[s]).age = Older(fresh[s].age)
    OBVIOUS
  <2>1. fresh[s].left \in 0..StockTtl /\ fresh[s].age \in Ages
    BY FreshIsTyped DEF FundamentalInv
  <2>2. CASE fresh[s].left <= 1
    BY <2>2 DEF Aged, NoEntry, Entry
  <2>3. CASE ~(fresh[s].left <= 1)
    BY <2>1, <2>3, OlderIsTyped, Numbers DEF Aged, Entry, Cached
  <2>4. QED
    BY <2>2, <2>3
<1>6. \A a \in Agents : health[a] \in 0..Day /\ health'[a] \in 0..Day /\ health'[a] <= health[a] + 1
  BY Numbers DEF FundamentalInv, FundamentalTypeOK, EntriesAge
<1>7. \A r \in Readers :
        /\ reader'[r] \in {Idle, Nothing, Raised} \cup Call \cup Served
        /\ reader'[r] = reader[r] \/ reader'[r].pc = "call"
  <2> SUFFICES ASSUME NEW r \in Readers
               PROVE  /\ reader'[r] \in {Idle, Nothing, Raised} \cup Call \cup Served
                      /\ reader'[r] = reader[r] \/ reader'[r].pc = "call"
    OBVIOUS
  <2>1. CASE reader[r].pc = "call"
    <3>0. reader[r] \in {Idle, Nothing, Raised} \cup Call \cup Served
      BY DEF FundamentalInv, FundamentalTypeOK
    <3>1. reader[r] \in Call /\ reader[r].left > 0
      BY <2>1, <3>0 DEF EntriesAge, Idle, Nothing, Raised, Served
    <3>2. reader'[r] = [reader[r] EXCEPT !.left = reader[r].left - 1]
      BY <2>1 DEF EntriesAge
    <3>3. reader[r].left - 1 \in 0..CallTimeout
      BY <3>1, Numbers DEF Call
    <3>4. reader'[r] \in Call
      BY <3>1, <3>2, <3>3 DEF Call
    <3>5. QED
      BY <3>4 DEF Call
  <2>2. CASE reader[r].pc # "call"
    BY <2>2 DEF EntriesAge, FundamentalInv, FundamentalTypeOK
  <2>3. QED
    BY <2>1, <2>2
<1>8. FundamentalTypeOK'
  <2>1. fresh' \in [Symbols -> Entry]
    BY <1>1, <1>5 DEF EntriesAge
  <2>2. health' \in [Agents -> 0..Day]
    BY <1>6 DEF EntriesAge
  <2>3. reader' \in [Readers -> {Idle, Nothing, Raised} \cup Call \cup Served]
    BY <1>7 DEF EntriesAge
  <2>4. client' \in BOOLEAN
    BY DEF EntriesAge, FundamentalInv, FundamentalTypeOK
  <2>5. QED
    BY <1>2, <1>4, <2>1, <2>2, <2>3, <2>4 DEF FundamentalTypeOK
<1>9. FreshIsYoung'
  <2> SUFFICES ASSUME NEW s \in Symbols, Cached(s)'
               PROVE  /\ fresh'[s].age + fresh'[s].left <= Ttl(s) + CallTimeout
                      /\ health'[AgentFor(s)] + fresh'[s].left <= Ttl(s)
    BY DEF FreshIsYoung
  <2>1. Cached(s) /\ fresh'[s].left = fresh[s].left - 1 /\ fresh'[s].age = Older(fresh[s].age)
    BY <1>1, <1>5 DEF Cached
  <2>2. fresh[s].left \in Nat /\ fresh[s].age \in Ages /\ fresh[s].age \in Nat
    BY FreshIsTyped, Numbers DEF FundamentalInv, Ages
  <2>3. Older(fresh[s].age) \in Nat /\ Older(fresh[s].age) <= fresh[s].age + 1
    BY <2>2, OlderIsTyped, Numbers DEF Ages
  <2>4. AgentFor(s) \in Agents /\ Ttl(s) \in Nat /\ CallTimeout \in Nat
    BY Numbers
  <2>5. /\ fresh[s].age + fresh[s].left <= Ttl(s) + CallTimeout
        /\ health[AgentFor(s)] + fresh[s].left <= Ttl(s)
    BY <2>1 DEF FundamentalInv, FreshIsYoung
  <2>6. /\ health[AgentFor(s)] \in Nat /\ health'[AgentFor(s)] \in Nat
        /\ health'[AgentFor(s)] <= health[AgentFor(s)] + 1
    BY <1>6, <2>4
  <2>7. QED
    BY <2>1, <2>2, <2>3, <2>4, <2>5, <2>6
<1>10. ServedIsYoung'
  BY <1>7 DEF FundamentalInv, ServedIsYoung
<1>11. OneEntryEach'
  BY <1>4 DEF FundamentalInv, OneEntryEach, Single
<1>12. StaleIsLast'
  BY <1>1, <1>4, <1>5 DEF FundamentalInv, StaleIsLast, Cached
<1>13. QED
  BY <1>8, <1>9, <1>10, <1>11, <1>12 DEF FundamentalInv

\* The invariant is kept by every step.
LEMMA FundamentalGoesOn == FundamentalInv /\ [FundamentalNext]_fundamentalVars => FundamentalInv'
<1> SUFFICES ASSUME FundamentalInv, [FundamentalNext]_fundamentalVars
             PROVE  FundamentalInv'
  OBVIOUS
<1>1. ASSUME NEW r \in Readers, NEW s \in Symbols, Ask(r, s)
      PROVE  FundamentalInv'
  BY <1>1, AskKeeps
<1>2. ASSUME NEW r \in Readers, NEW s \in Symbols, ExpiresBetweenLookups(r, s)
      PROVE  FundamentalInv'
  BY <1>2, ReaderStep DEF ExpiresBetweenLookups, Raised
<1>3. ASSUME NEW r \in Readers, Answer(r)
      PROVE  FundamentalInv'
  BY <1>3, AnswerKeeps
<1>4. ASSUME NEW r \in Readers, CallFails(r)
      PROVE  FundamentalInv'
  <2>1. reader[r].symbol \in Symbols
    BY <1>4 DEF CallFails, FundamentalInv, FundamentalTypeOK, Call, Idle, Nothing, Raised, Served
  <2>2. QED
    BY <1>4, <2>1, AsStaleIsTyped, ReaderStep DEF CallFails, FundamentalInv, Nothing
<1>5. ASSUME NEW s \in Symbols, Evict(s)
      PROVE  FundamentalInv'
  <2>1. UNCHANGED <<stale, health, client, reader>>
    BY <1>5 DEF Evict
  <2>2. \A q \in Symbols : fresh'[q] = IF q = s THEN NoEntry ELSE fresh[q]
    BY <1>5 DEF Evict, FundamentalInv, FundamentalTypeOK
  <2>3. \A q \in Symbols : Cached(q)' => Cached(q) /\ fresh'[q] = fresh[q]
    BY <2>2 DEF Cached, NoEntry
  <2>4. FundamentalTypeOK'
    BY <1>5, <2>1 DEF Evict, FundamentalInv, FundamentalTypeOK, Entry
  <2>5. QED
    BY <2>1, <2>3, <2>4 DEF FundamentalInv, FreshIsYoung, ServedIsYoung, OneEntryEach, StaleIsLast
<1>6. CASE EntriesAge
  BY <1>6, AgeKeeps
<1>7. CASE FundamentalRestart
  <2>1. FundamentalTypeOK'
    BY <1>7, Numbers DEF FundamentalRestart, FundamentalTypeOK, Entry
  <2>2. \A s \in Symbols : ~Cached(s)'
    BY <1>7 DEF FundamentalRestart, Cached, NoEntry
  <2>3. ServedIsYoung' /\ OneEntryEach'
    BY <1>7 DEF FundamentalRestart, ServedIsYoung, OneEntryEach, Single, Idle
  <2>4. QED
    BY <2>1, <2>2, <2>3 DEF FundamentalInv, FreshIsYoung, StaleIsLast
<1>8. CASE UNCHANGED fundamentalVars
  BY <1>8 DEF fundamentalVars, cacheVars, FundamentalInv, FundamentalTypeOK, FreshIsYoung, ServedIsYoung,
              OneEntryEach, StaleIsLast, Cached
<1>9. QED
  BY <1>1, <1>2, <1>3, <1>4, <1>5, <1>6, <1>7, <1>8 DEF FundamentalNext

\* So it always holds.
LEMMA FundamentalInvariant == FundamentalSpec => []FundamentalInv
  BY FundamentalBegins, FundamentalGoesOn, PTL DEF FundamentalSpec

\* No reader is handed as fresh what is older than a life and a call, no cached symbol
\* stands beside a banner that calls its agent degraded, and the stale cache has one
\* entry per symbol, the last answer.
THEOREM AnswersAreAlwaysHonest == FundamentalSpec => []AnswersAreHonest
<1>1. FundamentalInv => AnswersAreHonest
  <2> SUFFICES ASSUME FundamentalInv
               PROVE  AnswersAreHonest
    OBVIOUS
  <2>1. \A s \in Symbols : Cardinality(StaleAt(s)) <= 1
    <3> SUFFICES ASSUME NEW s \in Symbols
                 PROVE  Cardinality(StaleAt(s)) <= 1
      OBVIOUS
    <3>1. CASE StaleAt(s) = {}
      BY <3>1, FS_EmptySet
    <3>2. CASE StaleAt(s) # {}
      <4>1. PICK i \in StaleAt(s) : TRUE
        BY <3>2
      <4>2. StaleAt(s) = {i}
        BY <4>1 DEF StaleAt, FundamentalInv, OneEntryEach, Single
      <4>3. Cardinality({i}) = 1
        BY FS_Singleton
      <4>4. QED
        BY <4>2, <4>3
    <3>3. QED
      BY <3>1, <3>2
  <2>2. ASSUME NEW s \in Symbols, Cached(s)
        PROVE  Severity(AgentFor(s)) = "ok"
    <3>1. AgentFor(s) \in Agents /\ Ttl(s) \in Nat /\ Ttl(s) <= Hour /\ Hour \in Nat
      BY Numbers
    <3>2. fresh[s].left \in Nat /\ fresh[s].left > 0 /\ health[AgentFor(s)] \in Nat
      BY <2>2, <3>1, FreshIsTyped DEF FundamentalInv, FundamentalTypeOK, Cached
    <3>3. health[AgentFor(s)] + fresh[s].left <= Ttl(s)
      BY <2>2 DEF FundamentalInv, FreshIsYoung
    <3>4. health[AgentFor(s)] < Hour
      BY <3>1, <3>2, <3>3
    <3>5. QED
      BY <3>4 DEF Severity
  <2>3. QED
    BY <2>1, <2>2 DEF AnswersAreHonest, FundamentalInv, ServedIsYoung, StaleIsLast, StaleAt
<1>2. QED
  BY <1>1, FundamentalInvariant, PTL

------------------------------------------------------------------------------
(* Trends.                                                                  *)

\* The picks among the first ones of a list that are among some keys, as Among finds them:
\* first is the function of its recursion.
Choosing(picks, keys, m, first) ==
  [n \in 0..m |->
     IF n = 0 THEN << >>
     ELSE IF picks[n] \in keys THEN Append(first[n - 1], picks[n]) ELSE first[n - 1]]

\* The recursion has a solution.
LEMMA ChoosingIsDefined ==
  ASSUME NEW picks, NEW keys
  PROVE  \A m \in Nat : \E first : first = Choosing(picks, keys, m, first)
<1> DEFINE P == {m \in Nat : \E first : first = Choosing(picks, keys, m, first)}
<1>1. 0 \in P
  <2> DEFINE first == [n \in 0..0 |-> << >>]
  <2>1. first = Choosing(picks, keys, 0, first)
    BY DEF Choosing
  <2>2. QED
    BY <2>1
<1>2. ASSUME NEW m \in Nat, m \in P
      PROVE  m + 1 \in P
  <2>1. PICK first : first = Choosing(picks, keys, m, first)
    BY <1>2
  <2> DEFINE last == IF picks[m + 1] \in keys THEN Append(first[m], picks[m + 1]) ELSE first[m]
             longer == [n \in 0..(m + 1) |-> IF n = m + 1 THEN last ELSE first[n]]
  <2>2. ASSUME NEW n \in 0..(m + 1)
        PROVE  longer[n] = IF n = 0 THEN << >>
                           ELSE IF picks[n] \in keys THEN Append(longer[n - 1], picks[n])
                           ELSE longer[n - 1]
    <3>1. CASE n = m + 1
      <4>1. longer[n - 1] = first[m] /\ longer[n] = last /\ n # 0
        BY <3>1
      <4>2. QED
        BY <3>1, <4>1
    <3>2. CASE n \in 1..m
      <4>1. longer[n] = first[n] /\ longer[n - 1] = first[n - 1] /\ n # 0 /\ n \in 0..m
        BY <3>2
      <4> HIDE DEF longer
      <4>2. QED
        BY <2>1, <4>1 DEF Choosing
    <3>3. CASE n = 0
      <4>1. longer[n] = first[n] /\ n \in 0..m
        BY <3>3
      <4>2. QED
        BY <2>1, <3>3, <4>1 DEF Choosing
    <3>4. QED
      BY <3>1, <3>2, <3>3
  <2>3. longer = [n \in 0..(m + 1) |-> longer[n]]
    OBVIOUS
  <2> HIDE DEF longer
  <2>4. longer = Choosing(picks, keys, m + 1, longer)
    BY <2>2, <2>3 DEF Choosing
  <2>5. QED
    BY <2>4
<1> HIDE DEF P
<1>3. \A m \in Nat : m \in P
  BY <1>1, <1>2, NaturalInduction
<1>4. QED
  BY <1>3 DEF P

\* So what Among finds is the last value of a function that satisfies its recursion.
LEMMA AmongIsChosen ==
  ASSUME NEW picks, NEW keys, Len(picks) \in Nat
  PROVE  \E first : /\ first = Choosing(picks, keys, Len(picks), first)
                    /\ Among(picks, keys) = first[Len(picks)]
<1> DEFINE Chosen(first) == Choosing(picks, keys, Len(picks), first)
<1>1. Among(picks, keys) = (CHOOSE first : first = Chosen(first))[Len(picks)]
  BY DEF Among, Choosing
<1>2. \E first : first = Chosen(first)
  BY ChoosingIsDefined
<1> HIDE DEF Chosen
<1>3. PICK first : first = CHOOSE f : f = Chosen(f)
  OBVIOUS
<1>4. first = Chosen(first)
  BY <1>2, <1>3
<1>5. QED
  BY <1>1, <1>3, <1>4 DEF Chosen

\* The picks of a list that are among some keys are a list, and they and the others are
\* all of them.
LEMMA AmongSplits ==
  ASSUME NEW picks \in Lists, NEW keys, NEW rest, \A p \in Picks : p \in rest <=> p \notin keys
  PROVE  /\ Among(picks, keys) \in Lists
         /\ Keys(Among(picks, keys)) = Keys(picks) \cap keys
         /\ Len(Among(picks, keys)) + Len(Among(picks, rest)) = Len(picks)
<1> DEFINE N == Len(picks)
<1>1. N \in 0..MaxPicks /\ picks \in [1..N -> Picks]
  BY RadarAssumption DEF Lists
<1> HIDE DEF N
<1>2. PICK f : f = Choosing(picks, keys, N, f) /\ Among(picks, keys) = f[N]
  BY <1>1, AmongIsChosen DEF N
<1>3. PICK g : g = Choosing(picks, rest, N, g) /\ Among(picks, rest) = g[N]
  BY <1>1, AmongIsChosen DEF N
<1> DEFINE Split(n) == /\ f[n] \in Seq(Picks) /\ g[n] \in Seq(Picks)
                       /\ Len(f[n]) + Len(g[n]) = n
                       /\ Keys(f[n]) = {picks[i] : i \in 1..n} \cap keys
           P == {n \in Nat : n <= N => Split(n)}
<1>4. Split(0)
  <2>1. f[0] = << >> /\ g[0] = << >>
    BY <1>1, <1>2, <1>3 DEF Choosing
  <2>2. Keys(<< >>) = {} /\ {picks[i] : i \in 1..0} = {}
    BY DEF Keys
  <2>3. << >> \in Seq(Picks) /\ Len(<< >>) = 0
    OBVIOUS
  <2>4. QED
    BY <2>1, <2>2, <2>3
<1>5. ASSUME NEW n \in Nat, n + 1 <= N, Split(n)
      PROVE  Split(n + 1)
  <2>1. /\ f[n] \in Seq(Picks) /\ g[n] \in Seq(Picks)
        /\ Len(f[n]) + Len(g[n]) = n
        /\ Keys(f[n]) = {picks[i] : i \in 1..n} \cap keys
    BY <1>5
  <2> DEFINE p == picks[n + 1]
  <2>2. p \in Picks /\ n + 1 \in 0..N /\ n + 1 # 0 /\ (n + 1) - 1 = n
    BY <1>1, <1>5
  <2>3. /\ f[n + 1] = IF p \in keys THEN Append(f[n], p) ELSE f[n]
        /\ g[n + 1] = IF p \in rest THEN Append(g[n], p) ELSE g[n]
    BY <1>2, <1>3, <2>2 DEF Choosing
  <2>4. {picks[i] : i \in 1..(n + 1)} = {picks[i] : i \in 1..n} \cup {p}
    <3>1. 1..(n + 1) = 1..n \cup {n + 1}
      OBVIOUS
    <3>2. QED
      BY <3>1
  <2> HIDE DEF p
  <2>5. \A s \in Seq(Picks) : /\ Append(s, p) \in Seq(Picks) /\ Len(Append(s, p)) = Len(s) + 1
                              /\ Len(s) \in Nat
                              /\ Keys(Append(s, p)) = Keys(s) \cup {p}
    <3> SUFFICES ASSUME NEW s \in Seq(Picks)
                 PROVE  /\ Append(s, p) \in Seq(Picks) /\ Len(Append(s, p)) = Len(s) + 1
                        /\ Len(s) \in Nat
                        /\ Keys(Append(s, p)) = Keys(s) \cup {p}
      OBVIOUS
    <3>1. /\ Append(s, p) \in Seq(Picks) /\ Len(Append(s, p)) = Len(s) + 1 /\ Len(s) \in Nat
          /\ \A i \in 1..Len(s) : Append(s, p)[i] = s[i]
          /\ Append(s, p)[Len(s) + 1] = p
      BY <2>2
    <3>2. PICK a : a = Append(s, p)
      OBVIOUS
    <3>3. PICK k \in Nat : k = Len(s)
      BY <3>1
    <3>4. 1..(k + 1) = 1..k \cup {k + 1}
      OBVIOUS
    <3>5. Keys(a) = {a[i] : i \in 1..(k + 1)} /\ Keys(s) = {s[i] : i \in 1..k}
      BY <3>1, <3>2, <3>3 DEF Keys
    <3>6. a[k + 1] = p /\ \A i \in 1..k : a[i] = s[i]
      BY <3>1, <3>2, <3>3
    <3>7. Keys(a) = Keys(s) \cup {p}
      BY <3>4, <3>5, <3>6
    <3>8. QED
      BY <3>1, <3>2, <3>7
  <2>6. CASE p \in keys
    <3>1. f[n + 1] = Append(f[n], p) /\ g[n + 1] = g[n]
      BY <2>2, <2>3, <2>6
    <3>2. Keys(f[n + 1]) = {picks[i] : i \in 1..(n + 1)} \cap keys
      <4>1. Keys(f[n + 1]) = Keys(f[n]) \cup {p}
        BY <2>1, <2>5, <3>1
      <4>2. QED
        BY <2>1, <2>4, <2>6, <4>1
    <3>3. f[n + 1] \in Seq(Picks) /\ g[n + 1] \in Seq(Picks)
      BY <2>1, <2>5, <3>1
    <3>4. Len(f[n + 1]) + Len(g[n + 1]) = n + 1
      <4>1. PICK k \in Nat, m \in Nat : k = Len(f[n]) /\ m = Len(g[n])
        BY <2>1, <2>5
      <4>2. k + m = n
        BY <2>1, <4>1
      <4>3. Len(f[n + 1]) = k + 1 /\ Len(g[n + 1]) = m
        BY <2>1, <2>5, <3>1, <4>1
      <4>4. QED
        BY <4>2, <4>3
    <3>5. QED
      BY <3>2, <3>3, <3>4
  <2>7. CASE p \notin keys
    <3>1. f[n + 1] = f[n] /\ g[n + 1] = Append(g[n], p)
      BY <2>2, <2>3, <2>7
    <3>2. Keys(f[n + 1]) = {picks[i] : i \in 1..(n + 1)} \cap keys
      BY <2>1, <2>4, <2>7, <3>1
    <3>3. f[n + 1] \in Seq(Picks) /\ g[n + 1] \in Seq(Picks)
      BY <2>1, <2>5, <3>1
    <3>4. Len(f[n + 1]) + Len(g[n + 1]) = n + 1
      <4>1. PICK k \in Nat, m \in Nat : k = Len(f[n]) /\ m = Len(g[n])
        BY <2>1, <2>5
      <4>2. k + m = n
        BY <2>1, <4>1
      <4>3. Len(f[n + 1]) = k /\ Len(g[n + 1]) = m + 1
        BY <2>1, <2>5, <3>1, <4>1
      <4>4. QED
        BY <4>2, <4>3
    <3>5. QED
      BY <3>2, <3>3, <3>4
  <2>8. QED
    BY <2>6, <2>7
<1>6. Split(N)
  <2> HIDE DEF Split
  <2>1. 0 \in P /\ \A n \in Nat : n \in P => n + 1 \in P
    BY <1>1, <1>4, <1>5
  <2> HIDE DEF P
  <2>2. \A n \in Nat : n \in P
    BY <2>1, NaturalInduction
  <2>3. QED
    BY <1>1, <2>2 DEF P
<1>7. f[N] \in Lists
  <2>1. PICK a : a = f[N]
    OBVIOUS
  <2>2. PICK k, m : k = Len(f[N]) /\ m = Len(g[N])
    OBVIOUS
  <2>3. k \in Nat /\ m \in Nat /\ a \in [1..k -> Picks]
    BY <1>6, <2>1, <2>2
  <2>4. k + m = N
    BY <1>6, <2>2
  <2>5. k \in 0..MaxPicks
    BY <1>1, <2>3, <2>4, RadarAssumption
  <2>6. QED
    BY <2>1, <2>3, <2>5 DEF Lists
<1>8. QED
  BY <1>2, <1>3, <1>6, <1>7 DEF Keys, N

\* Without an older row the week before is an empty list (compute_diff with previous None).
LEMMA NoPicks == << >> \in Lists /\ Keys(<< >>) = {} /\ Len(<< >>) = 0
<1>1. << >> \in [1..0 -> Picks] /\ 0 \in 0..MaxPicks
  BY RadarAssumption
<1>2. QED
  BY <1>1 DEF Lists, Keys

\* compute_diff: the new and the unchanged picks are the present list, and whatever left it
\* is dropped, as long as no list has a key twice.
LEMMA DiffPartitions ==
  ASSUME NEW now \in Lists, NEW before \in Lists
  PROVE  LET d == Diff(now, before)
             shown == [pc |-> "diff", now |-> now, before |-> before, new |-> d.new,
                       dropped |-> d.dropped, unchanged |-> d.unchanged]
         IN  shown \in Diffs /\ Partitions(shown)
<1> DEFINE d == Diff(now, before)
<1>1. Keys(now) \subseteq Picks /\ Keys(before) \subseteq Picks /\ Len(now) \in Nat
  BY RadarAssumption DEF Lists, Keys
<1>2. /\ d.new \in Lists /\ d.dropped \in Lists /\ d.unchanged \in Lists
      /\ Keys(d.new) = Keys(now) \ Keys(before)
      /\ Keys(d.unchanged) = Keys(now) \cap Keys(before)
      /\ Keys(d.dropped) = Keys(before) \ Keys(now)
      /\ Len(d.new) + Len(d.unchanged) = Len(now)
  <2>1. CASE before = << >>
    <3>1. d.new = now /\ d.dropped = << >> /\ d.unchanged = << >>
      BY <2>1 DEF Diff
    <3>2. Keys(before) = {} /\ << >> \in Lists /\ Keys(<< >>) = {} /\ Len(<< >>) = 0
      BY <2>1, NoPicks
    <3> HIDE DEF d
    <3>3. Keys(now) = Keys(now) \ Keys(before) /\ {} = Keys(now) \cap Keys(before)
          /\ {} = Keys(before) \ Keys(now)
      BY <3>2
    <3>4. Len(now) + 0 = Len(now)
      BY <1>1
    <3>5. QED
      BY <3>1, <3>2, <3>3, <3>4
  <2>2. CASE before # << >>
    <3>1. /\ d.new = Among(now, Picks \ Keys(before))
          /\ d.dropped = Among(before, Picks \ Keys(now))
          /\ d.unchanged = Among(now, Keys(before))
      BY <2>2 DEF Diff
    <3> HIDE DEF d
    <3>2. /\ Among(now, Picks \ Keys(before)) \in Lists
          /\ Keys(Among(now, Picks \ Keys(before))) = Keys(now) \cap (Picks \ Keys(before))
          /\ Len(Among(now, Picks \ Keys(before))) + Len(Among(now, Keys(before))) = Len(now)
      <4>1. \A p \in Picks : p \in Keys(before) <=> p \notin Picks \ Keys(before)
        OBVIOUS
      <4>2. QED
        BY <4>1, AmongSplits
    <3>3. /\ Among(now, Keys(before)) \in Lists
          /\ Keys(Among(now, Keys(before))) = Keys(now) \cap Keys(before)
      <4>1. \A p \in Picks : p \in Picks \ Keys(before) <=> p \notin Keys(before)
        OBVIOUS
      <4>2. QED
        BY <4>1, AmongSplits
    <3>4. /\ Among(before, Picks \ Keys(now)) \in Lists
          /\ Keys(Among(before, Picks \ Keys(now))) = Keys(before) \cap (Picks \ Keys(now))
      <4>1. \A p \in Picks : p \in Keys(now) <=> p \notin Picks \ Keys(now)
        OBVIOUS
      <4>2. QED
        BY <4>1, AmongSplits
    <3>5. Keys(now) \cap (Picks \ Keys(before)) = Keys(now) \ Keys(before)
          /\ Keys(before) \cap (Picks \ Keys(now)) = Keys(before) \ Keys(now)
      BY <1>1
    <3>6. QED
      BY <3>1, <3>2, <3>3, <3>4, <3>5
  <2>3. QED
    BY <2>1, <2>2
<1> HIDE DEF d
<1>3. QED
  BY <1>2 DEF Diffs, Partitions, d

\* Every stored list has the shape that the diff is computed from, and each page shown is
\* such a partition.
LEMMA RadarInvariant == RadarSpec => []RadarTypeOK
<1>1. RadarInit => RadarTypeOK
  BY DEF RadarInit, RadarTypeOK, NoPage
<1>2. RadarTypeOK /\ [RadarNext]_radarVars => RadarTypeOK'
  <2> SUFFICES ASSUME RadarTypeOK, [RadarNext]_radarVars
               PROVE  RadarTypeOK'
    OBVIOUS
  <2>1. ASSUME NEW f \in Fetches, FetchRadar(f) \/ PersistFails(f)
        PROVE  RadarTypeOK'
    BY <2>1 DEF FetchRadar, PersistFails, RadarTypeOK, Waiting
  <2>2. ASSUME NEW f \in Fetches, PersistSnapshot(f)
        PROVE  RadarTypeOK'
    <3>1. fetch[f].picks \in Lists
      BY <2>2 DEF PersistSnapshot, RadarTypeOK, Waiting
    <3>2. snapshots' \in Seq(Lists)
      BY <2>2, <3>1 DEF PersistSnapshot, RadarTypeOK, StoredPicks
    <3>3. fetch' \in [Fetches -> {Waiting} \cup [pc : {"got"}, picks : Lists]]
      BY <2>2 DEF PersistSnapshot, RadarTypeOK
    <3>4. QED
      BY <2>2, <3>2, <3>3 DEF PersistSnapshot, RadarTypeOK
  <2>3. CASE ShowTrends
    <3> DEFINE now    == snapshots[Len(snapshots)]
               before == IF Len(snapshots) = 1 THEN << >> ELSE snapshots[Len(snapshots) - 1]
               d      == Diff(now, before)
               shown  == [pc |-> "diff", now |-> now, before |-> before, new |-> d.new,
                          dropped |-> d.dropped, unchanged |-> d.unchanged]
    <3>1. page' = Failed \/ page' = shown
      BY <2>3 DEF ShowTrends
    <3>2. now \in Lists
      BY <2>3 DEF ShowTrends, RadarTypeOK
    <3>3. before \in Lists
      <4>1. CASE Len(snapshots) = 1
        BY <4>1, NoPicks
      <4>2. CASE Len(snapshots) # 1
        <5>1. snapshots \in Seq(Lists) /\ Len(snapshots) \in Nat /\ Len(snapshots) # 0
          BY <2>3 DEF ShowTrends, RadarTypeOK
        <5>2. PICK k \in Nat : k = Len(snapshots) /\ k # 0 /\ k # 1
          BY <4>2, <5>1
        <5>3. k - 1 \in 1..k
          BY <5>2
        <5>4. snapshots[k - 1] \in Lists
          BY <5>1, <5>2, <5>3, ElementOfSeq
        <5>5. QED
          BY <4>2, <5>2, <5>4
      <4>3. QED
        BY <4>1, <4>2
    <3> HIDE DEF now, before
    <3>4. shown \in Diffs /\ Partitions(shown)
      BY <3>2, <3>3, DiffPartitions
    <3> HIDE DEF shown
    <3>5. page' \in {NoPage, Failed} \cup Diffs /\ (page'.pc = "diff" => Partitions(page'))
      BY <3>1, <3>4 DEF Failed
    <3>6. QED
      BY <2>3, <3>5 DEF ShowTrends, RadarTypeOK
  <2>4. CASE RadarRestart
    BY <2>4 DEF RadarRestart, RadarTypeOK, NoPage
  <2>5. CASE UNCHANGED radarVars
    BY <2>5 DEF radarVars, RadarTypeOK
  <2>6. QED
    BY <2>1, <2>2, <2>3, <2>4, <2>5 DEF RadarNext
<1>3. QED
  BY <1>1, <1>2, PTL DEF RadarSpec

------------------------------------------------------------------------------
(* The journal: pages.                                                      *)

\* The rank of a trade is its place in the list, newest first: every place from the
\* first to the last has one trade.
LEMMA RankIsPlace ==
  ASSUME NEW S \in SUBSET TradeIds
  PROVE  /\ IsFiniteSet(S) /\ Cardinality(S) \in Nat
         /\ \A t \in S : Rank(t, S) \in 1..Cardinality(S)
         /\ \A n \in 1..Cardinality(S) : \E t \in S : Rank(t, S) = n
<1> DEFINE Newer(t) == {u \in S : u >= t}
<1>1. IsFiniteSet(S) /\ Cardinality(S) \in Nat /\ S \subseteq Nat
  BY JournalAssumption, FS_Subset, FS_CardinalityType
<1>2. \A t \in S : IsFiniteSet(Newer(t)) /\ Cardinality(Newer(t)) \in 1..Cardinality(S)
  <2> SUFFICES ASSUME NEW t \in S
               PROVE  IsFiniteSet(Newer(t)) /\ Cardinality(Newer(t)) \in 1..Cardinality(S)
    OBVIOUS
  <2>1. IsFiniteSet(Newer(t)) /\ Cardinality(Newer(t)) <= Cardinality(S)
    BY <1>1, FS_Subset
  <2>2. Cardinality(Newer(t)) \in Nat
    BY <2>1, FS_CardinalityType
  <2>3. t \in Newer(t)
    BY <1>1
  <2>4. Cardinality(Newer(t)) # 0
    BY <2>1, <2>3, FS_EmptySet
  <2>5. QED
    BY <1>1, <2>1, <2>2, <2>4
<1>3. \A t, u \in S : t # u => Cardinality(Newer(t)) # Cardinality(Newer(u))
  <2>1. \A t, u \in S : t < u => Cardinality(Newer(t)) # Cardinality(Newer(u))
    <3> SUFFICES ASSUME NEW t \in S, NEW u \in S, t < u
                 PROVE  Cardinality(Newer(t)) # Cardinality(Newer(u))
      OBVIOUS
    <3>1. Newer(u) \in SUBSET Newer(t) /\ Newer(t) # Newer(u)
      <4>1. t \notin Newer(u) /\ t \in Newer(t)
        BY <1>1
      <4>2. \A v \in Newer(u) : v \in Newer(t)
        BY <1>1
      <4> HIDE DEF Newer
      <4>3. QED
        BY <4>1, <4>2
    <3>2. IsFiniteSet(Newer(t))
      BY <1>2
    <3> HIDE DEF Newer
    <3>3. QED
      BY <3>1, <3>2, FS_Subset
  <2>2. \A t, u \in S : t # u => t < u \/ u < t
    BY <1>1
  <2>3. QED
    BY <2>1, <2>2, Zenon
<1> DEFINE place == [t \in S |-> Cardinality(Newer(t))]
<1> HIDE DEF Newer
<1>4. place \in Injection(S, 1..Cardinality(S))
  BY <1>2, <1>3 DEF Injection, IsInjective
<1>5. IsFiniteSet(1..Cardinality(S)) /\ Cardinality(1..Cardinality(S)) = Cardinality(S)
  BY <1>1, FS_Interval
<1>6. place \in Surjection(S, 1..Cardinality(S))
  BY <1>4, <1>5, FS_Injection
<1>7. \A t \in S : Rank(t, S) = Cardinality(Newer(t))
  BY DEF Rank, Newer
<1>8. QED
  BY <1>1, <1>2, <1>6, <1>7 DEF Surjection

\* A page holds the places from (n - 1) * PageSize + 1 to n * PageSize.
LEMMA PageOfPlace ==
  ASSUME NEW k \in Nat, k > 0
  PROVE  \E n \in Nat \ {0} :
           /\ (n - 1) * PageSize < k /\ k <= n * PageSize
           /\ \A m \in Nat \ {0} : (m - 1) * PageSize < k /\ k <= m * PageSize => m = n
<1> DEFINE p == PageSize
<1>1. p \in Nat /\ p > 0
  BY JournalAssumption
<1> HIDE DEF p
<1> DEFINE q == (k - 1) \div p
<1>2. q \in Nat /\ q * p <= k - 1 /\ k - 1 < (q + 1) * p
  BY <1>1
<1> HIDE DEF q
<1>3. q * p < k /\ k <= (q + 1) * p
  <2>1. q * p \in Int /\ (q + 1) * p \in Int
    BY <1>1, <1>2
  <2>2. QED
    BY <1>2, <2>1
<1>4. ASSUME NEW m \in Nat \ {0}, (m - 1) * p < k, k <= m * p
      PROVE  m = q + 1
  <2>1. CASE m <= q
    <3>1. m * p <= q * p
      BY <1>1, <1>2, <2>1
    <3>2. QED
      BY <1>1, <1>2, <1>3, <1>4, <3>1
  <2>2. CASE m >= q + 2
    <3>1. (q + 1) * p <= (m - 1) * p
      BY <1>1, <1>2, <2>2
    <3>2. QED
      BY <1>1, <1>2, <1>3, <1>4, <3>1
  <2>3. QED
    BY <1>2, <2>1, <2>2
<1>5. q + 1 \in Nat \ {0} /\ (q + 1) - 1 = q
  BY <1>2
<1>6. QED
  BY <1>3, <1>4, <1>5 DEF p

\* The pages of a count are those with a place that is counted.
LEMMA PagesAreFilled ==
  ASSUME NEW total \in Nat
  PROVE  /\ TotalPages(total) \in Nat \ {0}
         /\ \A n \in Nat \ {0} : total > 0 => (n <= TotalPages(total) <=> (n - 1) * PageSize < total)
         /\ total = 0 => TotalPages(total) = 1
<1> DEFINE p == PageSize
<1>1. p \in Nat /\ p > 0
  BY JournalAssumption
<1> HIDE DEF p
<1>2. CASE total = 0
  BY <1>2 DEF TotalPages
<1>3. CASE total > 0
  <2> DEFINE q == (total + p - 1) \div p
  <2>1. q \in Nat /\ q * p <= total + p - 1 /\ total + p - 1 < (q + 1) * p
    BY <1>1
  <2>2. TotalPages(total) = q
    BY <1>3 DEF TotalPages, p
  <2> HIDE DEF q
  <2>3. (q + 1) * p = q * p + p /\ q * p \in Int
    BY <1>1, <2>1
  <2>4. total <= q * p
    BY <1>1, <2>1, <2>3
  <2>5. q # 0
    BY <1>1, <1>3, <2>4
  <2>6. ASSUME NEW n \in Nat \ {0}
        PROVE  n <= q <=> (n - 1) * p < total
    <3>1. (n - 1) * p \in Int /\ n * p = (n - 1) * p + p
      BY <1>1
    <3>2. ASSUME n <= q PROVE (n - 1) * p < total
      <4>1. n * p <= q * p
        BY <1>1, <2>1, <3>2
      <4>2. QED
        BY <1>1, <2>1, <2>3, <3>1, <4>1
    <3>3. ASSUME n > q PROVE (n - 1) * p >= total
      <4>1. q * p <= (n - 1) * p
        BY <1>1, <2>1, <3>3
      <4>2. QED
        BY <1>1, <2>3, <2>4, <3>1, <4>1
    <3>4. QED
      BY <1>1, <2>1, <3>1, <3>2, <3>3
  <2>7. QED
    BY <1>3, <2>1, <2>2, <2>5, <2>6 DEF p
<1>4. QED
  BY <1>2, <1>3

\* Each trade of a selection is on one page, and each page up to the last has a trade.
LEMMA PagesPartition ==
  ASSUME NEW S \in SUBSET TradeIds
  PROVE  \A t \in S : Cardinality({n \in 1..TotalPages(Cardinality(S)) : t \in Slice(S, n)}) = 1
<1> SUFFICES ASSUME NEW t \in S
             PROVE  Cardinality({n \in 1..TotalPages(Cardinality(S)) : t \in Slice(S, n)}) = 1
  OBVIOUS
<1> DEFINE total == Cardinality(S)
           k == Rank(t, S)
<1>1. k \in 1..total /\ total \in Nat
  BY RankIsPlace
<1>2. \A n \in Nat : t \in Slice(S, n) <=> (n - 1) * PageSize < k /\ k <= n * PageSize
  BY DEF Slice
<1> HIDE DEF k, total
<1>3. PICK n \in Nat \ {0} :
        /\ (n - 1) * PageSize < k /\ k <= n * PageSize
        /\ \A m \in Nat \ {0} : (m - 1) * PageSize < k /\ k <= m * PageSize => m = n
  BY <1>1, PageOfPlace
<1>4. (n - 1) * PageSize \in Int
  BY JournalAssumption
<1>5. (n - 1) * PageSize < total /\ total > 0
  BY <1>1, <1>3, <1>4
<1>6. TotalPages(total) \in Nat /\ n \in 1..TotalPages(total)
  BY <1>1, <1>5, PagesAreFilled
<1>7. {m \in 1..TotalPages(total) : t \in Slice(S, m)} = {n}
  BY <1>2, <1>3, <1>6
<1>8. QED
  BY <1>7, FS_Singleton DEF total

\* A page within the range of a count is not empty if at least as many trades are there
\* when it is read.
LEMMA PageHasRows ==
  ASSUME NEW S \in SUBSET TradeIds, NEW total \in Nat, total > 0, total <= Cardinality(S),
         NEW n \in 1..TotalPages(total)
  PROVE  Slice(S, n) # {}
<1> DEFINE k == (n - 1) * PageSize + 1
<1>1. TotalPages(total) \in Nat /\ n \in Nat \ {0} /\ (n - 1) * PageSize < total
  BY PagesAreFilled
<1>2. PageSize \in Nat /\ PageSize > 0 /\ Cardinality(S) \in Nat
  BY JournalAssumption, RankIsPlace
<1>3. (n - 1) * PageSize \in Nat /\ n * PageSize = (n - 1) * PageSize + PageSize
  BY <1>1, <1>2
<1>4. k \in 1..Cardinality(S) /\ (n - 1) * PageSize < k /\ k <= n * PageSize
  BY <1>1, <1>2, <1>3
<1> HIDE DEF k
<1>5. PICK t \in S : Rank(t, S) = k
  BY <1>4, RankIsPlace
<1>6. QED
  BY <1>4, <1>5 DEF Slice

\* What the page's selection finds now, on its day.
Found == Matching(journal.selection) \cap OnDay(journal.day)

\* A selection of which no condition can be changed by tagging.
ByColumns(selection) ==
  selection \in Selections /\ ~Breaks(selection) /\ DOMAIN selection \cap JsonFacets = {}

\* compute_pagination clamps the number to the count, and the count only succeeds for
\* facets that are columns.
PageExists ==
  journal.pc \in {"list", "facets", "shown"} =>
    /\ ~Breaks(journal.selection)
    /\ journal.number <= TotalPages(journal.total)

\* As long as nobody has booked or tagged a trade since the count, total and rows are those
\* of the table.
QuietPageIsTrue ==
  /\ journal.pc \in {"list", "facets", "shown"} /\ journal.quiet => journal.total = Cardinality(Found)
  /\ journal.pc \in {"facets", "shown"} /\ journal.quiet => journal.rows = Slice(Found, journal.number)

\* Trades are added and tagged, never removed: what was counted by columns is still there
\* when the page is listed, and then the page has rows.
CountIsReached ==
  journal.pc \in {"list", "facets", "shown"} /\ ByColumns(journal.selection) =>
    IF journal.pc = "list" THEN journal.total <= Cardinality(Found)
    ELSE journal.total > 0 => journal.rows # {}

JournalInv == JournalTypeOK /\ PageExists /\ QuietPageIsTrue /\ CountIsReached

\* Every row has the four columns a condition reads, before and after it is tagged.
LEMMA RowsHaveColumns ==
  ASSUME NEW row \in Rows \cup TaggedRows
  PROVE  /\ row = [asset_class |-> row.asset_class, broker |-> row.broker,
                   agent |-> row.agent, spec |-> row.spec]
         /\ row.broker \in Brokers /\ row # NoRow
         /\ DOMAIN row.spec \subseteq JsonFacets
         /\ \A s \in Specs : [row EXCEPT !.spec = s] \in TaggedRows
<1>1. NoRow.broker \notin Brokers
  BY JournalAssumption DEF NoRow
<1>2. CASE row \in Rows
  BY <1>1, <1>2, JournalAssumption DEF TaggedRows
<1>3. CASE row \in TaggedRows
  <2>1. PICK r \in Rows, s \in Specs : row = [r EXCEPT !.spec = s]
    BY <1>3 DEF TaggedRows
  <2>2. /\ r = [asset_class |-> r.asset_class, broker |-> r.broker, agent |-> r.agent, spec |-> r.spec]
        /\ r.broker \in Brokers /\ DOMAIN s \subseteq JsonFacets
    BY JournalAssumption
  <2>3. row = [asset_class |-> r.asset_class, broker |-> r.broker, agent |-> r.agent, spec |-> s]
    BY <2>1, <2>2
  <2>4. \A q \in Specs : [row EXCEPT !.spec = q] = [r EXCEPT !.spec = q]
    BY <2>2, <2>3
  <2>5. QED
    BY <1>1, <2>2, <2>3, <2>4 DEF TaggedRows
<1>4. QED
  BY <1>2, <1>3

\* What a list of values is read as is finite, and has neither commas nor outer blanks.
LEMMA ReadValues ==
  ASSUME NEW values, IsFiniteSet(values)
  PROVE  /\ IsFiniteSet(UNION {Parts(v) : v \in values})
         /\ (UNION {Parts(v) : v \in values}) \cap DOMAIN Compound = {}
<1> DEFINE read  == {Parts(v) : v \in values}
           parts == [v \in values |-> Parts(v)]
<1>1. \A v : IsFiniteSet(Parts(v)) /\ Parts(v) \cap DOMAIN Compound = {}
  BY JournalAssumption, FS_Singleton DEF Parts
<1>2. IsFiniteSet(read)
  <2>1. parts \in Surjection(values, read)
    BY DEF Surjection
  <2>2. QED
    BY <2>1, FS_Surjection
<1>3. IsFiniteSet(UNION read)
  BY <1>1, <1>2, FS_UNION
<1>4. QED
  BY <1>1, <1>3

\* The facets that are read, and their values.
LEMMA ParsedFacets ==
  ASSUME NEW url
  PROVE  /\ Parsed(url) = [f \in DOMAIN Parsed(url) |-> UNION {Parts(v) : v \in url[f]}]
         /\ \A f : f \in DOMAIN Parsed(url) <=>
              /\ f \in DOMAIN url \cap UrlFacets
              /\ UNION {Parts(v) : v \in url[f]} # {}
BY DEF Parsed, Reread

\* Parameters without commas, outer blanks and empty lists are read as they are.
LEMMA PlainIsRead ==
  ASSUME NEW link, link = [f \in DOMAIN link |-> link[f]], DOMAIN link \subseteq UrlFacets,
         \A f \in DOMAIN link : link[f] # {} /\ link[f] \cap DOMAIN Compound = {}
  PROVE  Parsed(link) = link
<1>1. \A f \in DOMAIN link : UNION {Parts(v) : v \in link[f]} = link[f]
  <2> SUFFICES ASSUME NEW f \in DOMAIN link
               PROVE  UNION {Parts(v) : v \in link[f]} = link[f]
    OBVIOUS
  <2>1. \A v \in link[f] : Parts(v) = {v}
    BY DEF Parts
  <2>2. QED
    BY <2>1
<1>2. DOMAIN Parsed(link) = DOMAIN link
  BY <1>1, ParsedFacets
<1>3. Parsed(link) = [f \in DOMAIN link |-> UNION {Parts(v) : v \in link[f]}]
  BY <1>2, ParsedFacets
<1>4. [f \in DOMAIN link |-> UNION {Parts(v) : v \in link[f]}] = [f \in DOMAIN link |-> link[f]]
  BY <1>1
<1>5. QED
  BY <1>3, <1>4

\* A selection holds facets of the query string only, each with some values, which are
\* read as they are.
LEMMA SelectionsAreOfUrls ==
  ASSUME NEW selection \in Selections
  PROVE  /\ selection = Parsed(selection)
         /\ DOMAIN selection \subseteq UrlFacets
         /\ \A f \in DOMAIN selection :
              /\ selection[f] # {} /\ IsFiniteSet(selection[f])
              /\ selection[f] \cap DOMAIN Compound = {}
<1>1. PICK u \in Urls : selection = Parsed(u)
  BY DEF Selections
<1>2. DOMAIN selection \subseteq UrlFacets /\ selection = [f \in DOMAIN selection |-> selection[f]]
  BY <1>1, ParsedFacets
<1>3. ASSUME NEW f \in DOMAIN selection
      PROVE  /\ selection[f] # {} /\ IsFiniteSet(selection[f])
             /\ selection[f] \cap DOMAIN Compound = {}
  <2>1. /\ f \in DOMAIN u /\ UNION {Parts(v) : v \in u[f]} # {}
        /\ selection[f] = UNION {Parts(v) : v \in u[f]}
    BY <1>1, <1>3, ParsedFacets
  <2>2. IsFiniteSet(u[f])
    BY <2>1, JournalAssumption
  <2>3. QED
    BY <2>1, <2>2, ReadValues
<1>4. QED
  BY <1>2, <1>3, PlainIsRead

\* A preset is read as the URL it was saved from.
LEMMA PresetsAreRead ==
  ASSUME NEW u \in Urls
  PROVE  Parsed(Cleaned(u)) = Parsed(u)
<1> DEFINE kept(f) == UNION {Trimmed(v) : v \in u[f]}
           read(f) == UNION {Parts(v) : v \in u[f]}
           c       == Cleaned(u)
<1>1. /\ c = [f \in DOMAIN c |-> kept(f)]
      /\ \A f : f \in DOMAIN c <=> f \in DOMAIN u \cap UrlFacets /\ kept(f) # {}
  BY DEF Cleaned, Reread
<1>2. \A v : UNION {Parts(w) : w \in Trimmed(v)} = Parts(v)
  <2> SUFFICES ASSUME NEW v
               PROVE  UNION {Parts(w) : w \in Trimmed(v)} = Parts(v)
    OBVIOUS
  <2>1. CASE v \in CommaLists
    BY <2>1 DEF Trimmed
  <2>2. CASE v \notin CommaLists
    <3>1. Trimmed(v) = Parts(v) /\ Parts(v) \cap DOMAIN Compound = {}
      BY <2>2, JournalAssumption DEF Trimmed, Parts
    <3>2. \A w \in Parts(v) : Parts(w) = {w}
      BY <3>1 DEF Parts
    <3>3. QED
      BY <3>1, <3>2
  <2>3. QED
    BY <2>1, <2>2
<1>3. \A f : UNION {Parts(w) : w \in kept(f)} = read(f)
  BY <1>2
<1> HIDE DEF kept, read, c
<1>4. \A f \in DOMAIN c : UNION {Parts(w) : w \in c[f]} = read(f)
  BY <1>1, <1>3
<1>5. \A f : kept(f) = {} => read(f) = {}
  BY <1>3
<1>6. DOMAIN Parsed(c) = DOMAIN Parsed(u)
  <2>1. \A f : f \in DOMAIN Parsed(c) <=> f \in DOMAIN c /\ read(f) # {}
    BY <1>1, <1>4, ParsedFacets
  <2>2. \A f : f \in DOMAIN Parsed(u) <=> f \in DOMAIN u \cap UrlFacets /\ read(f) # {}
    BY ParsedFacets DEF read
  <2>3. \A f : f \in DOMAIN Parsed(c) <=> f \in DOMAIN Parsed(u)
    BY <1>1, <1>5, <2>1, <2>2
  <2>4. DOMAIN Parsed(c) = {f \in DOMAIN Parsed(c) : TRUE} /\ DOMAIN Parsed(u) = {f \in DOMAIN Parsed(u) : TRUE}
    OBVIOUS
  <2>5. QED
    BY <2>3
<1>7. \A f \in DOMAIN Parsed(c) : f \in DOMAIN c
  BY ParsedFacets
<1>8. Parsed(c) = [f \in DOMAIN Parsed(c) |-> read(f)]
  <2>1. Parsed(c) = [f \in DOMAIN Parsed(c) |-> UNION {Parts(v) : v \in c[f]}]
    BY ParsedFacets
  <2>2. \A f \in DOMAIN Parsed(c) : UNION {Parts(v) : v \in c[f]} = read(f)
    BY <1>4, <1>7
  <2>3. [f \in DOMAIN Parsed(c) |-> UNION {Parts(v) : v \in c[f]}] = [f \in DOMAIN Parsed(c) |-> read(f)]
    BY <2>2
  <2>4. QED
    BY <2>1, <2>3
<1>9. Parsed(u) = [f \in DOMAIN Parsed(u) |-> read(f)]
  BY ParsedFacets DEF read
<1>10. QED
  BY <1>6, <1>8, <1>9 DEF c

\* Tagging a trade changes what the tagging form writes, and no column.
LEMMA TagsAreNotColumns ==
  ASSUME NEW selection, ByColumns(selection), NEW row \in Rows \cup TaggedRows, NEW s
  PROVE  Where(selection, row) = Where(selection, [row EXCEPT !.spec = s])
<1> DEFINE tagged == [row EXCEPT !.spec = s]
<1>1. tagged["asset_class"] = row["asset_class"] /\ tagged["broker"] = row["broker"]
  BY RowsHaveColumns
<1>2. \A f \in DOMAIN selection : f \in {"asset_class", "broker"}
  BY SelectionsAreOfUrls DEF ByColumns, Breaks, UrlFacets, AllFacets, ColumnFacets
<1>3. \A f \in DOMAIN selection : \A values : Condition(f, values, row) = Condition(f, values, tagged)
  BY <1>1, <1>2 DEF Condition, JsonFacets
<1> HIDE DEF tagged
<1>4. QED
  BY <1>3 DEF Where, tagged

\* A statement finds finitely many trades, booked ones.
LEMMA FoundIsFinite ==
  ASSUME NEW selection, NEW day
  PROVE  /\ Matching(selection) \in SUBSET TradeIds
         /\ Matching(selection) \cap OnDay(day) \in SUBSET TradeIds
         /\ Cardinality(Matching(selection) \cap OnDay(day)) \in 0..Cardinality(TradeIds)
         /\ IsFiniteSet(Matching(selection) \cap OnDay(day))
<1>1. Matching(selection) \in SUBSET TradeIds
  BY DEF Matching, Booked
<1>2. Matching(selection) \cap OnDay(day) \in SUBSET TradeIds
  BY <1>1
<1>3. IsFiniteSet(TradeIds) /\ Cardinality(TradeIds) \in Nat
  BY JournalAssumption, FS_CardinalityType
<1>4. QED
  BY <1>1, <1>2, <1>3, FS_Subset, FS_CardinalityType

\* The page has the fields of the step it is at.
LEMMA JournalShapes ==
  ASSUME JournalTypeOK
  PROVE  /\ journal.pc \in {"blank", "count", "list", "facets", "shown"}
         /\ journal.pc = "blank" => journal = Blank
         /\ journal.pc = "count" =>
              journal \in [pc : {"count"}, selection : Selections, day : Dates \cup {NoValue},
                           asked : Nat \ {0}, quiet : BOOLEAN]
         /\ journal.pc \in {"list", "facets", "shown"} =>
              journal \in [pc : {"list", "facets", "shown"}, selection : Selections,
                           day : Dates \cup {NoValue}, number : Nat \ {0},
                           total : 0..Cardinality(TradeIds), rows : SUBSET TradeIds,
                           quiet : BOOLEAN]
  BY DEF JournalTypeOK, Blank, Reading

\* The invariant, step by step.
LEMMA JournalBegins == JournalInit => JournalInv
  BY DEF JournalInit, JournalInv, JournalTypeOK, PageExists, QuietPageIsTrue, CountIsReached, Blank

\* Whoever changes the table between two reads of a page ends its quiet, and takes no trade
\* from a selection by columns.
LEMMA TableMoves ==
  ASSUME JournalInv, journal' = Disturbed, UNCHANGED presets,
         trades' \in [TradeIds -> {NoRow} \cup Rows \cup TaggedRows],
         \A selection : ByColumns(selection) => Matching(selection) \subseteq Matching(selection)'
  PROVE  JournalInv'
<1>1. CASE journal = Blank
  BY <1>1 DEF Disturbed, JournalInv, JournalTypeOK, PageExists, QuietPageIsTrue, CountIsReached, Blank
<1>2. CASE journal # Blank
  <2>1. journal' = [journal EXCEPT !.quiet = FALSE] /\ journal \in Reading
    BY <1>2 DEF Disturbed, JournalInv, JournalTypeOK
  <2>2. journal' \in Reading /\ journal'.pc = journal.pc /\ ~journal'.quiet
        /\ journal'.selection = journal.selection /\ journal'.day = journal.day
    BY <2>1 DEF Reading
  <2>3. journal.pc \in {"list", "facets", "shown"} =>
          journal'.number = journal.number /\ journal'.total = journal.total
          /\ journal'.rows = journal.rows
    BY <2>1 DEF Reading
  <2>4. JournalTypeOK'
    BY <2>2 DEF JournalInv, JournalTypeOK
  <2>5. PageExists' /\ QuietPageIsTrue'
    BY <2>2, <2>3 DEF JournalInv, PageExists, QuietPageIsTrue, Breaks
  <2>6. CountIsReached'
    <3> SUFFICES ASSUME journal.pc \in {"list", "facets", "shown"}, ByColumns(journal.selection)
                 PROVE  IF journal.pc = "list" THEN journal.total <= Cardinality(Found')
                        ELSE journal.total > 0 => journal.rows # {}
      BY <2>2, <2>3 DEF CountIsReached
    <3>1. CASE journal.pc # "list"
      BY <3>1 DEF JournalInv, CountIsReached
    <3>2. CASE journal.pc = "list"
      <4>1. PICK selection, day : selection = journal.selection /\ day = journal.day
        OBVIOUS
      <4>2. Found = Matching(selection) \cap OnDay(day) /\ Found' = Matching(selection)' \cap OnDay(day)
        BY <2>2, <4>1 DEF Found, OnDay
      <4>3. Matching(selection)' \in SUBSET TradeIds
        BY DEF Matching, Booked
      <4>4. IsFiniteSet(Found') /\ Found \in SUBSET Found'
        BY <4>1, <4>2, <4>3, FS_Subset, JournalAssumption
      <4>5. Cardinality(Found) <= Cardinality(Found') /\ Cardinality(Found') \in Nat
            /\ Cardinality(Found) \in Nat
        BY <4>4, FS_Subset, FS_CardinalityType
      <4>6. journal.total \in Nat /\ journal.total <= Cardinality(Found)
        <5>1. journal.total \in 0..Cardinality(TradeIds)
          BY JournalShapes DEF JournalInv
        <5>2. QED
          BY <3>2, <5>1 DEF JournalInv, CountIsReached
      <4>7. QED
        BY <3>2, <4>5, <4>6
    <3>3. QED
      BY <3>1, <3>2
  <2>7. QED
    BY <2>4, <2>5, <2>6 DEF JournalInv
<1>3. QED
  BY <1>1, <1>2

\* A booked trade can only join a selection.
LEMMA BookMovesTable ==
  ASSUME JournalInv, NEW t \in TradeIds, BookTrade(t)
  PROVE  JournalInv'
<1>1. PICK r \in Rows : trades' = [trades EXCEPT ![t] = r]
  BY DEF BookTrade
<1>2. trades' \in [TradeIds -> {NoRow} \cup Rows \cup TaggedRows]
  BY <1>1 DEF JournalInv, JournalTypeOK
<1>3. \A u \in Booked : trades'[u] = trades[u] /\ u \in Booked'
  BY <1>1 DEF Booked, BookTrade, JournalInv, JournalTypeOK
<1>4. \A selection : Matching(selection) \subseteq Matching(selection)'
  BY <1>3 DEF Matching
<1>5. QED
  BY <1>2, <1>4, TableMoves DEF BookTrade

\* A tag can take a trade out of a selection, but not of one by columns.
LEMMA TagMovesTable ==
  ASSUME JournalInv, NEW t \in TradeIds, TagBooked(t)
  PROVE  JournalInv'
<1>1. PICK s \in Specs : trades' = [trades EXCEPT ![t] = [trades[t] EXCEPT !.spec = s]]
  BY DEF TagBooked
<1>2. trades[t] # NoRow
  BY JournalAssumption DEF TagBooked, NoRow, Brokers
<1>3. trades[t] \in Rows \cup TaggedRows
  BY <1>2 DEF JournalInv, JournalTypeOK
<1>4. [trades[t] EXCEPT !.spec = s] \in TaggedRows
  BY <1>3, RowsHaveColumns
<1>5. trades' \in [TradeIds -> {NoRow} \cup Rows \cup TaggedRows]
  BY <1>1, <1>4 DEF JournalInv, JournalTypeOK
<1>6. [trades[t] EXCEPT !.spec = s] # NoRow
  BY <1>4, RowsHaveColumns
<1>7. \A u \in TradeIds : trades'[u] = IF u = t THEN [trades[t] EXCEPT !.spec = s] ELSE trades[u]
  BY <1>1 DEF JournalInv, JournalTypeOK
<1>8. ASSUME NEW selection, ByColumns(selection)
      PROVE  Matching(selection) \subseteq Matching(selection)'
  <2> SUFFICES ASSUME NEW u \in Matching(selection)
               PROVE  u \in Matching(selection)'
    OBVIOUS
  <2>1. u \in TradeIds /\ trades[u] # NoRow /\ Where(selection, trades[u])
    BY DEF Matching, Booked
  <2>2. trades'[u] # NoRow
    BY <1>6, <1>7, <2>1
  <2>3. Where(selection, trades'[u])
    <3>1. CASE u = t
      BY <1>3, <1>7, <1>8, <2>1, <3>1, TagsAreNotColumns
    <3>2. CASE u # t
      BY <1>7, <2>1, <3>2
    <3>3. QED
      BY <3>1, <3>2
  <2>4. QED
    BY <2>1, <2>2, <2>3 DEF Matching, Booked
<1>9. QED
  BY <1>5, <1>8, TableMoves DEF TagBooked

\* A page that is opened has not counted anything yet.
LEMMA OpenKeepsJournal ==
  ASSUME JournalInv, NEW selection, Parsed(selection) \in Selections,
         NEW day \in Dates \cup {NoValue}, NEW n \in Nat \ {0}, OpenSelection(selection, day, n)
  PROVE  JournalInv'
<1>1. journal' = [pc |-> "count", selection |-> Parsed(selection), day |-> day, asked |-> n,
                  quiet |-> TRUE]
  BY DEF OpenSelection
<1>2. journal' \in Reading /\ journal'.pc = "count"
  BY <1>1 DEF Reading
<1>3. QED
  BY <1>2 DEF OpenSelection, JournalInv, JournalTypeOK, PageExists, QuietPageIsTrue, CountIsReached

\* The trades found stay the same as long as the table and the selection do.
LEMMA SameFound ==
  ASSUME UNCHANGED trades, journal'.selection = journal.selection, journal'.day = journal.day
  PROVE  Found' = Found
<1>1. PICK selection, day : selection = journal.selection /\ day = journal.day
  OBVIOUS
<1>2. Matching(selection)' = Matching(selection)
  BY DEF Matching, Booked
<1>3. Found = Matching(selection) \cap OnDay(day) /\ Found' = Matching(selection)' \cap OnDay(day)
  BY <1>1 DEF Found, OnDay
<1>4. QED
  BY <1>2, <1>3

\* The count clamps the number of the page to itself.
LEMMA CountKeepsJournal ==
  ASSUME JournalInv, CountTrades
  PROVE  JournalInv'
<1>1. journal \in [pc : {"count"}, selection : Selections, day : Dates \cup {NoValue},
                   asked : Nat \ {0}, quiet : BOOLEAN]
  BY JournalShapes DEF JournalInv, CountTrades
<1> DEFINE total == Cardinality(Found)
           number == Clamped(journal.asked, total)
<1>2. total \in 0..Cardinality(TradeIds) /\ total \in Nat
  <2>1. total \in 0..Cardinality(TradeIds) /\ Cardinality(TradeIds) \in Nat
    BY FoundIsFinite, JournalAssumption, FS_CardinalityType DEF Found
  <2>2. QED
    BY <2>1
<1>3. journal' = [pc |-> "list", selection |-> journal.selection, day |-> journal.day,
                  number |-> number, total |-> total, rows |-> {}, quiet |-> journal.quiet]
  BY DEF CountTrades, Found
<1>4. number \in Nat \ {0} /\ number <= TotalPages(total)
  <2>1. TotalPages(total) \in Nat \ {0} /\ journal.asked \in Nat \ {0}
    BY <1>1, <1>2, PagesAreFilled
  <2>2. QED
    BY <2>1 DEF Clamped
<1> HIDE DEF total, number
<1>5. journal' \in Reading
  BY <1>1, <1>2, <1>3, <1>4 DEF Reading
<1>6. Found' = Found
  BY <1>3, SameFound DEF CountTrades
<1>7. JournalTypeOK'
  BY <1>5 DEF CountTrades, JournalInv, JournalTypeOK
<1>8. PageExists'
  BY <1>3, <1>4 DEF CountTrades, PageExists, Breaks
<1>9. QuietPageIsTrue'
  BY <1>3, <1>6 DEF QuietPageIsTrue, total
<1>10. CountIsReached'
  BY <1>2, <1>3, <1>6 DEF CountIsReached, total
<1>11. QED
  BY <1>7, <1>8, <1>9, <1>10 DEF JournalInv

\* The list reads what is there, which by columns is what was counted or more.
LEMMA ListKeepsJournal ==
  ASSUME JournalInv, ListTrades
  PROVE  JournalInv'
<1>1. journal \in [pc : {"list", "facets", "shown"}, selection : Selections,
                   day : Dates \cup {NoValue}, number : Nat \ {0},
                   total : 0..Cardinality(TradeIds), rows : SUBSET TradeIds, quiet : BOOLEAN]
  BY JournalShapes DEF JournalInv, ListTrades
<1>2. journal' = [journal EXCEPT !.pc = "facets", !.rows = Slice(Found, journal.number)]
  BY DEF ListTrades, Found
<1>3. Slice(Found, journal.number) \in SUBSET TradeIds
  BY FoundIsFinite DEF Slice, Found
<1>4. /\ journal' \in Reading /\ journal'.pc = "facets"
      /\ journal'.selection = journal.selection /\ journal'.day = journal.day
      /\ journal'.number = journal.number /\ journal'.total = journal.total
      /\ journal'.quiet = journal.quiet /\ journal'.rows = Slice(Found, journal.number)
  BY <1>1, <1>2, <1>3 DEF Reading
<1>5. Found' = Found
  BY <1>4, SameFound DEF ListTrades
<1>6. JournalTypeOK'
  BY <1>4 DEF ListTrades, JournalInv, JournalTypeOK
<1>7. PageExists'
  BY <1>4 DEF ListTrades, JournalInv, PageExists, Breaks
<1>8. QuietPageIsTrue'
  BY <1>4, <1>5 DEF ListTrades, JournalInv, QuietPageIsTrue
<1>9. CountIsReached'
  <2> SUFFICES ASSUME ByColumns(journal.selection), journal.total > 0
               PROVE  Slice(Found, journal.number) # {}
    BY <1>4 DEF CountIsReached
  <2>1. journal.total \in Nat /\ journal.total <= Cardinality(Found)
    BY <1>1 DEF ListTrades, JournalInv, CountIsReached
  <2>2. journal.number <= TotalPages(journal.total) /\ TotalPages(journal.total) \in Nat
    BY <2>1, PagesAreFilled DEF ListTrades, JournalInv, PageExists
  <2>3. journal.number \in 1..TotalPages(journal.total)
    BY <1>1, <2>2
  <2>4. Found \in SUBSET TradeIds
    BY FoundIsFinite DEF Found
  <2>5. QED
    BY <2>1, <2>3, <2>4, PageHasRows
<1>10. QED
  BY <1>6, <1>7, <1>8, <1>9 DEF JournalInv

\* The chips change nothing that was read.
LEMMA RenderKeepsJournal ==
  ASSUME JournalInv, RenderFacets
  PROVE  JournalInv'
<1>1. journal \in [pc : {"list", "facets", "shown"}, selection : Selections,
                   day : Dates \cup {NoValue}, number : Nat \ {0},
                   total : 0..Cardinality(TradeIds), rows : SUBSET TradeIds, quiet : BOOLEAN]
  BY JournalShapes DEF JournalInv, RenderFacets
<1>2. /\ journal' \in Reading /\ journal'.pc = "shown"
      /\ journal'.selection = journal.selection /\ journal'.day = journal.day
      /\ journal'.number = journal.number /\ journal'.total = journal.total
      /\ journal'.quiet = journal.quiet /\ journal'.rows = journal.rows
  BY <1>1 DEF RenderFacets, Reading
<1>3. Found' = Found
  BY <1>2, SameFound DEF RenderFacets
<1>4. JournalTypeOK'
  BY <1>2 DEF RenderFacets, JournalInv, JournalTypeOK
<1>5. PageExists' /\ QuietPageIsTrue' /\ CountIsReached'
  BY <1>2, <1>3 DEF RenderFacets, JournalInv, PageExists, QuietPageIsTrue, CountIsReached, Breaks
<1>6. QED
  BY <1>4, <1>5 DEF JournalInv

\* The invariant is kept by every step.
LEMMA JournalGoesOn == JournalInv /\ [JournalNext]_journalVars => JournalInv'
<1> SUFFICES ASSUME JournalInv, [JournalNext]_journalVars
             PROVE  JournalInv'
  OBVIOUS
<1>1. ASSUME NEW t \in TradeIds, BookTrade(t) \/ TagBooked(t)
      PROVE  JournalInv'
  BY <1>1, BookMovesTable, TagMovesTable
<1>2. CASE OpenUrl
  <2>1. PICK u \in Urls, day \in Dates \cup {NoValue}, n \in 1..MaxPageNumber :
          OpenSelection(u, day, n)
    BY <1>2 DEF OpenUrl
  <2>2. n \in Nat \ {0} /\ Parsed(u) \in Selections
    BY JournalAssumption DEF Selections
  <2>3. QED
    BY <2>1, <2>2, OpenKeepsJournal
<1>3. ASSUME NEW n \in PresetNames, OpenPreset(n)
      PROVE  JournalInv'
  <2>1. Parsed(presets[n]) \in Selections
    BY <1>3 DEF OpenPreset, JournalInv, JournalTypeOK
  <2>2. NoValue \in Dates \cup {NoValue} /\ 1 \in Nat \ {0}
    OBVIOUS
  <2>3. OpenSelection(presets[n], NoValue, 1)
    BY <1>3 DEF OpenPreset
  <2>4. PICK selection : selection = presets[n]
    OBVIOUS
  <2>5. OpenSelection(selection, NoValue, 1) /\ Parsed(selection) \in Selections
    BY <2>1, <2>3, <2>4
  <2>6. QED
    BY <2>2, <2>5, OpenKeepsJournal
<1>4. CASE NextPage
  <2>1. PICK n : n = journal.number + 1
    OBVIOUS
  <2>2. n \in Nat \ {0}
    <3>1. journal.number \in Nat
      BY <1>4, JournalShapes DEF NextPage, JournalInv
    <3>2. QED
      BY <2>1, <3>1
  <2>3. OpenSelection(<< >>, NoValue, n) /\ NoValue \in Dates \cup {NoValue}
    BY <1>4, <2>1 DEF NextPage
  <2>4. Parsed(<< >>) \in Selections
    BY JournalAssumption DEF Selections
  <2>5. QED
    BY <2>2, <2>3, <2>4, OpenKeepsJournal
<1>5. CASE CountTrades
  BY <1>5, CountKeepsJournal
<1>6. CASE ListTrades
  BY <1>6, ListKeepsJournal
<1>7. CASE RenderFacets
  BY <1>7, RenderKeepsJournal
<1>8. CASE JournalFails
  BY <1>8 DEF JournalFails, JournalInv, JournalTypeOK, PageExists, QuietPageIsTrue, CountIsReached, Blank
<1>9. ASSUME NEW n \in PresetNames, SavePreset(n)
      PROVE  JournalInv'
  <2>1. PICK u \in Urls : presets' = [presets EXCEPT ![n] = Cleaned(u)]
    BY <1>9 DEF SavePreset
  <2>2. Parsed(Cleaned(u)) \in Selections
    BY PresetsAreRead DEF Selections
  <2>3. \A m \in PresetNames : presets'[m] = IF m = n THEN Cleaned(u) ELSE presets[m]
    BY <2>1 DEF JournalInv, JournalTypeOK
  <2>4. UNCHANGED <<trades, journal>>
    BY <1>9 DEF SavePreset
  <2>5. JournalTypeOK'
    BY <2>1, <2>2, <2>3, <2>4 DEF JournalInv, JournalTypeOK
  <2>6. Found' = Found
    BY <2>4, SameFound
  <2>7. QED
    BY <2>4, <2>5, <2>6 DEF JournalInv, PageExists, QuietPageIsTrue, CountIsReached
<1>10. CASE UNCHANGED journalVars
  <2>1. UNCHANGED <<trades, presets, journal>>
    BY <1>10 DEF journalVars
  <2>2. Found' = Found
    BY <2>1, SameFound
  <2>3. QED
    BY <2>1, <2>2 DEF JournalInv, JournalTypeOK, PageExists, QuietPageIsTrue, CountIsReached
<1>11. QED
  BY <1>1, <1>2, <1>3, <1>4, <1>5, <1>6, <1>7, <1>8, <1>9, <1>10 DEF JournalNext

\* So it always holds.
LEMMA JournalInvariant == JournalSpec => []JournalInv
  BY JournalBegins, JournalGoesOn, PTL DEF JournalSpec

\* What the journal shows is what its URL asks for.  A page read while nobody wrote has the
\* total of its selection, the trades its number says, and each selected trade is on exactly
\* one page (list_trades).  If trades were booked or tagged
\* between the count and the list, the page of a selection by columns still has rows.
THEOREM PagesAlwaysShowTheSelection == JournalSpec => []PagesShowTheSelection
<1>1. JournalInv => PagesShowTheSelection
  <2> SUFFICES ASSUME JournalInv, journal.pc = "shown", journal.day = NoValue
               PROVE  /\ journal.total > 0 /\ DOMAIN journal.selection \cap JsonFacets = {} => journal.rows # {}
                      /\ journal.quiet =>
                           LET S == Exported(journal.selection)
                           IN /\ journal.total = Cardinality(S)
                              /\ journal.rows = Slice(S, journal.number)
                              /\ \A t \in S : Cardinality({n \in 1..TotalPages(journal.total) : t \in Slice(S, n)}) = 1
    BY DEF PagesShowTheSelection
  <2>1. journal.selection \in Selections /\ ~Breaks(journal.selection)
    BY JournalShapes DEF JournalInv, PageExists
  <2>2. journal.total > 0 /\ DOMAIN journal.selection \cap JsonFacets = {} => journal.rows # {}
    BY <2>1 DEF JournalInv, CountIsReached, ByColumns
  <2>3. Exported(journal.selection) \in SUBSET TradeIds /\ Exported(journal.selection) = Found
    BY FoundIsFinite DEF Exported, Found, OnDay
  <2>4. ASSUME journal.quiet
        PROVE  journal.total = Cardinality(Found) /\ journal.rows = Slice(Found, journal.number)
    BY <2>4 DEF JournalInv, QuietPageIsTrue
  <2>5. QED
    BY <2>2, <2>3, <2>4, PagesPartition
<1>2. QED
  BY <1>1, JournalInvariant, PTL

------------------------------------------------------------------------------
(* The journal: chips.                                                      *)

\* Sizes of disjoint sets add up.
LEMMA SizesOfTwo ==
  ASSUME NEW U, IsFiniteSet(U), NEW V, IsFiniteSet(V), U \cap V = {}
  PROVE  /\ IsFiniteSet(U \cup V)
         /\ Cardinality(U \cup V) = Cardinality(U) + Cardinality(V)
<1>1. Cardinality(U) \in Nat /\ Cardinality(V) \in Nat /\ Cardinality(U \cap V) = 0
  BY FS_CardinalityType, FS_EmptySet, SMT
<1>2. /\ IsFiniteSet(U \cup V)
      /\ Cardinality(U \cup V) = Cardinality(U) + Cardinality(V) - Cardinality(U \cap V)
  BY FS_Union
<1>3. QED
  BY <1>1, <1>2

\* The sums of N over the subsets of S, as MapThenSumSet finds them: sum is the function
\* of its recursion.
Adding(N, S, sum) ==
  [T \in SUBSET S |->
     IF T = {} THEN 0 ELSE LET x == CHOOSE y \in T : TRUE IN N[x] + sum[T \ {x}]]

\* For the sizes of disjoint sets the recursion has a solution, and only the size of
\* their union solves it.
LEMMA SizesAddUp ==
  ASSUME NEW S, IsFiniteSet(S), NEW A, \A x \in S : IsFiniteSet(A[x]),
         \A x, y \in S : x # y => A[x] \cap A[y] = {},
         NEW N, \A x \in S : N[x] = Cardinality(A[x])
  PROVE  /\ \E sum : sum = Adding(N, S, sum)
         /\ \A sum : sum = Adding(N, S, sum) => sum[S] = Cardinality(UNION {A[x] : x \in S})
<1> DEFINE All(T) == UNION {A[x] : x \in T}
           Chosen(T) == CHOOSE y \in T : TRUE
<1>1. /\ IsFiniteSet(All({})) /\ Cardinality(All({})) = 0
  <2>1. All({}) = {}
    OBVIOUS
  <2>2. QED
    BY <2>1, FS_EmptySet
<1>2. ASSUME NEW T \in SUBSET S, NEW c \in T, IsFiniteSet(All(T \ {c}))
      PROVE  /\ IsFiniteSet(All(T))
             /\ Cardinality(All(T)) = N[c] + Cardinality(All(T \ {c}))
  <2>1. All(T) = A[c] \cup All(T \ {c})
    OBVIOUS
  <2>2. A[c] \cap All(T \ {c}) = {}
    <3>1. \A y \in T \ {c} : A[c] \cap A[y] = {}
      OBVIOUS
    <3>2. QED
      BY <3>1
  <2>3. IsFiniteSet(A[c]) /\ N[c] = Cardinality(A[c])
    OBVIOUS
  <2>4. PICK U : U = All(T \ {c})
    OBVIOUS
  <2>5. /\ IsFiniteSet(A[c] \cup U)
        /\ Cardinality(A[c] \cup U) = Cardinality(A[c]) + Cardinality(U)
    <3> HIDE DEF All
    <3>1. QED
      BY <1>2, <2>2, <2>3, <2>4, SizesOfTwo
  <2> HIDE DEF All
  <2>6. QED
    BY <2>1, <2>3, <2>4, <2>5
<1>3. \A T \in SUBSET S : T # {} => Chosen(T) \in T
  OBVIOUS
<1>4. \A sum : Adding(N, S, sum) =
        [T \in SUBSET S |-> IF T = {} THEN 0 ELSE N[Chosen(T)] + sum[T \ {Chosen(T)}]]
  BY DEF Adding
<1> HIDE DEF All, Chosen
<1>5. \A T \in SUBSET S : IsFiniteSet(All(T))
  <2> DEFINE P == {T \in SUBSET S : IsFiniteSet(All(T))}
  <2>1. ASSUME NEW T \in SUBSET S, \A x \in T : T \ {x} \in P
        PROVE  T \in P
    <3>1. CASE T = {}
      BY <1>1, <3>1
    <3>2. CASE T # {}
      <4>1. PICK c \in T : IsFiniteSet(All(T \ {c}))
        BY <2>1, <3>2
      <4>2. QED
        BY <1>2, <4>1
    <3>3. QED
      BY <3>1, <3>2
  <2> HIDE DEF P
  <2>2. \A T \in SUBSET S : T \in P
    BY <2>1, SubsetInduction
  <2>3. QED
    BY <2>2 DEF P
<1>6. \A T \in SUBSET S : T # {} =>
        Cardinality(All(T)) = N[Chosen(T)] + Cardinality(All(T \ {Chosen(T)}))
  BY <1>2, <1>3, <1>5
<1>7. \E sum : sum = Adding(N, S, sum)
  <2> DEFINE size == [T \in SUBSET S |-> Cardinality(All(T))]
  <2>1. size = [T \in SUBSET S |-> IF T = {} THEN 0 ELSE N[Chosen(T)] + size[T \ {Chosen(T)}]]
    BY <1>1, <1>3, <1>6
  <2>2. size = Adding(N, S, size)
    BY <1>4, <2>1
  <2>3. QED
    BY <2>2
<1>8. ASSUME NEW sum, sum = Adding(N, S, sum)
      PROVE  sum[S] = Cardinality(All(S))
  <2> DEFINE P == {T \in SUBSET S : sum[T] = Cardinality(All(T))}
  <2>1. ASSUME NEW T \in SUBSET S, \A x \in T : T \ {x} \in P
        PROVE  T \in P
    <3>1. sum[T] = IF T = {} THEN 0 ELSE N[Chosen(T)] + sum[T \ {Chosen(T)}]
      BY <1>4, <1>8
    <3>2. CASE T = {}
      BY <1>1, <3>1, <3>2
    <3>3. CASE T # {}
      <4>1. sum[T \ {Chosen(T)}] = Cardinality(All(T \ {Chosen(T)}))
        BY <1>3, <2>1, <3>3
      <4>2. QED
        BY <1>6, <3>1, <3>3, <4>1
    <3>4. QED
      BY <3>2, <3>3
  <2> HIDE DEF P
  <2>2. \A T \in SUBSET S : T \in P
    BY <2>1, SubsetInduction
  <2>3. QED
    BY <2>2 DEF P
<1>9. QED
  BY <1>7, <1>8 DEF All

\* If the chips of some values count disjoint sets, their numbers add up to the size of
\* the union.
LEMMA ChipsAddUp ==
  ASSUME NEW selection, NEW f, NEW lit, IsFiniteSet(lit),
         NEW A, \A w \in lit : IsFiniteSet(A[w]),
         \A v, w \in lit : v # w => A[v] \cap A[w] = {},
         \A w \in lit : ChipCount(f, w, selection) = Cardinality(A[w])
  PROVE  ChipSum(f, lit, selection) = Cardinality(UNION {A[w] : w \in lit})
<1> DEFINE N == [w \in lit |-> ChipCount(f, w, selection)]
           Chip(sum) == [T \in SUBSET lit |->
                           IF T = {} THEN 0
                           ELSE LET x == CHOOSE y \in T : TRUE
                                IN  ChipCount(f, x, selection) + sum[T \ {x}]]
<1>1. \A sum : Chip(sum) = Adding(N, lit, sum)
  BY DEF Adding
<1>2. ChipSum(f, lit, selection) = (CHOOSE sum : sum = Chip(sum))[lit]
  BY DEF ChipSum, MapThenSumSet, MapThenFoldSet
<1>3. \A w \in lit : N[w] = Cardinality(A[w])
  OBVIOUS
<1> HIDE DEF N, Chip
<1>4. /\ \E sum : sum = Adding(N, lit, sum)
      /\ \A sum : sum = Adding(N, lit, sum) => sum[lit] = Cardinality(UNION {A[x] : x \in lit})
  BY <1>3, SizesAddUp
<1>5. \E sum : sum = Chip(sum)
  BY <1>1, <1>4
<1>6. PICK sum : sum = CHOOSE s : s = Chip(s)
  OBVIOUS
<1>7. sum = Chip(sum)
  BY <1>5, <1>6
<1>8. sum[lit] = Cardinality(UNION {A[x] : x \in lit})
  BY <1>1, <1>4, <1>7
<1>9. QED
  BY <1>2, <1>6, <1>8

\* The flags a selection can ask for.
FlagValues == {"followed", "override"}

\* A row's flag is a Boolean or null.
Flagged(row) == "followed" \in DOMAIN row.spec => row.spec["followed"] \in FlagValues \cup {NoValue}

\* The override chip counts this row, and no selection finds it.
Missed(f, lit, row) ==
  /\ f = "followed" /\ "override" \in lit
  /\ "followed" \in DOMAIN row.spec /\ row.spec["followed"] = NoValue

\* A row has one of some values if the condition of its facet finds it, or if it is counted
\* on the override chip for a null.
LEMMA ConditionIsOfValues ==
  ASSUME NEW f \in UrlFacets \ BareFacets, NEW values, f = "followed" => values \subseteq FlagValues,
         NEW row, Flagged(row)
  PROVE  /\ (\E v \in values : HasValue(f, v, row)) <=>
              Condition(f, values, row) \/ Missed(f, values, row)
         /\ ~(Condition(f, values, row) /\ Missed(f, values, row))
<1>1. CASE f = "followed"
  <2>1. HasValue(f, "followed", row) <=> f \in DOMAIN row.spec /\ row.spec[f] = "followed"
    BY <1>1, JournalAssumption DEF HasValue, Flag, JsonFacets
  <2>2. HasValue(f, "override", row) <=> f \in DOMAIN row.spec /\ row.spec[f] # "followed"
    BY <1>1, JournalAssumption DEF HasValue, Flag, JsonFacets
  <2>3. Condition(f, values, row) <=> f \in DOMAIN row.spec /\ row.spec[f] \in values \ {NoValue}
    BY <1>1 DEF Condition, InSpec, JsonFacets
  <2>4. NoValue \notin FlagValues
    BY JournalAssumption DEF FlagValues
  <2>5. f \in DOMAIN row.spec => row.spec[f] \in FlagValues \cup {NoValue}
    BY <1>1 DEF Flagged
  <2>6. QED
    BY <1>1, <2>1, <2>2, <2>3, <2>4, <2>5 DEF Missed, FlagValues
<1>2. CASE f \in JsonFacets \ {"followed"}
  <2>1. \A v : HasValue(f, v, row) <=> InSpec(f, {v}, row)
    BY <1>2 DEF HasValue, JsonFacets
  <2>2. Condition(f, values, row) <=> InSpec(f, values, row)
    BY <1>2 DEF Condition, JsonFacets
  <2>3. QED
    BY <1>2, <2>1, <2>2 DEF InSpec, Missed
<1>3. CASE f \notin JsonFacets
  BY <1>3 DEF Condition, HasValue, Missed, JsonFacets, UrlFacets
<1>4. QED
  BY <1>1, <1>2, <1>3

\* A trade has at most one value of a facet.
LEMMA ValuesExclude ==
  ASSUME NEW f \in UrlFacets \ BareFacets, NEW v, NEW w, NEW row,
         HasValue(f, v, row), HasValue(f, w, row)
  PROVE  v = w
BY DEF HasValue, InSpec, UrlFacets, JsonFacets

\* The link of a chip that lights some values of f is read as those values.
LEMMA ChipSelects ==
  ASSUME NEW selection \in Selections, NEW f \in UrlFacets \ BareFacets,
         NEW v, v \notin DOMAIN Compound,
         NEW link, link = Toggled(selection, f, v), f \in DOMAIN link
  PROVE  /\ Parsed(link) = link
         /\ DOMAIN link = DOMAIN Others(selection, f) \cup {f}
         /\ f \notin DOMAIN Others(selection, f)
         /\ \A g \in DOMAIN Others(selection, f) : link[g] = Others(selection, f)[g]
         /\ IsFiniteSet(Effective(f, link[f]))
         /\ f = "followed" => Effective(f, link[f]) \subseteq FlagValues
<1> DEFINE now == IF f \in DOMAIN selection THEN selection[f] ELSE {}
           lights == IF v \in now THEN now \ {v} ELSE now \cup {v}
           others == Others(selection, f)
<1>1. DOMAIN selection \subseteq UrlFacets /\ IsFiniteSet(now) /\ now \cap DOMAIN Compound = {}
  BY SelectionsAreOfUrls, FS_EmptySet
<1>2. IsFiniteSet(lights) /\ lights \cap DOMAIN Compound = {}
  BY <1>1, FS_AddElement, FS_RemoveElement
<1>3. /\ DOMAIN others = DOMAIN selection \ {f}
      /\ \A g \in DOMAIN others : others[g] # {} /\ others[g] \cap DOMAIN Compound = {}
  BY SelectionsAreOfUrls DEF Others
<1> HIDE DEF now, others
<1>4. Toggled(selection, f, v) =
        [g \in DOMAIN others \cup (IF lights = {} THEN {} ELSE {f}) |->
           IF g = f THEN lights ELSE others[g]]
  BY DEF Toggled, now, others
<1> HIDE DEF lights
<1>5. lights # {}
  BY <1>3, <1>4
<1>6. /\ DOMAIN link = DOMAIN others \cup {f}
      /\ link = [g \in DOMAIN link |-> link[g]]
      /\ link[f] = lights
      /\ \A g \in DOMAIN others : link[g] = others[g]
  BY <1>3, <1>4, <1>5
<1>7. Parsed(link) = link
  <2>1. DOMAIN link \subseteq UrlFacets
    BY <1>1, <1>3, <1>6
  <2>2. \A g \in DOMAIN link : link[g] # {} /\ link[g] \cap DOMAIN Compound = {}
    BY <1>2, <1>3, <1>5, <1>6
  <2>3. QED
    BY <1>6, <2>1, <2>2, PlainIsRead
<1>8. /\ IsFiniteSet(Effective(f, lights))
      /\ f = "followed" => Effective(f, lights) \subseteq FlagValues
  <2>1. IsFiniteSet(KnownBrokers(lights))
    BY <1>2, FS_Intersection DEF KnownBrokers
  <2>2. IsFiniteSet(Flags(lights)) /\ Flags(lights) \subseteq FlagValues
    <3>1. IsFiniteSet({"followed"} \cup {"override"})
      BY FS_Singleton, FS_Union
    <3>2. Flags(lights) \in SUBSET ({"followed"} \cup {"override"})
      BY DEF Flags
    <3>3. QED
      BY <3>1, <3>2, FS_Subset DEF FlagValues
  <2>3. QED
    BY <1>2, <2>1, <2>2 DEF Effective
<1>9. QED
  BY <1>3, <1>6, <1>7, <1>8 DEF others

\* Booked trades have a Boolean or a null for a flag.
LEMMA BookedAreFlagged ==
  ASSUME JournalTypeOK, NEW t \in Booked
  PROVE  Flagged(trades[t])
<1>1. trades[t] \in Rows \cup TaggedRows
  BY DEF JournalTypeOK, Booked
<1>2. CASE trades[t] \in Rows
  BY <1>2, JournalAssumption DEF Flagged, FlagValues
<1>3. ASSUME NEW r \in Rows, NEW s \in Specs, trades[t] = [r EXCEPT !.spec = s]
      PROVE  Flagged(trades[t])
  <2>1. trades[t].spec = s
    BY <1>3, JournalAssumption
  <2>2. QED
    BY <2>1, JournalAssumption DEF Flagged, FlagValues
<1>4. QED
  BY <1>1, <1>2, <1>3 DEF TaggedRows

\* A chip promises how many trades its value has under the other facets.  For a value
\* without commas and outer blanks its link is read as it was written, and the page it opens
\* has as many trades as the chips say that it lights, whatever is selected already, except
\* that the override chip also counts the trades whose flag is null (render_facets,
\* _facet_href_builder, _parse_facet_query, build_where_clause).
THEOREM ChipsAlwaysKeepTheirPromise == JournalSpec => []ChipsKeepTheirPromise
<1>1. ASSUME JournalTypeOK,
             NEW selection \in Selections, NEW f \in UrlFacets \ BareFacets,
             NEW v, v \notin DOMAIN Compound,
             NEW link, link = Toggled(selection, f, v), f \in DOMAIN link,
             NEW lit, lit = Effective(f, link[f]), lit # {},
             NEW missed,
             missed = IF f = "followed" /\ "override" \in lit
                      THEN NullFlags(Matching(Others(selection, f))) ELSE {}
      PROVE  Cardinality(Matching(Parsed(link))) + Cardinality(missed)
               = ChipSum(f, lit, selection)
  <2> DEFINE others == Others(selection, f)
             A == [w \in lit |-> {t \in Matching(others) : HasValue(f, w, trades[t])}]
             found == Matching(Parsed(link))
  <2>1. /\ Parsed(link) = link
        /\ DOMAIN link = DOMAIN others \cup {f} /\ f \notin DOMAIN others
        /\ \A g \in DOMAIN others : link[g] = others[g]
        /\ IsFiniteSet(lit)
        /\ f = "followed" => lit \subseteq FlagValues
    BY <1>1, ChipSelects
  <2> HIDE DEF others
  <2>2. Matching(others) \in SUBSET Booked /\ IsFiniteSet(Matching(others))
    BY JournalAssumption, FoundIsFinite, FS_Subset DEF Matching
  <2>3. \A w \in lit : IsFiniteSet(A[w])
    <3>1. \A w \in lit : A[w] \in SUBSET Matching(others)
      OBVIOUS
    <3> HIDE DEF A
    <3>2. QED
      BY <2>2, <3>1, FS_Subset
  <2>4. \A w, x \in lit : w # x => A[w] \cap A[x] = {}
    BY <1>1, ValuesExclude
  <2>5. \A w \in lit : ChipCount(f, w, selection) = Cardinality(A[w])
    <3> SUFFICES ASSUME NEW w \in lit
                 PROVE  ChipCount(f, w, selection) = Cardinality(A[w])
      OBVIOUS
    <3>1. CASE Available(f)
      BY <1>1, <3>1 DEF ChipCount, others
    <3>2. CASE ~Available(f)
      <4>1. f \in JsonFacets /\ \A t \in Booked : f \notin DOMAIN trades[t].spec
        BY <1>1, <3>2 DEF Available, BareFacets
      <4>2. \A t \in Booked : ~HasValue(f, w, trades[t])
        BY <4>1 DEF HasValue, InSpec, JsonFacets
      <4>3. A[w] = {}
        BY <2>2, <4>2
      <4>4. ChipCount(f, w, selection) = 0
        BY <3>2 DEF ChipCount
      <4>5. QED
        BY <4>3, <4>4, FS_EmptySet
    <3>3. QED
      BY <3>1, <3>2
  <2>6. found \cup missed = UNION {A[w] : w \in lit} /\ found \cap missed = {}
    <3>1. ASSUME NEW row
          PROVE  Where(link, row) <=> Where(others, row) /\ Condition(f, lit, row)
      BY <1>1, <2>1 DEF Where
    <3>2. \A t \in Booked :
            /\ (\E w \in lit : HasValue(f, w, trades[t])) <=>
                 Condition(f, lit, trades[t]) \/ Missed(f, lit, trades[t])
            /\ ~(Condition(f, lit, trades[t]) /\ Missed(f, lit, trades[t]))
      BY <1>1, <2>1, ConditionIsOfValues, BookedAreFlagged
    <3>3. \A t : t \in missed <=> t \in Matching(others) /\ Missed(f, lit, trades[t])
      BY <1>1 DEF NullFlags, Missed, others
    <3>4. \A t : t \in found <=> t \in Matching(others) /\ Condition(f, lit, trades[t])
      BY <2>1, <3>1 DEF Matching
    <3>5. \A t : t \in UNION {A[w] : w \in lit} <=>
                   t \in Matching(others) /\ \E w \in lit : HasValue(f, w, trades[t])
      OBVIOUS
    <3> HIDE DEF A, found
    <3>6. QED
      BY <2>2, <3>2, <3>3, <3>4, <3>5
  <2> HIDE DEF A, found
  <2>7. IsFiniteSet(found) /\ IsFiniteSet(missed)
    <3>1. missed \in SUBSET Matching(others)
      BY <1>1 DEF NullFlags, others
    <3>2. found \in SUBSET TradeIds /\ IsFiniteSet(TradeIds)
      BY JournalAssumption, FoundIsFinite DEF found
    <3>3. QED
      BY <2>2, <3>1, <3>2, FS_Subset
  <2>8. Cardinality(found \cup missed) = Cardinality(found) + Cardinality(missed)
    BY <2>6, <2>7, SizesOfTwo
  <2>9. ChipSum(f, lit, selection) = Cardinality(UNION {A[w] : w \in lit})
    BY <2>1, <2>3, <2>4, <2>5, ChipsAddUp
  <2>10. QED
    BY <2>6, <2>8, <2>9 DEF found
<1>2. ASSUME JournalInv, journal.pc = "shown"
      PROVE  journal.selection \in Selections
  BY <1>2, JournalShapes DEF JournalInv
<1>3. JournalInv => ChipsKeepTheirPromise
  BY <1>1, <1>2 DEF ChipsKeepTheirPromise, JournalInv
<1>4. QED
  BY <1>3, JournalInvariant, PTL

------------------------------------------------------------------------------
(* All parts.                                                               *)

\* Whichever part a behaviour runs, every part keeps to its specification.
LEMMA PartsKeepTheirSpecs ==
  Spec => FundamentalSpec /\ DrilldownSpec /\ EquitySpec /\ RadarSpec /\ JournalSpec
<1>1. Init => FundamentalInit /\ DrilldownInit /\ EquityInit /\ RadarInit /\ JournalInit
  BY DEF Init
<1>2. [Next]_vars => /\ [FundamentalNext]_fundamentalVars
                     /\ [DrilldownNext]_drilldownVars
                     /\ [EquityNext]_equityVars
                     /\ [RadarNext]_radarVars
                     /\ [JournalNext]_journalVars
  BY DEF Next, vars
<1>3. QED
  BY <1>1, <1>2, PTL DEF Spec, FundamentalSpec, DrilldownSpec, EquitySpec, RadarSpec, JournalSpec

\* Every variable of the five parts stays in its type, whichever of them runs: caches and
\* readers, candles and pins, curves, radar rows and diffs, trades, presets and the page.
THEOREM ScreensAreTyped == Spec => []TypeOK
<1>1. FundamentalInv /\ DrilldownInv /\ EquityInv /\ RadarTypeOK /\ JournalInv => TypeOK
  BY DEF FundamentalInv, DrilldownInv, EquityInv, JournalInv, TypeOK
<1>2. QED
  BY <1>1, PartsKeepTheirSpecs, FundamentalInvariant, DrilldownInvariant, EquityInvariant,
     RadarInvariant, JournalInvariant, PTL
==============================================================================
