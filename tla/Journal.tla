------------------------------- MODULE Journal -------------------------------
(***************************************************************************)
(* The journal page: a URL selects trades by facets and by a day, the page *)
(* counts them, lists one page of them and shows, facet by facet, how many *)
(* trades each value stands for.  Every statement reads the table anew,    *)
(* while trades are booked and tagged.  A selection can be saved under a   *)
(* name and be opened again.                                               *)
(*                                                                         *)
(* Trades are numbered in the order they were opened, which is not that in *)
(* which they are booked; all of them are closed.  A selection is a        *)
(* function from facets to sets of values.  The hero block is the walk of  *)
(* EquityCurve.                                                            *)
(***************************************************************************)
EXTENDS Integers, FiniteSets, FiniteSetsExt

CONSTANTS
  TradeIds,      \* trades, in the order they were opened
  Rows,          \* what a booked trade may be
  Specs,         \* what the tagging form may write
  Dates,         \* DatesOf[t] : the days on which t was opened and closed
  DatesOf,
  Urls,          \* selections that links, bookmarks and typing produce
  Compound,      \* Compound[v] : what v is read as, for v with commas or outer blanks
  CommaLists,    \* those of them with a comma, taken without outer blanks
  PresetNames,
  PageSize,
  MaxPageNumber, \* bound: the page a URL asks for
  NoValue        \* NULL, and null in a spec

ColumnFacets == {"asset_class"}
JsonFacets   == {"horizon", "strategy", "trigger_type", "followed"}
BareFacets   == {"confidence_band", "regime_tag"}   \* no column and no values yet
AllFacets    == ColumnFacets \cup JsonFacets \cup BareFacets \cup {"broker", "agent"}

\* The facets that the query string is searched for; the agent's is not.
UrlFacets == AllFacets \ {"agent"}

Brokers == {"ib", "ctrader"}
AnyBot  == "bot:any"

ASSUME JournalAssumption ==
  /\ TradeIds \subseteq Nat /\ IsFiniteSet(TradeIds)
  /\ \A r \in Rows :
       /\ r = [asset_class |-> r.asset_class, broker |-> r.broker, agent |-> r.agent, spec |-> r.spec]
       /\ r.broker \in Brokers /\ DOMAIN r.spec \subseteq JsonFacets
  /\ \A s \in Specs : DOMAIN s \subseteq JsonFacets
  /\ \A s \in Specs \cup {r.spec : r \in Rows} :
       "followed" \in DOMAIN s => s["followed"] \in {"followed", "override", NoValue}
  /\ DatesOf \in [TradeIds -> SUBSET Dates]
  /\ \A u \in Urls : \A f \in DOMAIN u : f \in AllFacets /\ u[f] # {} /\ IsFiniteSet(u[f])
  /\ \A v \in DOMAIN Compound :
       IsFiniteSet(Compound[v]) /\ Compound[v] \cap DOMAIN Compound = {}
  /\ CommaLists \subseteq DOMAIN Compound
  /\ << >> \in Urls /\ NoValue \notin Brokers \cup {"followed", "override"}
  /\ {PageSize, MaxPageNumber} \subseteq Nat \ {0}

VARIABLES
  trades,   \* trades[t] : the row of t, or NoRow
  presets,  \* presets[n] : the parameters saved under n, or NoPreset
  journal   \* the page as far as it has been read

journalVars == <<trades, presets, journal>>

NoRow    == [broker |-> NoValue]
NoPreset == NoValue
Blank    == [pc |-> "blank"]

Booked == {t \in TradeIds : trades[t] # NoRow}

------------------------------------------------------------------------------
(* Selections.                                                              *)

\* A value is split at its commas, and blanks around a part and empty parts go.
Parts(v) == IF v \in DOMAIN Compound THEN Compound[v] ELSE {v}

\* Blanks around a value and empty values go; a list of values stays one value.
Trimmed(v) == IF v \in CommaLists THEN {v} ELSE Parts(v)

\* Facets left without values, and unknown keys of a URL, are ignored.
Reread(values) == [f \in {g \in DOMAIN values \cap UrlFacets : values[g] # {}} |-> values[f]]

\* What the journal reads, and what is stored of a preset.
Parsed(url)  == Reread([f \in DOMAIN url |-> UNION {Parts(v) : v \in url[f]}])
Cleaned(url) == Reread([f \in DOMAIN url |-> UNION {Trimmed(v) : v \in url[f]}])

KnownBrokers(values) == values \cap Brokers

\* The flag is a Boolean: whatever is not "followed" stands for an override.
Flags(values) == {IF v = "followed" THEN v ELSE "override" : v \in values}

\* Unknown brokers are ignored; unknown values of most facets match nothing.
Effective(f, values) ==
  CASE f = "broker"   -> KnownBrokers(values)
    [] f = "followed" -> Flags(values)
    [] OTHER          -> values

\* A null of the spec is equal to no value.
InSpec(f, values, row) == f \in DOMAIN row.spec /\ row.spec[f] \in values \ {NoValue}

ByAgent(values, row) ==
  IF AnyBot \in values THEN row.agent # NoValue ELSE row.agent \in values

Condition(f, values, row) ==
  CASE f \in JsonFacets -> InSpec(f, values, row)
    [] f = "agent"      -> ByAgent(values, row)
    [] OTHER            -> row[f] \in values

Where(selection, row) ==
  \A f \in DOMAIN selection :
    LET values == Effective(f, selection[f])
    IN values = {} \/ Condition(f, values, row)

\* The statements fail for a facet without a column.
Breaks(selection) == DOMAIN selection \cap BareFacets # {}

Matching(selection) == {t \in Booked : Where(selection, trades[t])}

OnDay(day) == IF day = NoValue THEN TradeIds ELSE {t \in TradeIds : day \in DatesOf[t]}

\* The trades of the CSV file; the day is not among the parameters of its link.
Exported(selection) == Matching(selection)

------------------------------------------------------------------------------
(* Facets.                                                                  *)

\* Mutant: the counts of a facet obey its own selection.
WithOwn(selection, f) == selection

\* A facet is counted under the selections of the others.
Others(selection, f) == [g \in DOMAIN selection \ {f} |-> selection[g]]

\* A trade without an agent is counted under the empty name.
AgentName(row) == IF row.agent = NoValue THEN "" ELSE row.agent

\* The chips of the flag count what is not "followed" as an override, a null too.
Flag(row) == IF row.spec["followed"] = "followed" THEN "followed" ELSE "override"

HasValue(f, v, row) ==
  CASE f = "followed"                 -> f \in DOMAIN row.spec /\ v = Flag(row)
    [] f \in JsonFacets \ {"followed"} -> InSpec(f, {v}, row)
    [] f = "agent"                    -> v = AgentName(row)
    [] OTHER                          -> row[f] = v

\* A JSON facet is shown if some trade has the key.
Available(f) ==
  /\ f # "confidence_band"
  /\ f \in JsonFacets => \E t \in Booked : f \in DOMAIN trades[t].spec

\* The number on the chip of v; 0 if there is no such chip.
ChipCount(f, v, selection) ==
  IF ~Available(f) \/ f \in BareFacets THEN 0
  ELSE Cardinality({t \in Matching(Others(selection, f)) : HasValue(f, v, trades[t])})

\* The parameters of the link of the chip of v, which is v as it is stored.
Toggled(selection, f, v) ==
  LET now    == IF f \in DOMAIN selection THEN selection[f] ELSE {}
      next   == IF v \in now THEN now \ {v} ELSE now \cup {v}
      others == Others(selection, f)
  IN [g \in DOMAIN others \cup (IF next = {} THEN {} ELSE {f}) |->
        IF g = f THEN next ELSE others[g]]

------------------------------------------------------------------------------
(* Pages.                                                                   *)

TotalPages(total) == IF total = 0 THEN 1 ELSE (total + PageSize - 1) \div PageSize

\* Mutant: an old bookmark keeps its number.
Unclamped(n, total) == n

\* A number past the end becomes that of the last page.
Clamped(n, total) == IF n > TotalPages(total) THEN TotalPages(total) ELSE n

\* Newest first.
Rank(t, S) == Cardinality({u \in S : u >= t})

Slice(S, n) == {t \in S : (n - 1) * PageSize < Rank(t, S) /\ Rank(t, S) <= n * PageSize}

------------------------------------------------------------------------------

Selections == {Parsed(u) : u \in Urls}

Reading ==
  [pc : {"count"}, selection : Selections, day : Dates \cup {NoValue},
   asked : Nat \ {0}, quiet : BOOLEAN]
  \cup
  [pc : {"list", "facets", "shown"}, selection : Selections, day : Dates \cup {NoValue},
   number : Nat \ {0}, total : 0..Cardinality(TradeIds), rows : SUBSET TradeIds,
   quiet : BOOLEAN]

TaggedRows == {[r EXCEPT !.spec = s] : r \in Rows, s \in Specs}

\* What is saved as a preset is read as the selection of some URL.
JournalTypeOK ==
  /\ trades \in [TradeIds -> {NoRow} \cup Rows \cup TaggedRows]
  /\ presets \in [PresetNames -> {NoPreset} \cup {Cleaned(u) : u \in Urls}]
  /\ \A n \in PresetNames : presets[n] # NoPreset => Parsed(presets[n]) \in Selections
  /\ journal = Blank \/ journal \in Reading

JournalInit ==
  /\ trades = [t \in TradeIds |-> NoRow]
  /\ presets = [n \in PresetNames |-> NoPreset]
  /\ journal = Blank

\* quiet : no trade was booked or tagged since the page was opened (history).
Disturbed == IF journal = Blank THEN Blank ELSE [journal EXCEPT !.quiet = FALSE]

BookTrade(t) ==
  /\ trades[t] = NoRow
  /\ \E r \in Rows : trades' = [trades EXCEPT ![t] = r]
  /\ journal' = Disturbed
  /\ UNCHANGED presets

\* A trade of IB can be tagged again.
TagBooked(t) ==
  /\ trades[t].broker = "ib"
  /\ \E s \in Specs : trades' = [trades EXCEPT ![t].spec = s]
  /\ journal' = Disturbed
  /\ UNCHANGED presets

OpenSelection(selection, day, n) ==
  /\ journal.pc \in {"blank", "shown"}
  /\ journal' = [pc |-> "count", selection |-> Parsed(selection), day |-> day, asked |-> n,
                 quiet |-> TRUE]
  /\ UNCHANGED <<trades, presets>>

OpenUrl == \E u \in Urls, day \in Dates \cup {NoValue}, n \in 1..MaxPageNumber :
             OpenSelection(u, day, n)

OpenPreset(n) == presets[n] # NoPreset /\ OpenSelection(presets[n], NoValue, 1)

\* The link to the next page has its number and nothing else.
NextPage ==
  /\ journal.pc = "shown"
  /\ journal.number < TotalPages(journal.total)
  /\ OpenSelection(<< >>, NoValue, journal.number + 1)

CountTrades ==
  /\ journal.pc = "count"
  /\ ~Breaks(journal.selection)
  /\ LET total == Cardinality(Matching(journal.selection) \cap OnDay(journal.day)) IN
     journal' = [pc |-> "list", selection |-> journal.selection, day |-> journal.day,
                 number |-> Clamped(journal.asked, total), total |-> total, rows |-> {},
                 quiet |-> journal.quiet]
  /\ UNCHANGED <<trades, presets>>

ListTrades ==
  /\ journal.pc = "list"
  /\ LET found == Matching(journal.selection) \cap OnDay(journal.day) IN
     journal' = [journal EXCEPT !.pc = "facets", !.rows = Slice(found, journal.number)]
  /\ UNCHANGED <<trades, presets>>

\* The chips are those that ChipCount gives for the selection.
RenderFacets ==
  /\ journal.pc = "facets"
  /\ journal' = [journal EXCEPT !.pc = "shown"]
  /\ UNCHANGED <<trades, presets>>

\* One statement fails: the page is shown without any of its parts.
JournalFails ==
  /\ journal.pc \in {"count", "list", "facets"}
  /\ journal' = Blank
  /\ UNCHANGED <<trades, presets>>

\* Keys that are no facets of the journal are dropped, and an empty preset is refused.
SavePreset(n) ==
  /\ \E u \in Urls :
       /\ DOMAIN Cleaned(u) # {}
       /\ presets' = [presets EXCEPT ![n] = Cleaned(u)]
  /\ UNCHANGED <<trades, journal>>

JournalNext ==
  \/ \E t \in TradeIds : BookTrade(t) \/ TagBooked(t)
  \/ OpenUrl \/ NextPage
  \/ \E n \in PresetNames : OpenPreset(n) \/ SavePreset(n)
  \/ CountTrades \/ ListTrades \/ RenderFacets \/ JournalFails

JournalSpec == JournalInit /\ [][JournalNext]_journalVars

------------------------------------------------------------------------------
(* Properties.                                                              *)

\* The values of a facet that chips and URLs may have.
ValuesOf(f) ==
  LET With(F) == {g[f] : g \in {g \in F : f \in DOMAIN g}}
  IN (With(Rows) \cup With({r.spec : r \in Rows} \cup Specs) \cup UNION With(Urls)) \ {NoValue}

\* What the numbers on the chips of some values add up to.
ChipSum(f, values, selection) ==
  LET Number(v) == ChipCount(f, v, selection) IN MapThenSumSet(Number, values)

\* Trades whose flag is null: the override chip counts them, no selection finds them.
NullFlags(S) ==
  {t \in S : "followed" \in DOMAIN trades[t].spec /\ trades[t].spec["followed"] = NoValue}

\* A chip keeps its promise up to the null flags: whatever is selected already, the
\* page behind the link of a chip has as many trades as the numbers on the chips add
\* up to that the link lights in its facet, less, for the override chip, the trades
\* whose flag is null, and none of those numbers depends on what is lit now.  Left
\* out are values with commas or outer blanks, whose links are read as other values,
\* and the agents, whose chips no URL carries.
ChipsKeepTheirPromise ==
  journal.pc = "shown" /\ journal.quiet =>
    \A f \in UrlFacets \ BareFacets :
      \A v \in ValuesOf(f) \ DOMAIN Compound :
        LET link   == Toggled(journal.selection, f, v)
            lit    == IF f \in DOMAIN link THEN Effective(f, link[f]) ELSE {}
            missed == IF f = "followed" /\ "override" \in lit
                      THEN NullFlags(Matching(Others(journal.selection, f))) ELSE {}
        IN lit # {} =>
             Cardinality(Matching(Parsed(link))) + Cardinality(missed)
               = ChipSum(f, lit, journal.selection)

\* A page that counts trades shows some, although the list is read after the count,
\* as long as nobody can tag a trade out of the selection; and read in peace, the
\* pages of a selection are its CSV file, each trade once.
PagesShowTheSelection ==
  journal.pc = "shown" /\ journal.day = NoValue =>
    /\ journal.total > 0 /\ DOMAIN journal.selection \cap JsonFacets = {} => journal.rows # {}
    /\ journal.quiet =>
         LET S == Exported(journal.selection)
         IN /\ journal.total = Cardinality(S)
            /\ journal.rows = Slice(S, journal.number)
            /\ \A t \in S : Cardinality({n \in 1..TotalPages(journal.total) : t \in Slice(S, n)}) = 1
==============================================================================
