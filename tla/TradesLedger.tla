---------------------------- MODULE TradesLedger ----------------------------
(***************************************************************************)
(* The rows of Interactive Brokers in the table trades, and their writers. *)
(*                                                                         *)
(*   - live sync: an execution event reads the fills the broker has        *)
(*     reported for the order so far, then upserts the row, and spawns the *)
(*     capture of a fundamental snapshot if it inserted it;                *)
(*   - the nightly reconciliation: a Flex statement is downloaded, then    *)
(*     for each execution in it a SELECT and, after an await, an INSERT or *)
(*     an UPDATE;                                                          *)
(*   - the import of a Flex file from the command line, another process,   *)
(*     in one transaction;                                                 *)
(*   - Chef, who tags closed trades.                                       *)
(*                                                                         *)
(* A row is keyed by the permanent id of its order, which all executions   *)
(* of the order share.  Each execution is one share, so a quantity counts  *)
(* executions.  The Flex statement has one element per execution.  Prices  *)
(* and fees decide nothing and are left out.                               *)
(***************************************************************************)
EXTENDS Naturals, FiniteSets

CONSTANTS
  Orders,      \* the orders of the account, by permanent id
  Closing,     \* the orders that sell a long or cover a short position
  Options,     \* the orders of option contracts
  MaxFills,    \* bound: executions per order
  MaxCrashes   \* bound: restarts of the application

ASSUME LedgerAssumption ==
  /\ Closing \subseteq Orders
  /\ Options \subseteq Orders
  /\ MaxFills \in Nat \ {0}
  /\ MaxCrashes \in Nat

VARIABLES
  filled,    \* filled[o] : executions of o at the broker
  pending,   \* orders with an execution event on its way
  rows,      \* the table: rows[o], with quantity 0 while there is none
  live,      \* the event handler
  capture,   \* capture[o] : the snapshot task of o's trade
  captures,  \* captures[o] : snapshot tasks spawned for o (history)
  job,       \* the reconciliation
  crashes    \* restarts so far

brokerVars == <<filled, pending>>
syncVars   == <<live, capture, captures>>
vars == <<brokerVars, rows, syncVars, job, crashes>>

Executions == Orders \X (1..MaxFills)

Row   == [quantity : 0..MaxFills, closed : BOOLEAN, tagged : BOOLEAN]
NoRow == [quantity |-> 0, closed |-> FALSE, tagged |-> FALSE]
Exists(o) == rows[o].quantity > 0

Idle == [pc |-> "idle"]

LiveStates ==
  {Idle} \cup [pc : {"upsert"}, o : Orders, quantity : 1..MaxFills]

JobStates ==
  {Idle} \cup [pc : {"poll", "select"}, todo : SUBSET Executions]
         \cup [pc : {"write"}, todo : SUBSET Executions, e : Executions, existing : BOOLEAN]

TypeOK ==
  /\ filled \in [Orders -> 0..MaxFills]
  /\ pending \subseteq Orders
  /\ rows \in [Orders -> Row]
  /\ live \in LiveStates
  /\ capture \in [Orders -> {"none", "running", "ended"}]
  /\ captures \in [Orders -> Nat]
  /\ job \in JobStates
  /\ crashes \in 0..MaxCrashes

Init ==
  /\ filled = [o \in Orders |-> 0]
  /\ pending = {}
  /\ rows = [o \in Orders |-> NoRow]
  /\ live = Idle
  /\ capture = [o \in Orders |-> "none"]
  /\ captures = [o \in Orders |-> 0]
  /\ job = Idle
  /\ crashes = 0

------------------------------------------------------------------------------
(* The broker, external.                                                    *)

\* The broker executes one more share of an order and reports it.
Execute(o) ==
  /\ filled[o] < MaxFills
  /\ filled' = [filled EXCEPT ![o] = @ + 1]
  /\ pending' = pending \cup {o}
  /\ UNCHANGED <<rows, syncVars, job, crashes>>

\* After a reconnect the broker reports an order's executions again.
Redeliver(o) ==
  /\ filled[o] > 0
  /\ pending' = pending \cup {o}
  /\ UNCHANGED <<filled, rows, syncVars, job, crashes>>

\* The connection is down, or the handler's connection is in use and it raises.
LoseEvent(o) ==
  /\ o \in pending
  /\ pending' = pending \ {o}
  /\ UNCHANGED <<filled, rows, syncVars, job, crashes>>

------------------------------------------------------------------------------
(* Live sync.                                                               *)

\* The fills reported so far, summed.
ReadFills(o) ==
  /\ o \in pending
  /\ live = Idle
  /\ live' = [pc |-> "upsert", o |-> o, quantity |-> filled[o]]
  /\ pending' = pending \ {o}
  /\ UNCHANGED <<filled, rows, capture, captures, job, crashes>>

\* Mutants: fills added to what is booked, a capture per event.
UpsertedAdding(row, quantity) == [row EXCEPT !.quantity = @ + quantity]
AnyUpsert(o) == TRUE

\* ON CONFLICT DO UPDATE: the quantity is the event's, a close that the event
\* does not carry stays, as does the tag.
Upserted(row, quantity) == [row EXCEPT !.quantity = quantity]

\* xmax = 0 tells an inserted row from an updated one.
Inserts(o) == ~Exists(o)

UpsertTrade ==
  /\ live # Idle
  /\ rows' = [rows EXCEPT ![live.o] = Upserted(@, live.quantity)]
  /\ IF Inserts(live.o)
     THEN /\ capture' = [capture EXCEPT ![live.o] = "running"]
          /\ captures' = [captures EXCEPT ![live.o] = @ + 1]
     ELSE UNCHANGED <<capture, captures>>
  /\ live' = Idle
  /\ UNCHANGED <<brokerVars, job, crashes>>

\* The snapshot task stores what the fundamental agent knows, or nothing: no
\* client, no answer, an empty assessment, a failed INSERT.
CaptureSnapshot(o) ==
  /\ capture[o] = "running"
  /\ capture' = [capture EXCEPT ![o] = "ended"]
  /\ UNCHANGED <<brokerVars, rows, live, captures, job, crashes>>

------------------------------------------------------------------------------
(* The Flex statement.                                                      *)

\* Option executions that share an order are taken for the legs of a spread.
IsMultiLeg(statement, o) == o \in Options /\ statement[o] > 1

\* The executions of a statement that are not skipped.
FlexTrades(statement) ==
  {e \in Executions : e[2] <= statement[e[1]] /\ ~IsMultiLeg(statement, e[1])}

\* One execution as a row: one share, closed if it closes a position.
FlexRow(o) == [quantity |-> 1, closed |-> o \in Closing, tagged |-> FALSE]

\* Mutants: the write trusts the SELECT, or the close is not taken over.
InsertedBlindly(row, o) == FlexRow(o)
ReconciledUnclosed(row, o) == row

\* ON CONFLICT DO NOTHING.
InsertedIfNew(row, o) == IF row.quantity > 0 THEN row ELSE FlexRow(o)

\* Flex wins: the close it knows is added; COALESCE keeps one it does not know.
Reconciled(row, o) == [row EXCEPT !.closed = @ \/ o \in Closing]

\* A file of any earlier day is imported: all its rows in one transaction.
ImportFlexFile ==
  /\ \E statement \in [Orders -> 0..MaxFills] :
       /\ \A o \in Orders : statement[o] <= filled[o]
       /\ rows' = [o \in Orders |->
                     IF \E e \in FlexTrades(statement) : e[1] = o
                     THEN InsertedIfNew(rows[o], o) ELSE rows[o]]
  /\ UNCHANGED <<brokerVars, syncVars, job, crashes>>

------------------------------------------------------------------------------
(* The nightly reconciliation.                                              *)

\* The broker generates a statement of what is executed now; the job polls.
RequestStatement ==
  /\ job = Idle
  /\ job' = [pc |-> "poll", todo |-> FlexTrades(filled)]
  /\ UNCHANGED <<brokerVars, rows, syncVars, crashes>>

StatementArrives ==
  /\ job.pc = "poll"
  /\ job' = [job EXCEPT !.pc = "select"]
  /\ UNCHANGED <<brokerVars, rows, syncVars, crashes>>

\* An error code, ten polls in vain, no network: nothing until the next night.
DownloadFails ==
  /\ job.pc = "poll"
  /\ job' = Idle
  /\ UNCHANGED <<brokerVars, rows, syncVars, crashes>>

SelectTrade ==
  /\ job.pc = "select"
  /\ \E e \in job.todo :
       job' = [pc |-> "write", todo |-> job.todo \ {e}, e |-> e, existing |-> Exists(e[1])]
  /\ UNCHANGED <<brokerVars, rows, syncVars, crashes>>

\* The branch was chosen by the SELECT; live sync may have inserted meanwhile.
WriteTrade ==
  /\ job.pc = "write"
  /\ LET o == job.e[1] IN
     rows' = [rows EXCEPT ![o] = IF job.existing THEN Reconciled(@, o) ELSE InsertedIfNew(@, o)]
  /\ job' = [pc |-> "select", todo |-> job.todo]
  /\ UNCHANGED <<brokerVars, syncVars, crashes>>

ReconcileDone ==
  /\ job.pc = "select"
  /\ job.todo = {}
  /\ job' = Idle
  /\ UNCHANGED <<brokerVars, rows, syncVars, crashes>>

------------------------------------------------------------------------------
(* Chef and the machine.                                                    *)

Taggable(row) == row.quantity > 0 /\ row.closed

TagTrade(o) ==
  /\ Taggable(rows[o])
  /\ rows' = [rows EXCEPT ![o].tagged = TRUE]
  /\ UNCHANGED <<brokerVars, syncVars, job, crashes>>

\* A restart loses the tasks, the events on their way and the job in mid-run;
\* every statement that ran is committed.
Crash ==
  /\ crashes < MaxCrashes
  /\ crashes' = crashes + 1
  /\ pending' = {}
  /\ live' = Idle
  /\ capture' = [o \in Orders |-> IF capture[o] = "running" THEN "ended" ELSE capture[o]]
  /\ job' = Idle
  /\ UNCHANGED <<filled, rows, captures>>

------------------------------------------------------------------------------
Reconcile == StatementArrives \/ SelectTrade \/ WriteTrade \/ ReconcileDone

Next ==
  \/ \E o \in Orders :
       Execute(o) \/ Redeliver(o) \/ LoseEvent(o) \/ ReadFills(o)
         \/ CaptureSnapshot(o) \/ TagTrade(o)
  \/ UpsertTrade
  \/ ImportFlexFile
  \/ RequestStatement \/ DownloadFails \/ Reconcile
  \/ Crash

Spec == Init /\ [][Next]_vars

\* The scheduler fires every night, its job runs to its end, and the broker serves
\* a statement at least now and then.
Fairness ==
  /\ WF_vars(RequestStatement)
  /\ SF_vars(StatementArrives)
  /\ WF_vars(SelectTrade \/ WriteTrade \/ ReconcileDone)

FairSpec == Spec /\ Fairness

------------------------------------------------------------------------------
(* Properties.                                                              *)

\* The journal never shows more than the broker executed, although events are
\* repeated and four writers share a row.
QuantityIsReal == \A o \in Orders : rows[o].quantity <= filled[o]

\* A trade gets at most one snapshot task, however often it is reported and
\* whoever inserted its row.
CapturedOnce == \A o \in Orders : captures[o] <= 1

\* The writers together keep what TradeContract promises of the journal.
Contract == INSTANCE TradeContract WITH
  recorded <- {o \in Orders : Exists(o)},
  closed   <- {o \in Orders : Exists(o) /\ rows[o].closed},
  tagged   <- {o \in Orders : Exists(o) /\ rows[o].tagged}
ContractSpec == Contract!Spec

\* A stock order that closes a position is closed in the journal in the end,
\* whatever live sync did between the job's SELECT and its write.
FlexClosesTrades ==
  \A o \in Closing \ Options : filled[o] > 0 ~> rows[o].closed
==============================================================================
