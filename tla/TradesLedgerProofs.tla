------------------------- MODULE TradesLedgerProofs -------------------------
(***************************************************************************)
(* Proofs about TradesLedger, for any number of orders and executions, any *)
(* repetition or loss of events, any statement and any number of restarts. *)
(*                                                                         *)
(* The argument: whatever a writer holds while it waits, the fills it has  *)
(* read or the executions of its statement, was executed at the broker     *)
(* (WorkIsReal), the broker takes nothing back, and every operator that    *)
(* writes a row keeps what the row already says (RowsOnlyGrow).            *)
(***************************************************************************)
EXTENDS TradesLedger, TLAPS

\* Event, statement and row tell only of executions the broker has made.
WorkIsReal ==
  /\ \A o \in pending : filled[o] > 0
  /\ live.pc = "upsert" => live.quantity <= filled[live.o]
  /\ job.pc \in {"poll", "select", "write"} => \A e \in job.todo : filled[e[1]] > 0
  /\ job.pc = "write" => filled[job.e[1]] > 0

\* An order without a row has no close and no tag; closes are of closing orders.
RowsAreSound ==
  \A o \in Orders :
    /\ ~Exists(o) => rows[o] = NoRow
    /\ rows[o].closed => o \in Closing

\* A row the job has selected is still there when the job writes.
SelectedRowsStay == job.pc = "write" /\ job.existing => Exists(job.e[1])

\* The INSERT that spawns the snapshot task has left its row.
CapturesHaveRows == \A o \in Orders : captures[o] > 0 => captures[o] = 1 /\ Exists(o)

IInv == TypeOK /\ WorkIsReal /\ QuantityIsReal /\ RowsAreSound

------------------------------------------------------------------------------
(* What the writers do to one row.                                          *)

\* Row b of order o says what row a says, and at most n executions.
RowGrows(a, b, o, n) ==
  /\ b \in Row
  /\ b.quantity <= n
  /\ a.quantity > 0 => b.quantity > 0
  /\ b.quantity = 0 => b = a
  /\ a.closed => b.closed
  /\ b.closed => o \in Closing
  /\ b.tagged = a.tagged

RowsOnlyGrow == \A o \in Orders : RowGrows(rows[o], rows'[o], o, filled[o])

LEMMA UpsertGrows ==
  ASSUME NEW o \in Orders, NEW row \in Row, row.closed => o \in Closing,
         NEW q \in 1..MaxFills, NEW n \in Nat, q <= n
  PROVE  RowGrows(row, Upserted(row, q), o, n)
BY LedgerAssumption DEF LedgerAssumption, RowGrows, Upserted, Row

LEMMA InsertGrows ==
  ASSUME NEW o \in Orders, NEW row \in Row, row.closed => o \in Closing,
         NEW n \in Nat, n > 0, row.quantity <= n,
         row.quantity = 0 => row = NoRow
  PROVE  RowGrows(row, InsertedIfNew(row, o), o, n)
<1>1. CASE row.quantity > 0
  BY <1>1 DEF RowGrows, InsertedIfNew
<1>2. CASE ~(row.quantity > 0)
  <2>1. row = NoRow
    BY <1>2, LedgerAssumption DEF Row, LedgerAssumption
  <2>2. ~row.closed /\ ~row.tagged
    BY <2>1 DEF NoRow
  <2>3. ASSUME NEW c \in BOOLEAN, c <=> o \in Closing
        PROVE  RowGrows(row, [quantity |-> 1, closed |-> c, tagged |-> FALSE], o, n)
    BY <2>1, <2>2, <2>3, LedgerAssumption DEF RowGrows, Row, NoRow, LedgerAssumption
  <2>4. (o \in Closing) \in BOOLEAN
    OBVIOUS
  <2>5. RowGrows(row, FlexRow(o), o, n)
    BY <2>3, <2>4 DEF FlexRow
  <2> QED BY <1>2, <2>5 DEF InsertedIfNew
<1> QED BY <1>1, <1>2

LEMMA ReconcileGrows ==
  ASSUME NEW o \in Orders, NEW row \in Row, row.closed => o \in Closing,
         NEW n \in Nat, row.quantity > 0, row.quantity <= n
  PROVE  RowGrows(row, Reconciled(row, o), o, n)
<1>1. ASSUME NEW c \in BOOLEAN, c <=> (row.closed \/ o \in Closing)
      PROVE  RowGrows(row, [row EXCEPT !.closed = c], o, n)
  BY <1>1, LedgerAssumption DEF RowGrows, Row, LedgerAssumption
<1>2. (row.closed \/ o \in Closing) \in BOOLEAN
  OBVIOUS
<1> QED BY <1>1, <1>2 DEF Reconciled

\* The executions of a statement were made.
LEMMA StatementIsReal ==
  ASSUME NEW statement \in [Orders -> 0..MaxFills]
  PROVE  /\ FlexTrades(statement) \subseteq Executions
         /\ \A e \in FlexTrades(statement) : statement[e[1]] > 0
<1>1. ASSUME NEW e \in FlexTrades(statement)
      PROVE  e \in Executions /\ statement[e[1]] > 0
  <2>1. e \in Executions /\ e[2] <= statement[e[1]]
    BY <1>1 DEF FlexTrades
  <2>2. e[1] \in Orders /\ e[2] \in 1..MaxFills
    BY <2>1 DEF Executions
  <2> QED BY <2>1, <2>2, LedgerAssumption DEF LedgerAssumption
<1> QED BY <1>1

\* What the handler and the job hold while they wait.
LEMMA WaitingWork ==
  ASSUME TypeOK
  PROVE  /\ live.pc = "upsert" => live.o \in Orders /\ live.quantity \in 1..MaxFills
         /\ live # Idle => live.pc = "upsert"
         /\ job.pc \in {"poll", "select", "write"} => job.todo \subseteq Executions
         /\ job.pc = "write" => /\ job.e \in Executions
                                /\ job.existing \in BOOLEAN
                                /\ job.e[1] \in Orders
<1>1. live \in LiveStates /\ job \in JobStates
  BY DEF TypeOK
<1>2. live.pc = "upsert" => live.o \in Orders /\ live.quantity \in 1..MaxFills
  BY <1>1 DEF LiveStates, Idle
<1>3. live # Idle => live.pc = "upsert"
  BY <1>1 DEF LiveStates, Idle
<1>4. job.pc \in {"poll", "select", "write"} => job.todo \subseteq Executions
  BY <1>1 DEF JobStates, Idle
<1>5. job.pc = "write" => job.e \in Executions /\ job.existing \in BOOLEAN
  BY <1>1 DEF JobStates, Idle
<1> QED BY <1>2, <1>3, <1>4, <1>5 DEF Executions

------------------------------------------------------------------------------
(* Steps.                                                                   *)

RowsAreFunction == rows' = [o \in Orders |-> rows'[o]]

\* A step that writes no row.
LEMMA RowsKept ==
  ASSUME IInv, UNCHANGED rows
  PROVE  RowsAreFunction /\ RowsOnlyGrow
BY DEF IInv, TypeOK, QuantityIsReal, RowsAreSound, RowsAreFunction, RowsOnlyGrow, RowGrows,
       Exists, NoRow

\* A step that writes one row.
LEMMA OneRowWritten ==
  ASSUME IInv, NEW o \in Orders, NEW row, rows' = [rows EXCEPT ![o] = row],
         RowGrows(rows[o], row, o, filled[o])
  PROVE  RowsAreFunction /\ RowsOnlyGrow
<1>1. rows \in [Orders -> Row] /\ rows'[o] = row
  BY DEF IInv, TypeOK
<1>2. \A x \in Orders \ {o} : rows'[x] = rows[x]
  BY <1>1
<1>3. \A x \in Orders \ {o} : RowGrows(rows[x], rows[x], x, filled[x])
  BY <1>1 DEF IInv, QuantityIsReal, RowsAreSound, RowGrows
<1>4. RowsOnlyGrow
  BY <1>1, <1>2, <1>3 DEF RowsOnlyGrow
<1> QED BY <1>1, <1>4 DEF RowsAreFunction

\* What grows stays sound.
LEMMA GrowthIsSound ==
  ASSUME IInv, RowsAreFunction, RowsOnlyGrow, filled' \in [Orders -> 0..MaxFills],
         \A o \in Orders : filled[o] <= filled'[o]
  PROVE  rows' \in [Orders -> Row] /\ QuantityIsReal' /\ RowsAreSound'
<1>1. \A o \in Orders : RowGrows(rows[o], rows'[o], o, filled[o])
  BY DEF RowsOnlyGrow
<1>2. rows' \in [Orders -> Row]
  BY <1>1 DEF RowsAreFunction, RowGrows
<1>3. QuantityIsReal'
  <2> SUFFICES ASSUME NEW o \in Orders PROVE rows'[o].quantity <= filled'[o]
    BY DEF QuantityIsReal
  <2>1. rows'[o].quantity <= filled[o] /\ filled[o] <= filled'[o]
    BY <1>1 DEF RowGrows
  <2>2. rows'[o].quantity \in 0..MaxFills
    BY <1>2 DEF Row
  <2>3. filled[o] \in 0..MaxFills /\ filled'[o] \in 0..MaxFills
    BY DEF IInv, TypeOK
  <2> QED BY <2>1, <2>2, <2>3, LedgerAssumption DEF LedgerAssumption
<1>4. RowsAreSound'
  <2> SUFFICES ASSUME NEW o \in Orders
               PROVE  /\ ~(rows'[o].quantity > 0) => rows'[o] = NoRow
                      /\ rows'[o].closed => o \in Closing
    BY DEF RowsAreSound, Exists
  <2>1. RowGrows(rows[o], rows'[o], o, filled[o])
    BY <1>1
  <2>2. rows'[o].quantity \in 0..MaxFills /\ rows[o].quantity \in 0..MaxFills
    BY <1>2 DEF Row, IInv, TypeOK
  <2>3. ~(rows'[o].quantity > 0) => rows'[o].quantity = 0
    BY <2>2, LedgerAssumption DEF LedgerAssumption
  <2>4. ~(rows'[o].quantity > 0) => ~(rows[o].quantity > 0) /\ rows'[o] = rows[o]
    BY <2>1, <2>3 DEF RowGrows
  <2> QED BY <2>1, <2>4 DEF RowGrows, IInv, RowsAreSound, Exists
<1> QED BY <1>2, <1>3, <1>4

LEMMA InitHolds == Init => IInv /\ CapturesHaveRows
BY LedgerAssumption
   DEF Init, IInv, TypeOK, WorkIsReal, QuantityIsReal, RowsAreSound, CapturesHaveRows, Exists,
       NoRow, Row, Idle, LiveStates, JobStates, LedgerAssumption

LEMMA ExecuteStep ==
  ASSUME IInv, NEW o \in Orders, Execute(o)
  PROVE  IInv' /\ RowsOnlyGrow
<1>1. filled' = [filled EXCEPT ![o] = filled[o] + 1] /\ filled[o] < MaxFills
  BY DEF Execute
<1>2. filled \in [Orders -> 0..MaxFills]
  BY DEF IInv, TypeOK
<1>3. filled' \in [Orders -> 0..MaxFills] /\ filled'[o] > 0
  BY <1>1, <1>2, LedgerAssumption DEF LedgerAssumption
<1>4. \A x \in Orders : filled[x] <= filled'[x]
  BY <1>1, <1>2, LedgerAssumption DEF LedgerAssumption
<1>5. RowsAreFunction /\ RowsOnlyGrow
  BY RowsKept DEF Execute
<1>6. TypeOK'
  <2>1. rows' \in [Orders -> Row]
    BY <1>3, <1>4, <1>5, GrowthIsSound
  <2> QED BY <1>3, <2>1 DEF Execute, IInv, TypeOK, syncVars
<1>7. WorkIsReal'
  <2>1. \A x \in Orders : filled[x] > 0 => filled'[x] > 0
    BY <1>2, <1>3, <1>4, LedgerAssumption DEF LedgerAssumption
  <2>2. \A x \in pending' : filled'[x] > 0
    BY <1>3, <2>1 DEF Execute, IInv, WorkIsReal, TypeOK
  <2>3. live'.pc = "upsert" => live'.quantity <= filled'[live'.o]
    <3>1. SUFFICES ASSUME live.pc = "upsert" PROVE live.quantity <= filled'[live.o]
      BY DEF Execute, syncVars
    <3>2. live.o \in Orders /\ live.quantity \in 1..MaxFills
      BY <3>1, WaitingWork DEF IInv
    <3>3. live.quantity <= filled[live.o]
      BY <3>1 DEF IInv, WorkIsReal
    <3> QED BY <3>2, <3>3, <1>2, <1>3, <1>4, LedgerAssumption DEF LedgerAssumption
  <2>4. job'.pc \in {"poll", "select", "write"} => \A e \in job'.todo : filled'[e[1]] > 0
    BY <2>1, WaitingWork DEF Execute, IInv, WorkIsReal, Executions
  <2>5. job'.pc = "write" => filled'[job'.e[1]] > 0
    BY <2>1, WaitingWork DEF Execute, IInv, WorkIsReal
  <2> QED BY <2>2, <2>3, <2>4, <2>5 DEF WorkIsReal
<1> QED BY <1>3, <1>4, <1>5, <1>6, <1>7, GrowthIsSound DEF IInv

\* The broker takes nothing back: steps of the others leave its executions alone.
LEMMA QuietGrowth ==
  ASSUME IInv, UNCHANGED filled, RowsAreFunction, RowsOnlyGrow
  PROVE  rows' \in [Orders -> Row] /\ QuantityIsReal' /\ RowsAreSound'
<1>1. filled' \in [Orders -> 0..MaxFills] /\ \A o \in Orders : filled[o] <= filled'[o]
  BY LedgerAssumption DEF IInv, TypeOK, LedgerAssumption
<1> QED BY <1>1, GrowthIsSound

LEMMA EventSteps ==
  ASSUME IInv, NEW o \in Orders, Redeliver(o) \/ LoseEvent(o) \/ ReadFills(o)
  PROVE  IInv' /\ RowsOnlyGrow
<1>1. RowsAreFunction /\ RowsOnlyGrow
  BY RowsKept DEF Redeliver, LoseEvent, ReadFills
<1>2. rows' \in [Orders -> Row] /\ QuantityIsReal' /\ RowsAreSound'
  BY <1>1, QuietGrowth DEF Redeliver, LoseEvent, ReadFills
<1>3. CASE Redeliver(o) \/ LoseEvent(o)
  <2>1. TypeOK'
    BY <1>2, <1>3 DEF Redeliver, LoseEvent, IInv, TypeOK, syncVars
  <2>2. WorkIsReal'
    BY <1>3 DEF Redeliver, LoseEvent, IInv, WorkIsReal, syncVars
  <2> QED BY <1>1, <1>2, <2>1, <2>2 DEF IInv
<1>4. CASE ReadFills(o)
  <2>1. filled[o] \in 1..MaxFills
    BY <1>4, LedgerAssumption DEF ReadFills, IInv, TypeOK, WorkIsReal, LedgerAssumption
  <2>2. live' = [pc |-> "upsert", o |-> o, quantity |-> filled[o]]
    BY <1>4 DEF ReadFills
  <2>3. live' \in LiveStates
    BY <2>1, <2>2 DEF LiveStates
  <2>4. TypeOK'
    BY <1>2, <1>4, <2>3 DEF ReadFills, IInv, TypeOK
  <2>5. WorkIsReal'
    BY <1>4, <2>1, <2>2, LedgerAssumption DEF ReadFills, IInv, WorkIsReal, LedgerAssumption
  <2> QED BY <1>1, <1>2, <2>4, <2>5 DEF IInv
<1> QED BY <1>3, <1>4

LEMMA UpsertStep ==
  ASSUME IInv, UpsertTrade
  PROVE  IInv' /\ RowsOnlyGrow
<1> DEFINE o == live.o
           row == Upserted(rows[o], live.quantity)
<1>1. live.pc = "upsert" /\ o \in Orders /\ live.quantity \in 1..MaxFills
  BY WaitingWork DEF UpsertTrade, IInv
<1>2. live.quantity <= filled[o] /\ filled[o] \in Nat /\ rows[o] \in Row
  BY <1>1 DEF IInv, WorkIsReal, TypeOK
<1>3. RowGrows(rows[o], row, o, filled[o])
  BY <1>1, <1>2, UpsertGrows DEF IInv, RowsAreSound
<1>4. rows' = [rows EXCEPT ![o] = row]
  BY DEF UpsertTrade
<1>5. RowsAreFunction /\ RowsOnlyGrow
  BY <1>1, <1>3, <1>4, OneRowWritten
<1>6. rows' \in [Orders -> Row] /\ QuantityIsReal' /\ RowsAreSound'
  BY <1>5, QuietGrowth DEF UpsertTrade, brokerVars
<1>7. capture' \in [Orders -> {"none", "running", "ended"}] /\ captures' \in [Orders -> Nat]
  BY <1>1 DEF UpsertTrade, IInv, TypeOK
<1>8. TypeOK'
  BY <1>6, <1>7 DEF UpsertTrade, IInv, TypeOK, brokerVars, LiveStates
<1>9. WorkIsReal'
  BY DEF UpsertTrade, IInv, WorkIsReal, brokerVars, Idle
<1> QED BY <1>5, <1>6, <1>8, <1>9 DEF IInv

LEMMA CaptureStep ==
  ASSUME IInv, NEW o \in Orders, CaptureSnapshot(o)
  PROVE  IInv' /\ RowsOnlyGrow
<1>1. RowsAreFunction /\ RowsOnlyGrow
  BY RowsKept DEF CaptureSnapshot
<1>2. rows' \in [Orders -> Row] /\ QuantityIsReal' /\ RowsAreSound'
  BY <1>1, QuietGrowth DEF CaptureSnapshot, brokerVars
<1>3. TypeOK' /\ WorkIsReal'
  BY <1>2 DEF CaptureSnapshot, IInv, TypeOK, WorkIsReal, brokerVars
<1> QED BY <1>1, <1>2, <1>3 DEF IInv

LEMMA ImportStep ==
  ASSUME IInv, ImportFlexFile
  PROVE  IInv' /\ RowsOnlyGrow
<1>1. PICK statement \in [Orders -> 0..MaxFills] :
        /\ \A o \in Orders : statement[o] <= filled[o]
        /\ rows' = [o \in Orders |->
                      IF \E e \in FlexTrades(statement) : e[1] = o
                      THEN InsertedIfNew(rows[o], o) ELSE rows[o]]
  BY DEF ImportFlexFile
<1>2. ASSUME NEW o \in Orders PROVE RowGrows(rows[o], rows'[o], o, filled[o])
  <2>0. rows[o] \in Row /\ filled[o] \in Nat
    BY DEF IInv, TypeOK
  <2>1. CASE \E e \in FlexTrades(statement) : e[1] = o
    <3>1. statement[o] > 0
      BY <2>1, StatementIsReal
    <3>2. filled[o] > 0
      BY <1>1, <2>0, <3>1, LedgerAssumption DEF LedgerAssumption
    <3>3. RowGrows(rows[o], InsertedIfNew(rows[o], o), o, filled[o])
      <4>1. rows[o].quantity <= filled[o] /\ (rows[o].closed => o \in Closing)
        BY DEF IInv, QuantityIsReal, RowsAreSound
      <4>2. rows[o].quantity = 0 => rows[o] = NoRow
        BY DEF IInv, RowsAreSound, Exists
      <4> QED BY <2>0, <3>2, <4>1, <4>2, InsertGrows
    <3> QED BY <1>1, <2>1, <3>3
  <2>2. CASE ~\E e \in FlexTrades(statement) : e[1] = o
    <3>1. RowGrows(rows[o], rows[o], o, filled[o])
      BY <2>0 DEF IInv, QuantityIsReal, RowsAreSound, RowGrows
    <3> QED BY <1>1, <2>2, <3>1
  <2> QED BY <2>1, <2>2
<1>3. RowsAreFunction /\ RowsOnlyGrow
  BY <1>1, <1>2 DEF RowsAreFunction, RowsOnlyGrow
<1>4. UNCHANGED <<brokerVars, syncVars, job, crashes>>
  BY DEF ImportFlexFile
<1>5. rows' \in [Orders -> Row] /\ QuantityIsReal' /\ RowsAreSound'
  BY <1>3, <1>4, QuietGrowth DEF brokerVars
<1>6. TypeOK' /\ WorkIsReal'
  BY <1>4, <1>5 DEF IInv, TypeOK, WorkIsReal, brokerVars, syncVars
<1> QED BY <1>3, <1>5, <1>6 DEF IInv

\* Steps of the job that write nothing.
LEMMA JobReads ==
  ASSUME IInv,
         RequestStatement \/ StatementArrives \/ DownloadFails \/ SelectTrade \/ ReconcileDone
  PROVE  IInv' /\ RowsOnlyGrow
<1>1. UNCHANGED <<filled, pending, rows, live, capture, captures, crashes>>
  BY DEF RequestStatement, StatementArrives, DownloadFails, SelectTrade, ReconcileDone,
         brokerVars, syncVars
<1>2. RowsAreFunction /\ RowsOnlyGrow
  BY <1>1, RowsKept
<1>3. rows' \in [Orders -> Row] /\ QuantityIsReal' /\ RowsAreSound'
  BY <1>1, <1>2, QuietGrowth
<1>4. ASSUME job' \in JobStates,
             job'.pc \in {"poll", "select", "write"} => \A e \in job'.todo : filled[e[1]] > 0,
             job'.pc = "write" => filled[job'.e[1]] > 0
      PROVE  IInv'
  BY <1>1, <1>3, <1>4 DEF IInv, TypeOK, WorkIsReal
<1>5. CASE RequestStatement
  <2>1. filled \in [Orders -> 0..MaxFills]
    BY DEF IInv, TypeOK
  <2>2. job' = [pc |-> "poll", todo |-> FlexTrades(filled)]
    BY <1>5 DEF RequestStatement
  <2> QED BY <2>1, <2>2, StatementIsReal, <1>2, <1>4 DEF JobStates
<1>6. CASE StatementArrives
  <2>1. job.pc = "poll" /\ job.todo \subseteq Executions
    BY <1>6, WaitingWork DEF StatementArrives, IInv
  <2>2. job \in [pc : {"poll", "select"}, todo : SUBSET Executions]
    BY <2>1 DEF IInv, TypeOK, JobStates, Idle
  <2>3. job' = [job EXCEPT !.pc = "select"]
    BY <1>6 DEF StatementArrives
  <2>4. job' \in [pc : {"poll", "select"}, todo : SUBSET Executions] /\ job'.todo = job.todo
    BY <2>2, <2>3
  <2>5. job'.pc = "select"
    BY <2>2, <2>3
  <2> QED BY <1>2, <1>4, <2>1, <2>4, <2>5 DEF JobStates, IInv, WorkIsReal
<1>7. CASE DownloadFails \/ ReconcileDone
  BY <1>2, <1>4, <1>7 DEF DownloadFails, ReconcileDone, JobStates, Idle
<1>8. CASE SelectTrade
  <2>1. PICK e \in job.todo :
          job' = [pc |-> "write", todo |-> job.todo \ {e}, e |-> e, existing |-> Exists(e[1])]
    BY <1>8 DEF SelectTrade
  <2>2. job.pc = "select" /\ job.todo \subseteq Executions
    BY <1>8, WaitingWork DEF SelectTrade, IInv
  <2>3. Exists(e[1]) \in BOOLEAN
    BY DEF Exists
  <2>4. job' \in JobStates
    <3> DEFINE existing == Exists(e[1])
    <3> HIDE DEF existing
    <3>1. existing \in BOOLEAN
      BY <2>3 DEF existing
    <3>2. job' = [pc |-> "write", todo |-> job.todo \ {e}, e |-> e, existing |-> existing]
      BY <2>1 DEF existing
    <3> QED BY <2>2, <3>1, <3>2 DEF JobStates
  <2>5. \A x \in job.todo : filled[x[1]] > 0
    BY <2>2 DEF IInv, WorkIsReal
  <2>6. job'.pc = "write" /\ job'.todo \subseteq job.todo /\ job'.e = e
    BY <2>1
  <2> QED BY <1>2, <1>4, <2>4, <2>5, <2>6
<1> QED BY <1>5, <1>6, <1>7, <1>8

LEMMA WriteStep ==
  ASSUME IInv, SelectedRowsStay, WriteTrade
  PROVE  IInv' /\ RowsOnlyGrow
<1> DEFINE o == job.e[1]
           row == IF job.existing THEN Reconciled(rows[o], o) ELSE InsertedIfNew(rows[o], o)
<1>1. /\ job.pc = "write"
      /\ rows' = [rows EXCEPT ![o] = row]
      /\ job' = [pc |-> "select", todo |-> job.todo]
      /\ UNCHANGED <<brokerVars, syncVars, crashes>>
  BY DEF WriteTrade
<1>2. o \in Orders /\ job.todo \subseteq Executions
  BY <1>1, WaitingWork DEF IInv
<1>3. /\ rows[o] \in Row
      /\ filled[o] \in Nat
      /\ filled[o] > 0
      /\ rows[o].quantity <= filled[o]
      /\ rows[o].closed => o \in Closing
  BY <1>1, <1>2 DEF IInv, TypeOK, WorkIsReal, QuantityIsReal, RowsAreSound
<1>4. rows[o].quantity = 0 => rows[o] = NoRow
  BY <1>2 DEF IInv, RowsAreSound, Exists
<1>5. RowGrows(rows[o], row, o, filled[o])
  <2>1. CASE job.existing
    <3>1. rows[o].quantity > 0
      BY <1>1, <2>1 DEF SelectedRowsStay, Exists
    <3> QED BY <1>2, <1>3, <2>1, <3>1, ReconcileGrows
  <2>2. CASE ~job.existing
    BY <1>2, <1>3, <1>4, <2>2, InsertGrows
  <2> QED BY <2>1, <2>2
<1>6. RowsAreFunction /\ RowsOnlyGrow
  BY <1>1, <1>2, <1>5, OneRowWritten
<1>7. rows' \in [Orders -> Row] /\ QuantityIsReal' /\ RowsAreSound'
  BY <1>1, <1>6, QuietGrowth DEF brokerVars
<1>8. job' \in JobStates
  BY <1>1, <1>2 DEF JobStates
<1>9. TypeOK' /\ WorkIsReal'
  BY <1>1, <1>7, <1>8 DEF IInv, TypeOK, WorkIsReal, brokerVars, syncVars
<1> QED BY <1>6, <1>7, <1>9 DEF IInv

\* Chef's tag is the one step that changes a row without growing it.
LEMMA TagStep ==
  ASSUME IInv, NEW o \in Orders, TagTrade(o)
  PROVE  IInv'
<1>1. rows' = [rows EXCEPT ![o] = [rows[o] EXCEPT !.tagged = TRUE]]
  BY DEF TagTrade
<1>2. rows \in [Orders -> Row] /\ rows[o].quantity > 0
  BY DEF IInv, TypeOK, TagTrade, Taggable
<1>3. [rows[o] EXCEPT !.tagged = TRUE] \in Row
  BY <1>2 DEF Row
<1>4. /\ rows' \in [Orders -> Row]
      /\ \A x \in Orders : /\ rows'[x].quantity = rows[x].quantity
                           /\ rows'[x].closed = rows[x].closed
                           /\ x # o => rows'[x] = rows[x]
  BY <1>1, <1>2, <1>3 DEF Row
<1>5. UNCHANGED <<brokerVars, syncVars, job, crashes>>
  BY DEF TagTrade
<1>6. TypeOK' /\ WorkIsReal'
  BY <1>4, <1>5 DEF IInv, TypeOK, WorkIsReal, brokerVars, syncVars
<1>7. QuantityIsReal' /\ RowsAreSound'
  BY <1>2, <1>4, <1>5 DEF IInv, QuantityIsReal, RowsAreSound, Exists, brokerVars
<1> QED BY <1>6, <1>7 DEF IInv

LEMMA CrashStep ==
  ASSUME IInv, Crash
  PROVE  IInv' /\ RowsOnlyGrow
<1>1. RowsAreFunction /\ RowsOnlyGrow
  BY RowsKept DEF Crash
<1>2. rows' \in [Orders -> Row] /\ QuantityIsReal' /\ RowsAreSound'
  BY <1>1, QuietGrowth DEF Crash
<1>3. capture' \in [Orders -> {"none", "running", "ended"}]
  BY DEF Crash, IInv, TypeOK
<1>4. TypeOK'
  BY <1>2, <1>3, LedgerAssumption
     DEF Crash, IInv, TypeOK, LiveStates, JobStates, LedgerAssumption
<1>5. WorkIsReal'
  BY DEF Crash, WorkIsReal, Idle
<1> QED BY <1>1, <1>2, <1>4, <1>5 DEF IInv

\* Every step keeps the invariant and lets rows only grow, but for the tags.
LEMMA NextStep ==
  ASSUME IInv, SelectedRowsStay, [Next]_vars
  PROVE  IInv' /\ (RowsOnlyGrow \/ \E o \in Orders : TagTrade(o))
<1>1. CASE UNCHANGED vars
  <2>1. RowsOnlyGrow
    BY <1>1, RowsKept DEF vars
  <2>2. IInv'
    BY <1>1 DEF vars, brokerVars, syncVars, IInv, TypeOK, WorkIsReal, QuantityIsReal,
                RowsAreSound, Exists
  <2> QED BY <2>1, <2>2
<1>2. CASE \E o \in Orders :
             Execute(o) \/ Redeliver(o) \/ LoseEvent(o) \/ ReadFills(o)
               \/ CaptureSnapshot(o) \/ TagTrade(o)
  BY <1>2, ExecuteStep, EventSteps, CaptureStep, TagStep
<1>3. CASE UpsertTrade \/ ImportFlexFile \/ Crash
  BY <1>3, UpsertStep, ImportStep, CrashStep
<1>4. CASE RequestStatement \/ DownloadFails \/ Reconcile
  BY <1>4, JobReads, WriteStep DEF Reconcile
<1> QED BY <1>1, <1>2, <1>3, <1>4 DEF Next

\* No step empties a row.
LEMMA RowsStay ==
  ASSUME IInv, RowsOnlyGrow \/ \E o \in Orders : TagTrade(o)
  PROVE  \A o \in Orders : Exists(o) => Exists(o)'
<1>1. CASE RowsOnlyGrow
  BY <1>1 DEF RowsOnlyGrow, RowGrows, Exists
<1>2. CASE \E o \in Orders : TagTrade(o)
  <2>1. PICK o \in Orders : rows' = [rows EXCEPT ![o] = [rows[o] EXCEPT !.tagged = TRUE]]
    BY <1>2 DEF TagTrade
  <2>2. rows \in [Orders -> Row] /\ rows[o] \in Row
    BY DEF IInv, TypeOK
  <2>3. [rows[o] EXCEPT !.tagged = TRUE].quantity = rows[o].quantity
    BY <2>2 DEF Row
  <2>4. \A x \in Orders : rows'[x].quantity = rows[x].quantity
    BY <2>1, <2>2, <2>3
  <2> QED BY <2>4 DEF Exists
<1> QED BY <1>1, <1>2

LEMMA SelectionStep ==
  ASSUME IInv, SelectedRowsStay, [Next]_vars
  PROVE  SelectedRowsStay'
<1>1. \A o \in Orders : Exists(o) => Exists(o)'
  BY NextStep, RowsStay
<1>2. CASE job' = job
  BY <1>1, <1>2, WaitingWork DEF SelectedRowsStay, IInv, Exists
<1>3. CASE SelectTrade
  <2>1. PICK e \in job.todo :
          job' = [pc |-> "write", todo |-> job.todo \ {e}, e |-> e, existing |-> Exists(e[1])]
    BY <1>3 DEF SelectTrade
  <2>2. rows' = rows
    BY <1>3 DEF SelectTrade
  <2> QED BY <2>1, <2>2 DEF SelectedRowsStay, Exists
<1>4. CASE job'.pc # "write"
  BY <1>4 DEF SelectedRowsStay
<1>5. job' = job \/ SelectTrade \/ job'.pc # "write"
  <2>1. CASE RequestStatement \/ DownloadFails \/ WriteTrade \/ ReconcileDone \/ Crash
    BY <2>1 DEF RequestStatement, DownloadFails, WriteTrade, ReconcileDone, Crash, Idle
  <2>2. CASE StatementArrives
    <3>1. job \in JobStates /\ job.pc = "poll" /\ job' = [job EXCEPT !.pc = "select"]
      BY <2>2 DEF IInv, TypeOK, StatementArrives
    <3>2. job'.pc = "select"
      BY <3>1 DEF JobStates, Idle
    <3> QED BY <3>2
  <2>3. CASE UNCHANGED vars
    BY <2>3 DEF vars
  <2>4. CASE UpsertTrade \/ ImportFlexFile
    BY <2>4 DEF UpsertTrade, ImportFlexFile
  <2>5. ASSUME NEW o \in Orders,
               Execute(o) \/ Redeliver(o) \/ LoseEvent(o) \/ ReadFills(o)
                 \/ CaptureSnapshot(o) \/ TagTrade(o)
        PROVE  job' = job
    BY <2>5 DEF Execute, Redeliver, LoseEvent, ReadFills, CaptureSnapshot, TagTrade
  <2> QED BY <2>1, <2>2, <2>3, <2>4, <2>5 DEF Next, Reconcile
<1> QED BY <1>2, <1>3, <1>4, <1>5

LEMMA CapturesStep ==
  ASSUME IInv, SelectedRowsStay, CapturesHaveRows, [Next]_vars
  PROVE  CapturesHaveRows'
<1>1. \A o \in Orders : Exists(o) => Exists(o)'
  BY NextStep, RowsStay
<1>2. CASE captures' = captures
  BY <1>1, <1>2 DEF CapturesHaveRows
<1>3. CASE UpsertTrade /\ ~Exists(live.o)
  <2>1. live.o \in Orders /\ live.quantity \in 1..MaxFills
    BY <1>3, WaitingWork DEF UpsertTrade, IInv
  <2>2. captures[live.o] = 0 /\ captures \in [Orders -> Nat]
    BY <1>3, <2>1 DEF CapturesHaveRows, IInv, TypeOK
  <2>3. captures' = [captures EXCEPT ![live.o] = 1]
    BY <1>3, <2>1, <2>2 DEF UpsertTrade, Inserts
  <2>4. rows'[live.o].quantity > 0
    <3>1. rows' = [rows EXCEPT ![live.o] = [rows[live.o] EXCEPT !.quantity = live.quantity]]
      BY <1>3 DEF UpsertTrade, Upserted
    <3>2. rows[live.o] \in Row /\ rows \in [Orders -> Row]
      BY <2>1 DEF IInv, TypeOK
    <3>3. rows'[live.o].quantity = live.quantity
      BY <2>1, <3>1, <3>2 DEF Row
    <3> QED BY <2>1, <3>3, LedgerAssumption DEF LedgerAssumption
  <2>5. ASSUME NEW o \in Orders, captures'[o] > 0
        PROVE  captures'[o] = 1 /\ Exists(o)'
    <3>1. CASE o = live.o
      BY <2>1, <2>2, <2>3, <2>4, <3>1 DEF Exists
    <3>2. CASE o # live.o
      BY <1>1, <2>1, <2>2, <2>3, <2>5, <3>2 DEF CapturesHaveRows
    <3> QED BY <3>1, <3>2
  <2> QED BY <2>5 DEF CapturesHaveRows
<1>4. captures' = captures \/ (UpsertTrade /\ ~Exists(live.o))
  BY DEF Next, Reconcile, vars, syncVars, Execute, Redeliver, LoseEvent, ReadFills, Inserts,
         CaptureSnapshot, TagTrade, UpsertTrade, ImportFlexFile, RequestStatement,
         DownloadFails, StatementArrives, SelectTrade, WriteTrade, ReconcileDone, Crash
<1> QED BY <1>2, <1>3, <1>4

------------------------------------------------------------------------------
(* The theorems.                                                            *)

AllInv == IInv /\ SelectedRowsStay /\ CapturesHaveRows

\* What the theorems rest on holds from the first event on: types, quantities that were
\* executed, statements whose trades were selected, captures that have a row.
THEOREM Invariance == Spec => []AllInv
<1>1. Init => AllInv
  <2>1. Init => SelectedRowsStay
    BY DEF Init, SelectedRowsStay, Idle
  <2> QED BY <2>1, InitHolds DEF AllInv
<1>2. AllInv /\ [Next]_vars => AllInv'
  BY NextStep, SelectionStep, CapturesStep DEF AllInv
<1> QED BY <1>1, <1>2, PTL DEF Spec

\* Every variable of the ledger and its writers stays in its type (ib_live_sync.py,
\* ib_flex_import.py, ib_reconcile.py).
THEOREM TypeCorrect == Spec => []TypeOK
<1>1. AllInv => TypeOK
  BY DEF AllInv, IInv
<1> QED BY <1>1, Invariance, PTL

\* The journal never shows more than the broker executed, whatever is repeated,
\* lost or imported (the conflict clauses of ib_flex_import.py).
THEOREM QuantitiesAreReal == Spec => []QuantityIsReal
<1>1. AllInv => QuantityIsReal
  BY DEF AllInv, IInv
<1> QED BY <1>1, Invariance, PTL

\* A trade gets at most one snapshot task (handle_execution, ib_live_sync.py).
THEOREM TradesAreCapturedOnce == Spec => []CapturedOnce
<1>1. AllInv => CapturedOnce
  <2> SUFFICES ASSUME AllInv, NEW o \in Orders PROVE captures[o] <= 1
    BY DEF CapturedOnce
  <2>1. captures[o] \in Nat /\ (captures[o] > 0 => captures[o] = 1)
    BY DEF AllInv, IInv, TypeOK, CapturesHaveRows
  <2> QED BY <2>1
<1> QED BY <1>1, Invariance, PTL

LEMMA ContractInit == Init => Contract!Init
BY DEF Init, Contract!Init, Exists, NoRow

LEMMA ContractStep ==
  ASSUME IInv, SelectedRowsStay, [Next]_vars
  PROVE  [Contract!Next]_(Contract!vars)
<1> DEFINE recorded == {o \in Orders : Exists(o)}
           closed == {o \in Orders : Exists(o) /\ rows[o].closed}
           tagged == {o \in Orders : Exists(o) /\ rows[o].tagged}
<1>1. IInv' /\ (RowsOnlyGrow \/ \E o \in Orders : TagTrade(o))
  BY NextStep
<1>2. CASE RowsOnlyGrow
  <2>1. \A o \in Orders : /\ Exists(o) => Exists(o)'
                          /\ rows[o].closed => rows'[o].closed
                          /\ rows'[o].closed => o \in Closing
                          /\ rows'[o].tagged = rows[o].tagged
    BY <1>1, <1>2 DEF RowsOnlyGrow, RowGrows, Exists
  <2>2. \A o \in Orders : rows[o].tagged => Exists(o)
    BY DEF IInv, RowsAreSound, NoRow
  <2>3. recorded \subseteq recorded' /\ closed \subseteq closed'
    BY <2>1
  <2>4. recorded' \subseteq Orders /\ closed' \subseteq recorded' \cap Closing
    BY <2>1
  <2>5. tagged' = tagged
    <3>1. \A o \in Orders : rows'[o].tagged => Exists(o)'
      BY <2>1, <2>2
    <3>2. ASSUME NEW o \in Orders
          PROVE  (Exists(o)' /\ rows'[o].tagged) <=> (Exists(o) /\ rows[o].tagged)
      BY <2>1, <2>2, <3>1
    <3> QED BY <3>2
  <2>6. Contract!Record
    BY <2>3, <2>4, <2>5 DEF Contract!Record
  <2> QED BY <2>6 DEF Contract!Next
<1>3. CASE \E o \in Orders : TagTrade(o)
  <2>1. PICK o \in Orders : TagTrade(o)
    BY <1>3
  <2>2. rows' = [rows EXCEPT ![o] = [rows[o] EXCEPT !.tagged = TRUE]]
    BY <2>1 DEF TagTrade
  <2>3. rows \in [Orders -> Row] /\ rows[o] \in Row /\ Exists(o) /\ rows[o].closed
    BY <2>1 DEF IInv, TypeOK, TagTrade, Taggable, Exists
  <2>4. \A x \in Orders : /\ rows'[x].quantity = rows[x].quantity
                          /\ rows'[x].closed = rows[x].closed
                          /\ x # o => rows'[x].tagged = rows[x].tagged
    BY <2>2, <2>3 DEF Row
  <2>5. rows'[o].tagged
    BY <2>2, <2>3 DEF Row
  <2>6. recorded' = recorded /\ closed' = closed
    BY <2>4 DEF Exists
  <2>7. tagged' = tagged \cup {o} /\ o \in closed
    BY <2>3, <2>4, <2>5 DEF Exists
  <2>8. Contract!Tag
    BY <2>6, <2>7 DEF Contract!Tag
  <2> QED BY <2>8 DEF Contract!Next
<1> QED BY <1>1, <1>2, <1>3

\* The writers together implement TradeContract: rows, closes and tags only come.
THEOREM LedgerImplementsContract == Spec => ContractSpec
<1>1. AllInv /\ [Next]_vars => [Contract!Next]_(Contract!vars)
  BY ContractStep DEF AllInv
<1> QED BY <1>1, ContractInit, Invariance, PTL DEF Spec, ContractSpec, Contract!Spec
==============================================================================
