--------------------------- MODULE PeriodSettlement ---------------------------
(***************************************************************************)
(* A period between being open and being settled: concurrent close and     *)
(* apply-settlement-plan requests (app/services/period.py,                 *)
(* app/services/settlement.py), each in a database session of its own,     *)
(* while other requests write the transactions of the period.              *)
(*                                                                         *)
(* A request is a sequence of awaits, and every statement it sends is a    *)
(* step.  The data is abstracted to what a settlement can get wrong:       *)
(* a transaction is the number of the write that produced its current row  *)
(* and share rows, and what a settlement is based on is the number of the  *)
(* write each of its reads has seen.                                       *)
(*                                                                         *)
(* The database is one of the two the configuration supports:              *)
(*   postgresql  an apply runs in a SERIALIZABLE session, so its reads see *)
(*               one snapshot and its UPDATE of the period row fails when  *)
(*               the row has been updated since the snapshot;              *)
(*   sqlite      the driver opens a transaction at the first INSERT or     *)
(*               UPDATE, so a SELECT before it sees what is committed when *)
(*               it runs, and the transaction holds the one write lock of  *)
(*               the database until it ends.                               *)
(*                                                                         *)
(* The transactions are expenses.  A deposit or a refund is read by the    *)
(* list of transactions alone: it is an expense whose reads fall together. *)
(***************************************************************************)
EXTENDS Integers, FiniteSets, FiniteSetsExt

CONSTANTS
  Backends,    \* the databases to consider
  Closers,     \* close requests
  Appliers,    \* apply-settlement-plan requests
  TxnIds,      \* ids of transactions
  MaxWrites,   \* bound: writes of transactions
  MaxRenames,  \* bound: updates of the name of the period
  Nobody       \* no request holds the lock

Requests == Closers \cup Appliers

ASSUME BackendsAssumption == Backends \subseteq {"postgresql", "sqlite"}
ASSUME RequestsAssumption == Closers \cap Appliers = {} /\ Nobody \notin Requests
ASSUME TxnIdsAssumption   == TxnIds \subseteq Nat \ {0}
ASSUME BoundsAssumption   == MaxWrites \in Nat /\ MaxRenames \in Nat

VARIABLES
  backend,   \* the database of this deployment
  period,    \* the committed row: status, end_date and closed_at (set or not), version
  txns,      \* txns[t]: 0 no such row, k > 0 as write k left it, -k deleted, with
             \* the share rows of write k left behind
  writes,    \* number of writes of transactions
  renames,   \* number of updates of the name
  lock,      \* the request whose uncommitted writes block the others, or Nobody
  pc,        \* pc[r]: the next statement of request r
  seen,      \* seen[r]: the period row as r has loaded it
  snap,      \* snap[r]: txns when r's snapshot was taken (postgresql)
  basis,     \* basis[r][t]: the write each of r's reads of t has seen
  transfers, \* transfers[r]: whether r's plan has transfers
  closings,  \* history: how many times the period has become closed
  paid,      \* history: how many batches of settlement rows are committed
  tables     \* history: the values of txns since the period was last closed

requestVars == << pc, seen, snap, basis, transfers >>
historyVars == << closings, paid, tables >>
vars == << backend, period, txns, writes, renames, lock, requestVars, historyVars >>

NoRow     == [list |-> 0, row |-> 0, shares |-> 0]
NotLoaded == [status |-> "open", end_date |-> FALSE, closed_at |-> FALSE, version |-> 0]

\* seeded fault: a share row left behind is taken for one of a live transaction
SignKept(x) == x
Magnitude(x) == IF x < 0 THEN -x ELSE x

Init ==
  /\ backend \in Backends
  /\ period = NotLoaded
  /\ txns = [t \in TxnIds |-> 0]
  /\ writes = 0
  /\ renames = 0
  /\ lock = Nobody
  /\ pc = [r \in Requests |-> "start"]
  /\ seen = [r \in Requests |-> NotLoaded]
  /\ snap = [r \in Requests |-> [t \in TxnIds |-> 0]]
  /\ basis = [r \in Requests |-> [t \in TxnIds |-> NoRow]]
  /\ transfers = [r \in Requests |-> FALSE]
  /\ closings = 0
  /\ paid = 0
  /\ tables = {}

-----------------------------------------------------------------------------
(* Requests that write the transactions of the period, or its name *)

\* Rows of settlements or of the period that are not committed block a writer
\* of another table only when the lock is that of the whole database.
CanWrite == backend = "sqlite" => lock = Nobody

\* history: the tables of a closed period
Remember == tables' = IF period.status = "closed" THEN tables \cup {txns'} ELSE tables

Write(t, stamp) ==
  /\ writes < MaxWrites
  /\ CanWrite
  /\ txns' = [txns EXCEPT ![t] = stamp]
  /\ writes' = writes + 1
  /\ Remember
  /\ UNCHANGED << backend, period, renames, lock, requestVars, closings, paid >>

\* The service never looks at the status of the period.  The id is the next
\* one after the largest in use.
CreateTransaction(t) ==
  /\ t = 1 + Max({0} \cup {u \in TxnIds : txns[u] > 0})
  /\ Write(t, writes + 1)

UpdateTransaction(t) == txns[t] > 0 /\ Write(t, writes + 1)

\* The bulk DELETE leaves the share rows, which the foreign key of postgresql
\* refuses and sqlite, with foreign keys off, does not.
DeleteTransaction(t) ==
  /\ backend = "sqlite"
  /\ txns[t] > 0
  /\ Write(t, -txns[t])

\* update_period_name, whose UPDATE and COMMIT are one step here
UpdatePeriodName ==
  /\ renames < MaxRenames
  /\ lock = Nobody
  /\ period' = [period EXCEPT !.version = @ + 1]
  /\ renames' = renames + 1
  /\ UNCHANGED << backend, txns, writes, lock, requestVars, historyVars >>

-----------------------------------------------------------------------------
(* close_period *)

GoTo(r, label) == pc' = [pc EXCEPT ![r] = label]

\* seeded fault: the session is not closed, and its lock stays
EndKeepsLock(r, label) ==
  /\ GoTo(r, label)
  /\ seen' = [seen EXCEPT ![r] = NotLoaded]
  /\ snap' = [snap EXCEPT ![r] = [t \in TxnIds |-> 0]]
  /\ basis' = [basis EXCEPT ![r] = [t \in TxnIds |-> NoRow]]
  /\ transfers' = [transfers EXCEPT ![r] = FALSE]
  /\ UNCHANGED lock

\* the end of a request, by a commit or a rollback: its lock is released, and
\* its session and what it has read are gone
End(r, label) ==
  /\ GoTo(r, label)
  /\ lock' = IF lock = r THEN Nobody ELSE lock
  /\ seen' = [seen EXCEPT ![r] = NotLoaded]
  /\ snap' = [snap EXCEPT ![r] = [t \in TxnIds |-> 0]]
  /\ basis' = [basis EXCEPT ![r] = [t \in TxnIds |-> NoRow]]
  /\ transfers' = [transfers EXCEPT ![r] = FALSE]

LoadPeriodToClose(r) ==
  /\ pc[r] = "start"
  /\ seen' = [seen EXCEPT ![r] = period]
  /\ GoTo(r, "flush_close")
  /\ UNCHANGED << backend, period, txns, writes, renames, lock, snap, basis, transfers, historyVars >>

\* the UPDATE: it waits for the uncommitted write of another request
FlushClose(r) ==
  /\ pc[r] = "flush_close"
  /\ lock = Nobody
  /\ lock' = r
  /\ GoTo(r, "commit_close")
  /\ UNCHANGED << backend, period, txns, writes, renames, seen, snap, basis, transfers, historyVars >>

\* seeded fault: the end date is taken from what was loaded
CloseRowOverwrites(row, loaded) ==
  [status    |-> IF loaded.status = "closed" THEN row.status ELSE "closed",
   end_date  |-> ~loaded.end_date,
   closed_at |-> TRUE,
   version   |-> row.version + 1]
\* The UPDATE has the columns whose value differs from the one loaded: the
\* status only when it was not closed, the end date only when there was none.
CloseRow(row, loaded) ==
  [status    |-> IF loaded.status = "closed" THEN row.status ELSE "closed",
   end_date  |-> row.end_date \/ ~loaded.end_date,
   closed_at |-> TRUE,
   version   |-> row.version + 1]

CommitClose(r) ==
  /\ pc[r] = "commit_close"
  /\ period' = CloseRow(period, seen[r])
  /\ End(r, "done")
  /\ IF period.status # "closed" /\ period'.status = "closed"
       THEN closings' = closings + 1 /\ tables' = {txns}
       ELSE UNCHANGED << closings, tables >>
  /\ UNCHANGED << backend, txns, writes, renames, paid >>

-----------------------------------------------------------------------------
(* apply_settlement_plan *)

\* what a SELECT of r on the transactions sees
View(r) == IF backend = "postgresql" THEN snap[r] ELSE txns

\* get_settlement_plan: the period must be closed.  This is the first
\* statement of the session, the one that takes the snapshot.
ReadPeriod(r) ==
  /\ pc[r] = "start"
  /\ IF period.status = "closed"
       THEN /\ seen' = [seen EXCEPT ![r] = period]
            /\ snap' = [snap EXCEPT ![r] = IF backend = "postgresql" THEN txns ELSE @]
            /\ GoTo(r, "read_list")
            /\ UNCHANGED << lock, basis, transfers >>
       ELSE End(r, "failed")
  /\ UNCHANGED << backend, period, txns, writes, renames, historyVars >>

\* get_all_balances: the list has the payer and the amount of each transaction
ReadTransactions(r) ==
  /\ pc[r] = "read_list"
  /\ basis' = [basis EXCEPT ![r] =
                 [t \in TxnIds |-> IF View(r)[t] > 0 THEN [NoRow EXCEPT !.list = View(r)[t]]
                                                     ELSE NoRow]]
  /\ GoTo(r, "read_shares")
  /\ UNCHANGED << backend, period, txns, writes, renames, lock, seen, snap, transfers, historyVars >>

\* the listed transactions whose shares are not calculated yet
ToRead(r) == {t \in TxnIds : basis[r][t].list > 0 /\ basis[r][t].shares = 0}

\* the one the loop over the list is at
IsNext(r, t) == t \in ToRead(r) /\ \A u \in ToRead(r) : t <= u

\* _calculate_shares_for_transaction reads the row again ...
ReadTransaction(r, t) ==
  /\ pc[r] = "read_shares"
  /\ IsNext(r, t) /\ basis[r][t].row = 0
  /\ IF View(r)[t] > 0
       THEN /\ basis' = [basis EXCEPT ![r][t].row = View(r)[t]]
            /\ UNCHANGED << lock, pc, seen, snap, transfers >>
       ELSE End(r, "failed")
  /\ UNCHANGED << backend, period, txns, writes, renames, historyVars >>

\* ... and then its share rows, with a SELECT of their own
ReadShares(r, t) ==
  /\ pc[r] = "read_shares"
  /\ IsNext(r, t) /\ basis[r][t].row # 0
  /\ basis' = [basis EXCEPT ![r][t].shares = Magnitude(View(r)[t])]
  /\ UNCHANGED << backend, period, txns, writes, renames, lock, pc, seen, snap, transfers, historyVars >>

\* The plan is calculated from what has been read.  With no transaction there
\* is nothing to transfer; otherwise it depends on the balances.
CalculatePlan(r) ==
  /\ pc[r] = "read_shares"
  /\ ToRead(r) = {}
  /\ \E any \in IF basis[r] = [t \in TxnIds |-> NoRow] THEN {FALSE} ELSE BOOLEAN :
       /\ transfers' = [transfers EXCEPT ![r] = any]
       /\ GoTo(r, IF any THEN "create_settlements" ELSE "settle_period")
  /\ UNCHANGED << backend, period, txns, writes, renames, lock, seen, snap, basis, historyVars >>

\* create_settlement for each transfer; the first INSERT starts the
\* transaction of sqlite and takes its lock
CreateSettlements(r) ==
  /\ pc[r] = "create_settlements"
  /\ IF backend = "sqlite" THEN lock = Nobody /\ lock' = r ELSE UNCHANGED lock
  /\ GoTo(r, "settle_period")
  /\ UNCHANGED << backend, period, txns, writes, renames, seen, snap, basis, transfers, historyVars >>

\* seeded fault: the period is not checked again
SettlePeriodUnchecked(r) ==
  /\ pc[r] = "settle_period"
  /\ GoTo(r, "flush_settled")
  /\ UNCHANGED << seen, snap, basis, transfers >>
  /\ UNCHANGED << backend, period, txns, writes, renames, lock, historyVars >>

\* settle_period loads the period and checks it again
SettlePeriod(r) ==
  /\ pc[r] = "settle_period"
  /\ LET status == IF backend = "postgresql" THEN seen[r].status ELSE period.status
     IN  IF status = "closed"
           THEN GoTo(r, "flush_settled") /\ UNCHANGED << lock, seen, snap, basis, transfers >>
           ELSE End(r, "failed")
  /\ UNCHANGED << backend, period, txns, writes, renames, historyVars >>

\* seeded fault: the UPDATE overwrites a row updated since the snapshot
NoConflict(r) == TRUE
\* a SERIALIZABLE transaction of postgresql cannot update a row that has been
\* updated since its snapshot; sqlite has no such check
RowUnchanged(r) == backend = "postgresql" => seen[r].version = period.version

\* seeded fault: the UPDATE does not wait for the lock
FlushSettledAtOnce(r) ==
  /\ pc[r] = "flush_settled"
  /\ IF RowUnchanged(r)
       THEN lock' = r /\ GoTo(r, "commit_settled") /\ UNCHANGED << seen, snap, basis, transfers >>
       ELSE End(r, "failed")
  /\ UNCHANGED << backend, period, txns, writes, renames, historyVars >>

\* the UPDATE of the status: it waits for the uncommitted write of another
\* request, and a conflict rolls everything back
FlushSettled(r) ==
  /\ pc[r] = "flush_settled"
  /\ lock \in {Nobody, r}
  /\ IF RowUnchanged(r)
       THEN lock' = r /\ GoTo(r, "commit_settled") /\ UNCHANGED << seen, snap, basis, transfers >>
       ELSE End(r, "failed")
  /\ UNCHANGED << backend, period, txns, writes, renames, historyVars >>

\* the commit: the settlements and the status appear together
CommitSettled(r) ==
  /\ pc[r] = "commit_settled"
  /\ period' = [period EXCEPT !.status = "settled", !.version = @ + 1]
  /\ paid' = IF transfers[r] THEN paid + 1 ELSE paid
  /\ tables' = {}
  /\ End(r, "done")
  /\ UNCHANGED << backend, txns, writes, renames, closings >>

-----------------------------------------------------------------------------

Active(r) == pc[r] \notin {"done", "failed"}

\* Anything else that ends a request: an error of the database, a user that is
\* not found, a crash of the process.  The session rolls back.
Fail(r) ==
  /\ Active(r)
  /\ End(r, "failed")
  /\ UNCHANGED << backend, period, txns, writes, renames, historyVars >>

ClosePeriod(r) == LoadPeriodToClose(r) \/ FlushClose(r) \/ CommitClose(r)

ApplySettlementPlan(r) ==
  \/ ReadPeriod(r)
  \/ ReadTransactions(r)
  \/ \E t \in TxnIds : ReadTransaction(r, t) \/ ReadShares(r, t)
  \/ CalculatePlan(r)
  \/ CreateSettlements(r)
  \/ SettlePeriod(r)
  \/ FlushSettled(r)
  \/ CommitSettled(r)

OtherRequests ==
  \/ \E t \in TxnIds : CreateTransaction(t) \/ UpdateTransaction(t) \/ DeleteTransaction(t)
  \/ UpdatePeriodName

\* every request has been answered
Answered == (\A r \in Requests : ~Active(r)) /\ UNCHANGED vars

Next ==
  \/ \E r \in Closers : ClosePeriod(r)
  \/ \E r \in Appliers : ApplySettlementPlan(r)
  \/ \E r \in Requests : Fail(r)
  \/ OtherRequests
  \/ Answered

SafeSpec == Init /\ [][Next]_vars

\* The event loop runs every request to its end; nothing obliges anybody to
\* write transactions, and nothing obliges a request to fail.
Spec ==
  /\ SafeSpec
  /\ \A r \in Closers : WF_vars(ClosePeriod(r))
  /\ \A r \in Appliers : WF_vars(ApplySettlementPlan(r))

-----------------------------------------------------------------------------
(* Properties *)

Statuses == {"open", "closed", "settled"}
Rows     == [status : Statuses, end_date : BOOLEAN, closed_at : BOOLEAN, version : Nat]
Labels   == {"start", "flush_close", "commit_close", "read_list", "read_shares",
             "create_settlements", "settle_period", "flush_settled", "commit_settled",
             "done", "failed"}

\* The committed row is a row of the table, what a request has read is a write
\* that took place, and a request holds the lock only between its first
\* UPDATE or INSERT and its end.
TypeOK ==
  /\ backend \in {"postgresql", "sqlite"}
  /\ period \in Rows
  /\ txns \in [TxnIds -> Int]
  /\ writes \in Nat /\ renames \in Nat
  /\ lock \in Requests \cup {Nobody}
  /\ pc \in [Requests -> Labels]
  /\ seen \in [Requests -> Rows]
  /\ snap \in [Requests -> [TxnIds -> Int]]
  /\ basis \in [Requests -> [TxnIds -> [list : Nat, row : Nat, shares : Nat]]]
  /\ transfers \in [Requests -> BOOLEAN]
  /\ closings \in Nat /\ paid \in Nat
  /\ tables \subseteq [TxnIds -> Int]

\* However close and apply requests interleave, no more batches of settlements
\* are recorded than the period has been closed times, and none while a closing
\* is still waiting to be settled: nobody is made to pay twice for one closing.
OneBatchPerClosing ==
  paid + (IF period.status = "closed" THEN 1 ELSE 0) <= closings

\* what three reads at one moment see of a table
ReadAtOnce(table) ==
  [t \in TxnIds |-> IF table[t] > 0 THEN [list |-> table[t], row |-> table[t], shares |-> table[t]]
                                   ELSE NoRow]

\* the batch that a step commits is based on one of the values the table of
\* transactions has had since the period was last closed
BatchFromOneTable ==
  \E r \in Appliers, table \in tables :
    pc[r] = "commit_settled" /\ pc'[r] = "done" /\ basis[r] = ReadAtOnce(table)

\* On postgresql, whatever is written in the meantime, the balances a batch
\* settles are those of the period at one moment since it was last closed.
SettlesASnapshot ==
  [][backend = "postgresql" /\ paid' # paid => BatchFromOneTable]_vars

\* A period that is closed or settled has its end date and its closing time,
\* though close requests that overlap write only what differs from what each
\* of them has loaded.
ClosedHasDates ==
  period.status # "open" => period.end_date /\ period.closed_at

Lifecycle == INSTANCE PeriodLifecycle WITH status <- period.status

\* The requests together implement the abstract life of a period: settlement
\* rows appear only in the step that turns it from closed to settled.
ImplementsLifecycle == Lifecycle!Spec

\* Every request is answered: no two wait for each other's lock, and none waits
\* for a lock that a failed one has kept.
RequestsAnswered == <>(\A r \in Requests : ~Active(r))

-----------------------------------------------------------------------------
(* What the documentation says, each checked by a run of its own *)

\* PeriodStatus.SETTLED: "Final immutable state indicating all outstanding
\* balances have been paid. This status cannot be changed once set."
SettledIsFinal == [][period.status = "settled" => period'.status = "settled"]_vars

\* get_serializable_session, "database sessions with SERIALIZABLE isolation
\* level", and apply_settlement_plan: "a session with SERIALIZABLE isolation
\* level for critical financial operations".
SettlesASnapshotAnywhere == [][paid' # paid => BatchFromOneTable]_vars
=============================================================================
