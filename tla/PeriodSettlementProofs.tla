------------------------ MODULE PeriodSettlementProofs ------------------------
(***************************************************************************)
(* Theorems about PeriodSettlement, for every set of requests and every    *)
(* number of transactions.                                                 *)
(*                                                                         *)
(* The argument: an UPDATE of the period row is committed only by the      *)
(* request that holds the lock (LockDiscipline).  On sqlite a request that *)
(* has inserted settlements holds it from then on, so what settle_period   *)
(* checks under it stays true; on postgresql the version of the row that   *)
(* FlushSettled compares has not changed since the snapshot.  Either way   *)
(* the period is closed when the settlements are committed (StillClosed).  *)
(***************************************************************************)
EXTENDS PeriodSettlement, TLAPS

(* The inductive invariant *)

HoldsLock(r) ==
  \/ pc[r] \in {"commit_close", "commit_settled"}
  \/ /\ backend = "sqlite" /\ transfers[r]
     /\ pc[r] \in {"settle_period", "flush_settled"}

LockDiscipline == \A r \in Requests : HoldsLock(r) => lock = r

Applying == {"read_list", "read_shares", "create_settlements", "settle_period",
             "flush_settled", "commit_settled"}

\* on postgresql: the row r has loaded is a closed one, and while the row has
\* that version the period is closed and its tables include r's snapshot
SnapshotStands(r) ==
  /\ seen[r].status = "closed"
  /\ seen[r].version <= period.version
  /\ seen[r].version = period.version => period.status = "closed" /\ snap[r] \in tables
  /\ pc[r] = "commit_settled" => seen[r].version = period.version

StillClosed ==
  \A r \in Requests :
    pc[r] \in Applying =>
      /\ period.status # "open"
      /\ backend = "postgresql" => SnapshotStands(r)
      /\ backend = "sqlite" /\ transfers[r] /\ pc[r] \in {"flush_settled", "commit_settled"}
           => period.status = "closed"

\* what r has read so far is what its snapshot has
ReadFrom(table, t, b) ==
  /\ b.list = IF table[t] > 0 THEN table[t] ELSE 0
  /\ b.row \in {0, b.list}
  /\ b.shares # 0 => b.shares = b.list /\ b.row = b.list

BasisFromSnapshot ==
  \A r \in Requests :
    (backend = "postgresql" /\ pc[r] \in Applying \ {"read_list"}) =>
      \A t \in TxnIds :
        /\ ReadFrom(snap[r], t, basis[r][t])
        /\ pc[r] # "read_shares" => basis[r][t].shares = basis[r][t].list

DatesKept ==
  /\ \A r \in Requests : seen[r].end_date => period.end_date
  /\ ClosedHasDates

\* the table a closed period has is one of the tables it has had
TablesCurrent == period.status = "closed" => txns \in tables

IInv ==
  /\ TypeOK
  /\ TablesCurrent
  /\ LockDiscipline
  /\ StillClosed
  /\ BasisFromSnapshot
  /\ DatesKept
  /\ OneBatchPerClosing

USE DEF Requests, HoldsLock, Applying

-----------------------------------------------------------------------------
(* The steps that load, and the ends *)

\* A commit or rollback of a request that writes nothing leaves the others as they are.
LEMMA EndPreserves ==
  ASSUME IInv, NEW r \in Requests, NEW label \in {"done", "failed"}, End(r, label),
         UNCHANGED << backend, period, txns, writes, renames, historyVars >>
  PROVE  IInv'
<1>1. TypeOK'
  BY DEF IInv, TypeOK, End, GoTo, historyVars, Labels, Rows, Statuses, NotLoaded, NoRow
<1>2. LockDiscipline'
  BY RequestsAssumption DEF IInv, TypeOK, LockDiscipline, End, GoTo, historyVars
<1>3. StillClosed'
  BY DEF IInv, TypeOK, StillClosed, SnapshotStands, End, GoTo, historyVars
<1>4. BasisFromSnapshot'
  BY DEF IInv, TypeOK, BasisFromSnapshot, ReadFrom, End, GoTo, historyVars
<1>5. DatesKept' /\ OneBatchPerClosing' /\ TablesCurrent'
  BY DEF IInv, TypeOK, DatesKept, ClosedHasDates, OneBatchPerClosing, TablesCurrent, End, GoTo, historyVars, NotLoaded
<1>6. QED
  BY <1>1, <1>2, <1>3, <1>4, <1>5 DEF IInv

\* A write of a transaction is remembered among the tables of a closed period.
LEMMA WritePreserves ==
  ASSUME IInv, NEW t \in TxnIds, NEW stamp \in Int, Write(t, stamp)
  PROVE  IInv'
<1>1. /\ UNCHANGED << backend, period, renames, lock, pc, seen, snap, basis, transfers, closings, paid >>
      /\ txns' = [txns EXCEPT ![t] = stamp]
      /\ tables' = IF period.status = "closed" THEN tables \cup {txns'} ELSE tables
  BY DEF Write, Remember, requestVars
<1>2. txns' \in [TxnIds -> Int]
  BY <1>1 DEF IInv, TypeOK
<1>3. tables' \subseteq [TxnIds -> Int] /\ tables \subseteq tables'
  BY <1>1, <1>2 DEF IInv, TypeOK
<1>4. TypeOK'
  BY <1>1, <1>2, <1>3 DEF IInv, TypeOK, Write
<1>5. LockDiscipline'
  BY <1>1 DEF IInv, LockDiscipline
<1>6. StillClosed'
  BY <1>1, <1>3 DEF IInv, StillClosed, SnapshotStands
<1>7. BasisFromSnapshot'
  BY <1>1 DEF IInv, BasisFromSnapshot, ReadFrom
<1>8. DatesKept' /\ OneBatchPerClosing' /\ TablesCurrent'
  BY <1>1 DEF IInv, DatesKept, ClosedHasDates, OneBatchPerClosing, TablesCurrent
<1>9. QED
  BY <1>4, <1>5, <1>6, <1>7, <1>8 DEF IInv

\* A new name changes the version alone, and nobody holds the lock then.
LEMMA RenamePreserves ==
  ASSUME IInv, UpdatePeriodName
  PROVE  IInv'
<1>1. /\ lock = Nobody /\ renames' = renames + 1
      /\ UNCHANGED << backend, txns, writes, lock, pc, seen, snap, basis, transfers, historyVars >>
      /\ period' = [period EXCEPT !.version = @ + 1]
  BY DEF UpdatePeriodName, requestVars
<1>2. period \in Rows
  BY DEF IInv, TypeOK
<1>3. /\ period' \in Rows /\ period'.version = period.version + 1
      /\ period'.status = period.status /\ period'.end_date = period.end_date
      /\ period'.closed_at = period.closed_at
  BY <1>1, <1>2 DEF Rows
<1>4. TypeOK'
  BY <1>1, <1>3 DEF IInv, TypeOK, historyVars
<1>5. LockDiscipline' /\ \A q \in Requests : ~HoldsLock(q)
  BY <1>1, RequestsAssumption DEF IInv, LockDiscipline
<1>6. StillClosed'
  <2>1. ASSUME NEW q \in Requests, SnapshotStands(q), ~HoldsLock(q)
        PROVE  SnapshotStands(q)'
    <3>1. seen[q].version \in Nat /\ period.version \in Nat
      BY DEF IInv, TypeOK, Rows
    <3>2. QED
      BY <1>1, <1>3, <2>1, <3>1 DEF SnapshotStands
  <2>2. QED
    BY <1>1, <1>3, <1>5, <2>1 DEF IInv, StillClosed
<1>7. BasisFromSnapshot'
  BY <1>1 DEF IInv, BasisFromSnapshot, ReadFrom
<1>8. DatesKept' /\ OneBatchPerClosing' /\ TablesCurrent'
  BY <1>1, <1>3 DEF IInv, DatesKept, ClosedHasDates, OneBatchPerClosing, TablesCurrent, historyVars
<1>9. QED
  BY <1>4, <1>5, <1>6, <1>7, <1>8 DEF IInv

\* close_period loads the row.
LEMMA LoadPreserves ==
  ASSUME IInv, NEW r \in Closers, LoadPeriodToClose(r)
  PROVE  IInv'
<1>1. TypeOK'
  BY RequestsAssumption DEF IInv, TypeOK, LoadPeriodToClose, GoTo, historyVars, requestVars, Labels, Rows, Statuses, NoRow
<1>2. LockDiscipline'
  BY RequestsAssumption DEF IInv, TypeOK, LockDiscipline, LoadPeriodToClose, GoTo, historyVars, requestVars
<1>3. StillClosed'
  BY RequestsAssumption DEF IInv, TypeOK, StillClosed, SnapshotStands, LockDiscipline, LoadPeriodToClose, GoTo, historyVars, requestVars
<1>4. BasisFromSnapshot'
  BY DEF IInv, TypeOK, BasisFromSnapshot, ReadFrom, LoadPeriodToClose, GoTo, historyVars, requestVars
<1>5. DatesKept' /\ OneBatchPerClosing' /\ TablesCurrent'
  BY DEF IInv, TypeOK, DatesKept, ClosedHasDates, OneBatchPerClosing, TablesCurrent, LoadPeriodToClose, GoTo, historyVars, requestVars
<1>6. QED
  BY <1>1, <1>2, <1>3, <1>4, <1>5 DEF IInv

\* The UPDATE of close_period takes the lock.
LEMMA FlushClosePreserves ==
  ASSUME IInv, NEW r \in Closers, FlushClose(r)
  PROVE  IInv'
<1>1. TypeOK'
  BY RequestsAssumption DEF IInv, TypeOK, FlushClose, GoTo, historyVars, requestVars, Labels, Rows, Statuses, NoRow
<1>2. LockDiscipline'
  BY RequestsAssumption DEF IInv, TypeOK, LockDiscipline, FlushClose, GoTo, historyVars, requestVars
<1>3. StillClosed'
  BY RequestsAssumption DEF IInv, TypeOK, StillClosed, SnapshotStands, LockDiscipline, FlushClose, GoTo, historyVars, requestVars
<1>4. BasisFromSnapshot'
  BY DEF IInv, TypeOK, BasisFromSnapshot, ReadFrom, FlushClose, GoTo, historyVars, requestVars
<1>5. DatesKept' /\ OneBatchPerClosing' /\ TablesCurrent'
  BY DEF IInv, TypeOK, DatesKept, ClosedHasDates, OneBatchPerClosing, TablesCurrent, FlushClose, GoTo, historyVars, requestVars
<1>6. QED
  BY <1>1, <1>2, <1>3, <1>4, <1>5 DEF IInv

\* The commit of close_period writes what differs from what was loaded.
LEMMA CommitClosePreserves ==
  ASSUME IInv, NEW r \in Closers, CommitClose(r)
  PROVE  IInv'
<1> DEFINE becomes_closed == period.status # "closed" /\ period'.status = "closed"
<1>1. /\ pc[r] = "commit_close" /\ UNCHANGED << backend, paid, txns, writes, renames >>
      /\ period' = CloseRow(period, seen[r])
      /\ pc' = [pc EXCEPT ![r] = "done"]
      /\ lock' = IF lock = r THEN Nobody ELSE lock
      /\ seen' = [seen EXCEPT ![r] = NotLoaded]
      /\ snap' = [snap EXCEPT ![r] = [t \in TxnIds |-> 0]]
      /\ basis' = [basis EXCEPT ![r] = [t \in TxnIds |-> NoRow]]
      /\ transfers' = [transfers EXCEPT ![r] = FALSE]
      /\ closings' = IF becomes_closed THEN closings + 1 ELSE closings
      /\ tables' = IF becomes_closed THEN {txns} ELSE tables
  BY DEF CommitClose, End, GoTo
<1>2. /\ period' \in Rows
      /\ period'.status \in {"closed", period.status}
      /\ period'.version = period.version + 1
      /\ period'.end_date = (period.end_date \/ ~seen[r].end_date)
      /\ period'.closed_at
  <2>1. period \in Rows /\ seen[r] \in Rows
    BY DEF IInv, TypeOK
  <2>2. QED
    BY <1>1, <2>1 DEF CloseRow, Rows, Statuses
<1>3. TypeOK'
  BY <1>1, <1>2, RequestsAssumption DEF IInv, TypeOK, Labels, Rows, Statuses, NotLoaded, NoRow
<1>4. LockDiscipline' /\ \A q \in Requests : q # r => ~HoldsLock(q)
  BY <1>1, RequestsAssumption DEF IInv, TypeOK, LockDiscipline
<1>5. StillClosed'
  <2> SUFFICES ASSUME NEW q \in Requests, (pc[q] \in Applying)'
               PROVE  /\ period'.status # "open"
                      /\ backend = "postgresql" => SnapshotStands(q)'
                      /\ (/\ backend = "sqlite" /\ transfers[q]
                          /\ pc[q] \in {"flush_settled", "commit_settled"}
                          => period.status = "closed")'
    BY <1>1 DEF StillClosed
  <2>1. q # r /\ pc'[q] = pc[q] /\ seen'[q] = seen[q] /\ snap'[q] = snap[q]
        /\ transfers'[q] = transfers[q]
    BY <1>1 DEF IInv, TypeOK
  <2>2. period.status # "open" /\ ~HoldsLock(q)
        /\ (backend = "postgresql" => SnapshotStands(q))
    BY <1>4, <2>1 DEF IInv, StillClosed
  <2>3. backend = "postgresql" => SnapshotStands(q)'
    BY <1>1, <1>2, <2>1, <2>2 DEF SnapshotStands, IInv, TypeOK, Rows
  <2>4. QED
    BY <1>1, <1>2, <2>1, <2>2, <2>3
<1>6. BasisFromSnapshot'
  BY <1>1 DEF IInv, TypeOK, BasisFromSnapshot, ReadFrom
<1>7. DatesKept' /\ TablesCurrent'
  BY <1>1, <1>2 DEF IInv, TypeOK, DatesKept, ClosedHasDates, NotLoaded, Rows, TablesCurrent
<1>8. OneBatchPerClosing'
  BY <1>1, <1>2 DEF IInv, TypeOK, OneBatchPerClosing
<1>9. QED
  BY <1>3, <1>4, <1>5, <1>6, <1>7, <1>8 DEF IInv

\* The first statement of an apply finds the period closed and takes the snapshot.
LEMMA ReadPeriodPreserves ==
  ASSUME IInv, NEW r \in Appliers, ReadPeriod(r), period.status = "closed"
  PROVE  IInv'
<1>1. /\ pc[r] = "start"
      /\ UNCHANGED << backend, period, txns, writes, renames, lock, basis, transfers, historyVars >>
      /\ seen' = [seen EXCEPT ![r] = period]
      /\ snap' = [snap EXCEPT ![r] = IF backend = "postgresql" THEN txns ELSE @]
      /\ pc' = [pc EXCEPT ![r] = "read_list"]
  BY DEF ReadPeriod, GoTo
<1>2. TypeOK'
  BY <1>1 DEF IInv, TypeOK, Labels, historyVars
<1>3. LockDiscipline'
  BY <1>1 DEF IInv, TypeOK, LockDiscipline
<1>4. StillClosed'
  <2>1. txns \in tables
    BY DEF IInv, TablesCurrent
  <2>2. period.version <= period.version
    BY DEF IInv, TypeOK, Rows
  <2>3. QED
    BY <1>1, <2>1, <2>2 DEF IInv, TypeOK, StillClosed, SnapshotStands, historyVars
<1>5. BasisFromSnapshot'
  BY <1>1 DEF IInv, TypeOK, BasisFromSnapshot, ReadFrom
<1>6. DatesKept' /\ OneBatchPerClosing' /\ TablesCurrent'
  BY <1>1 DEF IInv, TypeOK, DatesKept, ClosedHasDates, OneBatchPerClosing, TablesCurrent, historyVars
<1>7. QED
  BY <1>2, <1>3, <1>4, <1>5, <1>6 DEF IInv

\* The list of transactions is that of the snapshot.
LEMMA ReadTransactionsPreserves ==
  ASSUME IInv, NEW r \in Appliers, ReadTransactions(r)
  PROVE  IInv'
<1> DEFINE listed == [t \in TxnIds |-> IF View(r)[t] > 0 THEN [NoRow EXCEPT !.list = View(r)[t]]
                                                        ELSE NoRow]
<1>1. /\ pc[r] = "read_list"
      /\ UNCHANGED << backend, period, txns, writes, renames, lock, seen, snap, transfers, historyVars >>
      /\ basis' = [basis EXCEPT ![r] = listed]
      /\ pc' = [pc EXCEPT ![r] = "read_shares"]
  BY DEF ReadTransactions, GoTo
<1>2. View(r) \in [TxnIds -> Int]
  BY DEF View, IInv, TypeOK
<1>3. listed \in [TxnIds -> [list : Nat, row : Nat, shares : Nat]]
  BY <1>2 DEF NoRow
<1>4. TypeOK'
  BY <1>1, <1>3 DEF IInv, TypeOK, Labels, historyVars
<1>5. LockDiscipline'
  BY <1>1 DEF IInv, TypeOK, LockDiscipline
<1>6. StillClosed'
  BY <1>1 DEF IInv, TypeOK, StillClosed, SnapshotStands, historyVars
<1>7. BasisFromSnapshot'
  <2>1. ASSUME backend = "postgresql", NEW t \in TxnIds PROVE ReadFrom(snap[r], t, listed[t])
    BY <2>1, <1>2 DEF ReadFrom, View, NoRow
  <2>2. QED
    BY <1>1, <2>1 DEF IInv, TypeOK, BasisFromSnapshot, ReadFrom
<1>8. DatesKept' /\ OneBatchPerClosing' /\ TablesCurrent'
  BY <1>1 DEF IInv, TypeOK, DatesKept, ClosedHasDates, OneBatchPerClosing, TablesCurrent, historyVars
<1>9. QED
  BY <1>4, <1>5, <1>6, <1>7, <1>8 DEF IInv

\* So is a row that is read again.
LEMMA ReadTransactionPreserves ==
  ASSUME IInv, NEW r \in Appliers, NEW t \in TxnIds, ReadTransaction(r, t), View(r)[t] > 0
  PROVE  IInv'
<1>1. /\ pc[r] = "read_shares"
      /\ UNCHANGED << backend, period, txns, writes, renames, lock, pc, seen, snap, transfers, historyVars >>
      /\ basis' = [basis EXCEPT ![r][t].row = View(r)[t]]
      /\ basis[r][t].list > 0 /\ basis[r][t].shares = 0 /\ basis[r][t].row = 0
  BY DEF ReadTransaction, IsNext, ToRead
<1>2. View(r) \in [TxnIds -> Int] /\ basis[r][t] \in [list : Nat, row : Nat, shares : Nat]
  BY DEF View, IInv, TypeOK
<1>3. View(r)[t] \in Nat
  BY <1>2 DEF Magnitude
<1>4. [basis[r][t] EXCEPT !.row = View(r)[t]] \in [list : Nat, row : Nat, shares : Nat]
  BY <1>2, <1>3
<1>5. basis' = [basis EXCEPT ![r] = [basis[r] EXCEPT ![t] = [basis[r][t] EXCEPT !.row = View(r)[t]]]]
  BY <1>1 DEF IInv, TypeOK
<1>6. TypeOK'
  BY <1>1, <1>4, <1>5 DEF IInv, TypeOK, historyVars
<1>7. LockDiscipline'
  BY <1>1 DEF IInv, TypeOK, LockDiscipline
<1>8. StillClosed'
  BY <1>1 DEF IInv, TypeOK, StillClosed, SnapshotStands, historyVars
<1>9. BasisFromSnapshot'
  <2>1. ASSUME backend = "postgresql"
        PROVE  ReadFrom(snap[r], t, [basis[r][t] EXCEPT !.row = View(r)[t]])
    <3>1. ReadFrom(snap[r], t, basis[r][t])
      BY <1>1, <2>1 DEF IInv, BasisFromSnapshot
    <3>2. View(r) = snap[r]
      BY <2>1 DEF View
    <3>3. QED
      BY <1>1, <1>2, <3>1, <3>2 DEF ReadFrom, Magnitude
  <2>2. ASSUME NEW q \in Requests, NEW u \in TxnIds, backend = "postgresql",
               pc[q] \in Applying \ {"read_list"}
        PROVE  ReadFrom(snap[q], u, basis'[q][u])
               /\ (pc[q] # "read_shares" => basis'[q][u].shares = basis'[q][u].list)
    <3>1. ReadFrom(snap[q], u, basis[q][u])
          /\ (pc[q] # "read_shares" => basis[q][u].shares = basis[q][u].list)
      BY <2>2 DEF IInv, BasisFromSnapshot
    <3>2. CASE q = r /\ u = t
      <4>1. basis'[r][t] = [basis[r][t] EXCEPT !.row = View(r)[t]]
        BY <1>5 DEF IInv, TypeOK
      <4>2. QED
        BY <1>1, <2>1, <2>2, <3>2, <4>1
    <3>3. CASE ~(q = r /\ u = t)
      <4>1. basis'[q][u] = basis[q][u]
        BY <1>5, <3>3 DEF IInv, TypeOK
      <4>2. QED
        BY <3>1, <4>1
    <3>4. QED
      BY <3>2, <3>3
  <2>3. QED
    BY <1>1, <2>2 DEF BasisFromSnapshot, ReadFrom
<1>10. DatesKept' /\ OneBatchPerClosing' /\ TablesCurrent'
  BY <1>1 DEF IInv, TypeOK, DatesKept, ClosedHasDates, OneBatchPerClosing, TablesCurrent, historyVars
<1>11. QED
  BY <1>6, <1>7, <1>8, <1>9, <1>10 DEF IInv

\* So are the share rows.
LEMMA ReadSharesPreserves ==
  ASSUME IInv, NEW r \in Appliers, NEW t \in TxnIds, ReadShares(r, t)
  PROVE  IInv'
<1>1. /\ pc[r] = "read_shares"
      /\ UNCHANGED << backend, period, txns, writes, renames, lock, pc, seen, snap, transfers, historyVars >>
      /\ basis' = [basis EXCEPT ![r][t].shares = Magnitude(View(r)[t])]
      /\ basis[r][t].list > 0 /\ basis[r][t].shares = 0 /\ basis[r][t].row # 0
  BY DEF ReadShares, IsNext, ToRead
<1>2. View(r) \in [TxnIds -> Int] /\ basis[r][t] \in [list : Nat, row : Nat, shares : Nat]
  BY DEF View, IInv, TypeOK
<1>3. Magnitude(View(r)[t]) \in Nat
  BY <1>2 DEF Magnitude
<1>4. [basis[r][t] EXCEPT !.shares = Magnitude(View(r)[t])] \in [list : Nat, row : Nat, shares : Nat]
  BY <1>2, <1>3
<1>5. basis' = [basis EXCEPT ![r] = [basis[r] EXCEPT ![t] = [basis[r][t] EXCEPT !.shares = Magnitude(View(r)[t])]]]
  BY <1>1 DEF IInv, TypeOK
<1>6. TypeOK'
  BY <1>1, <1>4, <1>5 DEF IInv, TypeOK, historyVars
<1>7. LockDiscipline'
  BY <1>1 DEF IInv, TypeOK, LockDiscipline
<1>8. StillClosed'
  BY <1>1 DEF IInv, TypeOK, StillClosed, SnapshotStands, historyVars
<1>9. BasisFromSnapshot'
  <2>1. ASSUME backend = "postgresql"
        PROVE  ReadFrom(snap[r], t, [basis[r][t] EXCEPT !.shares = Magnitude(View(r)[t])])
    <3>1. ReadFrom(snap[r], t, basis[r][t])
      BY <1>1, <2>1 DEF IInv, BasisFromSnapshot
    <3>2. View(r) = snap[r]
      BY <2>1 DEF View
    <3>3. QED
      BY <1>1, <1>2, <3>1, <3>2 DEF ReadFrom, Magnitude
  <2>2. ASSUME NEW q \in Requests, NEW u \in TxnIds, backend = "postgresql",
               pc[q] \in Applying \ {"read_list"}
        PROVE  ReadFrom(snap[q], u, basis'[q][u])
               /\ (pc[q] # "read_shares" => basis'[q][u].shares = basis'[q][u].list)
    <3>1. ReadFrom(snap[q], u, basis[q][u])
          /\ (pc[q] # "read_shares" => basis[q][u].shares = basis[q][u].list)
      BY <2>2 DEF IInv, BasisFromSnapshot
    <3>2. CASE q = r /\ u = t
      <4>1. basis'[r][t] = [basis[r][t] EXCEPT !.shares = Magnitude(View(r)[t])]
        BY <1>5 DEF IInv, TypeOK
      <4>2. QED
        BY <1>1, <2>1, <2>2, <3>2, <4>1
    <3>3. CASE ~(q = r /\ u = t)
      <4>1. basis'[q][u] = basis[q][u]
        BY <1>5, <3>3 DEF IInv, TypeOK
      <4>2. QED
        BY <3>1, <4>1
    <3>4. QED
      BY <3>2, <3>3
  <2>3. QED
    BY <1>1, <2>2 DEF BasisFromSnapshot, ReadFrom
<1>10. DatesKept' /\ OneBatchPerClosing' /\ TablesCurrent'
  BY <1>1 DEF IInv, TypeOK, DatesKept, ClosedHasDates, OneBatchPerClosing, TablesCurrent, historyVars
<1>11. QED
  BY <1>6, <1>7, <1>8, <1>9, <1>10 DEF IInv

\* The plan is made when nothing is left to read.
LEMMA CalculatePreserves ==
  ASSUME IInv, NEW r \in Appliers, CalculatePlan(r)
  PROVE  IInv'
<1>1. TypeOK'
  BY RequestsAssumption DEF IInv, TypeOK, CalculatePlan, ToRead, GoTo, historyVars, requestVars, Labels, Rows, Statuses, NoRow
<1>2. LockDiscipline'
  BY RequestsAssumption DEF IInv, TypeOK, LockDiscipline, CalculatePlan, ToRead, GoTo, historyVars, requestVars
<1>3. StillClosed'
  BY RequestsAssumption DEF IInv, TypeOK, StillClosed, SnapshotStands, LockDiscipline, CalculatePlan, ToRead, GoTo, historyVars, requestVars
<1>4. BasisFromSnapshot'
  BY DEF IInv, TypeOK, BasisFromSnapshot, ReadFrom, CalculatePlan, ToRead, GoTo, historyVars, requestVars
<1>5. DatesKept' /\ OneBatchPerClosing' /\ TablesCurrent'
  BY DEF IInv, TypeOK, DatesKept, ClosedHasDates, OneBatchPerClosing, TablesCurrent, CalculatePlan, ToRead, GoTo, historyVars, requestVars
<1>6. QED
  BY <1>1, <1>2, <1>3, <1>4, <1>5 DEF IInv

\* On sqlite the first INSERT takes the lock.
LEMMA CreateSettlementsPreserves ==
  ASSUME IInv, NEW r \in Appliers, CreateSettlements(r)
  PROVE  IInv'
<1>1. TypeOK'
  BY RequestsAssumption DEF IInv, TypeOK, CreateSettlements, GoTo, historyVars, requestVars, Labels, Rows, Statuses, NoRow
<1>2. LockDiscipline'
  BY RequestsAssumption DEF IInv, TypeOK, LockDiscipline, CreateSettlements, GoTo, historyVars, requestVars
<1>3. StillClosed'
  BY RequestsAssumption DEF IInv, TypeOK, StillClosed, SnapshotStands, LockDiscipline, CreateSettlements, GoTo, historyVars, requestVars
<1>4. BasisFromSnapshot'
  BY DEF IInv, TypeOK, BasisFromSnapshot, ReadFrom, CreateSettlements, GoTo, historyVars, requestVars
<1>5. DatesKept' /\ OneBatchPerClosing' /\ TablesCurrent'
  BY DEF IInv, TypeOK, DatesKept, ClosedHasDates, OneBatchPerClosing, TablesCurrent, CreateSettlements, GoTo, historyVars, requestVars
<1>6. QED
  BY <1>1, <1>2, <1>3, <1>4, <1>5 DEF IInv

\* settle_period finds the period still closed.
LEMMA SettlePeriodPreserves ==
  ASSUME IInv, NEW r \in Appliers, SettlePeriod(r), pc'[r] = "flush_settled"
  PROVE  IInv'
<1>1. /\ pc[r] = "settle_period"
      /\ UNCHANGED << backend, period, txns, writes, renames, lock, seen, snap, basis, transfers, historyVars >>
      /\ pc' = [pc EXCEPT ![r] = "flush_settled"]
      /\ backend # "postgresql" => period.status = "closed"
  BY DEF SettlePeriod, End, GoTo, IInv, TypeOK
<1>2. TypeOK'
  BY <1>1 DEF IInv, TypeOK, Labels, historyVars
<1>3. LockDiscipline'
  BY <1>1 DEF IInv, TypeOK, LockDiscipline
<1>4. StillClosed'
  BY <1>1 DEF IInv, TypeOK, StillClosed, SnapshotStands, historyVars
<1>5. BasisFromSnapshot'
  BY <1>1 DEF IInv, TypeOK, BasisFromSnapshot, ReadFrom
<1>6. DatesKept' /\ OneBatchPerClosing' /\ TablesCurrent'
  BY <1>1 DEF IInv, TypeOK, DatesKept, ClosedHasDates, OneBatchPerClosing, TablesCurrent, historyVars
<1>7. QED
  BY <1>2, <1>3, <1>4, <1>5, <1>6 DEF IInv

\* The UPDATE of the status takes the lock and meets no conflict.
LEMMA FlushSettledPreserves ==
  ASSUME IInv, NEW r \in Appliers, FlushSettled(r), RowUnchanged(r)
  PROVE  IInv'
<1>1. TypeOK'
  BY RequestsAssumption DEF IInv, TypeOK, FlushSettled, RowUnchanged, GoTo, historyVars, requestVars, Labels, Rows, Statuses, NoRow
<1>2. LockDiscipline'
  BY RequestsAssumption DEF IInv, TypeOK, LockDiscipline, FlushSettled, RowUnchanged, GoTo, historyVars, requestVars
<1>3. StillClosed'
  BY RequestsAssumption DEF IInv, TypeOK, StillClosed, SnapshotStands, LockDiscipline, FlushSettled, RowUnchanged, GoTo, historyVars, requestVars
<1>4. BasisFromSnapshot'
  BY DEF IInv, TypeOK, BasisFromSnapshot, ReadFrom, FlushSettled, RowUnchanged, GoTo, historyVars, requestVars
<1>5. DatesKept' /\ OneBatchPerClosing' /\ TablesCurrent'
  BY DEF IInv, TypeOK, DatesKept, ClosedHasDates, OneBatchPerClosing, TablesCurrent, FlushSettled, RowUnchanged, GoTo, historyVars, requestVars
<1>6. QED
  BY <1>1, <1>2, <1>3, <1>4, <1>5 DEF IInv

\* The commit settles a period that is still closed.
LEMMA CommitSettledPreserves ==
  ASSUME IInv, NEW r \in Appliers, CommitSettled(r)
  PROVE  IInv'
<1>1. /\ pc[r] = "commit_settled" /\ UNCHANGED << backend, txns, writes, renames, closings >>
      /\ period' = [period EXCEPT !.status = "settled", !.version = @ + 1]
      /\ pc' = [pc EXCEPT ![r] = "done"]
      /\ lock' = IF lock = r THEN Nobody ELSE lock
      /\ seen' = [seen EXCEPT ![r] = NotLoaded]
      /\ snap' = [snap EXCEPT ![r] = [t \in TxnIds |-> 0]]
      /\ basis' = [basis EXCEPT ![r] = [t \in TxnIds |-> NoRow]]
      /\ transfers' = [transfers EXCEPT ![r] = FALSE]
      /\ paid' = IF transfers[r] THEN paid + 1 ELSE paid
      /\ tables' = {}
  BY DEF CommitSettled, End, GoTo
<1>2. /\ period' \in Rows
      /\ period'.status = "settled"
      /\ period'.version = period.version + 1
      /\ period'.end_date = period.end_date /\ period'.closed_at = period.closed_at
  <2>1. period \in Rows
    BY DEF IInv, TypeOK
  <2>2. period' = [status |-> "settled", end_date |-> period.end_date,
                   closed_at |-> period.closed_at, version |-> period.version + 1]
    BY <1>1, <2>1 DEF Rows
  <2>3. QED
    BY <2>1, <2>2 DEF Rows, Statuses
<1>3. TypeOK'
  BY <1>1, <1>2, RequestsAssumption DEF IInv, TypeOK, Labels, Rows, Statuses, NotLoaded, NoRow
<1>4. LockDiscipline' /\ \A q \in Requests : q # r => ~HoldsLock(q)
  BY <1>1, RequestsAssumption DEF IInv, TypeOK, LockDiscipline
<1>5. StillClosed'
  <2> SUFFICES ASSUME NEW q \in Requests, (pc[q] \in Applying)'
               PROVE  /\ backend = "postgresql" => SnapshotStands(q)'
                      /\ ~(/\ backend = "sqlite" /\ transfers[q]
                           /\ pc[q] \in {"flush_settled", "commit_settled"})'
    BY <1>1, <1>2 DEF StillClosed
  <2>1. q # r /\ pc'[q] = pc[q] /\ seen'[q] = seen[q] /\ snap'[q] = snap[q]
        /\ transfers'[q] = transfers[q]
    BY <1>1 DEF IInv, TypeOK
  <2>2. ~HoldsLock(q) /\ (backend = "postgresql" => SnapshotStands(q))
    BY <1>4, <2>1 DEF IInv, StillClosed
  <2>3. backend = "postgresql" => SnapshotStands(q)'
    BY <1>1, <1>2, <2>1, <2>2 DEF SnapshotStands, IInv, TypeOK, Rows
  <2>4. QED
    BY <1>1, <2>1, <2>2, <2>3
<1>6. BasisFromSnapshot'
  BY <1>1 DEF IInv, TypeOK, BasisFromSnapshot, ReadFrom
<1>7. DatesKept' /\ TablesCurrent'
  <2>1. period.status # "open"
    BY <1>1 DEF IInv, StillClosed
  <2>2. QED
    BY <1>1, <1>2, <2>1 DEF IInv, TypeOK, DatesKept, ClosedHasDates, NotLoaded, TablesCurrent
<1>8. OneBatchPerClosing'
  <2>1. transfers[r] => period.status = "closed"
    BY <1>1 DEF IInv, TypeOK, StillClosed, SnapshotStands
  <2>2. QED
    BY <1>1, <1>2, <2>1 DEF IInv, TypeOK, OneBatchPerClosing
<1>9. QED
  BY <1>3, <1>4, <1>5, <1>6, <1>7, <1>8 DEF IInv

-----------------------------------------------------------------------------
(* The whole specification *)

\* An open period and no request under way.
LEMMA InitInvariant == Init => IInv
<1> SUFFICES ASSUME Init PROVE IInv
  OBVIOUS
<1>1. TypeOK
  BY BackendsAssumption, RequestsAssumption
  DEF Init, TypeOK, Labels, Rows, Statuses, NotLoaded, NoRow
<1>2. LockDiscipline /\ StillClosed /\ BasisFromSnapshot
  BY DEF Init, LockDiscipline, StillClosed, BasisFromSnapshot
<1>3. DatesKept /\ OneBatchPerClosing /\ TablesCurrent
  BY DEF Init, DatesKept, ClosedHasDates, OneBatchPerClosing, TablesCurrent, NotLoaded
<1>4. QED
  BY <1>1, <1>2, <1>3 DEF IInv

\* Every statement of an apply request.
LEMMA ApplyPreserves ==
  ASSUME IInv, NEW r \in Appliers, ApplySettlementPlan(r)
  PROVE  IInv'
<1>1. CASE ReadPeriod(r)
  BY <1>1, ReadPeriodPreserves, EndPreserves DEF ReadPeriod
<1>2. CASE ReadTransactions(r)
  BY <1>2, ReadTransactionsPreserves
<1>3. ASSUME NEW t \in TxnIds, ReadTransaction(r, t) PROVE IInv'
  BY <1>3, ReadTransactionPreserves, EndPreserves DEF ReadTransaction
<1>4. ASSUME NEW t \in TxnIds, ReadShares(r, t) PROVE IInv'
  BY <1>4, ReadSharesPreserves
<1>5. CASE CalculatePlan(r)
  BY <1>5, CalculatePreserves
<1>6. CASE CreateSettlements(r)
  BY <1>6, CreateSettlementsPreserves
<1>7. CASE SettlePeriod(r)
  <2>1. CASE pc'[r] = "flush_settled"
    BY <1>7, <2>1, SettlePeriodPreserves
  <2>2. CASE pc'[r] # "flush_settled"
    BY <1>7, <2>2, EndPreserves DEF SettlePeriod, GoTo, IInv, TypeOK
  <2>3. QED
    BY <2>1, <2>2
<1>8. CASE FlushSettled(r)
  BY <1>8, FlushSettledPreserves, EndPreserves DEF FlushSettled
<1>9. CASE CommitSettled(r)
  BY <1>9, CommitSettledPreserves
<1>10. QED
  BY <1>1, <1>2, <1>3, <1>4, <1>5, <1>6, <1>7, <1>8, <1>9 DEF ApplySettlementPlan

\* A step that changes nothing.
LEMMA StutterPreserves == IInv /\ UNCHANGED vars => IInv'
<1> SUFFICES ASSUME IInv, UNCHANGED vars PROVE IInv'
  OBVIOUS
<1>1. TypeOK' /\ TablesCurrent' /\ OneBatchPerClosing'
  BY DEF IInv, TypeOK, TablesCurrent, OneBatchPerClosing, vars, requestVars, historyVars
<1>2. LockDiscipline' /\ StillClosed' /\ BasisFromSnapshot' /\ DatesKept'
  BY DEF IInv, LockDiscipline, StillClosed, SnapshotStands, BasisFromSnapshot, ReadFrom,
         DatesKept, ClosedHasDates, vars, requestVars, historyVars
<1>3. QED
  BY <1>1, <1>2 DEF IInv

\* Every step of the system.
LEMMA NextPreserves == IInv /\ [Next]_vars => IInv'
<1> SUFFICES ASSUME IInv, [Next]_vars PROVE IInv'
  OBVIOUS
<1>1. ASSUME NEW r \in Closers, ClosePeriod(r) PROVE IInv'
  BY <1>1, LoadPreserves, FlushClosePreserves, CommitClosePreserves DEF ClosePeriod
<1>2. ASSUME NEW r \in Appliers, ApplySettlementPlan(r) PROVE IInv'
  BY <1>2, ApplyPreserves
<1>3. ASSUME NEW r \in Requests, Fail(r) PROVE IInv'
  BY <1>3, EndPreserves DEF Fail
<1>4. CASE OtherRequests
  <2>1. ASSUME NEW t \in TxnIds, CreateTransaction(t) \/ UpdateTransaction(t) \/ DeleteTransaction(t)
        PROVE  IInv'
    <3>1. writes + 1 \in Int /\ -txns[t] \in Int
      BY DEF IInv, TypeOK
    <3>2. QED
      BY <2>1, <3>1, WritePreserves DEF CreateTransaction, UpdateTransaction, DeleteTransaction
  <2>2. QED
    BY <1>4, <2>1, RenamePreserves DEF OtherRequests
<1>5. CASE Answered \/ UNCHANGED vars
  BY <1>5, StutterPreserves DEF Answered
<1>6. QED
  BY <1>1, <1>2, <1>3, <1>4, <1>5 DEF Next

\* Every reachable state satisfies the inductive invariant.
THEOREM Invariant == SafeSpec => []IInv
<1>1. QED
  BY InitInvariant, NextPreserves, PTL DEF SafeSpec

-----------------------------------------------------------------------------
(* What follows from it *)

\* Fairness adds nothing to what is safe.
LEMMA FairIsSafe == Spec => SafeSpec
  BY PTL DEF Spec

\* The types, for every set of requests and of transactions.
THEOREM TypeCorrect == Spec => []TypeOK
<1>1. IInv => TypeOK
  BY DEF IInv
<1>2. QED
  BY <1>1, Invariant, FairIsSafe, PTL

\* Any number of close and apply requests, in any order and on either database:
\* never more batches of settlements than closings of the period.
THEOREM NobodyPaysTwice == Spec => []OneBatchPerClosing
<1>1. IInv => OneBatchPerClosing
  BY DEF IInv
<1>2. QED
  BY <1>1, Invariant, FairIsSafe, PTL

\* A closed or settled period has its dates, however its closings overlap.
THEOREM DatesAreSet == Spec => []ClosedHasDates
<1>1. IInv => ClosedHasDates
  BY DEF IInv, DatesKept
<1>2. QED
  BY <1>1, Invariant, FairIsSafe, PTL

\* the only step that records settlements, with the batch it records
LEMMA OnlyCommitPays ==
  ASSUME IInv, [Next]_vars, paid' # paid
  PROVE  \E r \in Appliers : CommitSettled(r) /\ transfers[r]
<1>1. ASSUME NEW r \in Closers, ClosePeriod(r) PROVE FALSE
  BY <1>1 DEF ClosePeriod, LoadPeriodToClose, FlushClose, CommitClose, historyVars
<1>2. ASSUME NEW r \in Requests, Fail(r) PROVE FALSE
  BY <1>2 DEF Fail, historyVars
<1>3. CASE OtherRequests
  BY <1>3 DEF OtherRequests, CreateTransaction, UpdateTransaction, DeleteTransaction, Write,
              UpdatePeriodName, historyVars
<1>4. CASE Answered \/ UNCHANGED vars
  BY <1>4 DEF Answered, vars, historyVars
<1>5. ASSUME NEW r \in Appliers, ApplySettlementPlan(r) PROVE CommitSettled(r) /\ transfers[r]
  BY <1>5 DEF ApplySettlementPlan, ReadPeriod, ReadTransactions, ReadTransaction, ReadShares,
              CalculatePlan, CreateSettlements, SettlePeriod, FlushSettled, CommitSettled, historyVars
<1>6. QED
  BY <1>1, <1>2, <1>3, <1>4, <1>5 DEF Next

\* On postgresql every batch is computed from the transactions of the period at
\* one moment since it was last closed, however long the reads take and
\* whatever is written while they run.
THEOREM SettlesOneTable == Spec => SettlesASnapshot
<1>1. ASSUME IInv, [Next]_vars, backend = "postgresql", paid' # paid
      PROVE  BatchFromOneTable
  <2>1. PICK r \in Appliers : CommitSettled(r)
    BY <1>1, OnlyCommitPays
  <2>2. pc[r] = "commit_settled" /\ pc'[r] = "done"
    BY <1>1, <2>1 DEF CommitSettled, End, GoTo, IInv, TypeOK
  <2>3. snap[r] \in tables
    BY <1>1, <2>2 DEF IInv, StillClosed, SnapshotStands
  <2>4. basis[r] = ReadAtOnce(snap[r])
    <3>1. basis[r] \in [TxnIds -> [list : Nat, row : Nat, shares : Nat]]
          /\ snap[r] \in [TxnIds -> Int]
      BY <1>1 DEF IInv, TypeOK
    <3>2. ASSUME NEW t \in TxnIds
          PROVE  basis[r][t] = IF snap[r][t] > 0
                                 THEN [list |-> snap[r][t], row |-> snap[r][t], shares |-> snap[r][t]]
                                 ELSE NoRow
      <4>1. ReadFrom(snap[r], t, basis[r][t]) /\ basis[r][t].shares = basis[r][t].list
        BY <1>1, <2>2 DEF IInv, BasisFromSnapshot
      <4>2. basis[r][t] \in [list : Nat, row : Nat, shares : Nat] /\ snap[r][t] \in Int
        BY <3>1
      <4>3. basis[r][t] = [list |-> basis[r][t].list, row |-> basis[r][t].row,
                           shares |-> basis[r][t].shares]
        BY <4>2
      <4>4. CASE snap[r][t] > 0
        BY <4>1, <4>2, <4>3, <4>4 DEF ReadFrom
      <4>5. CASE ~(snap[r][t] > 0)
        BY <4>1, <4>2, <4>3, <4>5 DEF ReadFrom, NoRow
      <4>6. QED
        BY <4>4, <4>5
    <3>3. QED
      BY <3>1, <3>2 DEF ReadAtOnce
  <2>5. QED
    BY <2>2, <2>3, <2>4 DEF BatchFromOneTable
<1>2. IInv /\ [Next]_vars
        => [backend = "postgresql" /\ paid' # paid => BatchFromOneTable]_vars
  BY <1>1
<1>3. QED
  BY <1>2, Invariant, FairIsSafe, PTL DEF SafeSpec, SettlesASnapshot

\* The requests implement the abstract life of a period: a step closes it, or
\* settles it and records the batch in the same step, or leaves it alone.
THEOREM ImplementsPeriodLifecycle == Spec => ImplementsLifecycle
<1>1. Init => Lifecycle!Init
  BY DEF Init, Lifecycle!Init, NotLoaded
<1>2. IInv /\ [Next]_vars => [Lifecycle!Next]_(Lifecycle!vars)
  <2> SUFFICES ASSUME IInv, [Next]_vars PROVE [Lifecycle!Next]_(Lifecycle!vars)
    OBVIOUS
  <2>1. ASSUME NEW r \in Closers, CommitClose(r) PROVE [Lifecycle!Next]_(Lifecycle!vars)
    <3>1. /\ period'.status \in {"closed", period.status}
          /\ paid' = paid
          /\ closings' = IF period.status # "closed" /\ period'.status = "closed"
                           THEN closings + 1 ELSE closings
      BY <2>1 DEF CommitClose, CloseRow
    <3>2. QED
      BY <3>1 DEF Lifecycle!Next, Lifecycle!Close, Lifecycle!vars
  <2>2. ASSUME NEW r \in Appliers, CommitSettled(r) PROVE [Lifecycle!Next]_(Lifecycle!vars)
    <3>1. /\ period'.status = "settled" /\ closings' = closings
          /\ paid' = IF transfers[r] THEN paid + 1 ELSE paid
      BY <2>2 DEF CommitSettled, IInv, TypeOK, Rows
    <3>2. period.status # "open" /\ (transfers[r] => period.status = "closed")
      BY <2>2 DEF CommitSettled, IInv, TypeOK, StillClosed, SnapshotStands
    <3>3. period.status \in Statuses /\ paid \in Nat
      BY DEF IInv, TypeOK, Rows
    <3>4. CASE period.status = "closed"
      <4>1. PICK batches \in {0, 1} : paid' = paid + batches
        BY <3>1, <3>3
      <4>2. QED
        BY <3>1, <3>4, <4>1 DEF Lifecycle!Next, Lifecycle!Settle
    <3>5. CASE period.status = "settled"
      BY <3>1, <3>2, <3>5 DEF Lifecycle!vars
    <3>6. QED
      BY <3>2, <3>3, <3>4, <3>5 DEF Statuses
  <2>3. CASE UNCHANGED << period, closings, paid >>
    BY <2>3 DEF Lifecycle!vars
  <2>4. CASE UpdatePeriodName
    BY <2>4 DEF UpdatePeriodName, Lifecycle!vars, historyVars, IInv, TypeOK, Rows
  <2>5. ASSUME NEW r \in Appliers, ApplySettlementPlan(r), ~CommitSettled(r)
        PROVE  UNCHANGED << period, closings, paid >>
    BY <2>5 DEF ApplySettlementPlan, ReadPeriod, ReadTransactions, ReadTransaction, ReadShares,
                CalculatePlan, CreateSettlements, SettlePeriod, FlushSettled, historyVars
  <2>6. ASSUME NEW r \in Closers, ClosePeriod(r), ~CommitClose(r)
        PROVE  UNCHANGED << period, closings, paid >>
    BY <2>6 DEF ClosePeriod, LoadPeriodToClose, FlushClose, historyVars
  <2>7. ASSUME \/ \E r \in Requests : Fail(r)
               \/ \E t \in TxnIds : CreateTransaction(t) \/ UpdateTransaction(t) \/ DeleteTransaction(t)
               \/ Answered
               \/ UNCHANGED vars
        PROVE  UNCHANGED << period, closings, paid >>
    BY <2>7 DEF Fail, CreateTransaction, UpdateTransaction, DeleteTransaction, Write, Answered,
                vars, historyVars
  <2>8. QED
    BY <2>1, <2>2, <2>3, <2>4, <2>5, <2>6, <2>7 DEF Next, OtherRequests
<1>3. QED
  BY <1>1, <1>2, Invariant, FairIsSafe, PTL DEF SafeSpec, ImplementsLifecycle, Lifecycle!Spec

-----------------------------------------------------------------------------
(* Waiting.  That every request is answered is liveness and stays with TLC;  *)
(* these are the facts about single states and steps it comes down to.       *)

\* the guards on the lock: statement r is at waits for another request
Waits(r) ==
  \/ pc[r] = "flush_close" /\ lock # Nobody
  \/ pc[r] = "create_settlements" /\ backend = "sqlite" /\ lock # Nobody
  \/ pc[r] = "flush_settled" /\ lock \notin {Nobody, r}

\* A lock is held by a request that is under way and waits for nobody, so that
\* while any request is under way one of them can go on.
NobodyIsStuck ==
  /\ lock # Nobody => lock \in Requests /\ Active(lock) /\ ~Waits(lock)
  /\ (\E r \in Requests : Active(r)) => \E r \in Requests : Active(r) /\ ~Waits(r)

\* the statements a request may be at with the lock in its hands
Locked == {"commit_close", "settle_period", "flush_settled", "commit_settled"}

LockIsLive == lock # Nobody => pc[lock] \in Locked

\* the end of a request releases its lock and leaves the others alone
LEMMA EndReleases ==
  ASSUME TypeOK, LockIsLive, NEW r \in Requests, NEW label \in {"done", "failed"}, End(r, label)
  PROVE  LockIsLive'
<1>1. /\ lock' = IF lock = r THEN Nobody ELSE lock
      /\ pc' = [pc EXCEPT ![r] = label]
  BY DEF End, GoTo
<1>2. CASE lock = r
  BY <1>1, <1>2 DEF LockIsLive
<1>3. CASE lock # r
  BY <1>1, <1>3 DEF LockIsLive, TypeOK
<1>4. QED
  BY <1>2, <1>3

\* every step leaves the lock with nobody or with a request that does not wait
LEMMA LockStaysLive ==
  ASSUME TypeOK, LockIsLive, [Next]_vars
  PROVE  LockIsLive'
<1>1. ASSUME NEW r \in Closers, ClosePeriod(r) PROVE LockIsLive'
  <2>1. CASE LoadPeriodToClose(r)
    BY <2>1 DEF LoadPeriodToClose, GoTo, LockIsLive, Locked, TypeOK
  <2>2. CASE FlushClose(r)
    BY <2>2 DEF FlushClose, GoTo, LockIsLive, Locked, TypeOK
  <2>3. CASE CommitClose(r)
    BY <2>3, EndReleases DEF CommitClose
  <2>4. QED
    BY <1>1, <2>1, <2>2, <2>3 DEF ClosePeriod
<1>2. ASSUME NEW r \in Appliers, ApplySettlementPlan(r) PROVE LockIsLive'
  <2>1. CASE ReadPeriod(r)
    BY <2>1, EndReleases DEF ReadPeriod, GoTo, LockIsLive, Locked, TypeOK
  <2>2. CASE ReadTransactions(r)
    BY <2>2 DEF ReadTransactions, GoTo, LockIsLive, Locked, TypeOK
  <2>3. ASSUME NEW t \in TxnIds, ReadTransaction(r, t) PROVE LockIsLive'
    BY <2>3, EndReleases DEF ReadTransaction, LockIsLive, Locked
  <2>4. ASSUME NEW t \in TxnIds, ReadShares(r, t) PROVE LockIsLive'
    BY <2>4 DEF ReadShares, LockIsLive, Locked
  <2>5. CASE CalculatePlan(r)
    BY <2>5 DEF CalculatePlan, GoTo, LockIsLive, Locked, TypeOK
  <2>6. CASE CreateSettlements(r)
    BY <2>6 DEF CreateSettlements, GoTo, LockIsLive, Locked, TypeOK
  <2>7. CASE SettlePeriod(r)
    <3>1. CASE GoTo(r, "flush_settled") /\ UNCHANGED lock
      BY <3>1 DEF GoTo, LockIsLive, Locked, TypeOK
    <3>2. CASE End(r, "failed")
      BY <3>2, EndReleases
    <3>3. QED
      BY <2>7, <3>1, <3>2 DEF SettlePeriod
  <2>8. CASE FlushSettled(r)
    <3>1. CASE lock' = r /\ GoTo(r, "commit_settled")
      BY <3>1 DEF GoTo, LockIsLive, Locked, TypeOK
    <3>2. CASE End(r, "failed")
      BY <3>2, EndReleases
    <3>3. QED
      BY <2>8, <3>1, <3>2 DEF FlushSettled
  <2>9. CASE CommitSettled(r)
    BY <2>9, EndReleases DEF CommitSettled
  <2>10. QED
    BY <1>2, <2>1, <2>2, <2>3, <2>4, <2>5, <2>6, <2>7, <2>8, <2>9 DEF ApplySettlementPlan
<1>3. ASSUME NEW r \in Requests, Fail(r) PROVE LockIsLive'
  BY <1>3, EndReleases DEF Fail
<1>4. CASE OtherRequests \/ Answered \/ UNCHANGED vars
  BY <1>4 DEF OtherRequests, CreateTransaction, UpdateTransaction, DeleteTransaction, Write,
              UpdatePeriodName, Answered, vars, requestVars, LockIsLive
<1>5. QED
  BY <1>1, <1>2, <1>3, <1>4 DEF Next

\* No request waits for a lock that a failed one has kept, and no two wait for
\* each other, for any number of close and apply requests on either database.
THEOREM LockIsNeverStuck == Spec => []NobodyIsStuck
<1>1. Init => LockIsLive
  BY DEF Init, LockIsLive
<1>2. TypeOK /\ LockIsLive /\ [Next]_vars => LockIsLive'
  BY LockStaysLive
<1>3. TypeOK /\ LockIsLive => NobodyIsStuck
  <2> SUFFICES ASSUME TypeOK, LockIsLive PROVE NobodyIsStuck
    OBVIOUS
  <2>1. lock # Nobody => lock \in Requests /\ Active(lock) /\ ~Waits(lock)
    BY DEF TypeOK, LockIsLive, Locked, Active, Waits
  <2>2. lock = Nobody => \A r \in Requests : ~Waits(r)
    BY DEF Waits
  <2>3. QED
    BY <2>1, <2>2 DEF NobodyIsStuck
<1>4. QED
  BY <1>1, <1>2, <1>3, TypeCorrect, FairIsSafe, PTL DEF SafeSpec

-----------------------------------------------------------------------------
(* Going on.  A request goes through its statements in one direction, and    *)
(* the loop over the transactions reads something new at every turn.         *)

Stage(label) ==
  CASE label = "start" -> 1
    [] label \in {"flush_close", "read_list"} -> 2
    [] label \in {"commit_close", "read_shares"} -> 3
    [] label = "create_settlements" -> 4
    [] label = "settle_period" -> 5
    [] label = "flush_settled" -> 6
    [] label = "commit_settled" -> 7
    [] OTHER -> 8

\* the listed transactions whose row is still to be read again
RowsToRead(r) == {t \in TxnIds : basis[r][t].list > 0 /\ basis[r][t].row = 0}

\* r comes to a later statement, or is in the loop with less left to read
MovesOn(r) ==
  \/ Stage(pc'[r]) > Stage(pc[r])
  \/ /\ pc[r] = "read_shares" /\ pc'[r] = "read_shares"
     /\ RowsToRead(r)' \subseteq RowsToRead(r) /\ ToRead(r)' \subseteq ToRead(r)
     /\ RowsToRead(r)' # RowsToRead(r) \/ ToRead(r)' # ToRead(r)

\* Every step of a request brings it nearer to its answer, and no step of
\* another one, or of a writer, takes it back.
RequestsMoveOn ==
  [][/\ \A r \in Closers : ClosePeriod(r) => MovesOn(r)
     /\ \A r \in Appliers : ApplySettlementPlan(r) => MovesOn(r)
     /\ \A r \in Requests : MovesOn(r) \/ UNCHANGED << pc[r], basis[r] >>]_vars

\* what a request loads once, it finds again: rows do not vanish from the view
\* of a request, deleted ones leave their shares
RowsStay ==
  \A r \in Requests, t \in TxnIds :
    pc[r] = "read_shares" /\ basis[r][t].row # 0 => View(r)[t] # 0


\* an ended request is at its last statement
LEMMA EndMovesOn ==
  ASSUME TypeOK, NEW r \in Requests, Active(r), NEW label \in {"done", "failed"}, End(r, label)
  PROVE  /\ MovesOn(r)
         /\ \A q \in Requests : q # r => UNCHANGED << pc[q], basis[q] >>
<1>1. /\ pc' = [pc EXCEPT ![r] = label]
      /\ basis' = [basis EXCEPT ![r] = [t \in TxnIds |-> NoRow]]
  BY DEF End, GoTo
<1>2. pc'[r] = label /\ \A q \in Requests : q # r => UNCHANGED << pc[q], basis[q] >>
  BY <1>1 DEF TypeOK
<1>3. pc[r] \in Labels \ {"done", "failed"}
  BY DEF Active, TypeOK
<1>4. QED
  BY <1>2, <1>3 DEF MovesOn, Stage, Labels

\* the statements of a close request
LEMMA CloseMovesOn ==
  ASSUME TypeOK, NEW r \in Closers, ClosePeriod(r)
  PROVE  /\ MovesOn(r)
         /\ \A q \in Requests : q # r => UNCHANGED << pc[q], basis[q] >>
<1>1. CASE LoadPeriodToClose(r)
  BY <1>1 DEF LoadPeriodToClose, GoTo, MovesOn, Stage, TypeOK
<1>2. CASE FlushClose(r)
  BY <1>2 DEF FlushClose, GoTo, MovesOn, Stage, TypeOK
<1>3. CASE CommitClose(r)
  BY <1>3, EndMovesOn DEF CommitClose, Active
<1>4. QED
  BY <1>1, <1>2, <1>3 DEF ClosePeriod

\* a turn of the loop: the row of the next transaction, or its shares
LEMMA ReadingMovesOn ==
  ASSUME TypeOK, RowsStay, NEW r \in Appliers, NEW t \in TxnIds,
         ReadTransaction(r, t) \/ ReadShares(r, t)
  PROVE  /\ MovesOn(r)
         /\ \A q \in Requests : q # r => UNCHANGED << pc[q], basis[q] >>
<1> DEFINE now == basis'[r]
<1>0. /\ pc[r] = "read_shares" /\ t \in ToRead(r)
      /\ basis \in [Requests -> [TxnIds -> [list : Nat, row : Nat, shares : Nat]]]
      /\ View(r) \in [TxnIds -> Int]
  BY DEF ReadTransaction, ReadShares, IsNext, TypeOK, View
<1>1. CASE ReadTransaction(r, t) /\ View(r)[t] > 0
  <2>1. /\ basis' = [basis EXCEPT ![r][t].row = View(r)[t]] /\ UNCHANGED pc
        /\ basis[r][t].row = 0
    BY <1>1 DEF ReadTransaction
  <2>2. \A q \in Requests : q # r => UNCHANGED << pc[q], basis[q] >>
    BY <1>0, <2>1
  <2>3. /\ now[t].list = basis[r][t].list /\ now[t].shares = basis[r][t].shares
        /\ now[t].row = View(r)[t]
        /\ \A u \in TxnIds : u # t => now[u] = basis[r][u]
    BY <1>0, <2>1
  <2>4. RowsToRead(r)' = RowsToRead(r) \ {t} /\ ToRead(r)' = ToRead(r)
    BY <1>0, <1>1, <2>3 DEF RowsToRead, ToRead
  <2>5. t \in RowsToRead(r)
    BY <1>0, <2>1 DEF RowsToRead, ToRead
  <2>6. QED
    BY <1>0, <2>1, <2>2, <2>4, <2>5 DEF MovesOn
<1>2. CASE ReadTransaction(r, t) /\ ~(View(r)[t] > 0)
  BY <1>0, <1>2, EndMovesOn DEF ReadTransaction, Active
<1>3. CASE ReadShares(r, t)
  <2>1. /\ basis' = [basis EXCEPT ![r][t].shares = Magnitude(View(r)[t])] /\ UNCHANGED pc
        /\ basis[r][t].row # 0
    BY <1>3 DEF ReadShares
  <2>2. \A q \in Requests : q # r => UNCHANGED << pc[q], basis[q] >>
    BY <1>0, <2>1
  <2>3. /\ now[t].list = basis[r][t].list /\ now[t].row = basis[r][t].row
        /\ now[t].shares = Magnitude(View(r)[t])
        /\ \A u \in TxnIds : u # t => now[u] = basis[r][u]
    BY <1>0, <2>1
  <2>4. Magnitude(View(r)[t]) # 0
    BY <1>0, <2>1 DEF RowsStay, Magnitude
  <2>5. ToRead(r)' = ToRead(r) \ {t} /\ RowsToRead(r)' = RowsToRead(r)
    BY <1>0, <2>3, <2>4 DEF RowsToRead, ToRead
  <2>6. QED
    BY <1>0, <2>1, <2>2, <2>5 DEF MovesOn
<1>4. QED
  BY <1>1, <1>2, <1>3

\* the statements of an apply request
LEMMA ApplyMovesOn ==
  ASSUME TypeOK, RowsStay, NEW r \in Appliers, ApplySettlementPlan(r)
  PROVE  /\ MovesOn(r)
         /\ \A q \in Requests : q # r => UNCHANGED << pc[q], basis[q] >>
<1>1. CASE ReadPeriod(r)
  <2>1. CASE GoTo(r, "read_list") /\ UNCHANGED basis
    BY <1>1, <2>1 DEF ReadPeriod, GoTo, MovesOn, Stage, TypeOK
  <2>2. CASE End(r, "failed")
    BY <1>1, <2>2, EndMovesOn DEF ReadPeriod, Active
  <2>3. QED
    BY <1>1, <2>1, <2>2 DEF ReadPeriod
<1>2. CASE ReadTransactions(r)
  <2>1. /\ pc[r] = "read_list" /\ pc' = [pc EXCEPT ![r] = "read_shares"]
        /\ \A q \in Requests : q # r => basis'[q] = basis[q]
    BY <1>2 DEF ReadTransactions, GoTo, TypeOK
  <2>2. QED
    BY <2>1 DEF MovesOn, Stage, TypeOK
<1>3. ASSUME NEW t \in TxnIds, ReadTransaction(r, t) \/ ReadShares(r, t)
      PROVE  /\ MovesOn(r)
             /\ \A q \in Requests : q # r => UNCHANGED << pc[q], basis[q] >>
  BY <1>3, ReadingMovesOn
<1>4. CASE CalculatePlan(r)
  BY <1>4 DEF CalculatePlan, GoTo, MovesOn, Stage, TypeOK
<1>5. CASE CreateSettlements(r)
  BY <1>5 DEF CreateSettlements, GoTo, MovesOn, Stage, TypeOK
<1>6. CASE SettlePeriod(r)
  <2>1. CASE GoTo(r, "flush_settled") /\ UNCHANGED basis
    BY <1>6, <2>1 DEF SettlePeriod, GoTo, MovesOn, Stage, TypeOK
  <2>2. CASE End(r, "failed")
    BY <1>6, <2>2, EndMovesOn DEF SettlePeriod, Active
  <2>3. QED
    BY <1>6, <2>1, <2>2 DEF SettlePeriod
<1>7. CASE FlushSettled(r)
  <2>1. CASE GoTo(r, "commit_settled") /\ UNCHANGED basis
    BY <1>7, <2>1 DEF FlushSettled, GoTo, MovesOn, Stage, TypeOK
  <2>2. CASE End(r, "failed")
    BY <1>7, <2>2, EndMovesOn DEF FlushSettled, Active
  <2>3. QED
    BY <1>7, <2>1, <2>2 DEF FlushSettled
<1>8. CASE CommitSettled(r)
  BY <1>8, EndMovesOn DEF CommitSettled, Active
<1>9. QED
  BY <1>1, <1>2, <1>3, <1>4, <1>5, <1>6, <1>7, <1>8 DEF ApplySettlementPlan

\* a step of request r leaves the table and the views of the others alone
LEMMA RowsStayFor ==
  ASSUME TypeOK, RowsStay, NEW r \in Requests, UNCHANGED << backend, txns >>,
         \A q \in Requests : q # r => UNCHANGED << pc[q], snap[q], basis[q] >>,
         \A t \in TxnIds : pc'[r] = "read_shares" /\ basis'[r][t].row # 0 => View(r)'[t] # 0
  PROVE  RowsStay'
<1>1. ASSUME NEW q \in Requests, q # r, NEW t \in TxnIds, pc'[q] = "read_shares",
             basis'[q][t].row # 0
      PROVE  View(q)'[t] # 0
  BY <1>1 DEF RowsStay, View
<1>2. QED
  BY <1>1 DEF RowsStay

\* the end of a request: it reads no more
LEMMA EndKeepsRows ==
  ASSUME TypeOK, RowsStay, NEW r \in Requests, NEW label \in {"done", "failed"}, End(r, label),
         UNCHANGED << backend, txns >>
  PROVE  RowsStay'
<1>1. /\ pc'[r] = label
      /\ \A q \in Requests : q # r => UNCHANGED << pc[q], snap[q], basis[q] >>
  BY DEF End, GoTo, TypeOK
<1>2. QED
  BY <1>1, RowsStayFor

\* a statement after which r is not in the loop
LEMMA ElsewhereKeepsRows ==
  ASSUME TypeOK, RowsStay, NEW r \in Requests, NEW label \in Labels \ {"read_shares"},
         GoTo(r, label), UNCHANGED << backend, txns, basis >>,
         \A q \in Requests : q # r => snap'[q] = snap[q]
  PROVE  RowsStay'
<1>1. /\ pc'[r] = label
      /\ \A q \in Requests : q # r => UNCHANGED << pc[q], snap[q], basis[q] >>
  BY DEF GoTo, TypeOK
<1>2. QED
  BY <1>1, RowsStayFor

\* a writer leaves a row of a later write, or the shares of a deleted one
LEMMA WriteKeepsRows ==
  ASSUME TypeOK, RowsStay, NEW t \in TxnIds,
         CreateTransaction(t) \/ UpdateTransaction(t) \/ DeleteTransaction(t)
  PROVE  RowsStay'
<1>1. PICK stamp \in Int : stamp # 0 /\ Write(t, stamp)
  BY DEF TypeOK, CreateTransaction, UpdateTransaction, DeleteTransaction
<1>2. /\ UNCHANGED << backend, pc, snap, basis >> /\ txns' = [txns EXCEPT ![t] = stamp]
  BY <1>1 DEF Write, requestVars
<1>3. \A u \in TxnIds : txns[u] # 0 => txns'[u] # 0
  BY <1>1, <1>2 DEF TypeOK
<1>4. QED
  BY <1>2, <1>3 DEF RowsStay, View

\* what a statement of an apply request reads is a row its view has
LEMMA ApplyKeepsRows ==
  ASSUME TypeOK, RowsStay, NEW r \in Appliers, ApplySettlementPlan(r)
  PROVE  RowsStay'
<1>1. CASE ReadPeriod(r)
  <2>1. CASE /\ GoTo(r, "read_list") /\ UNCHANGED basis
             /\ snap' = [snap EXCEPT ![r] = IF backend = "postgresql" THEN txns ELSE @]
    <3>1. \A q \in Requests : q # r => snap'[q] = snap[q]
      BY <2>1 DEF TypeOK
    <3>2. QED
      BY <1>1, <2>1, <3>1, ElsewhereKeepsRows DEF ReadPeriod, Labels
  <2>2. CASE End(r, "failed")
    BY <1>1, <2>2, EndKeepsRows DEF ReadPeriod
  <2>3. QED
    BY <1>1, <2>1, <2>2 DEF ReadPeriod
<1>2. CASE ReadTransactions(r)
  <2>1. /\ UNCHANGED << backend, txns, snap >>
        /\ \A q \in Requests : q # r => UNCHANGED << pc[q], basis[q] >>
    BY <1>2 DEF ReadTransactions, GoTo, TypeOK
  <2>2. \A t \in TxnIds : basis'[r][t].row = 0
    BY <1>2 DEF ReadTransactions, TypeOK, NoRow
  <2>3. QED
    BY <2>1, <2>2, RowsStayFor
<1>3. ASSUME NEW t \in TxnIds, ReadTransaction(r, t) PROVE RowsStay'
  <2>1. CASE View(r)[t] > 0
    <3>1. /\ pc[r] = "read_shares"
          /\ UNCHANGED << backend, txns, snap, pc >>
          /\ basis' = [basis EXCEPT ![r][t].row = View(r)[t]]
      BY <1>3, <2>1 DEF ReadTransaction
    <3>2. /\ basis'[r][t].row = View(r)[t]
          /\ \A u \in TxnIds : u # t => basis'[r][u] = basis[r][u]
          /\ \A q \in Requests : q # r => basis'[q] = basis[q]
      BY <3>1 DEF TypeOK
    <3>3. View(r)' = View(r) /\ View(r)[t] # 0
      BY <2>1, <3>1 DEF View, TypeOK
    <3>4. \A u \in TxnIds : basis'[r][u].row # 0 => View(r)'[u] # 0
      BY <3>1, <3>2, <3>3 DEF RowsStay
    <3>5. QED
      BY <3>1, <3>2, <3>4, RowsStayFor
  <2>2. CASE ~(View(r)[t] > 0)
    BY <1>3, <2>2, EndKeepsRows DEF ReadTransaction
  <2>3. QED
    BY <2>1, <2>2
<1>4. ASSUME NEW t \in TxnIds, ReadShares(r, t) PROVE RowsStay'
  <2>1. /\ pc[r] = "read_shares"
        /\ UNCHANGED << backend, txns, snap, pc >>
        /\ basis' = [basis EXCEPT ![r][t].shares = Magnitude(View(r)[t])]
    BY <1>4 DEF ReadShares
  <2>2. /\ \A u \in TxnIds : basis'[r][u].row = basis[r][u].row
        /\ \A q \in Requests : q # r => basis'[q] = basis[q]
    BY <2>1 DEF TypeOK
  <2>3. View(r)' = View(r)
    BY <2>1 DEF View
  <2>4. QED
    BY <2>1, <2>2, <2>3, RowsStayFor DEF RowsStay
<1>5. CASE CalculatePlan(r)
  BY <1>5, ElsewhereKeepsRows DEF CalculatePlan, Labels
<1>6. CASE CreateSettlements(r)
  BY <1>6, ElsewhereKeepsRows DEF CreateSettlements, Labels
<1>7. CASE SettlePeriod(r)
  BY <1>7, ElsewhereKeepsRows, EndKeepsRows DEF SettlePeriod, Labels
<1>8. CASE FlushSettled(r)
  BY <1>8, ElsewhereKeepsRows, EndKeepsRows DEF FlushSettled, Labels
<1>9. CASE CommitSettled(r)
  BY <1>9, EndKeepsRows DEF CommitSettled
<1>10. QED
  BY <1>1, <1>2, <1>3, <1>4, <1>5, <1>6, <1>7, <1>8, <1>9 DEF ApplySettlementPlan

\* rows stay, whichever step is taken
LEMMA RowsKept ==
  ASSUME TypeOK, RowsStay, [Next]_vars
  PROVE  RowsStay'
<1>1. ASSUME NEW r \in Closers, ClosePeriod(r) PROVE RowsStay'
  <2>1. CASE LoadPeriodToClose(r)
    BY <2>1, ElsewhereKeepsRows DEF LoadPeriodToClose, Labels
  <2>2. CASE FlushClose(r)
    BY <2>2, ElsewhereKeepsRows DEF FlushClose, Labels
  <2>3. CASE CommitClose(r)
    BY <2>3, EndKeepsRows DEF CommitClose
  <2>4. QED
    BY <1>1, <2>1, <2>2, <2>3 DEF ClosePeriod
<1>2. ASSUME NEW r \in Appliers, ApplySettlementPlan(r) PROVE RowsStay'
  BY <1>2, ApplyKeepsRows
<1>3. ASSUME NEW r \in Requests, Fail(r) PROVE RowsStay'
  BY <1>3, EndKeepsRows DEF Fail
<1>4. CASE OtherRequests
  <2>1. CASE UpdatePeriodName
    BY <2>1 DEF UpdatePeriodName, requestVars, RowsStay, View
  <2>2. QED
    BY <1>4, <2>1, WriteKeepsRows DEF OtherRequests
<1>5. CASE Answered \/ UNCHANGED vars
  BY <1>5 DEF Answered, vars, requestVars, RowsStay, View
<1>6. QED
  BY <1>1, <1>2, <1>3, <1>4, <1>5 DEF Next

\* Every step of a close or apply request brings it nearer to its answer, for
\* any number of requests and of transactions: with finitely many transactions
\* it has finitely many steps, whatever is written while it runs.
THEOREM RequestsWindDown == Spec => RequestsMoveOn
<1>1. Init => RowsStay
  BY DEF Init, RowsStay
<1>2. TypeOK /\ RowsStay /\ [Next]_vars => RowsStay'
  BY RowsKept
<1>3. ASSUME TypeOK, RowsStay, [Next]_vars
      PROVE  /\ \A r \in Closers : ClosePeriod(r) => MovesOn(r)
             /\ \A r \in Appliers : ApplySettlementPlan(r) => MovesOn(r)
             /\ \A r \in Requests : MovesOn(r) \/ UNCHANGED << pc[r], basis[r] >>
  <2>1. \A r \in Closers : ClosePeriod(r) => MovesOn(r)
    BY <1>3, CloseMovesOn
  <2>2. \A r \in Appliers : ApplySettlementPlan(r) => MovesOn(r)
    BY <1>3, ApplyMovesOn
  <2>3. ASSUME NEW r \in Requests PROVE MovesOn(r) \/ UNCHANGED << pc[r], basis[r] >>
    <3>1. ASSUME NEW q \in Closers, ClosePeriod(q)
          PROVE  MovesOn(r) \/ UNCHANGED << pc[r], basis[r] >>
      BY <1>3, <3>1, CloseMovesOn
    <3>2. ASSUME NEW q \in Appliers, ApplySettlementPlan(q)
          PROVE  MovesOn(r) \/ UNCHANGED << pc[r], basis[r] >>
      BY <1>3, <3>2, ApplyMovesOn
    <3>3. ASSUME NEW q \in Requests, Fail(q)
          PROVE  MovesOn(r) \/ UNCHANGED << pc[r], basis[r] >>
      BY <1>3, <3>3, EndMovesOn DEF Fail
    <3>4. CASE OtherRequests \/ Answered \/ UNCHANGED vars
      BY <3>4 DEF OtherRequests, CreateTransaction, UpdateTransaction, DeleteTransaction, Write,
                  UpdatePeriodName, Answered, vars, requestVars
    <3>5. QED
      BY <1>3, <3>1, <3>2, <3>3, <3>4 DEF Next
  <2>4. QED
    BY <2>1, <2>2, <2>3
<1>4. QED
  <2>1. TypeOK /\ RowsStay /\ [Next]_vars =>
          [/\ \A r \in Closers : ClosePeriod(r) => MovesOn(r)
           /\ \A r \in Appliers : ApplySettlementPlan(r) => MovesOn(r)
           /\ \A r \in Requests : MovesOn(r) \/ UNCHANGED << pc[r], basis[r] >>]_vars
    BY <1>3
  <2>2. QED
    BY <1>1, <1>2, <2>1, TypeCorrect, FairIsSafe, PTL DEF SafeSpec, RequestsMoveOn
=============================================================================
