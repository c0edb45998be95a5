---------------------- MODULE TransactionWorkflowProofs ----------------------
(***************************************************************************)
(* For any members, contents and number of requests under way, what the    *)
(* runs of TransactionWorkflow check on two.                               *)
(***************************************************************************)
EXTENDS TransactionWorkflow, TLAPS

\* An edit under way has passed the validation, and has loaded the columns by
\* the time it writes.
EditsLoaded ==
  \A r \in Requests :
    req[r] # Idle /\ req[r].op = "update"
      => /\ req[r].want \in Contents
         /\ req[r].step # "load" => req[r].cols \in Columns

\* Besides approved transactions, those that may be approved next.
SubmittedUnlessOvertaken ==
  \A id \in Ids \ overtaken :
    Exists(id) /\ rows[id].status \in {"pending", "approved"} => Content(id) = submitted[id]

\* On PostgreSQL a request under way can reach no transaction of the API:
\* those there were when it was let through had no creator and were drafts,
\* and the sequence gives a new one an id no request has.
ApiRowsOutOfReach ==
  db = "postgresql" =>
    /\ \A id \in Ids : Exists(id) => id <= last
    /\ \A id \in Ids : Exists(id) /\ rows[id].created_by = Nobody => rows[id].status = "draft"
    /\ \A r \in Requests : req[r] # Idle =>
         /\ req[r].id <= last
         /\ Exists(req[r].id) => rows[req[r].id].created_by # Nobody

-----------------------------------------------------------------------------

\* A function over some members with amounts or nulls is a set of share rows.
LEMMA ShareRowsFunction ==
  ASSUME NEW some \in SUBSET Users, NEW sh \in [some -> Cents \cup {Null}]
  PROVE  sh \in ShareRows
BY DEF ShareRows

\* What share rows are: a function over some members.
LEMMA ShareRowsShape ==
  ASSUME NEW sh \in ShareRows
  PROVE  /\ DOMAIN sh \in SUBSET Users
         /\ sh \in [DOMAIN sh -> Cents \cup {Null}]
<1>1. PICK some \in SUBSET Users : sh \in [some -> Cents \cup {Null}]
  BY DEF ShareRows
<1> QED BY <1>1

\* Rows laid over others are again rows of some members.
LEMMA ShareRowsOverlay ==
  ASSUME NEW new \in ShareRows, NEW old \in ShareRows, NEW gone
  PROVE  [u \in (DOMAIN old \ gone) \cup DOMAIN new |->
            IF u \in DOMAIN new THEN new[u] ELSE old[u]] \in ShareRows
<1> DEFINE some == (DOMAIN old \ gone) \cup DOMAIN new
           sh == [u \in some |-> IF u \in DOMAIN new THEN new[u] ELSE old[u]]
<1>1. some \in SUBSET Users
  BY ShareRowsShape
<1>2. sh \in [some -> Cents \cup {Null}]
  <2> SUFFICES ASSUME NEW u \in some
               PROVE  sh[u] \in Cents \cup {Null}
    OBVIOUS
  <2>1. CASE u \in DOMAIN new
    BY <2>1, ShareRowsShape
  <2>2. CASE u \notin DOMAIN new
    <3>1. u \in DOMAIN old
      BY <2>2
    <3> QED BY <2>2, <3>1, ShareRowsShape
  <2> QED BY <2>1, <2>2
<1> QED BY <1>1, <1>2, ShareRowsFunction

\* What a request may ask for is valid columns and shares.
LEMMA ContentsShape ==
  ASSUME NEW c \in Contents
  PROVE  /\ c = [cols |-> c.cols, shares |-> c.shares]
         /\ c.cols \in Columns /\ c.shares \in ShareRows
         /\ Valid(c.cols, c.shares)
BY ContentsAssumption

\* A row that is there is of the shape of a row.
LEMMA RowShape ==
  ASSUME TypeOK, NEW id \in Ids, Exists(id)
  PROVE  /\ rows[id] \in Rows
         /\ rows[id].cols \in Columns
         /\ rows[id].status \in Statuses
         /\ rows[id].created_by \in Users \cup {Nobody}
<1>1. rows[id] \in Rows
  BY DEF TypeOK, Exists
<1> QED BY <1>1 DEF Rows

\* A request under way is of the shape of one.
LEMMA RequestShape ==
  ASSUME TypeOK, NEW r \in Requests, req[r] # Idle
  PROVE  /\ req[r] \in UnderWay
         /\ req[r].op \in Ops /\ req[r].id \in Ids
         /\ req[r].status \in Statuses /\ req[r].shares \in ShareRows
<1>1. req[r] \in UnderWay
  BY DEF TypeOK
<1> QED BY <1>1 DEF UnderWay

-----------------------------------------------------------------------------

\* Every initial state is well formed.
LEMMA InitTypeOK == Init => TypeOK
<1> SUFFICES ASSUME Init PROVE TypeOK
  OBVIOUS
<1>1. PICK s \in Samples, status \in {"pending", "approved"} :
         /\ rows = [id \in Ids |-> IF id = 1
                      THEN [cols |-> s.content.cols, status |-> status, created_by |-> s.created_by]
                      ELSE NoRow]
         /\ shares = [id \in Ids |-> IF id = 1 THEN s.content.shares ELSE << >>]
         /\ submitted = [id \in Ids |-> s.content]
  BY DEF Init
<1>2. s.content \in Contents /\ s.created_by \in Users
  BY SamplesAssumption
<1>3. s.content.cols \in Columns /\ s.content.shares \in ShareRows
      /\ s.content \in [cols : Columns, shares : ShareRows]
  BY <1>2, ContentsAssumption
<1>4. << >> \in ShareRows
  <2>1. << >> \in [{} -> Cents \cup {Null}]
    OBVIOUS
  <2> QED BY <2>1, ShareRowsFunction
<1>5. rows \in [Ids -> Rows \cup {NoRow}]
  BY <1>1, <1>2, <1>3 DEF Rows, Statuses
<1>6. shares \in [Ids -> ShareRows]
  BY <1>1, <1>3, <1>4
<1>7. submitted \in [Ids -> [cols : Columns, shares : ShareRows]]
  BY <1>1, <1>3
<1>8. /\ db \in {"postgresql", "sqlite"} /\ db \in Databases
      /\ last \in Ids
      /\ req \in [Requests -> UnderWay \cup {Idle}]
      /\ overtaken \subseteq Ids
  BY DatabasesAssumption, MaxIdAssumption DEF Init, Ids
<1> QED BY <1>5, <1>6, <1>7, <1>8 DEF TypeOK

\* What an edit leaves behind: columns and shares of the right shape, whatever
\* others have written since it loaded.
LEMMA EditShape ==
  ASSUME TypeOK, EditsLoaded, NEW r \in Requests, Edit(r)
  PROVE  LET id == req[r].id IN
         /\ id \in Ids /\ Exists(id)
         /\ req[r].want \in Contents
         /\ rows' = [rows EXCEPT ![id] = rows'[id]]
         /\ rows'[id] \in Rows
         /\ rows'[id].created_by = rows[id].created_by
         /\ shares' = [shares EXCEPT ![id] = SharesAfter(r)]
         /\ SharesAfter(r) \in ShareRows
         /\ Remember(id, rows'[id].status, rows'[id].cols, SharesAfter(r))
<1> DEFINE id   == req[r].id
           want == req[r].want.cols
           now  == rows[id].cols
           seen == req[r].cols
           cols == [kind   |-> Written(seen.kind, want.kind, now.kind),
                    split  |-> Written(seen.split, want.split, now.split),
                    amount |-> Written(seen.amount, want.amount, now.amount)]
           status == Written(req[r].status, "draft", rows[id].status)
<1>1. id \in Ids /\ Exists(id) /\ req[r].op = "update" /\ req[r].step = "write"
      /\ req[r].shares \in ShareRows /\ req[r].status \in Statuses
  BY RequestShape DEF Edit
<1>2. req[r].want \in Contents
  BY <1>1 DEF Edit, EditsLoaded
<1>3. want \in Columns /\ req[r].want.shares \in ShareRows
  BY <1>2, ContentsShape
<1>4. rows[id] \in Rows /\ now \in Columns /\ rows[id].status \in Statuses
      /\ rows[id].created_by \in Users \cup {Nobody}
  BY <1>1, RowShape
<1>5. cols \in Columns
  BY <1>3, <1>4 DEF Columns, Written
<1>6. status \in Statuses
  BY <1>1, <1>4 DEF Written, Statuses
<1>7. rows' = [rows EXCEPT ![id].cols = cols, ![id].status = status]
  BY DEF Edit
<1>8. rows'[id] = [cols |-> cols, status |-> status, created_by |-> rows[id].created_by]
  BY <1>1, <1>4, <1>7 DEF TypeOK, Rows
<1>9. rows' = [rows EXCEPT ![id] = rows'[id]]
  BY <1>1, <1>7 DEF TypeOK
<1>10. shares[id] \in ShareRows
  BY <1>1 DEF TypeOK
<1>11. SharesAfter(r) \in ShareRows
  BY <1>3, <1>10, ShareRowsOverlay DEF SharesAfter
<1>12. Remember(id, status, cols, SharesAfter(r)) /\ shares' = [shares EXCEPT ![id] = SharesAfter(r)]
  BY DEF Edit
<1> HIDE DEF cols, status
<1>13. rows'[id] \in Rows /\ rows'[id].created_by = rows[id].created_by
  BY <1>4, <1>5, <1>6, <1>8 DEF Rows
<1>14. Remember(id, rows'[id].status, rows'[id].cols, SharesAfter(r))
  BY <1>8, <1>12
<1> QED
  BY <1>1, <1>2, <1>9, <1>11, <1>12, <1>13, <1>14

\* What a change of status leaves behind: the same row in another status.
LEMMA StatusShape ==
  ASSUME TypeOK, NEW r \in Requests, SetStatus(r)
  PROVE  LET id == req[r].id
             status == Written(req[r].status, Target[req[r].op], rows[id].status)
         IN
         /\ id \in Ids /\ Exists(id)
         /\ rows' = [rows EXCEPT ![id] = rows'[id]]
         /\ rows'[id] = [cols |-> rows[id].cols, status |-> status,
                         created_by |-> rows[id].created_by]
         /\ rows'[id].created_by = rows[id].created_by
         /\ rows'[id] \in Rows
<1> DEFINE id == req[r].id
           status == Written(req[r].status, Target[req[r].op], rows[id].status)
<1>1. id \in Ids /\ Exists(id) /\ req[r].op \in Ops \ {"update", "delete"}
      /\ req[r].status \in Statuses
  BY RequestShape DEF SetStatus
<1>2. rows[id] \in Rows /\ rows[id].cols \in Columns /\ rows[id].status \in Statuses
      /\ rows[id].created_by \in Users \cup {Nobody}
  BY <1>1, RowShape
<1>3. Target[req[r].op] \in Statuses
  BY <1>1 DEF Target, Ops, Statuses
<1>4. status \in Statuses
  BY <1>1, <1>2, <1>3 DEF Written
<1>5. rows' = [rows EXCEPT ![id].status = status]
  BY DEF SetStatus
<1>6. rows'[id] = [cols |-> rows[id].cols, status |-> status, created_by |-> rows[id].created_by]
  BY <1>1, <1>2, <1>5 DEF TypeOK, Rows
<1>7. rows' = [rows EXCEPT ![id] = rows'[id]]
  BY <1>1, <1>5 DEF TypeOK
<1> QED BY <1>1, <1>2, <1>4, <1>6, <1>7 DEF Rows

\* A row that is there is not the absence of one.
LEMMA RowsAreThere ==
  ASSUME NEW row \in Rows
  PROVE  row # NoRow
BY NoRowAssumption

\* Every step keeps the tables and the requests well formed.
LEMMA StepTypeOK == TypeOK /\ EditsLoaded /\ [Next]_vars => TypeOK'
<1> SUFFICES ASSUME TypeOK, EditsLoaded, [Next]_vars PROVE TypeOK'
  OBVIOUS
<1> USE DEF TypeOK
<1>done. ASSUME NEW r \in Requests, Done(r)
         PROVE  req' \in [Requests -> UnderWay \cup {Idle}]
  BY <1>done DEF Done
<1>remember. ASSUME NEW id \in Ids, NEW status, NEW cols \in Columns, NEW sh \in ShareRows,
                    Remember(id, status, cols, sh)
             PROVE  submitted' \in [Ids -> [cols : Columns, shares : ShareRows]]
  BY <1>remember DEF Remember
<1>1. CASE UNCHANGED vars
  BY <1>1 DEF vars
<1>2. ASSUME NEW c \in Contents, NEW id \in Ids, Create(c, id)
      PROVE  TypeOK'
  <2>1. c.cols \in Columns /\ c.shares \in ShareRows
    BY ContentsShape
  <2>2. [cols |-> c.cols, status |-> "draft", created_by |-> Nobody] \in Rows
    BY <2>1 DEF Rows, Statuses
  <2>3. [u \in DOMAIN c.shares \cup DOMAIN shares[id] |->
           IF u \in DOMAIN c.shares THEN c.shares[u] ELSE shares[id][u]] \in ShareRows
    <3>1. DOMAIN c.shares \cup DOMAIN shares[id] = (DOMAIN shares[id] \ {}) \cup DOMAIN c.shares
      OBVIOUS
    <3>2. shares[id] \in ShareRows
      OBVIOUS
    <3>3. [u \in (DOMAIN shares[id] \ {}) \cup DOMAIN c.shares |->
             IF u \in DOMAIN c.shares THEN c.shares[u] ELSE shares[id][u]] \in ShareRows
      BY <2>1, <3>2, ShareRowsOverlay
    <3> QED BY <3>1, <3>3
  <2>4. rows' \in [Ids -> Rows \cup {NoRow}] /\ shares' \in [Ids -> ShareRows]
    BY <1>2, <2>2, <2>3 DEF Create
  <2> QED BY <1>2, <2>4 DEF Create
<1>3. ASSUME NEW r \in Requests, NEW op \in Ops, NEW u \in Users, NEW id \in Ids,
             NEW want \in Asked(op), Admit(r, op, u, id, want)
      PROVE  TypeOK'
  <2>1. want \in Contents \cup {Idle}
    BY DEF Asked
  <2>2. << >> \in ShareRows
    <3>1. << >> \in [{} -> Cents \cup {Null}]
      OBVIOUS
    <3> QED BY <3>1, ShareRowsFunction
  <2>3. req' \in [Requests -> UnderWay \cup {Idle}]
    BY <1>3, <2>1, <2>2 DEF Admit, UnderWay, Statuses
  <2> QED BY <1>3, <2>3 DEF Admit
<1>4. ASSUME NEW r \in Requests, LoadRow(r)
      PROVE  TypeOK'
  <2>1. req[r] \in UnderWay
    BY <1>4 DEF LoadRow
  <2>2. CASE ~Exists(req[r].id)
    BY <1>4, <2>2, <1>done DEF LoadRow
  <2>3. CASE Exists(req[r].id)
    <3>1. rows[req[r].id].status \in Statuses /\ rows[req[r].id].cols \in Columns
      BY <2>1, <2>3, RowShape DEF UnderWay
    <3>2. req' \in [Requests -> UnderWay \cup {Idle}]
      BY <1>4, <2>1, <2>3, <3>1 DEF LoadRow, UnderWay
    <3> QED BY <1>4, <3>2 DEF LoadRow
  <2> QED BY <2>2, <2>3
<1>5. ASSUME NEW r \in Requests, LoadShares(r)
      PROVE  TypeOK'
  <2>1. req[r] \in UnderWay
    BY <1>5 DEF LoadShares
  <2>2. shares[req[r].id] \in ShareRows
    BY <2>1 DEF UnderWay
  <2>3. req' \in [Requests -> UnderWay \cup {Idle}]
    BY <1>5, <2>1, <2>2 DEF LoadShares, UnderWay
  <2> QED BY <1>5, <2>3 DEF LoadShares
<1>6. ASSUME NEW r \in Requests, Edit(r)
      PROVE  TypeOK'
  <2> DEFINE id == req[r].id
  <2>1. /\ id \in Ids
        /\ rows' \in [Ids -> Rows \cup {NoRow}] /\ shares' \in [Ids -> ShareRows]
        /\ rows'[id] \in Rows /\ SharesAfter(r) \in ShareRows
    BY <1>6, EditShape
  <2>2. rows'[id].cols \in Columns
    BY <2>1 DEF Rows
  <2>3. Remember(id, rows'[id].status, rows'[id].cols, SharesAfter(r))
    BY <1>6, EditShape
  <2>4. submitted' \in [Ids -> [cols : Columns, shares : ShareRows]]
    BY <2>1, <2>2, <2>3, <1>remember
  <2>5. overtaken' \subseteq Ids
    BY <1>6, <2>1 DEF Edit
  <2>6. req' \in [Requests -> UnderWay \cup {Idle}]
    BY <1>6, <1>done DEF Edit
  <2> QED BY <1>6, <2>1, <2>4, <2>5, <2>6 DEF Edit
<1>7. ASSUME NEW r \in Requests, SetStatus(r)
      PROVE  TypeOK'
  <2> DEFINE id == req[r].id
  <2>1. id \in Ids /\ Exists(id) /\ rows' \in [Ids -> Rows \cup {NoRow}]
    BY <1>7, StatusShape
  <2>2. rows[id].cols \in Columns /\ shares[id] \in ShareRows
    BY <2>1, RowShape
  <2>3. submitted' \in [Ids -> [cols : Columns, shares : ShareRows]]
    BY <1>7, <2>1, <2>2, <1>remember DEF SetStatus
  <2>4. overtaken' \subseteq Ids
    BY <1>7, <2>1 DEF SetStatus
  <2>5. req' \in [Requests -> UnderWay \cup {Idle}]
    BY <1>7, <1>done DEF SetStatus
  <2> QED BY <1>7, <2>1, <2>3, <2>4, <2>5 DEF SetStatus
<1>8. ASSUME NEW r \in Requests, Delete(r)
      PROVE  TypeOK'
  BY <1>8, <1>done DEF Delete
<1>9. ASSUME NEW r \in Requests, Fail(r)
      PROVE  TypeOK'
  BY <1>9, <1>done DEF Fail
<1> QED
  BY <1>1, <1>2, <1>3, <1>4, <1>5, <1>6, <1>7, <1>8, <1>9 DEF Next

-----------------------------------------------------------------------------

\* An edit is let through with contents that pass the validation, and loads
\* the columns before it writes.
LEMMA StepEditsLoaded == TypeOK /\ EditsLoaded /\ [Next]_vars => EditsLoaded'
<1> SUFFICES ASSUME TypeOK, EditsLoaded, [Next]_vars PROVE EditsLoaded'
  OBVIOUS
<1>done. ASSUME NEW r \in Requests, Done(r)
         PROVE  EditsLoaded'
  BY <1>done DEF Done, EditsLoaded, TypeOK
<1>1. CASE UNCHANGED vars
  BY <1>1 DEF vars, EditsLoaded
<1>2. ASSUME NEW c \in Contents, NEW id \in Ids, Create(c, id)
      PROVE  EditsLoaded'
  BY <1>2 DEF Create, EditsLoaded
<1>3. ASSUME NEW r \in Requests, NEW op \in Ops, NEW u \in Users, NEW id \in Ids,
             NEW want \in Asked(op), Admit(r, op, u, id, want)
      PROVE  EditsLoaded'
  BY <1>3 DEF Admit, Asked, EditsLoaded, TypeOK
<1>4. ASSUME NEW r \in Requests, LoadRow(r)
      PROVE  EditsLoaded'
  <2>1. CASE ~Exists(req[r].id)
    BY <1>4, <2>1, <1>done DEF LoadRow
  <2>2. CASE Exists(req[r].id)
    <3>1. req[r] \in UnderWay /\ rows[req[r].id].cols \in Columns
      BY <1>4, <2>2, RequestShape, RowShape DEF LoadRow
    <3> QED BY <1>4, <2>2, <3>1 DEF LoadRow, EditsLoaded, TypeOK, UnderWay
  <2> QED BY <2>1, <2>2
<1>5. ASSUME NEW r \in Requests, LoadShares(r)
      PROVE  EditsLoaded'
  <2>1. req[r] \in UnderWay
    BY <1>5, RequestShape DEF LoadShares
  <2> QED BY <1>5, <2>1 DEF LoadShares, EditsLoaded, TypeOK, UnderWay
<1>6. ASSUME NEW r \in Requests, Edit(r) \/ SetStatus(r) \/ Delete(r) \/ Fail(r)
      PROVE  EditsLoaded'
  BY <1>6, <1>done DEF Edit, SetStatus, Delete, Fail
<1> QED
  BY <1>1, <1>2, <1>3, <1>4, <1>5, <1>6 DEF Next

\* Share rows keep their transaction on PostgreSQL.
LEMMA StepSharesHaveTransaction ==
  TypeOK /\ EditsLoaded /\ SharesHaveTransaction /\ [Next]_vars => SharesHaveTransaction'
<1> SUFFICES ASSUME TypeOK, EditsLoaded, SharesHaveTransaction, [Next]_vars
             PROVE  SharesHaveTransaction'
  OBVIOUS
<1>same. ASSUME UNCHANGED << db, rows, shares >>
         PROVE  SharesHaveTransaction'
  BY <1>same DEF SharesHaveTransaction, Exists
<1>1. CASE UNCHANGED vars
  BY <1>1, <1>same DEF vars
<1>2. ASSUME NEW c \in Contents, NEW id \in Ids, Create(c, id)
      PROVE  SharesHaveTransaction'
  <2>1. rows'[id] # NoRow
    <3>1. [cols |-> c.cols, status |-> "draft", created_by |-> Nobody] \in Rows
      BY ContentsShape DEF Rows, Statuses
    <3> QED BY <1>2, <3>1, RowsAreThere DEF Create, TypeOK
  <2>2. \A j \in Ids \ {id} : rows'[j] = rows[j] /\ shares'[j] = shares[j]
    BY <1>2 DEF Create, TypeOK
  <2> QED BY <1>2, <2>1, <2>2 DEF Create, SharesHaveTransaction, Exists
<1>3. ASSUME NEW r \in Requests, NEW op \in Ops, NEW u \in Users, NEW id \in Ids,
             NEW want \in Asked(op), Admit(r, op, u, id, want)
      PROVE  SharesHaveTransaction'
  BY <1>3, <1>same DEF Admit
<1>4. ASSUME NEW r \in Requests, LoadRow(r) \/ LoadShares(r) \/ Fail(r)
      PROVE  SharesHaveTransaction'
  BY <1>4, <1>same DEF LoadRow, LoadShares, Fail
<1>5. ASSUME NEW r \in Requests, Edit(r)
      PROVE  SharesHaveTransaction'
  <2> DEFINE id == req[r].id
  <2>1. id \in Ids /\ rows'[id] # NoRow
    BY <1>5, EditShape, RowsAreThere
  <2>2. \A j \in Ids \ {id} : rows'[j] = rows[j] /\ shares'[j] = shares[j]
    BY <1>5, EditShape DEF TypeOK
  <2> QED BY <1>5, <2>1, <2>2 DEF Edit, SharesHaveTransaction, Exists
<1>6. ASSUME NEW r \in Requests, SetStatus(r)
      PROVE  SharesHaveTransaction'
  <2> DEFINE id == req[r].id
  <2>1. id \in Ids /\ rows'[id] # NoRow
    BY <1>6, StatusShape, RowsAreThere
  <2>2. \A j \in Ids \ {id} : rows'[j] = rows[j]
    BY <1>6, StatusShape DEF TypeOK
  <2> QED BY <1>6, <2>1, <2>2 DEF SetStatus, SharesHaveTransaction, Exists
<1>7. ASSUME NEW r \in Requests, Delete(r)
      PROVE  SharesHaveTransaction'
  <2>1. req[r].id \in Ids
    BY <1>7, RequestShape DEF Delete
  <2> QED BY <1>7, <2>1 DEF Delete, Refused, SharesHaveTransaction, Exists, TypeOK
<1> QED
  BY <1>1, <1>2, <1>3, <1>4, <1>5, <1>6, <1>7 DEF Next

\* A new id on PostgreSQL is one no transaction and no request has, and what
\* has no creator is let through by no enforcement point.
LEMMA StepApiRowsOutOfReach ==
  TypeOK /\ EditsLoaded /\ ApiRowsOutOfReach /\ [Next]_vars => ApiRowsOutOfReach'
<1> SUFFICES ASSUME TypeOK, EditsLoaded, ApiRowsOutOfReach, [Next]_vars, db = "postgresql"
             PROVE  ApiRowsOutOfReach'
  <2>1. [Next]_vars => db' = db
    BY DEF Next, vars, Create, Admit, LoadRow, LoadShares, Edit, SetStatus, Delete, Fail
  <2> QED BY <2>1 DEF ApiRowsOutOfReach
<1>ids. last \in Int /\ Ids \subseteq Int
  BY DEF TypeOK, Ids
<1>same. ASSUME UNCHANGED << db, rows, last >>,
                \A r \in Requests : req'[r] # Idle => req[r] # Idle /\ req'[r].id = req[r].id
         PROVE  ApiRowsOutOfReach'
  BY <1>same DEF ApiRowsOutOfReach, Exists
<1>1. CASE UNCHANGED vars
  BY <1>1, <1>same DEF vars
<1>2. ASSUME NEW c \in Contents, NEW id \in Ids, Create(c, id)
      PROVE  ApiRowsOutOfReach'
  <2>1. id = last + 1 /\ last' = id /\ UNCHANGED << db, req >>
    BY <1>2 DEF Create, IsNext
  <2>2. /\ rows'[id].status = "draft"
        /\ \A j \in Ids \ {id} : rows'[j] = rows[j]
    BY <1>2 DEF Create, TypeOK
  <2>3. \A r \in Requests : req[r] # Idle => req[r].id \in Ids \ {id} /\ req[r].id <= last
    BY <2>1, <1>ids, RequestShape DEF ApiRowsOutOfReach
  <2>4. \A j \in Ids : rows'[j] # NoRow => j <= last'
    <3> SUFFICES ASSUME NEW j \in Ids, j # id, rows'[j] # NoRow PROVE j <= last'
      BY <2>1, <1>ids
    <3>1. j <= last
      BY <2>2 DEF ApiRowsOutOfReach, Exists
    <3> QED BY <2>1, <3>1, <1>ids
  <2>5. \A j \in Ids :
          rows'[j] # NoRow /\ rows'[j].created_by = Nobody => rows'[j].status = "draft"
    BY <2>2 DEF ApiRowsOutOfReach, Exists
  <2>6. \A r \in Requests : req[r] # Idle =>
          /\ req[r].id <= last'
          /\ rows'[req[r].id] # NoRow => rows'[req[r].id].created_by # Nobody
    <3> SUFFICES ASSUME NEW r \in Requests, req[r] # Idle
                 PROVE  /\ req[r].id <= last'
                        /\ rows'[req[r].id] # NoRow => rows'[req[r].id].created_by # Nobody
      OBVIOUS
    <3>1. req[r].id \in Ids \ {id} /\ req[r].id <= last
      BY <2>3
    <3>2. rows'[req[r].id] = rows[req[r].id]
      BY <2>2, <3>1
    <3>3. req[r].id <= last'
      BY <2>1, <3>1, <1>ids
    <3>4. rows[req[r].id] # NoRow => rows[req[r].id].created_by # Nobody
      BY DEF ApiRowsOutOfReach, Exists
    <3> QED BY <3>2, <3>3, <3>4
  <2> QED BY <2>1, <2>4, <2>5, <2>6 DEF ApiRowsOutOfReach, Exists
<1>3. ASSUME NEW r \in Requests, NEW op \in Ops, NEW u \in Users, NEW id \in Ids,
             NEW want \in Asked(op), Admit(r, op, u, id, want)
      PROVE  ApiRowsOutOfReach'
  <2>1. Exists(id) /\ id <= last
    BY <1>3 DEF Admit, ApiRowsOutOfReach
  <2>2. rows[id].created_by # Nobody
    <3>1. CASE op \in Rulings
      BY <1>3, <2>1, <3>1 DEF Admit, Rulings, Allowed, ApiRowsOutOfReach
    <3>2. CASE op \notin Rulings
      BY <1>3, <3>2 DEF Admit, May, Users, Nobody
    <3> QED BY <3>1, <3>2
  <2>3. /\ req'[r].id = id
        /\ \A q \in Requests \ {r} : req'[q] = req[q]
        /\ UNCHANGED << db, rows, last >>
    BY <1>3 DEF Admit, TypeOK
  <2> QED BY <2>1, <2>2, <2>3 DEF ApiRowsOutOfReach, Exists
<1>4. ASSUME NEW r \in Requests, LoadRow(r)
      PROVE  ApiRowsOutOfReach'
  <2>1. req[r] \in UnderWay /\ req[r] # Idle
    BY <1>4, RequestShape DEF LoadRow
  <2>2. \A q \in Requests : req'[q] # Idle => req[q] # Idle /\ req'[q].id = req[q].id
    BY <1>4, <2>1 DEF LoadRow, Done, TypeOK, UnderWay
  <2> QED BY <1>4, <2>2, <1>same DEF LoadRow
<1>5. ASSUME NEW r \in Requests, LoadShares(r)
      PROVE  ApiRowsOutOfReach'
  <2>1. req[r] \in UnderWay /\ req[r] # Idle
    BY <1>5, RequestShape DEF LoadShares
  <2>2. \A q \in Requests : req'[q] # Idle => req[q] # Idle /\ req'[q].id = req[q].id
    BY <1>5, <2>1 DEF LoadShares, TypeOK, UnderWay
  <2> QED BY <1>5, <2>2, <1>same DEF LoadShares
<1>6. ASSUME NEW r \in Requests, Edit(r) \/ SetStatus(r)
      PROVE  ApiRowsOutOfReach'
  <2> DEFINE id == req[r].id
  <2>1. /\ id \in Ids /\ Exists(id) /\ req[r] # Idle
        /\ rows' = [rows EXCEPT ![id] = rows'[id]]
        /\ rows'[id].created_by = rows[id].created_by
    <3>1. CASE Edit(r)
      BY <3>1, EditShape DEF Edit
    <3>2. CASE SetStatus(r)
      BY <3>2, StatusShape DEF SetStatus
    <3> QED BY <1>6, <3>1, <3>2
  <2>2. \A j \in Ids \ {id} : rows'[j] = rows[j]
    BY <2>1 DEF TypeOK
  <2>3. rows[id].created_by # Nobody /\ id <= last
    BY <2>1 DEF ApiRowsOutOfReach
  <2>4. UNCHANGED << db, last >> /\ Done(r)
    BY <1>6 DEF Edit, SetStatus
  <2>5. \A q \in Requests : req'[q] # Idle => req[q] # Idle /\ req'[q] = req[q]
    BY <2>4 DEF Done, TypeOK
  <2> QED BY <2>1, <2>2, <2>3, <2>4, <2>5, RequestShape DEF ApiRowsOutOfReach, Exists
<1>7. ASSUME NEW r \in Requests, Delete(r)
      PROVE  ApiRowsOutOfReach'
  <2>1. \A j \in Ids : rows'[j] # NoRow => rows[j] # NoRow /\ rows'[j] = rows[j]
    BY <1>7 DEF Delete, TypeOK
  <2>2. \A q \in Requests : req'[q] # Idle => req[q] # Idle /\ req'[q] = req[q]
    BY <1>7 DEF Delete, Done, TypeOK
  <2> QED BY <1>7, <2>1, <2>2, RequestShape DEF Delete, ApiRowsOutOfReach, Exists
<1>8. ASSUME NEW r \in Requests, Fail(r)
      PROVE  ApiRowsOutOfReach'
  BY <1>8, <1>same DEF Fail, Done, TypeOK
<1> QED
  BY <1>1, <1>2, <1>3, <1>4, <1>5, <1>6, <1>7, <1>8 DEF Next

-----------------------------------------------------------------------------

\* An edit that knew the row leaves exactly what was asked for, as a draft.
LEMMA EditExact ==
  ASSUME TypeOK, EditsLoaded, NEW r \in Requests, Edit(r), KnewTheRow(r)
  PROVE  /\ rows'[req[r].id].cols = req[r].want.cols
         /\ rows'[req[r].id].status = "draft"
         /\ SharesAfter(r) = req[r].want.shares
<1> DEFINE id   == req[r].id
           want == req[r].want.cols
           now  == rows[id].cols
           seen == req[r].cols
           cols == [kind   |-> Written(seen.kind, want.kind, now.kind),
                    split  |-> Written(seen.split, want.split, now.split),
                    amount |-> Written(seen.amount, want.amount, now.amount)]
           status == Written(req[r].status, "draft", rows[id].status)
<1>1. req[r].op = "update" /\ id \in Ids /\ Exists(id)
  BY RequestShape DEF Edit
<1>2. now = seen /\ rows[id].status = req[r].status /\ req[r].status = "draft"
      /\ shares[id] = req[r].shares
  BY <1>1 DEF KnewTheRow, Allowed
<1>3. want \in Columns /\ req[r].want.shares \in ShareRows
  BY <1>1, ContentsShape DEF Edit, EditsLoaded
<1>4. cols = want
  BY <1>2, <1>3 DEF Written, Columns
<1>5. status = "draft"
  BY <1>2 DEF Written
<1>6. rows' = [rows EXCEPT ![id].cols = cols, ![id].status = status]
  BY DEF Edit
<1>7. rows[id] \in Rows
  BY <1>1, RowShape
<1>8. rows'[id].cols = cols /\ rows'[id].status = status
  BY <1>1, <1>6, <1>7 DEF TypeOK, Rows
<1>9. SharesAfter(r) = req[r].want.shares
  <2> DEFINE wish == req[r].want.shares
             held == shares[id]
  <2>1. (DOMAIN held \ Dropped(r)) \cup DOMAIN wish = DOMAIN wish
    BY <1>2 DEF Dropped
  <2>2. SharesAfter(r) = [u \in DOMAIN wish |-> wish[u]]
    BY <2>1 DEF SharesAfter
  <2>3. wish \in [DOMAIN wish -> Cents \cup {Null}]
    BY <1>3, ShareRowsShape
  <2> QED BY <2>2, <2>3
<1> QED BY <1>4, <1>5, <1>8, <1>9

\* A transaction created where no share rows were left is what was asked for.
LEMMA CreateExact ==
  ASSUME TypeOK, NEW c \in Contents, NEW id \in Ids, Create(c, id), id \notin overtaken'
  PROVE  /\ rows'[id].cols = c.cols /\ rows'[id].status = "draft"
         /\ shares'[id] = c.shares
<1>1. rows'[id].cols = c.cols /\ rows'[id].status = "draft"
  BY DEF Create, TypeOK
<1>2. DOMAIN shares[id] = {}
  BY DEF Create
<1>3. shares'[id] = [u \in DOMAIN c.shares |-> c.shares[u]]
  BY <1>2 DEF Create, TypeOK
<1>4. c.shares \in [DOMAIN c.shares -> Cents \cup {Null}]
  BY ContentsShape, ShareRowsShape
<1> QED BY <1>1, <1>3, <1>4

\* What is stored stays valid where nobody was overtaken, and what is pending
\* or approved stays what was submitted.
LEMMA StepUnlessOvertaken ==
  TypeOK /\ EditsLoaded /\ ValidUnlessOvertaken /\ SubmittedUnlessOvertaken /\ [Next]_vars
    => ValidUnlessOvertaken' /\ SubmittedUnlessOvertaken'
<1> DEFINE Good(id) ==
             /\ Exists(id) => Valid(rows[id].cols, shares[id])
             /\ Exists(id) /\ rows[id].status \in {"pending", "approved"}
                  => [cols |-> rows[id].cols, shares |-> shares[id]] = submitted[id]
<1>eq. ASSUME NEW i \in Ids
       PROVE  /\ ValidUnlessOvertaken /\ SubmittedUnlessOvertaken /\ i \notin overtaken => Good(i)
  BY <1>eq DEF ValidUnlessOvertaken, SubmittedUnlessOvertaken, Content
<1> SUFFICES ASSUME TypeOK, EditsLoaded, ValidUnlessOvertaken, SubmittedUnlessOvertaken, [Next]_vars,
                    NEW i \in Ids, i \notin overtaken'
             PROVE  /\ rows'[i] # NoRow => Valid(rows'[i].cols, shares'[i])
                    /\ rows'[i] # NoRow /\ rows'[i].status \in {"pending", "approved"}
                         => [cols |-> rows'[i].cols, shares |-> shares'[i]] = submitted'[i]
  BY DEF ValidUnlessOvertaken, SubmittedUnlessOvertaken, Content, Exists, Valid, Total
<1> DEFINE Goal ==
             /\ rows'[i] # NoRow => Valid(rows'[i].cols, shares'[i])
             /\ rows'[i] # NoRow /\ rows'[i].status \in {"pending", "approved"}
                  => [cols |-> rows'[i].cols, shares |-> shares'[i]] = submitted'[i]
<1>same. ASSUME rows'[i] = rows[i], shares'[i] = shares[i], submitted'[i] = submitted[i],
                i \notin overtaken
         PROVE  Goal
  BY <1>same, <1>eq DEF Exists
<1>1. CASE UNCHANGED vars
  BY <1>1, <1>same DEF vars
<1>2. ASSUME NEW c \in Contents, NEW id \in Ids, Create(c, id)
      PROVE  Goal
  <2>1. CASE i = id
    <3>1. rows'[i].cols = c.cols /\ rows'[i].status = "draft" /\ shares'[i] = c.shares
      BY <1>2, <2>1, CreateExact
    <3> QED BY <3>1, ContentsShape
  <2>2. CASE i # id
    BY <1>2, <2>2, <1>same DEF Create, TypeOK
  <2> QED BY <2>1, <2>2
<1>3. ASSUME NEW r \in Requests, NEW op \in Ops, NEW u \in Users, NEW id \in Ids,
             NEW want \in Asked(op), Admit(r, op, u, id, want)
      PROVE  Goal
  BY <1>3, <1>same DEF Admit
<1>4. ASSUME NEW r \in Requests, LoadRow(r) \/ LoadShares(r) \/ Fail(r)
      PROVE  Goal
  BY <1>4, <1>same DEF LoadRow, LoadShares, Fail
<1>5. ASSUME NEW r \in Requests, Edit(r)
      PROVE  Goal
  <2> DEFINE id == req[r].id
  <2>0. /\ id \in Ids
        /\ req[r].want \in Contents
        /\ rows' = [rows EXCEPT ![id] = rows'[id]]
        /\ shares' = [shares EXCEPT ![id] = SharesAfter(r)]
        /\ Remember(id, rows'[id].status, rows'[id].cols, SharesAfter(r))
    BY <1>5, EditShape
  <2>1. CASE i = id
    <3>1. KnewTheRow(r)
      BY <1>5, <2>1 DEF Edit
    <3>2. /\ rows'[i].cols = req[r].want.cols /\ rows'[i].status = "draft"
          /\ SharesAfter(r) = req[r].want.shares
      BY <1>5, <2>1, <3>1, EditExact
    <3>3. shares'[i] = req[r].want.shares
      BY <2>0, <2>1, <3>2 DEF TypeOK
    <3> QED BY <2>0, <3>2, <3>3, ContentsShape
  <2>2. CASE i # id
    <3>1. rows'[i] = rows[i] /\ shares'[i] = shares[i]
      BY <2>0, <2>2 DEF TypeOK
    <3>2. submitted'[i] = submitted[i]
      BY <2>0, <2>2 DEF Remember, TypeOK
    <3>3. i \notin overtaken
      BY <1>5, <2>2 DEF Edit
    <3> QED BY <3>1, <3>2, <3>3, <1>same
  <2> QED BY <2>1, <2>2
<1>6. ASSUME NEW r \in Requests, SetStatus(r)
      PROVE  Goal
  <2> DEFINE id == req[r].id
             status == Written(req[r].status, Target[req[r].op], rows[id].status)
  <2>0. /\ id \in Ids /\ Exists(id)
        /\ rows' = [rows EXCEPT ![id] = rows'[id]]
        /\ rows'[id] = [cols |-> rows[id].cols, status |-> status,
                        created_by |-> rows[id].created_by]
    BY <1>6, StatusShape
  <2>u. shares' = shares /\ Remember(id, status, rows[id].cols, shares[id])
    BY <1>6 DEF SetStatus
  <2>1. CASE i = id
    <3>1. KnewTheRow(r) /\ i \notin overtaken
      BY <1>6, <2>1 DEF SetStatus
    <3>2. Good(i)
      BY <3>1, <1>eq
    <3>3. rows'[i].cols = rows[i].cols /\ rows'[i].status = status
      BY <2>0, <2>1
    <3>4. Valid(rows'[i].cols, shares'[i])
      BY <2>0, <2>1, <2>u, <3>2, <3>3
    <3>5. ASSUME rows'[i].status \in {"pending", "approved"}
          PROVE  [cols |-> rows'[i].cols, shares |-> shares'[i]] = submitted'[i]
      <4>1. CASE status = "pending"
        BY <2>0, <2>1, <2>u, <3>3, <4>1 DEF Remember, TypeOK
      <4>2. CASE status = "approved"
        <5>1. req[r].op \in Ops \ {"update", "delete"}
          BY <1>6, RequestShape DEF SetStatus
        <5>2. rows[i].status = req[r].status /\ req[r].status \in Allowed[req[r].op]
          BY <2>1, <3>1 DEF KnewTheRow
        <5>3. rows[i].status = "pending"
          BY <5>1, <5>2, <4>2, <2>1 DEF Ops, Allowed, Target, Written
        <5>4. submitted' = submitted
          BY <2>u, <4>2 DEF Remember
        <5> QED BY <2>0, <2>1, <2>u, <3>2, <3>3, <5>3, <5>4
      <4> QED BY <3>3, <3>5, <4>1, <4>2
    <3> QED BY <3>4, <3>5
  <2>2. CASE i # id
    <3>1. rows'[i] = rows[i] /\ shares'[i] = shares[i]
      BY <2>0, <2>2, <2>u DEF TypeOK
    <3>2. submitted'[i] = submitted[i]
      BY <2>0, <2>2, <2>u DEF Remember, TypeOK
    <3>3. i \notin overtaken
      BY <1>6, <2>2 DEF SetStatus
    <3> QED BY <3>1, <3>2, <3>3, <1>same
  <2> QED BY <2>1, <2>2
<1>7. ASSUME NEW r \in Requests, Delete(r)
      PROVE  Goal
  <2> DEFINE id == req[r].id
  <2>1. CASE i = id
    BY <1>7, <2>1 DEF Delete, TypeOK
  <2>2. CASE i # id
    BY <1>7, <2>2, <1>same DEF Delete, TypeOK
  <2> QED BY <2>1, <2>2
<1>8. QED
  BY <1>1, <1>2, <1>3, <1>4, <1>5, <1>6, <1>7 DEF Next

-----------------------------------------------------------------------------

IInv ==
  /\ TypeOK
  /\ EditsLoaded
  /\ SharesHaveTransaction
  /\ ApiRowsOutOfReach
  /\ ValidUnlessOvertaken
  /\ SubmittedUnlessOvertaken

\* The sample data satisfies the inductive invariant.
LEMMA InitIInv == Init => IInv
<1> SUFFICES ASSUME Init PROVE IInv
  OBVIOUS
<1>1. PICK s \in Samples, status \in {"pending", "approved"} :
         /\ rows = [id \in Ids |-> IF id = 1
                      THEN [cols |-> s.content.cols, status |-> status, created_by |-> s.created_by]
                      ELSE NoRow]
         /\ shares = [id \in Ids |-> IF id = 1 THEN s.content.shares ELSE << >>]
         /\ submitted = [id \in Ids |-> s.content]
  BY DEF Init
<1>2. s.content \in Contents /\ s.created_by \in Users
  BY SamplesAssumption
<1>3. TypeOK
  BY InitTypeOK
<1>4. EditsLoaded
  BY DEF Init, EditsLoaded
<1>5. rows[1] # NoRow /\ 1 \in Ids
  <2>1. [cols |-> s.content.cols, status |-> status, created_by |-> s.created_by] \in Rows
    BY <1>2, ContentsShape DEF Rows, Statuses
  <2>2. 1 \in Ids
    BY MaxIdAssumption DEF Ids
  <2> QED BY <1>1, <2>1, <2>2, RowsAreThere
<1>6. SharesHaveTransaction
  BY <1>1, <1>5 DEF SharesHaveTransaction, Exists
<1>7. ApiRowsOutOfReach
  <2>1. \A id \in Ids : Exists(id) => id = 1 /\ rows[id].created_by = s.created_by
    BY <1>1 DEF Exists
  <2>2. s.created_by # Nobody
    BY <1>2 DEF Users, Nobody
  <2> QED BY <2>1, <2>2 DEF ApiRowsOutOfReach, Init
<1>8. \A id \in Ids : Exists(id) =>
        Content(id) = submitted[id] /\ Valid(rows[id].cols, shares[id])
  <2> SUFFICES ASSUME NEW id \in Ids, Exists(id)
               PROVE  Content(id) = submitted[id] /\ Valid(rows[id].cols, shares[id])
    OBVIOUS
  <2>1. id = 1
    BY <1>1 DEF Exists
  <2>2. rows[id].cols = s.content.cols /\ shares[id] = s.content.shares
        /\ submitted[id] = s.content
    BY <1>1, <2>1
  <2> QED BY <1>2, <2>2, ContentsShape DEF Content
<1>9. ValidUnlessOvertaken /\ SubmittedUnlessOvertaken
  BY <1>8 DEF ValidUnlessOvertaken, SubmittedUnlessOvertaken
<1> QED BY <1>3, <1>4, <1>6, <1>7, <1>9 DEF IInv

\* The inductive invariant holds throughout.
THEOREM Invariant == Spec => []IInv
<1>1. IInv /\ [Next]_vars => IInv'
  BY StepTypeOK, StepEditsLoaded, StepSharesHaveTransaction, StepApiRowsOutOfReach,
     StepUnlessOvertaken DEF IInv
<1> QED BY InitIInv, <1>1, PTL DEF Spec

\* The tables and the requests are always well formed.
THEOREM TypeCorrect == Spec => []TypeOK
<1>1. IInv => TypeOK
  BY DEF IInv
<1> QED BY Invariant, <1>1, PTL

\* Where no writer was overtaken, what is stored passes the validation.
THEOREM EditsAreExact == Spec => []ValidUnlessOvertaken
<1>1. IInv => ValidUnlessOvertaken
  BY DEF IInv
<1> QED BY Invariant, <1>1, PTL

\* Where no writer was overtaken, what is approved is what was submitted.
THEOREM ApprovalIsOfSubmitted == Spec => []ApprovedUnlessOvertaken
<1>1. IInv => ApprovedUnlessOvertaken
  BY DEF IInv, SubmittedUnlessOvertaken, ApprovedUnlessOvertaken
<1> QED BY Invariant, <1>1, PTL

\* On PostgreSQL no share row outlives its transaction.
THEOREM NoLeftoverShares == Spec => []SharesHaveTransaction
<1>1. IInv => SharesHaveTransaction
  BY DEF IInv
<1> QED BY Invariant, <1>1, PTL

\* On PostgreSQL what is created through the API stays as it was created,
\* whatever is asked of it and however requests overlap.
THEOREM ApiRowsStayDrafts == Spec => ApiRowsFrozen
<1> DEFINE Frozen ==
      \A id \in Ids :
        db = "postgresql" /\ Exists(id) /\ rows[id].created_by = Nobody
          => rows'[id] = rows[id] /\ shares'[id] = shares[id]
<1>1. IInv /\ [Next]_vars => [Frozen]_vars
  <2> SUFFICES ASSUME IInv, [Next]_vars, NEW i \in Ids,
                      db = "postgresql", Exists(i), rows[i].created_by = Nobody
               PROVE  rows'[i] = rows[i] /\ shares'[i] = shares[i]
    OBVIOUS
  <2> USE DEF IInv
  <2>reach. \A r \in Requests : req[r] # Idle => req[r].id # i
    BY DEF ApiRowsOutOfReach
  <2>1. CASE UNCHANGED vars
    BY <2>1 DEF vars
  <2>2. ASSUME NEW c \in Contents, NEW id \in Ids, Create(c, id)
        PROVE  rows'[i] = rows[i] /\ shares'[i] = shares[i]
    <3>1. i <= last /\ id = last + 1 /\ last \in Int /\ i \in Int
      BY <2>2 DEF ApiRowsOutOfReach, Create, IsNext, TypeOK, Ids
    <3> QED BY <2>2, <3>1 DEF Create, TypeOK
  <2>3. ASSUME NEW r \in Requests, NEW op \in Ops, NEW u \in Users, NEW id \in Ids,
               NEW want \in Asked(op), Admit(r, op, u, id, want)
        PROVE  rows'[i] = rows[i] /\ shares'[i] = shares[i]
    BY <2>3 DEF Admit
  <2>4. ASSUME NEW r \in Requests, LoadRow(r) \/ LoadShares(r) \/ Fail(r)
        PROVE  rows'[i] = rows[i] /\ shares'[i] = shares[i]
    BY <2>4 DEF LoadRow, LoadShares, Fail
  <2>5. ASSUME NEW r \in Requests, Edit(r)
        PROVE  rows'[i] = rows[i] /\ shares'[i] = shares[i]
    <3>1. /\ req[r].id \in Ids
          /\ rows' = [rows EXCEPT ![req[r].id] = rows'[req[r].id]]
          /\ shares' = [shares EXCEPT ![req[r].id] = SharesAfter(r)]
      BY <2>5, EditShape
    <3>2. req[r].id # i
      BY <2>5, <2>reach DEF Edit
    <3> QED BY <3>1, <3>2 DEF TypeOK
  <2>6. ASSUME NEW r \in Requests, SetStatus(r)
        PROVE  rows'[i] = rows[i] /\ shares'[i] = shares[i]
    <3>1. req[r].id # i
      BY <2>6, <2>reach DEF SetStatus
    <3> QED BY <2>6, <3>1 DEF SetStatus, TypeOK
  <2>7. ASSUME NEW r \in Requests, Delete(r)
        PROVE  rows'[i] = rows[i] /\ shares'[i] = shares[i]
    <3>1. req[r].id # i
      BY <2>7, <2>reach DEF Delete
    <3> QED BY <2>7, <3>1 DEF Delete, TypeOK
  <2> QED
    BY <2>1, <2>2, <2>3, <2>4, <2>5, <2>6, <2>7 DEF Next
<1> QED BY Invariant, <1>1, PTL DEF Spec, ApiRowsFrozen
=============================================================================
