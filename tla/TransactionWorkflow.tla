------------------------- MODULE TransactionWorkflow -------------------------
(***************************************************************************)
(* The requests on transactions: create, edit, submit, take back to draft, *)
(* approve, reject and delete (app/api/routers/v1/transactions.py).        *)
(*                                                                         *)
(* Each request first passes a policy enforcement point, which reads the   *)
(* transaction, then loads it again and writes.  Nothing is locked in      *)
(* between, and an UPDATE names only the columns in which the request      *)
(* differs from what it loaded: the others keep what the table holds then. *)
(*                                                                         *)
(* The flush and the commit that end a request are one step: on both       *)
(* databases the rows it has written stay locked until it commits.         *)
(***************************************************************************)
EXTENDS Integers

CONSTANTS
  Databases, \* those an installation may run on
  Requests,  \* bound: requests under way at once
  MaxId,     \* bound: ids of transactions
  NUsers,    \* bound: members of the group, named 1..NUsers
  Cents,     \* bound: what a share can have in share_amount
  Admins,    \* those of them who may approve and reject
  Samples,   \* what the installation may start from: the sample data has creators
  Contents,  \* what a request can ask a transaction to become
  Null,      \* share_amount is null
  NoRow,     \* there is no row with that id
  Idle       \* nothing is under way

Users  == 1..NUsers
Ids    == 1..MaxId
Nobody == 0        \* created_by is null

Statuses  == {"draft", "pending", "approved", "rejected"}

\* The columns that _validate_transaction looks at.  Of the split kinds, the
\* one that reads a column of the shares, and one that does not.
Columns   == [kind : {"expense", "deposit"}, split : {"equal", "amount"}, amount : Int]
ShareRows == UNION { [some -> Cents \cup {Null}] : some \in SUBSET Users }
Rows      == [cols : Columns, status : Statuses, created_by : Users \cup {Nobody}]

Total(sh) ==
  LET upto[n \in 0..NUsers] ==
        IF n = 0 THEN 0 ELSE upto[n - 1] + (IF n \in DOMAIN sh THEN sh[n] ELSE 0)
  IN  upto[NUsers]

\* _validate_transaction
Valid(cols, sh) ==
  IF cols.kind # "expense"
    THEN DOMAIN sh = {}
    ELSE /\ DOMAIN sh # {}
         /\ cols.split = "amount" => /\ \A u \in DOMAIN sh : sh[u] # Null
                                     /\ Total(sh) = cols.amount

\* what the validation refuses changes nothing
ASSUME ContentsAssumption ==
  \A c \in Contents : c \in [cols : Columns, shares : ShareRows] /\ Valid(c.cols, c.shares)
ASSUME SamplesAssumption  == Samples \subseteq [content : Contents, created_by : Users]
ASSUME AdminsAssumption == NUsers \in Nat /\ Admins \subseteq Users
ASSUME MaxIdAssumption  == MaxId \in Nat \ {0}
ASSUME DatabasesAssumption == Databases \subseteq {"postgresql", "sqlite"}
ASSUME CentsAssumption  == Cents \subseteq Int
ASSUME NullAssumption   == Null \notin Int
ASSUME NoRowAssumption  == NoRow \notin Rows

VARIABLES
  db,         \* the database the installation runs on
  rows,       \* the table of transactions
  shares,     \* the table of expense shares, by transaction
  last,       \* the last id PostgreSQL's sequence has given
  req,        \* the requests under way
  submitted,  \* history: what each transaction was when it last was pending
  overtaken   \* history: transactions last written by a request that did not know what it overwrote

vars == << db, rows, shares, last, req, submitted, overtaken >>

Ops     == {"update", "submit", "draft", "approve", "reject", "delete"}
Rulings == {"approve", "reject"}

\* seeded fault: a draft is approved without having been submitted
AllowedAtOnce ==
  [update |-> {"draft"}, submit |-> {"draft"}, draft |-> {"pending", "rejected"},
   approve |-> {"draft", "pending"}, reject |-> {"pending"}, delete |-> {"draft", "rejected"}]
\* the statuses in which the enforcement point lets a request through
Allowed ==
  [update |-> {"draft"}, submit |-> {"draft"}, draft |-> {"pending", "rejected"},
   approve |-> {"pending"}, reject |-> {"pending"}, delete |-> {"draft", "rejected"}]

\* the status a request leaves behind
Target == [update |-> "draft", submit |-> "pending", draft |-> "draft",
           approve |-> "approved", reject |-> "rejected"]

Exists(id)  == rows[id] # NoRow
Content(id) == [cols |-> rows[id].cols, shares |-> shares[id]]

\* An installation with the sample data: a transaction that waits for approval
\* or is approved, and that has a creator because the script writes one.
Init ==
  /\ db \in Databases
  /\ \E s \in Samples, status \in {"pending", "approved"} :
       /\ rows = [id \in Ids |-> IF id = 1
                    THEN [cols |-> s.content.cols, status |-> status, created_by |-> s.created_by]
                    ELSE NoRow]
       /\ shares = [id \in Ids |-> IF id = 1 THEN s.content.shares ELSE << >>]
       /\ submitted = [id \in Ids |-> s.content]
  /\ last = 1
  /\ req = [r \in Requests |-> Idle]
  /\ overtaken = {}

-----------------------------------------------------------------------------
(* POST /periods/{id}/transactions *)

\* SQLite gives out the highest id in the table plus one, a deleted one again.
IsNext(id) ==
  IF db = "sqlite"
    THEN (id > 1 => Exists(id - 1)) /\ \A j \in Ids : j >= id => ~Exists(j)
    ELSE id = last + 1

\* seeded fault: the default status is not filled in
CreateBare(c, id) ==
  /\ IsNext(id)
  /\ DOMAIN shares[id] \cap DOMAIN c.shares = {}
  /\ rows' = [rows EXCEPT ![id] = [cols |-> c.cols, status |-> Null, created_by |-> Nobody]]
  /\ shares' = [shares EXCEPT ![id] = c.shares]
  /\ last' = id
  /\ UNCHANGED << db, req, submitted, overtaken >>

\* The row has no creator: no caller of set_current_user_id gives one to
\* the listener.  Share rows left under the id clash with those of the
\* request or become the transaction's too.
Create(c, id) ==
  /\ IsNext(id)
  /\ DOMAIN shares[id] \cap DOMAIN c.shares = {}
  /\ rows' = [rows EXCEPT ![id] = [cols |-> c.cols, status |-> "draft", created_by |-> Nobody]]
  /\ shares' = [shares EXCEPT ![id] =
       [u \in DOMAIN c.shares \cup DOMAIN shares[id] |->
          IF u \in DOMAIN c.shares THEN c.shares[u] ELSE shares[id][u]]]
  /\ last' = id
  /\ overtaken' = IF DOMAIN shares[id] = {} THEN overtaken \ {id} ELSE overtaken \cup {id}
  /\ UNCHANGED << db, req, submitted >>

-----------------------------------------------------------------------------
(* the enforcement point *)

\* seeded fault: anyone in the group passes
MayAnyone(op, u, id) == op \in Rulings => u \in Admins
\* the role, then the creator
May(op, u, id) ==
  IF op \in Rulings THEN u \in Admins ELSE rows[id].created_by = u

\* A request that is refused changes nothing and is left out.
Admit(r, op, u, id, want) ==
  /\ req[r] = Idle /\ Exists(id)
  /\ rows[id].status \in Allowed[op]
  /\ May(op, u, id)
  /\ req' = [req EXCEPT ![r] =
       [op |-> op, id |-> id, want |-> want, status |-> "draft", cols |-> Idle, shares |-> << >>,
        step |-> IF op = "delete" THEN "write" ELSE "load"]]
  /\ UNCHANGED << db, rows, shares, last, submitted, overtaken >>

-----------------------------------------------------------------------------
(* TransactionService: load, then write *)

Done(r) == req' = [req EXCEPT ![r] = Idle]

\* The row and its shares are read by two SELECTs; a change of status makes no
\* use of the shares.  If the session still
\* holds the object the enforcement point read, this is as if it were read
\* right then.
LoadRow(r) ==
  /\ req[r] # Idle /\ req[r].step = "load"
  /\ IF Exists(req[r].id)
       THEN LET row == rows[req[r].id] IN
              IF req[r].op = "update"
                THEN req' = [req EXCEPT ![r].status = row.status, ![r].cols = row.cols,
                                        ![r].step = "load_shares"]
                ELSE req' = [req EXCEPT ![r].status = row.status, ![r].step = "write"]
       ELSE Done(r)
  /\ UNCHANGED << db, rows, shares, last, submitted, overtaken >>

LoadShares(r) ==
  /\ req[r] # Idle /\ req[r].step = "load_shares"
  /\ req' = [req EXCEPT ![r].shares = shares[req[r].id], ![r].step = "write"]
  /\ UNCHANGED << db, rows, shares, last, submitted, overtaken >>

\* the columns of the UPDATE: those that differ from what was loaded
Written(seen, want, now) == IF want # seen THEN want ELSE now

\* The request knew what it overwrote: the row is in a status it is allowed
\* in and, for an edit, everything is as it was loaded.
KnewTheRow(r) ==
  LET id == req[r].id IN
  /\ rows[id].status = req[r].status /\ rows[id].status \in Allowed[req[r].op]
  /\ req[r].op = "update" => rows[id].cols = req[r].cols /\ shares[id] = req[r].shares

Remember(id, status, cols, sh) ==
  submitted' = IF status = "pending"
                 THEN [submitted EXCEPT ![id] = [cols |-> cols, shares |-> sh]] ELSE submitted

\* the rows a request inserts, updates and deletes in the table of shares
Added(r)   == DOMAIN req[r].want.shares \ DOMAIN req[r].shares
Kept(r)    == DOMAIN req[r].want.shares \cap DOMAIN req[r].shares
Dropped(r) == DOMAIN req[r].shares \ DOMAIN req[r].want.shares

\* An INSERT of a row that is there, or an UPDATE of one that is not, fails
\* the request; a DELETE of one that is gone does not.
SharesFit(r) ==
  LET now == DOMAIN shares[req[r].id] IN Added(r) \cap now = {} /\ Kept(r) \subseteq now

\* seeded fault: the edit replaces the columns and adds to the shares
SharesAdded(r) ==
  LET want == req[r].want.shares
      now  == shares[req[r].id]
  IN  [u \in DOMAIN now \cup DOMAIN want |-> IF u \in DOMAIN want THEN want[u] ELSE now[u]]

\* what the table of shares holds for the transaction after the flush
SharesAfter(r) ==
  LET want == req[r].want.shares
      now  == shares[req[r].id]
  IN  [u \in (DOMAIN now \ Dropped(r)) \cup DOMAIN want |->
         IF u \in DOMAIN want THEN want[u] ELSE now[u]]

\* update_transaction
Edit(r) ==
  LET id   == req[r].id
      want == req[r].want.cols
      now  == rows[id]
      seen == req[r].cols
      cols == [kind   |-> Written(seen.kind, want.kind, now.cols.kind),
               split  |-> Written(seen.split, want.split, now.cols.split),
               amount |-> Written(seen.amount, want.amount, now.cols.amount)]
      status == Written(req[r].status, "draft", now.status)
  IN
  /\ req[r] # Idle /\ req[r].step = "write" /\ req[r].op = "update"
  /\ Exists(id) /\ SharesFit(r)
  /\ rows' = [rows EXCEPT ![id].cols = cols, ![id].status = status]
  /\ shares' = [shares EXCEPT ![id] = SharesAfter(r)]
  /\ Remember(id, status, cols, SharesAfter(r))
  /\ overtaken' = IF KnewTheRow(r) THEN overtaken \ {id} ELSE overtaken \cup {id}
  /\ Done(r)
  /\ UNCHANGED << db, last >>

\* update_transaction_status
SetStatus(r) ==
  LET id == req[r].id
      status == Written(req[r].status, Target[req[r].op], rows[id].status)
  IN
  /\ req[r] # Idle /\ req[r].step = "write" /\ req[r].op \notin {"update", "delete"}
  /\ Exists(id)
  /\ rows' = [rows EXCEPT ![id].status = status]
  /\ Remember(id, status, rows[id].cols, shares[id])
  /\ overtaken' = IF KnewTheRow(r) THEN overtaken ELSE overtaken \cup {id}
  /\ Done(r)
  /\ UNCHANGED << db, shares, last >>

\* seeded fault: the table of shares has no foreign key
NeverRefused(id) == FALSE
\* PostgreSQL's foreign key refuses to delete a row that has shares
Refused(id) == db = "postgresql" /\ DOMAIN shares[id] # {}

\* delete_transaction is one DELETE of the row: the cascade of the model is
\* not applied, and SQLite, whose foreign keys are off, leaves the shares.
Delete(r) ==
  LET id == req[r].id IN
  /\ req[r] # Idle /\ req[r].step = "write" /\ req[r].op = "delete"
  /\ ~Refused(id)
  /\ rows' = [rows EXCEPT ![id] = NoRow]
  /\ overtaken' = overtaken \ {id}
  /\ Done(r)
  /\ UNCHANGED << db, shares, last, submitted >>

\* The transaction rolls back.  A row that is gone fails the request,
\* whatever it has to write.
Fail(r) ==
  /\ req[r] # Idle /\ req[r].step = "write"
  /\ CASE req[r].op = "delete" -> Refused(req[r].id)
       [] req[r].op = "update" -> ~Exists(req[r].id) \/ ~SharesFit(r)
       [] OTHER                -> ~Exists(req[r].id)
  /\ Done(r)
  /\ UNCHANGED << db, rows, shares, last, submitted, overtaken >>

-----------------------------------------------------------------------------

Asked(op) == IF op = "update" THEN Contents ELSE {Idle}

Next ==
  \/ \E c \in Contents, id \in Ids : Create(c, id)
  \/ \E r \in Requests :
       \/ \E op \in Ops, u \in Users, id \in Ids : \E want \in Asked(op) : Admit(r, op, u, id, want)
       \/ LoadRow(r)
       \/ LoadShares(r)
       \/ Edit(r)
       \/ SetStatus(r)
       \/ Delete(r)
       \/ Fail(r)

Spec == Init /\ [][Next]_vars

-----------------------------------------------------------------------------

UnderWay ==
  [op : Ops, id : Ids, step : {"load", "load_shares", "write"},
   want : Contents \cup {Idle}, status : Statuses,
   cols : Columns \cup {Idle}, shares : ShareRows]

\* Every table and every request under way is of the shape the code gives it.
TypeOK ==
  /\ db \in Databases
  /\ rows \in [Ids -> Rows \cup {NoRow}]
  /\ shares \in [Ids -> ShareRows]
  /\ last \in Ids
  /\ req \in [Requests -> UnderWay \cup {Idle}]
  /\ submitted \in [Ids -> [cols : Columns, shares : ShareRows]]
  /\ overtaken \subseteq Ids

\* What is stored passes the validation it was stored under, so that the
\* shares of the period can be calculated (_validate_transaction, and
\* _calculate_shares_for_transaction, which raises when they do not add up).
StoredIsValid ==
  \A id \in Ids : Exists(id) => Valid(rows[id].cols, shares[id])

\* An administrator approves what the creator submitted: the amount and the
\* shares of an approved transaction are those it had while it was pending
\* (approve_transaction and the statuses its enforcement point lets through).
ApprovedAsSubmitted ==
  \A id \in Ids :
    Exists(id) /\ rows[id].status = "approved" => Content(id) = submitted[id]

\* Only requests that overtake each other break the two: an edit that writes
\* just the columns and shares it finds different leaves exactly what was
\* asked for, as long as nobody has written since it loaded
\* (update_transaction, TransactionRepository.update_transaction).
ValidUnlessOvertaken ==
  \A id \in Ids \ overtaken : Exists(id) => Valid(rows[id].cols, shares[id])

\* Likewise, approval is of what was submitted, on every transaction whose
\* writers found the status the enforcement point let them through on.
ApprovedUnlessOvertaken ==
  \A id \in Ids \ overtaken :
    Exists(id) /\ rows[id].status = "approved" => Content(id) = submitted[id]

\* On PostgreSQL a share row belongs to a transaction (the foreign key, and
\* the delete that does not cascade).
SharesHaveTransaction ==
  db = "postgresql" => \A id \in Ids : DOMAIN shares[id] # {} => Exists(id)

\* On PostgreSQL a transaction created through the API stays the draft it was
\* created as: without a creator no enforcement point lets an edit, a
\* submission or a deletion through, and requests let through on another
\* transaction cannot reach it (requires_transaction_status_and_creator, audit.py).
ApiRowsFrozen ==
  [][\A id \in Ids :
       db = "postgresql" /\ Exists(id) /\ rows[id].created_by = Nobody
         => rows'[id] = rows[id] /\ shares'[id] = shares[id]]_vars
=============================================================================
