------------------------ MODULE GroupMembershipProofs ------------------------
(***************************************************************************)
(* For any users, ids, periods and number of requests, what the run of     *)
(* GroupMembership checks on two requests.                                 *)
(***************************************************************************)
EXTENDS GroupMembership, FiniteSetTheorems, WellFoundedInduction, TLAPS

\* what the step of a request says of it
Knows(x) ==
  /\ x.op = "transfer" => x.target \in Users /\ x.role = "owner"
  /\ x.op = "assign" => x.target \in Users /\ x.role \in {"admin", "member"}
  /\ x.op = "remove" => x.target \in Users
  /\ x.step \in {"find_owner", "demote"}
       => x.op = "transfer" /\ x.owner \in Users /\ x.owner # x.target /\ x.held = NoId
  /\ x.step \in {"find", "assign"} => x.op \in {"transfer", "assign"}
  /\ x.step = "owner" => x.op = "transfer"
  /\ x.step = "target" => x.op \in {"transfer", "remove"}
  /\ x.step \in {"check", "transactions"} => x.op \in {"remove", "delete"}
  /\ x.step = "remove" => x.op = "remove"
  /\ x.step = "load" => x.op \in {"transfer", "delete"}
  /\ x.step = "delete" => x.op = "delete"
  /\ x.held # NoId
       => x.op = "transfer" /\ x.step \in {"find", "assign"} /\ x.owner \in Users /\ x.owner # x.target

RequestsKnow == \A r \in Requests : Running(r) => Knows(req[r])

\* What a transfer has written is the row of the owner it read, which nobody
\* else writes; on SQLite nobody else writes at all.
HeldIsOwners(r) ==
  /\ rows[req[r].held] = NoRow => Bound(req[r].owner) = {}
  /\ db = "postgresql" /\ rows[req[r].held] # NoRow => rows[req[r].held].user = req[r].owner
HeldAlone(r, q) ==
  db = "postgresql" /\ req[q].owner # req[r].owner /\ req[q].held # req[r].held
HeldRows ==
  \A r \in Requests : Holds(r) =>
    HeldIsOwners(r) /\ \A q \in Requests \ {r} : Holds(q) => HeldAlone(r, q)

\* On PostgreSQL no id is above the last one the sequence has given.
IdsGoUp ==
  db = "postgresql" =>
    /\ \A i \in Ids : Used(i) => i <= last
    /\ \A r \in Requests : Running(r) => req[r].found <= last

\* whose binding a request has looked for
Sought(r) == IF req[r].step = "assign" THEN req[r].target ELSE req[r].owner

\* A row that was found is still of the user it was found for, if it is still
\* there: on PostgreSQL, where ids are not given twice, and for whoever holds
\* the lock of SQLite.
FoundIsSoughts(r) ==
  (db = "postgresql" \/ Holds(r)) /\ rows[req[r].found] # NoRow /\ req[r].step \in {"demote", "assign"}
    => rows[req[r].found].user = Sought(r)
FoundIsNotNew(r) ==
  db = "postgresql" =>
    \A q \in Requests : Holds(q) /\ rows[req[q].held] = NoRow => req[q].held # req[r].found
FoundStays ==
  \A r \in Requests : Running(r) /\ req[r].found # NoId => FoundIsNotNew(r) /\ FoundIsSoughts(r)

\* On PostgreSQL a transfer that has written keeps the group from being deleted.
NobodyWritesTheDeleted ==
  db = "postgresql" /\ group = "deleted" => \A r \in Requests : ~Holds(r)

\* Of the open periods, a check has seen all transactions but later ones, and
\* those of the period whose transactions it reads next.
SeesAll(r) ==
  /\ Checked(r) => Busy \subseteq late[r]
  /\ At(r, "transactions") => Busy \ req[r].active \subseteq late[r]
CheckedSeesAll == \A r \in Requests : SeesAll(r)

\* A transfer that goes on to the new owner has demoted the old one.
HasDemoted(r) ==
  req[r].op = "transfer" /\ req[r].step \in {"find", "assign"} /\ req[r].owner \in Users /\ req[r].owner # req[r].target
    => req[r].held # NoId
DemotedUnlessAstray == ~astray => \A r \in Requests : Running(r) => HasDemoted(r)

IInv ==
  /\ TypeOK /\ RequestsKnow
  /\ OneBinding /\ HeldRows /\ IdsGoUp /\ FoundStays
  /\ NobodyWritesTheDeleted /\ DeletedLeavesNothing
  /\ CheckedSeesAll
  /\ DemotedUnlessAstray /\ OneOwnerUnlessAstray

-----------------------------------------------------------------------------

\* A request under way is of the shape of one.
LEMMA RequestShape ==
  ASSUME TypeOK, NEW r \in Requests, Running(r)
  PROVE  /\ req[r] \in UnderWay
         /\ req[r].op \in Ops /\ req[r].target \in Users \cup {Nobody} /\ req[r].role \in Roles
         /\ req[r].owner \in Users \cup {Nobody} /\ req[r].was \in Roles
         /\ req[r].found \in Ids \cup {NoId} /\ req[r].held \in Ids \cup {NoId}
<1>1. req[r] \in UnderWay
  BY DEF TypeOK, Running
<1> QED BY <1>1 DEF UnderWay

\* A row is not the absence of one, and has a user and a role.
LEMMA RowShape ==
  ASSUME NEW row \in Rows
  PROVE  row # NoRow /\ row.user \in Users /\ row.role \in Roles
BY NoRowAssumption DEF Rows

\* Ids are positive.
LEMMA IdsShape == NoId \notin Ids /\ Ids \subseteq Nat /\ 1 \in Ids
BY MaxIdAssumption DEF Ids, NoId

\* Nobody is no owner.
LEMMA OwnersAreUsers == TypeOK => Owners \subseteq Users
BY RowShape DEF TypeOK, Owners

\* What writing a role leaves: one row with it, of the user it was of.
LEMMA WithShape ==
  ASSUME NEW tbl \in [Ids -> Rows \cup {NoRow}], NEW i \in Ids, NEW u \in Users, NEW role \in Roles
  PROVE  /\ With(tbl, i, u, role) \in [Ids -> Rows \cup {NoRow}]
         /\ With(tbl, i, u, role)[i] # NoRow /\ With(tbl, i, u, role)[i] \in Rows
         /\ With(tbl, i, u, role)[i].role = role
         /\ tbl[i] = NoRow => With(tbl, i, u, role)[i].user = u
         /\ tbl[i] # NoRow => With(tbl, i, u, role)[i].user = tbl[i].user
         /\ \A j \in Ids \ {i} : With(tbl, i, u, role)[j] = tbl[j]
<1> DEFINE new == [user |-> IF tbl[i] = NoRow THEN u ELSE tbl[i].user, role |-> role]
<1>1. new.user \in Users
  BY RowShape
<1>2. new \in Rows
  BY <1>1 DEF Rows
<1>3. With(tbl, i, u, role) = [tbl EXCEPT ![i] = new]
  BY DEF With
<1>4. new.role = role /\ (tbl[i] = NoRow => new.user = u) /\ (tbl[i] # NoRow => new.user = tbl[i].user)
  OBVIOUS
<1> HIDE DEF new
<1> QED BY <1>2, <1>3, <1>4, RowShape

\* What a request has written itself changes no row of another user.
LEMMA OwnShape ==
  ASSUME TypeOK, RequestsKnow, NEW r \in Requests, Running(r)
  PROVE  /\ Own(r) \in [Ids -> Rows \cup {NoRow}]
         /\ ~Holds(r) => Own(r) = rows
         /\ Holds(r) => /\ req[r].held \in Ids /\ req[r].owner \in Users
                        /\ Own(r)[req[r].held] \in Rows /\ Own(r)[req[r].held].role = "member"
                        /\ rows[req[r].held] = NoRow => Own(r)[req[r].held].user = req[r].owner
                        /\ rows[req[r].held] # NoRow
                             => Own(r)[req[r].held].user = rows[req[r].held].user
                        /\ \A j \in Ids \ {req[r].held} : Own(r)[j] = rows[j]
<1>1. CASE ~Holds(r)
  BY <1>1 DEF Own, TypeOK
<1>2. CASE Holds(r)
  <2>1. req[r].held \in Ids /\ req[r].owner \in Users
    BY <1>2, RequestShape DEF Holds, RequestsKnow, Knows
  <2>2. Own(r) = With(rows, req[r].held, req[r].owner, "member")
    BY <1>2 DEF Own
  <2>3. rows \in [Ids -> Rows \cup {NoRow}] /\ "member" \in Roles
    BY DEF TypeOK, Roles
  <2> QED BY <1>2, <2>1, <2>2, <2>3, WithShape
<1> QED BY <1>1, <1>2

\* The sequence does not go down, and reaches the id it is asked for.
LEMMA LastAfterShape ==
  ASSUME TypeOK, NEW i \in Ids
  PROVE  /\ LastAfter(i) \in Ids \cup {0}
         /\ last <= LastAfter(i)
         /\ db = "postgresql" => i <= LastAfter(i)
BY IdsShape DEF TypeOK, LastAfter

\* At most one id is the next one.
LEMMA OneNext ==
  ASSUME TypeOK, NEW i \in Ids, NEW j \in Ids, IsNext(i), IsNext(j)
  PROVE  i = j
<1>1. CASE db = "sqlite"
  <2>1. ASSUME NEW x \in Ids, NEW y \in Ids, IsNext(x), IsNext(y), x < y PROVE FALSE
    <3>1. y > 1 /\ y - 1 \in Ids /\ y - 1 >= x
      BY <2>1, IdsShape, MaxIdAssumption DEF Ids
    <3>2. Used(y - 1) /\ ~Used(y - 1)
      BY <1>1, <2>1, <3>1 DEF IsNext
    <3> QED BY <3>2
  <2>2. i \in Nat /\ j \in Nat
    BY IdsShape
  <2>3. ~(i < j) /\ ~(j < i)
    BY <2>1
  <2> QED BY <2>2, <2>3
<1>2. CASE db # "sqlite"
  BY <1>2 DEF IsNext
<1> QED BY <1>1, <1>2

\* An id that nobody has used is of no row, and of none that a transfer holds.
LEMMA NextIsFree ==
  ASSUME NEW i \in Ids, IsNext(i)
  PROVE  /\ rows[i] = NoRow
         /\ \A r \in Requests : Holds(r) => req[r].held # i
         /\ db = "postgresql" => i = last + 1
<1>1. ~Used(i)
  <2>1. CASE db = "sqlite"
    BY <2>1, IdsShape DEF IsNext
  <2>2. CASE db # "sqlite"
    BY <2>2 DEF IsNext
  <2> QED BY <2>1, <2>2
<1> QED BY <1>1 DEF Used, IsNext

-----------------------------------------------------------------------------
(* what becomes of a request *)

\* The tables stay as they are.
Quiet == UNCHANGED << db, group, rows, last, periods, late >>

\* what a request that comes is like
New(y) ==
  /\ y \in UnderWay /\ Knows(y)
  /\ y.found = NoId /\ y.held = NoId
  /\ y.step \in {"load", "find", "target", "check", "open"}
  /\ y.step = "find" => y.op = "assign"
  /\ y.step = "load" => y.op = "transfer"

Carried(x, y) ==
  /\ y.op = x.op /\ y.target = x.target /\ y.role = x.role /\ y.held = x.held

\* a request that has passed an enforcement point, or loaded the group
Passed(x, y) ==
  /\ Carried(x, y) /\ y.owner = x.owner /\ y.found = x.found
  /\ \/ x.step = "target" /\ x.op = "transfer" /\ y.step = "owner"
     \/ x.step = "target" /\ x.op # "transfer" /\ y.step = "check"
     \/ x.step = "check" /\ OneOrNone /\ y.step = "transactions" /\ \E p \in Open : y.active = {p}
     \/ /\ \/ x.step = "check" /\ Open = {}
           \/ x.step = "transactions" /\ x.active \cap Busy = {}
        /\ y.step = IF x.op = "remove" THEN "remove" ELSE "load"
     \/ x.step = "load" /\ x.op = "transfer" /\ y.step = "target"
     \/ x.step = "load" /\ x.op # "transfer" /\ y.step = "delete"

\* a transfer that has read the owner
HasOwner(x, y) ==
  /\ Carried(x, y) /\ y.found = x.found
  /\ x.step = "owner"
  /\ \/ y.owner \in {Nobody, x.target} /\ y.step = "find"
     \/ y.owner \in Users /\ y.owner # x.target /\ y.step = "find_owner"

\* a request that has looked for a binding
HasFound(x, y) ==
  /\ Carried(x, y) /\ y.owner = x.owner
  /\ \/ x.step = "find_owner" /\ y.step = "demote" /\ (y.found = NoId \/ y.found \in Bound(x.owner))
     \/ x.step = "find" /\ y.step = "assign" /\ (y.found = NoId \/ y.found \in Bound(x.target))

\* a transfer that need not demote anybody
HasPassedOver(x, y) ==
  /\ Carried(x, y) /\ y.owner = x.owner /\ y.found = x.found
  /\ x.step = "demote" /\ y.step = "find"

Advanced(x, y) ==
  y \in UnderWay /\ (Passed(x, y) \/ HasOwner(x, y) \/ HasFound(x, y))

\* a transfer that has written the row i of the owner it read
HasWritten(x, y, i) ==
  /\ y \in UnderWay
  /\ y.op = x.op /\ y.target = x.target /\ y.role = x.role /\ y.owner = x.owner /\ y.found = x.found
  /\ x.step = "demote" /\ y.step = "find" /\ y.held = i

Ended(r) == req' = [req EXCEPT ![r] = Over]
Asks(r) == \E op \in Ops, by \in Users : \E u \in Targets(op), role \in Given(op) : Admit(r, op, by, u, role)
Looks(r) ==
  CheckTarget(r) \/ CheckPeriod(r) \/ CheckTransactions(r) \/ LoadGroup(r) \/ ReadOwner(r) \/ FindOwner(r) \/ FindTarget(r)
Ends(r) == Remove(r) \/ DeleteGroup(r) \/ CreatePeriod(r) \/ Abort(r) \/ Fail(r)

\* Every step is one of these.
LEMMA Steps ==
  ASSUME [Next]_vars
  PROVE  \/ UNCHANGED vars
         \/ \E u \in Users : CreateGroup(u) \/ Reassign(u)
         \/ \E r \in Requests : Asks(r) \/ Looks(r) \/ Demote(r) \/ Assign(r) \/ Ends(r)
         \/ \E p \in Periods, status \in {"open", "busy", "closed"} : ChangePeriod(p, status)
BY DEF Next, Step, Asks, Looks, Ends

\* A request that comes changes nothing but itself.
LEMMA AsksShape ==
  ASSUME TypeOK, NEW r \in Requests, Asks(r)
  PROVE  Quiet /\ astray' = astray /\ req' = [req EXCEPT ![r] = req'[r]] /\ New(req'[r])
<1>1. PICK op \in Ops, by \in Users : \E u \in Targets(op), role \in Given(op) : Admit(r, op, by, u, role)
  BY DEF Asks
<1>2. PICK u \in Targets(op), role \in Given(op) : Admit(r, op, by, u, role)
  BY <1>1
<1> DEFINE step == CASE op = "transfer" -> "load"
                     [] op = "assign"   -> "find"
                     [] op = "remove"   -> "target"
                     [] op = "delete"   -> "check"
                     [] op = "period"   -> "open"
           new == [op |-> op, target |-> u, role |-> role, owner |-> Nobody,
                   found |-> NoId, was |-> "member", held |-> NoId, active |-> {}, step |-> step]
<1>3. req' = [req EXCEPT ![r] = new] /\ req'[r] = new
  BY <1>2 DEF Admit, TypeOK
<1>4. /\ step \in {"load", "find", "target", "check", "open"}
      /\ step = "load" => op = "transfer"
      /\ step = "find" => op = "assign"
      /\ step = "target" => op = "remove"
      /\ step = "check" => op = "delete"
  BY DEF Ops
<1>5. /\ u \in Users \cup {Nobody} /\ role \in Roles
      /\ op \in {"transfer", "assign", "remove"} => u \in Users
      /\ op = "transfer" => role = "owner"
      /\ op = "assign" => role \in {"admin", "member"}
  BY DEF Targets, Given, Roles, Ops
<1>6. new.op = op /\ new.target = u /\ new.role = role /\ new.found = NoId /\ new.held = NoId /\ new.step = step
  OBVIOUS
<1> HIDE DEF step
<1>7. new \in UnderWay
  BY <1>4, <1>5 DEF UnderWay, Roles
<1> HIDE DEF new
<1>8. Knows(new)
  BY <1>4, <1>5, <1>6 DEF Knows
<1>9. New(new)
  BY <1>4, <1>6, <1>7, <1>8 DEF New
<1> QED BY <1>2, <1>3, <1>9 DEF Admit, Quiet

\* A request that reads changes nothing but itself.
LEMMA LooksShape ==
  ASSUME TypeOK, RequestsKnow, NEW r \in Requests, Looks(r)
  PROVE  /\ Quiet /\ astray' = astray /\ req' = [req EXCEPT ![r] = req'[r]]
         /\ Running(r)
         /\ req'[r] = Over \/ Advanced(req[r], req'[r])
<1> DEFINE x == req[r]
<1>1. Running(r) /\ x \in UnderWay
  BY RequestShape DEF Looks, CheckTarget, CheckPeriod, CheckTransactions, LoadGroup, ReadOwner, FindOwner, FindTarget, At
<1>2. Quiet /\ astray' = astray
  BY DEF Looks, CheckTarget, CheckPeriod, CheckTransactions, LoadGroup, ReadOwner, FindOwner, FindTarget, Find, Quiet
<1>goto. ASSUME NEW step \in {"owner", "check", "remove", "load", "target", "delete"}, GoTo(r, step)
         PROVE  /\ req' = [req EXCEPT ![r] = req'[r]] /\ req'[r] \in UnderWay /\ req'[r].step = step
                /\ Carried(x, req'[r]) /\ req'[r].owner = x.owner /\ req'[r].found = x.found
  <2>1. req'[r] = [x EXCEPT !.step = step] /\ req' = [req EXCEPT ![r] = req'[r]]
    BY <1>goto DEF GoTo, TypeOK
  <2>2. [x EXCEPT !.step = step] \in UnderWay
    BY <1>1 DEF UnderWay
  <2>3. [x EXCEPT !.step = step].step = step /\ Carried(x, [x EXCEPT !.step = step])
        /\ [x EXCEPT !.step = step].owner = x.owner /\ [x EXCEPT !.step = step].found = x.found
    BY <1>1 DEF UnderWay, Carried
  <2> QED BY <2>1, <2>2, <2>3
<1>done. ASSUME Done(r)
         PROVE  req' = [req EXCEPT ![r] = req'[r]] /\ req'[r] = Over
  BY <1>done DEF Done, TypeOK
<1>3. CASE CheckTarget(r)
  BY <1>1, <1>2, <1>3, <1>goto, <1>done DEF CheckTarget, At, Advanced, Passed
<1>read. ASSUME NEW step \in {"remove", "load", "transactions"}, NEW active \in SUBSET Periods,
                req' = [req EXCEPT ![r].active = active, ![r].step = step]
         PROVE  /\ req' = [req EXCEPT ![r] = req'[r]] /\ req'[r] \in UnderWay
                /\ req'[r].step = step /\ req'[r].active = active
                /\ Carried(x, req'[r]) /\ req'[r].owner = x.owner /\ req'[r].found = x.found
  <2> DEFINE y == [x EXCEPT !.active = active, !.step = step]
  <2>1. req'[r] = y /\ req' = [req EXCEPT ![r] = y]
    BY <1>read DEF TypeOK
  <2>2. y \in UnderWay
    BY <1>1 DEF UnderWay
  <2>3. y.step = step /\ y.active = active /\ Carried(x, y) /\ y.owner = x.owner /\ y.found = x.found
    BY <1>1 DEF UnderWay, Carried
  <2> HIDE DEF y
  <2> QED BY <2>1, <2>2, <2>3
<1>on. ASSUME GoOn(r)
       PROVE  /\ req' = [req EXCEPT ![r] = req'[r]] /\ req'[r] \in UnderWay
              /\ req'[r].step = IF x.op = "remove" THEN "remove" ELSE "load"
              /\ Carried(x, req'[r]) /\ req'[r].owner = x.owner /\ req'[r].found = x.found
  <2> DEFINE step == IF x.op = "remove" THEN "remove" ELSE "load"
  <2>1. req' = [req EXCEPT ![r].active = {}, ![r].step = step]
    BY <1>on DEF GoOn
  <2>2. step \in {"remove", "load", "transactions"} /\ {} \in SUBSET Periods
    OBVIOUS
  <2> HIDE DEF step
  <2>3. /\ req' = [req EXCEPT ![r] = req'[r]] /\ req'[r] \in UnderWay /\ req'[r].step = step
        /\ Carried(x, req'[r]) /\ req'[r].owner = x.owner /\ req'[r].found = x.found
    BY <1>read, <2>1, <2>2
  <2> QED BY <2>3 DEF step
<1>4. CASE CheckPeriod(r)
  <2>0. x.step = "check"
    BY <1>4 DEF CheckPeriod, At
  <2>1. CASE Open = {} /\ GoOn(r)
    <3>1. Passed(x, req'[r])
      BY <1>on, <2>0, <2>1 DEF Passed
    <3> QED BY <1>1, <1>2, <1>on, <2>1, <3>1 DEF Advanced
  <2>2. ASSUME OneOrNone, NEW p \in Open,
               req' = [req EXCEPT ![r].active = {p}, ![r].step = "transactions"]
        PROVE  req' = [req EXCEPT ![r] = req'[r]] /\ Advanced(x, req'[r])
    <3>1. {p} \in SUBSET Periods
      BY DEF Open
    <3>2. /\ req' = [req EXCEPT ![r] = req'[r]] /\ req'[r] \in UnderWay
          /\ req'[r].step = "transactions" /\ req'[r].active = {p}
          /\ Carried(x, req'[r]) /\ req'[r].owner = x.owner /\ req'[r].found = x.found
      BY <1>read, <2>2, <3>1
    <3>3. Passed(x, req'[r])
      BY <2>0, <2>2, <3>2 DEF Passed
    <3> QED BY <3>2, <3>3 DEF Advanced
  <2>3. CASE Done(r)
    BY <1>1, <1>2, <1>done, <2>3
  <2> QED BY <1>1, <1>2, <1>4, <2>1, <2>2, <2>3 DEF CheckPeriod
<1>tx. CASE CheckTransactions(r)
  <2>0. x.step = "transactions"
    BY <1>tx DEF CheckTransactions, At
  <2>1. ASSUME x.active \cap Busy = {}, GoOn(r)
        PROVE  req' = [req EXCEPT ![r] = req'[r]] /\ Advanced(x, req'[r])
    <3>1. Passed(x, req'[r])
      BY <1>on, <2>0, <2>1 DEF Passed
    <3> QED BY <1>on, <2>1, <3>1 DEF Advanced
  <2>2. CASE Done(r)
    BY <1>1, <1>2, <1>done, <2>2
  <2> QED BY <1>1, <1>2, <1>tx, <2>1, <2>2 DEF CheckTransactions
<1>5. CASE LoadGroup(r)
  BY <1>1, <1>2, <1>5, <1>goto, <1>done DEF LoadGroup, At, Advanced, Passed
<1>6. CASE ReadOwner(r)
  <2>1. PICK o \in IF Owners = {} THEN {Nobody} ELSE Owners :
          req' = [req EXCEPT ![r].owner = o,
                             ![r].step = IF o \in {Nobody, req[r].target} THEN "find" ELSE "find_owner"]
    BY <1>6 DEF ReadOwner
  <2> DEFINE step == IF o \in {Nobody, x.target} THEN "find" ELSE "find_owner"
             y == [x EXCEPT !.owner = o, !.step = step]
  <2>2. req'[r] = y /\ req' = [req EXCEPT ![r] = y]
    BY <2>1 DEF TypeOK
  <2>3. o \in Users \cup {Nobody}
    BY <2>1, OwnersAreUsers
  <2>4. y \in UnderWay
    BY <1>1, <2>3 DEF UnderWay
  <2>5. y.step = step /\ y.owner = o /\ y.found = x.found /\ Carried(x, y)
    BY <1>1 DEF UnderWay, Carried
  <2>6. x.step = "owner"
    BY <1>6 DEF ReadOwner, At
  <2> HIDE DEF y
  <2>7. HasOwner(x, y)
    BY <2>3, <2>5, <2>6 DEF HasOwner
  <2> QED BY <1>1, <1>2, <2>2, <2>4, <2>7 DEF Advanced
<1>find. ASSUME NEW u, NEW step \in {"demote", "assign"}, Find(r, u, step)
         PROVE  /\ req' = [req EXCEPT ![r] = req'[r]] /\ req'[r] \in UnderWay /\ req'[r].step = step
                /\ Carried(x, req'[r]) /\ req'[r].owner = x.owner
                /\ req'[r].found = NoId \/ req'[r].found \in Bound(u)
  <2>1. CASE Bound(u) = {}
    <3> DEFINE y == [x EXCEPT !.found = NoId, !.step = step]
    <3>1. req'[r] = y /\ req' = [req EXCEPT ![r] = y]
      BY <1>find, <2>1 DEF Find, TypeOK
    <3>2. y \in UnderWay /\ y.step = step /\ y.found = NoId
      BY <1>1 DEF UnderWay
    <3>3. Carried(x, y) /\ y.owner = x.owner
      BY <1>1 DEF UnderWay, Carried
    <3> QED BY <3>1, <3>2, <3>3
  <2>2. CASE Bound(u) # {}
    <3>1. PICK i \in Bound(u) :
            req' = [req EXCEPT ![r].found = i, ![r].was = rows[i].role, ![r].step = step]
      BY <1>find, <2>2 DEF Find
    <3>2. i \in Ids /\ rows[i].role \in Roles
      BY RowShape DEF Bound, TypeOK
    <3> DEFINE y == [x EXCEPT !.found = i, !.was = rows[i].role, !.step = step]
    <3>3. req'[r] = y /\ req' = [req EXCEPT ![r] = y]
      BY <3>1 DEF TypeOK
    <3>4. y \in UnderWay
      BY <1>1, <3>2 DEF UnderWay
    <3>5. y.step = step /\ y.found = i /\ Carried(x, y) /\ y.owner = x.owner
      BY <1>1 DEF UnderWay, Carried
    <3> HIDE DEF y
    <3> QED BY <3>3, <3>4, <3>5
  <2> QED BY <2>1, <2>2
<1>7. CASE FindOwner(r)
  <2>1. x.step = "find_owner" /\ Find(r, x.owner, "demote")
    BY <1>7 DEF FindOwner, At
  <2>2. HasFound(x, req'[r]) /\ req'[r] \in UnderWay /\ req' = [req EXCEPT ![r] = req'[r]]
    BY <2>1, <1>find DEF HasFound
  <2> QED BY <1>1, <1>2, <2>2 DEF Advanced
<1>8. CASE FindTarget(r)
  <2>1. x.step = "find" /\ Find(r, x.target, "assign")
    BY <1>8 DEF FindTarget, At
  <2>2. HasFound(x, req'[r]) /\ req'[r] \in UnderWay /\ req' = [req EXCEPT ![r] = req'[r]]
    BY <2>1, <1>find DEF HasFound
  <2> QED BY <1>1, <1>2, <2>2 DEF Advanced
<1> QED BY <1>3, <1>4, <1>tx, <1>5, <1>6, <1>7, <1>8 DEF Looks

\* A transfer that demotes either writes the row of the owner it read, or has
\* found that others have demoted that one.
LEMMA DemoteShape ==
  ASSUME TypeOK, RequestsKnow, NEW r \in Requests, Demote(r)
  PROVE  /\ UNCHANGED << db, group, rows, periods, late >>
         /\ Running(r) /\ req[r].step = "demote" /\ req[r].owner \in Users
         /\ req' = [req EXCEPT ![r] = req'[r]] /\ req'[r] \in UnderWay
         /\ \/ last' = last /\ astray' /\ HasPassedOver(req[r], req'[r])
            \/ /\ Free(r, req[r].owner)
               /\ \E i \in Ids :
                    /\ Put(r, req[r].owner, i) /\ last' = LastAfter(i)
                    /\ HasWritten(req[r], req'[r], i)
               /\ astray' = astray
<1> DEFINE x == req[r]
<1>1. Running(r) /\ x \in UnderWay /\ x.step = "demote" /\ x.owner \in Users
  BY RequestShape DEF Demote, At, RequestsKnow, Knows
<1>2. UNCHANGED << db, group, rows, periods, late >>
  BY DEF Demote
<1>3. CASE Unchanged(r, "member")
  <2> DEFINE y == [x EXCEPT !.step = "find"]
  <2>1. req'[r] = y /\ req' = [req EXCEPT ![r] = y] /\ last' = last /\ astray'
    BY <1>3 DEF Demote, GoTo, TypeOK
  <2>2. y \in UnderWay
    BY <1>1 DEF UnderWay
  <2>3. HasPassedOver(x, y)
    BY <1>1 DEF UnderWay, HasPassedOver, Carried
  <2> QED BY <1>1, <1>2, <2>1, <2>2, <2>3
<1>4. CASE ~Unchanged(r, "member")
  <2>1. Free(r, x.owner) /\ astray' = (astray \/ FALSE)
    BY <1>4 DEF Demote
  <2>2. PICK i \in Ids : /\ Put(r, x.owner, i) /\ last' = LastAfter(i)
                         /\ req' = [req EXCEPT ![r].held = i, ![r].step = "find"]
    BY <1>4 DEF Demote
  <2> DEFINE y == [x EXCEPT !.held = i, !.step = "find"]
  <2>3. req'[r] = y /\ req' = [req EXCEPT ![r] = y]
    BY <2>2 DEF TypeOK
  <2>4. y \in UnderWay
    BY <1>1 DEF UnderWay
  <2>5. HasWritten(x, y, i)
    BY <1>1, <2>4 DEF UnderWay, HasWritten
  <2>6. astray' = astray
    BY <2>1 DEF TypeOK
  <2> QED BY <1>1, <1>2, <2>1, <2>2, <2>3, <2>4, <2>5, <2>6
<1> QED BY <1>3, <1>4

\* An assignment, a removal, a deletion and a new period end their request, and
\* so does a failure.
LEMMA EndShape ==
  ASSUME TypeOK, NEW r \in Requests, Assign(r) \/ Ends(r)
  PROVE  Ended(r) /\ Running(r) /\ req' = [req EXCEPT ![r] = req'[r]] /\ req'[r] = Over
<1>1. Ended(r)
  BY DEF Assign, Ends, Remove, DeleteGroup, CreatePeriod, Abort, Fail, Done, Ended
<1>2. Running(r)
  BY DEF Assign, Ends, Remove, DeleteGroup, CreatePeriod, Abort, Fail, MustFail, NoWay, Deadlocked, WaitsFor, At
<1> QED BY <1>1, <1>2 DEF Ended, TypeOK

-----------------------------------------------------------------------------
(* what becomes of the bindings *)

\* A row that is there stays that of its user.
KeepsUsers ==
  \A i \in Ids : rows[i] # NoRow => rows'[i] # NoRow /\ rows'[i].user = rows[i].user

\* What assign_group_role leaves: rows stay with their users, and what is new is
\* the row the request has written before, or one with the next id for a user
\* who had none.
Inserts(r, n) ==
  req[r].found = NoId /\ Free(r, req[r].target) /\ IsNext(n) /\ MayInsert(req[r].target) /\ last' = LastAfter(n)
NewRow(r, i, n) ==
  \/ Holds(r) /\ i = req[r].held /\ rows'[i].user = req[r].owner
  \/ i = n /\ rows'[i].user = req[r].target

\* The rows that appear with an assignment: the one held and one that is inserted.
LEMMA AssignShape ==
  ASSUME TypeOK, RequestsKnow, NEW r \in Requests, Assign(r)
  PROVE  /\ Running(r) /\ req[r].target \in Users
         /\ rows' \in [Ids -> Rows \cup {NoRow}] /\ last' \in Ids \cup {0} /\ last <= last'
         /\ KeepsUsers
         /\ \E n \in Ids \cup {NoId} :
              /\ n # NoId => Inserts(r, n)
              /\ \A i \in Ids : rows[i] = NoRow /\ rows'[i] # NoRow => NewRow(r, i, n)
<1> DEFINE u == req[r].target
           role == req[r].role
           mine == req[r].held
<1>1. Running(r) /\ u \in Users /\ role \in Roles
  BY RequestShape DEF Assign, At, RequestsKnow, Knows
<1>2. Own(r) \in [Ids -> Rows \cup {NoRow}]
  BY <1>1, OwnShape
<1>3. \A i \in Ids :
        /\ rows[i] # NoRow => Own(r)[i] # NoRow /\ Own(r)[i].user = rows[i].user
        /\ rows[i] = NoRow /\ Own(r)[i] # NoRow => Holds(r) /\ i = mine /\ Own(r)[i].user = req[r].owner
  BY <1>1, OwnShape, RowShape
<1>4. CASE Unchanged(r, role)
  <2>1. rows' = Own(r) /\ last' = last
    BY <1>4 DEF Assign
  <2>2. \A i \in Ids : rows[i] = NoRow /\ rows'[i] # NoRow => NewRow(r, i, NoId)
    BY <1>3, <2>1 DEF NewRow
  <2>3. KeepsUsers
    BY <1>3, <2>1 DEF KeepsUsers
  <2>4. last' \in Ids \cup {0} /\ last <= last'
    BY <2>1, IdsShape DEF TypeOK
  <2>5. NoId \in Ids \cup {NoId}
    OBVIOUS
  <2> HIDE DEF u, role, mine
  <2> QED BY <1>1, <1>2, <2>1, <2>2, <2>3, <2>4, <2>5 DEF u
<1>5. CASE ~Unchanged(r, role)
  <2>1. PICK i \in Ids : /\ Put(r, u, i) /\ rows' = With(Own(r), i, u, role) /\ last' = LastAfter(i)
                         /\ Free(r, u)
    BY <1>5 DEF Assign
  <2>2. /\ rows' \in [Ids -> Rows \cup {NoRow}] /\ rows'[i] # NoRow
        /\ Own(r)[i] = NoRow => rows'[i].user = u
        /\ Own(r)[i] # NoRow => rows'[i].user = Own(r)[i].user
        /\ \A j \in Ids \ {i} : rows'[j] = Own(r)[j]
    BY <1>1, <1>2, <2>1, WithShape
  <2>3. last' \in Ids \cup {0} /\ last <= last'
    BY <2>1, LastAfterShape
  <2>4. KeepsUsers
    BY <1>3, <2>2 DEF KeepsUsers
  <2>5. CASE req[r].found # NoId
    <3>1. rows[i] # NoRow
      BY <2>1, <2>5 DEF Put
    <3>2. \A j \in Ids : rows[j] = NoRow /\ rows'[j] # NoRow => NewRow(r, j, NoId)
      BY <1>3, <2>2, <3>1 DEF NewRow
    <3> QED BY <1>1, <2>2, <2>3, <2>4, <3>2
  <2>6. CASE req[r].found = NoId
    <3>1. IsNext(i) /\ MayInsert(u)
      BY <2>1, <2>6 DEF Put
    <3>2. Inserts(r, i)
      BY <2>1, <2>6, <3>1 DEF Inserts
    <3>3. rows[i] = NoRow /\ (Holds(r) => i # mine)
      BY <3>1, NextIsFree
    <3>4. Own(r)[i] = NoRow
      BY <1>3, <3>3
    <3>5. \A j \in Ids : rows[j] = NoRow /\ rows'[j] # NoRow => NewRow(r, j, i)
      BY <1>3, <2>2, <3>4 DEF NewRow
    <3> QED BY <1>1, <2>2, <2>3, <2>4, <3>2, <3>5
  <2> QED BY <2>5, <2>6
<1> QED BY <1>4, <1>5

\* A removal takes the rows of its target.
LEMMA RemoveShape ==
  ASSUME TypeOK, RequestsKnow, NEW r \in Requests, Remove(r)
  PROVE  LET u == req[r].target IN
         /\ Running(r) /\ u \in Users /\ Free(r, u) /\ last' = last
         /\ rows' \in [Ids -> Rows \cup {NoRow}]
         /\ \A i \in Ids : /\ i \in Bound(u) => rows'[i] = NoRow
                           /\ i \notin Bound(u) => rows'[i] = rows[i]
         /\ astray' = (astray \/ u \in Owners)
BY DEF Remove, RequestsKnow, Knows, At, TypeOK, Bound

\* A new owner of a group that was deleted, and an owner made administrator:
\* one row is written.
LEMMA CreateShape ==
  ASSUME TypeOK, NEW u \in Users, CreateGroup(u)
  PROVE  /\ db = "sqlite" /\ group' = "there" /\ db' = db /\ periods' = periods /\ req' = req /\ late' = late
         /\ \A q \in Requests : ~Holds(q)
         /\ rows' \in [Ids -> Rows \cup {NoRow}] /\ last' \in Ids \cup {0}
         /\ KeepsUsers
         /\ \E i \in Ids :
              /\ rows'[i] # NoRow /\ rows'[i].user = u /\ rows'[i].role = "owner"
              /\ \A j \in Ids \ {i} : rows'[j] = rows[j]
              /\ rows[i] = NoRow => Bound(u) = {}
         /\ astray' = (astray \/ \E i \in Ids : rows[i] # NoRow)
<1>1. PICK i \in Ids :
        /\ IF Bound(u) # {} THEN i \in Bound(u) ELSE IsNext(i)
        /\ rows' = With(rows, i, u, "owner")
        /\ last' = LastAfter(i)
  BY DEF CreateGroup
<1>2. rows \in [Ids -> Rows \cup {NoRow}] /\ "owner" \in Roles
  BY DEF TypeOK, Roles
<1>3. /\ rows' \in [Ids -> Rows \cup {NoRow}] /\ rows'[i] # NoRow /\ rows'[i].role = "owner"
      /\ rows[i] = NoRow => rows'[i].user = u
      /\ rows[i] # NoRow => rows'[i].user = rows[i].user
      /\ \A j \in Ids \ {i} : rows'[j] = rows[j]
  BY <1>1, <1>2, WithShape
<1>4. rows[i] = NoRow => Bound(u) = {}
  BY <1>1 DEF Bound
<1>5. rows[i] # NoRow => i \in Bound(u)
  BY <1>1, NextIsFree
<1>6. rows'[i].user = u
  BY <1>3, <1>5 DEF Bound
<1>7. KeepsUsers
  BY <1>3 DEF KeepsUsers
<1>8. last' \in Ids \cup {0}
  BY <1>1, LastAfterShape
<1> QED BY <1>3, <1>4, <1>6, <1>7, <1>8 DEF CreateGroup

\* Another request that demotes an owner touches no request and no user of a row.
LEMMA ReassignShape ==
  ASSUME TypeOK, NEW u \in Users, Reassign(u)
  PROVE  /\ UNCHANGED << db, group, last, periods, req, late >> /\ astray'
         /\ rows' \in [Ids -> Rows \cup {NoRow}]
         /\ KeepsUsers
         /\ \A i \in Ids : rows[i] = NoRow => rows'[i] = NoRow
<1>1. PICK i \in Bound(u) : rows' = With(rows, i, u, "admin")
  BY DEF Reassign
<1>2. rows \in [Ids -> Rows \cup {NoRow}] /\ "admin" \in Roles /\ i \in Ids /\ rows[i] # NoRow
  BY DEF TypeOK, Roles, Bound
<1>3. /\ rows' \in [Ids -> Rows \cup {NoRow}] /\ rows'[i] # NoRow /\ rows'[i].user = rows[i].user
      /\ \A j \in Ids \ {i} : rows'[j] = rows[j]
  BY <1>1, <1>2, WithShape
<1>4. KeepsUsers /\ \A j \in Ids : rows[j] = NoRow => rows'[j] = NoRow
  BY <1>2, <1>3 DEF KeepsUsers
<1> QED BY <1>3, <1>4 DEF Reassign

\* The table of bindings changes in four kinds of steps.
LEMMA TableSteps ==
  ASSUME TypeOK, RequestsKnow, [Next]_vars
  PROVE  \/ rows' = rows
         \/ \E u \in Users : CreateGroup(u) \/ Reassign(u)
         \/ \E r \in Requests : Assign(r) \/ Remove(r)
<1>1. ASSUME NEW r \in Requests, Looks(r) \/ Demote(r) PROVE rows' = rows
  BY <1>1, LooksShape, DemoteShape DEF Quiet
<1>2. ASSUME NEW r \in Requests, Asks(r) PROVE rows' = rows
  BY <1>2, AsksShape DEF Quiet
<1>3. ASSUME NEW r \in Requests, Ends(r), ~Remove(r) PROVE rows' = rows
  BY <1>3 DEF Ends, DeleteGroup, CreatePeriod, Abort, Fail
<1>4. ASSUME NEW p \in Periods, NEW status, ChangePeriod(p, status) PROVE rows' = rows
  BY <1>4 DEF ChangePeriod
<1>5. CASE UNCHANGED vars
  BY <1>5 DEF vars
<1> QED BY <1>1, <1>2, <1>3, <1>4, <1>5, Steps

\* What becomes of one request, whoever takes the step.
LEMMA RequestSteps ==
  ASSUME TypeOK, RequestsKnow, [Next]_vars, NEW r \in Requests, req'[r] # req[r]
  PROVE  \/ req'[r] = Over /\ Running(r)
         \/ Quiet /\ New(req'[r])
         \/ Quiet /\ Running(r) /\ Advanced(req[r], req'[r])
         \/ Demote(r)
<1>1. ASSUME NEW q \in Requests, req' = [req EXCEPT ![q] = req'[q]] PROVE q = r
  BY <1>1 DEF TypeOK
<1>2. ASSUME NEW q \in Requests, Asks(q) PROVE q = r /\ Quiet /\ New(req'[r])
  <2>1. Quiet /\ req' = [req EXCEPT ![q] = req'[q]] /\ New(req'[q])
    BY <1>2, AsksShape
  <2>2. q = r
    BY <2>1, <1>1
  <2> QED BY <2>1, <2>2
<1>3. ASSUME NEW q \in Requests, Looks(q)
      PROVE  (req'[r] = Over /\ Running(r)) \/ (Quiet /\ Running(r) /\ Advanced(req[r], req'[r]))
  <2>1. /\ Quiet /\ req' = [req EXCEPT ![q] = req'[q]] /\ Running(q)
        /\ req'[q] = Over \/ Advanced(req[q], req'[q])
    BY <1>3, LooksShape
  <2>2. q = r
    BY <2>1, <1>1
  <2> QED BY <2>1, <2>2
<1>4. ASSUME NEW q \in Requests, Demote(q) PROVE Demote(r)
  <2>1. req' = [req EXCEPT ![q] = req'[q]]
    BY <1>4, DemoteShape
  <2> QED BY <1>4, <2>1, <1>1
<1>5. ASSUME NEW q \in Requests, Assign(q) \/ Ends(q) PROVE req'[r] = Over /\ Running(r)
  <2>1. req' = [req EXCEPT ![q] = req'[q]] /\ req'[q] = Over /\ Running(q)
    BY <1>5, EndShape
  <2>2. q = r
    BY <2>1, <1>1
  <2> QED BY <2>1, <2>2
<1>6. ASSUME NEW u \in Users, CreateGroup(u) \/ Reassign(u) PROVE FALSE
  BY <1>6 DEF CreateGroup, Reassign
<1>7. ASSUME NEW p \in Periods, NEW status, ChangePeriod(p, status) PROVE FALSE
  BY <1>7 DEF ChangePeriod
<1>8. CASE UNCHANGED vars
  BY <1>8 DEF vars
<1> QED BY <1>2, <1>3, <1>4, <1>5, <1>6, <1>7, <1>8, Steps

-----------------------------------------------------------------------------

\* The database stays the one it is, and its sequence does not go down.
GoesUp == db' = db /\ (db = "postgresql" => last <= last')

\* Every step is of that kind.
LEMMA DbStays ==
  ASSUME TypeOK, RequestsKnow, [Next]_vars
  PROVE  GoesUp
<1>0. last <= last
  BY IdsShape DEF TypeOK
<1>1. ASSUME NEW r \in Requests, Asks(r) PROVE GoesUp
  BY <1>0, <1>1, AsksShape DEF Quiet, GoesUp
<1>2. ASSUME NEW r \in Requests, Looks(r) PROVE GoesUp
  BY <1>0, <1>2, LooksShape DEF Quiet, GoesUp
<1>3. ASSUME NEW r \in Requests, Demote(r) PROVE GoesUp
  BY <1>0, <1>3, DemoteShape, LastAfterShape DEF GoesUp
<1>4. ASSUME NEW r \in Requests, Assign(r) PROVE GoesUp
  BY <1>4, AssignShape DEF Assign, GoesUp
<1>5. ASSUME NEW r \in Requests, Ends(r) PROVE GoesUp
  BY <1>0, <1>5 DEF Ends, Remove, DeleteGroup, CreatePeriod, Abort, Fail, GoesUp
<1>6. ASSUME NEW u \in Users, CreateGroup(u) PROVE GoesUp
  BY <1>6, CreateShape DEF GoesUp
<1>7. ASSUME NEW u \in Users, Reassign(u) PROVE GoesUp
  BY <1>0, <1>7 DEF Reassign, GoesUp
<1>8. ASSUME NEW p \in Periods, NEW status, ChangePeriod(p, status) PROVE GoesUp
  BY <1>0, <1>8 DEF ChangePeriod, GoesUp
<1>9. CASE UNCHANGED vars
  BY <1>0, <1>9 DEF vars, GoesUp
<1> QED BY <1>1, <1>2, <1>3, <1>4, <1>5, <1>6, <1>7, <1>8, <1>9, Steps

\* Whoever holds a row has held it before, or has just demoted an owner.
LEMMA HeldSteps ==
  ASSUME TypeOK, RequestsKnow, [Next]_vars, NEW r \in Requests, Holds(r)'
  PROVE  \/ Holds(r) /\ req'[r].held = req[r].held /\ req'[r].owner = req[r].owner
         \/ /\ Demote(r) /\ Running(r) /\ ~Holds(r) /\ rows' = rows /\ Free(r, req[r].owner)
            /\ req'[r].owner = req[r].owner /\ req[r].owner \in Users /\ req[r].step = "demote"
            /\ \E i \in Ids : Put(r, req[r].owner, i) /\ req'[r].held = i /\ last' = LastAfter(i)
<1>1. CASE req'[r] = req[r]
  BY <1>1 DEF Holds, Running
<1>2. CASE req'[r] = Over
  BY <1>2 DEF Holds, Running
<1>3. CASE New(req'[r])
  BY <1>3 DEF Holds, New
<1>4. CASE Running(r) /\ Advanced(req[r], req'[r])
  <2>1. req'[r].held = req[r].held /\ req[r].held # NoId
    BY <1>4 DEF Advanced, Passed, HasOwner, HasFound, Carried, Holds
  <2>2. req[r].step \in {"find", "assign"}
    BY <1>4, <2>1 DEF RequestsKnow, Knows
  <2>3. req'[r].owner = req[r].owner
    BY <1>4, <2>2 DEF Advanced, Passed, HasOwner, HasFound
  <2> QED BY <1>4, <2>1, <2>3 DEF Holds
<1>5. CASE Demote(r)
  <2>1. /\ Running(r) /\ req[r].step = "demote" /\ req[r].owner \in Users /\ rows' = rows
        /\ \/ HasPassedOver(req[r], req'[r])
           \/ /\ Free(r, req[r].owner)
              /\ \E i \in Ids : /\ Put(r, req[r].owner, i) /\ last' = LastAfter(i)
                                /\ HasWritten(req[r], req'[r], i)
    BY <1>5, DemoteShape
  <2>2. req[r].held = NoId
    BY <2>1 DEF RequestsKnow, Knows
  <2>3. ~HasPassedOver(req[r], req'[r])
    BY <2>2 DEF HasPassedOver, Carried, Holds
  <2>4. PICK i \in Ids : /\ Put(r, req[r].owner, i) /\ last' = LastAfter(i)
                         /\ HasWritten(req[r], req'[r], i)
    BY <2>1, <2>3
  <2>5. req'[r].owner = req[r].owner /\ req'[r].held = i
    BY <2>4 DEF HasWritten
  <2>6. ~Holds(r)
    BY <2>2 DEF Holds
  <2> QED BY <1>5, <2>1, <2>3, <2>4, <2>5, <2>6
<1> QED BY <1>1, <1>2, <1>3, <1>4, <1>5, RequestSteps

\* Whoever ends a step holding a row has not ended with it.
LEMMA HoldersGoOn ==
  ASSUME TypeOK, NEW r \in Requests, NEW q \in Requests, Holds(r)' \/ Running(r)',
         Assign(q) \/ Remove(q)
  PROVE  q # r /\ req'[r] = req[r]
<1>1. req' = [req EXCEPT ![q] = req'[q]] /\ req'[q] = Over
  BY EndShape DEF Ends
<1>2. q # r
  BY <1>1 DEF Holds, Running
<1> QED BY <1>1, <1>2 DEF TypeOK

\* Bindings that another request assigns are not what a transfer holds.
LEMMA AssignedByOthers ==
  ASSUME TypeOK, RequestsKnow, HeldRows, NEW r \in Requests, Holds(r), NEW q \in Requests \ {r}, Assign(q),
         NEW i \in Ids, rows[i] = NoRow, rows'[i] # NoRow
  PROVE  db = "postgresql" /\ i # req[r].held /\ rows'[i].user # req[r].owner
<1>1. PICK n \in Ids \cup {NoId} :
        /\ n # NoId => Inserts(q, n)
        /\ NewRow(q, i, n)
  BY AssignShape
<1>2. CASE Holds(q) /\ i = req[q].held /\ rows'[i].user = req[q].owner
  BY <1>2 DEF HeldRows, HeldAlone
<1>3. CASE i = n /\ rows'[i].user = req[q].target
  <2>1. Free(q, req[q].target) /\ IsNext(i)
    BY <1>1, <1>3, IdsShape DEF Inserts
  <2>2. req[r].held # i
    BY <2>1, NextIsFree
  <2>3. db = "postgresql" /\ req[r].owner # req[q].target
    BY <2>1 DEF Free
  <2> QED BY <1>3, <2>2, <2>3
<1> QED BY <1>1, <1>2, <1>3 DEF NewRow

\* A binding that another request removes is not what a transfer holds.
LEMMA RemovedByOthers ==
  ASSUME TypeOK, RequestsKnow, HeldRows, NEW r \in Requests, Holds(r), NEW q \in Requests \ {r}, Remove(q)
  PROVE  db = "postgresql" /\ req[r].owner # req[q].target /\ rows'[req[r].held] = rows[req[r].held]
<1>1. Free(q, req[q].target)
  BY RemoveShape
<1>2. db = "postgresql" /\ req[r].owner # req[q].target
  BY <1>1 DEF Free
<1>3. req[r].held \in Ids
  BY RequestShape DEF Holds
<1>4. req[r].held \notin Bound(req[q].target)
  BY <1>2 DEF HeldRows, HeldIsOwners, Bound
<1> QED BY <1>2, <1>3, <1>4, RemoveShape

-----------------------------------------------------------------------------

\* Every step keeps what is held the row of the owner who was read.
LEMMA StepHeldIsOwners ==
  ASSUME TypeOK, RequestsKnow, HeldRows, FoundStays, [Next]_vars, NEW r \in Requests, Holds(r)'
  PROVE  HeldIsOwners(r)'
<1>db. db' = db
  BY DbStays DEF GoesUp
<1>1. CASE Holds(r) /\ req'[r].held = req[r].held /\ req'[r].owner = req[r].owner
  <2> DEFINE i == req[r].held
             o == req[r].owner
  <2>1. HeldIsOwners(r) /\ i \in Ids
    BY <1>1, RequestShape DEF HeldRows, Holds
  <2> SUFFICES /\ rows'[i] = NoRow => \A j \in Ids : ~(rows'[j] # NoRow /\ rows'[j].user = o)
               /\ db = "postgresql" /\ rows'[i] # NoRow => rows'[i].user = o
    BY <1>1, <1>db DEF HeldIsOwners, Bound
  <2>2. CASE rows' = rows
    BY <2>1, <2>2 DEF HeldIsOwners, Bound
  <2>3. ASSUME NEW u \in Users, CreateGroup(u) PROVE FALSE
    BY <1>1, <2>3, CreateShape
  <2>4. ASSUME NEW u \in Users, Reassign(u)
        PROVE  /\ rows'[i] = NoRow => \A j \in Ids : ~(rows'[j] # NoRow /\ rows'[j].user = o)
               /\ db = "postgresql" /\ rows'[i] # NoRow => rows'[i].user = o
    BY <2>1, <2>4, ReassignShape DEF HeldIsOwners, Bound, KeepsUsers
  <2>5. ASSUME NEW q \in Requests, Assign(q)
        PROVE  /\ rows'[i] = NoRow => \A j \in Ids : ~(rows'[j] # NoRow /\ rows'[j].user = o)
               /\ db = "postgresql" /\ rows'[i] # NoRow => rows'[i].user = o
    <3>1. q \in Requests \ {r} /\ KeepsUsers
      BY <2>5, HoldersGoOn, AssignShape
    <3>2. \A j \in Ids : rows[j] = NoRow /\ rows'[j] # NoRow => j # i /\ rows'[j].user # o
      BY <1>1, <2>5, <3>1, AssignedByOthers
    <3> QED BY <2>1, <3>1, <3>2 DEF HeldIsOwners, Bound, KeepsUsers
  <2>6. ASSUME NEW q \in Requests, Remove(q)
        PROVE  /\ rows'[i] = NoRow => \A j \in Ids : ~(rows'[j] # NoRow /\ rows'[j].user = o)
               /\ db = "postgresql" /\ rows'[i] # NoRow => rows'[i].user = o
    <3>1. q \in Requests \ {r}
      BY <2>6, HoldersGoOn
    <3>2. rows'[i] = rows[i]
      BY <1>1, <2>6, <3>1, RemovedByOthers
    <3>3. \A j \in Ids : rows'[j] # NoRow => rows'[j] = rows[j]
      BY <2>6, RemoveShape
    <3> QED BY <2>1, <3>2, <3>3 DEF HeldIsOwners, Bound
  <2> QED BY <2>2, <2>3, <2>4, <2>5, <2>6, TableSteps
<1>2. ASSUME Demote(r), Running(r), rows' = rows, req'[r].owner = req[r].owner, req[r].step = "demote",
             NEW i \in Ids, Put(r, req[r].owner, i), req'[r].held = i
      PROVE  HeldIsOwners(r)'
  <2> DEFINE o == req[r].owner
  <2>1. CASE req[r].found # NoId
    <3>1. i = req[r].found /\ rows[i] # NoRow
      BY <1>2, <2>1 DEF Put
    <3>2. db = "postgresql" => rows[i].user = o
      BY <1>2, <2>1, <3>1 DEF FoundStays, FoundIsSoughts, Sought
    <3> QED BY <1>db, <1>2, <3>1, <3>2 DEF HeldIsOwners
  <2>2. CASE req[r].found = NoId
    <3>1. IsNext(i) /\ Bound(o) = {}
      BY <1>2, <2>2 DEF Put, MayInsert
    <3>2. rows[i] = NoRow
      BY <3>1, NextIsFree
    <3> QED BY <1>db, <1>2, <3>1, <3>2 DEF HeldIsOwners, Bound
  <2> QED BY <2>1, <2>2
<1> QED BY <1>1, <1>2, HeldSteps

\* Every step keeps two holders apart.
LEMMA StepHeldAlone ==
  ASSUME TypeOK, RequestsKnow, HeldRows, FoundStays, [Next]_vars,
         NEW r \in Requests, NEW q \in Requests \ {r}, Holds(r)', Holds(q)'
  PROVE  HeldAlone(r, q)'
<1>db. db' = db
  BY DbStays DEF GoesUp
<1>1. CASE /\ Holds(r) /\ req'[r].held = req[r].held /\ req'[r].owner = req[r].owner
           /\ Holds(q) /\ req'[q].held = req[q].held /\ req'[q].owner = req[q].owner
  BY <1>db, <1>1 DEF HeldRows, HeldAlone
<1>2. ASSUME NEW x \in Requests, NEW y \in Requests \ {x},
             Holds(y), req'[y].held = req[y].held, req'[y].owner = req[y].owner,
             Demote(x), Running(x), Free(x, req[x].owner), req'[x].owner = req[x].owner, req[x].step = "demote",
             NEW i \in Ids, Put(x, req[x].owner, i), req'[x].held = i
      PROVE  db = "postgresql" /\ req'[x].owner # req'[y].owner /\ req'[x].held # req'[y].held
  <2>1. db = "postgresql" /\ req[y].owner # req[x].owner
    BY <1>2 DEF Free
  <2>2. req[y].held # i
    <3>1. CASE req[x].found # NoId
      <4>1. i = req[x].found /\ rows[i] # NoRow
        BY <1>2, <3>1 DEF Put
      <4>2. rows[i].user = req[x].owner
        BY <1>2, <2>1, <3>1, <4>1 DEF FoundStays, FoundIsSoughts, Sought
      <4>3. HeldIsOwners(y)
        BY <1>2 DEF HeldRows
      <4> QED BY <2>1, <4>1, <4>2, <4>3 DEF HeldIsOwners
    <3>2. CASE req[x].found = NoId
      BY <1>2, <3>2, NextIsFree DEF Put
    <3> QED BY <3>1, <3>2
  <2> QED BY <1>2, <2>1, <2>2
<1>3. ASSUME Demote(r), Demote(q) PROVE FALSE
  <2>1. req' = [req EXCEPT ![r] = req'[r]] /\ req'[q].step = "find" /\ req[q].step = "demote"
    BY <1>3, DemoteShape DEF HasPassedOver, HasWritten
  <2> QED BY <2>1 DEF TypeOK
<1>4. \/ Holds(r) /\ req'[r].held = req[r].held /\ req'[r].owner = req[r].owner
      \/ /\ Demote(r) /\ Running(r) /\ Free(r, req[r].owner)
         /\ req'[r].owner = req[r].owner /\ req[r].step = "demote"
         /\ \E i \in Ids : Put(r, req[r].owner, i) /\ req'[r].held = i
  BY HeldSteps
<1>5. \/ Holds(q) /\ req'[q].held = req[q].held /\ req'[q].owner = req[q].owner
      \/ /\ Demote(q) /\ Running(q) /\ Free(q, req[q].owner)
         /\ req'[q].owner = req[q].owner /\ req[q].step = "demote"
         /\ \E i \in Ids : Put(q, req[q].owner, i) /\ req'[q].held = i
  BY HeldSteps
<1>6. CASE /\ Demote(r) /\ Running(r) /\ Free(r, req[r].owner)
           /\ req'[r].owner = req[r].owner /\ req[r].step = "demote"
           /\ \E i \in Ids : Put(r, req[r].owner, i) /\ req'[r].held = i
  <2>1. Holds(q) /\ req'[q].held = req[q].held /\ req'[q].owner = req[q].owner
    BY <1>3, <1>5, <1>6
  <2> QED BY <1>db, <1>2, <1>6, <2>1 DEF HeldAlone
<1>7. CASE /\ Demote(q) /\ Running(q) /\ Free(q, req[q].owner)
           /\ req'[q].owner = req[q].owner /\ req[q].step = "demote"
           /\ \E i \in Ids : Put(q, req[q].owner, i) /\ req'[q].held = i
  <2>1. Holds(r) /\ req'[r].held = req[r].held /\ req'[r].owner = req[r].owner
    BY <1>3, <1>4, <1>7
  <2>2. db = "postgresql" /\ req'[q].owner # req'[r].owner /\ req'[q].held # req'[r].held
    BY <1>2, <1>7, <2>1
  <2> QED BY <1>db, <2>2 DEF HeldAlone
<1> QED BY <1>1, <1>4, <1>5, <1>6, <1>7

\* Every step keeps what is held apart and of its owner.
LEMMA StepHeldRows ==
  TypeOK /\ RequestsKnow /\ HeldRows /\ FoundStays /\ [Next]_vars => HeldRows'
<1> SUFFICES ASSUME TypeOK, RequestsKnow, HeldRows, FoundStays, [Next]_vars,
                    NEW r \in Requests, Holds(r)'
             PROVE  HeldIsOwners(r)' /\ \A q \in Requests \ {r} : Holds(q)' => HeldAlone(r, q)'
  BY DEF HeldRows
<1>1. HeldIsOwners(r)'
  BY StepHeldIsOwners
<1>2. ASSUME NEW q \in Requests \ {r}, Holds(q)' PROVE HeldAlone(r, q)'
  BY <1>2, StepHeldAlone
<1> QED BY <1>1, <1>2

\* Every step keeps the tables and the requests well formed.
LEMMA StepTypeOK == TypeOK /\ RequestsKnow /\ [Next]_vars => TypeOK'
<1> SUFFICES ASSUME TypeOK, RequestsKnow, [Next]_vars PROVE TypeOK'
  OBVIOUS
<1>req. ASSUME NEW r \in Requests, req' = [req EXCEPT ![r] = req'[r]], req'[r] \in UnderWay \cup {Idle, Over}
        PROVE  req' \in [Requests -> UnderWay \cup {Idle, Over}]
  BY <1>req DEF TypeOK
<1>1. ASSUME NEW r \in Requests, Asks(r) PROVE TypeOK'
  <2>1. Quiet /\ astray' = astray /\ req' \in [Requests -> UnderWay \cup {Idle, Over}]
    BY <1>1, <1>req, AsksShape DEF New
  <2> QED BY <2>1 DEF Quiet, TypeOK
<1>2. ASSUME NEW r \in Requests, Looks(r) PROVE TypeOK'
  <2>1. Quiet /\ astray' = astray /\ req' \in [Requests -> UnderWay \cup {Idle, Over}]
    BY <1>2, <1>req, LooksShape DEF Advanced
  <2> QED BY <2>1 DEF Quiet, TypeOK
<1>3. ASSUME NEW r \in Requests, Demote(r) PROVE TypeOK'
  <2>1. req' \in [Requests -> UnderWay \cup {Idle, Over}]
    BY <1>3, <1>req, DemoteShape
  <2>2. last' \in Ids \cup {0} /\ UNCHANGED << db, group, rows, periods, late >>
    BY <1>3, DemoteShape, LastAfterShape DEF TypeOK
  <2>3. astray' \in BOOLEAN
    BY <1>3 DEF Demote, TypeOK
  <2> QED BY <2>1, <2>2, <2>3 DEF TypeOK
<1>4. ASSUME NEW r \in Requests, Assign(r) PROVE TypeOK'
  <2>1. req' \in [Requests -> UnderWay \cup {Idle, Over}]
    BY <1>4, <1>req, EndShape
  <2>2. last' \in Ids \cup {0} /\ rows' \in [Ids -> Rows \cup {NoRow}]
    BY <1>4, AssignShape
  <2>3. astray' \in BOOLEAN
    BY <1>4 DEF Assign, KnewTheOwner, TypeOK
  <2> QED BY <1>4, <2>1, <2>2, <2>3 DEF Assign, TypeOK
<1>5. ASSUME NEW r \in Requests, Ends(r) PROVE TypeOK'
  <2>1. req' \in [Requests -> UnderWay \cup {Idle, Over}]
    BY <1>5, <1>req, EndShape
  <2>2. CASE Remove(r)
    BY <2>1, <2>2, RemoveShape DEF Remove, TypeOK
  <2>3. CASE DeleteGroup(r)
    BY <2>1, <2>3 DEF DeleteGroup, TypeOK
  <2>4. CASE CreatePeriod(r)
    <3>1. periods' \in [Periods -> PeriodStates]
      BY <2>4 DEF CreatePeriod, PeriodStates, TypeOK
    <3> QED BY <2>1, <2>4, <3>1 DEF CreatePeriod, TypeOK
  <2>5. CASE Abort(r) \/ Fail(r)
    BY <2>1, <2>5 DEF Abort, Fail, TypeOK
  <2> QED BY <1>5, <2>2, <2>3, <2>4, <2>5 DEF Ends
<1>6. ASSUME NEW u \in Users, CreateGroup(u) PROVE TypeOK'
  BY <1>6, CreateShape DEF TypeOK
<1>7. ASSUME NEW u \in Users, Reassign(u) PROVE TypeOK'
  <2>1. astray' = TRUE
    BY <1>7 DEF Reassign
  <2> QED BY <1>7, <2>1, ReassignShape DEF TypeOK
<1>8. ASSUME NEW p \in Periods, NEW status \in {"open", "busy", "closed"}, ChangePeriod(p, status)
      PROVE  TypeOK'
  <2>1. periods' \in [Periods -> PeriodStates]
    BY <1>8 DEF ChangePeriod, PeriodStates, TypeOK
  <2>2. late' \in [Requests -> SUBSET Periods]
    BY <1>8 DEF ChangePeriod, TypeOK
  <2> QED BY <1>8, <2>1, <2>2 DEF ChangePeriod, TypeOK
<1>9. CASE UNCHANGED vars
  BY <1>9 DEF vars, TypeOK
<1> QED BY <1>1, <1>2, <1>3, <1>4, <1>5, <1>6, <1>7, <1>8, <1>9, Steps

\* Every step keeps the requests at what their step says.
LEMMA StepRequestsKnow ==
  TypeOK /\ RequestsKnow /\ [Next]_vars => RequestsKnow'
<1> SUFFICES ASSUME TypeOK, RequestsKnow, [Next]_vars, NEW r \in Requests, Running(r)'
             PROVE  Knows(req'[r])
  BY DEF RequestsKnow
<1>1. CASE req'[r] = req[r]
  BY <1>1 DEF Running, RequestsKnow
<1>2. CASE req'[r] = Over
  BY <1>2 DEF Running
<1>3. CASE New(req'[r])
  BY <1>3 DEF New
<1>4. CASE Running(r) /\ Advanced(req[r], req'[r])
  <2> DEFINE x == req[r]
             y == req'[r]
  <2>1. Knows(x) /\ x.op \in Ops
    BY <1>4, RequestShape DEF RequestsKnow
  <2>2. CASE Passed(x, y)
    BY <2>1, <2>2 DEF Passed, Carried, Knows, Ops
  <2>3. CASE HasOwner(x, y)
    BY <2>1, <2>3 DEF HasOwner, Carried, Knows, Ops
  <2>4. CASE HasFound(x, y)
    BY <2>1, <2>4 DEF HasFound, Carried, Knows, Ops
  <2> QED BY <1>4, <2>2, <2>3, <2>4 DEF Advanced
<1>5. CASE Demote(r)
  <2>1. /\ Running(r)
        /\ \/ HasPassedOver(req[r], req'[r])
           \/ \E i \in Ids : HasWritten(req[r], req'[r], i)
    BY <1>5, DemoteShape
  <2>2. Knows(req[r])
    BY <2>1 DEF RequestsKnow
  <2>3. CASE HasPassedOver(req[r], req'[r])
    BY <2>2, <2>3 DEF HasPassedOver, Carried, Knows
  <2>4. ASSUME NEW i \in Ids, HasWritten(req[r], req'[r], i) PROVE Knows(req'[r])
    BY <2>2, <2>4 DEF HasWritten, Knows
  <2> QED BY <2>1, <2>3, <2>4
<1> QED BY <1>1, <1>2, <1>3, <1>4, <1>5, RequestSteps

-----------------------------------------------------------------------------

\* Every step keeps a user at one binding.
LEMMA StepOneBinding ==
  TypeOK /\ RequestsKnow /\ HeldRows /\ OneBinding /\ [Next]_vars => OneBinding'
<1> SUFFICES ASSUME TypeOK, RequestsKnow, HeldRows, OneBinding, [Next]_vars,
                    NEW i \in Ids, NEW j \in Ids,
                    rows'[i] # NoRow, rows'[j] # NoRow, rows'[i].user = rows'[j].user
             PROVE  i = j
  BY DEF OneBinding
<1>1. CASE rows' = rows
  BY <1>1 DEF OneBinding
<1>2. ASSUME NEW u \in Users, CreateGroup(u) PROVE i = j
  <2>1. PICK k \in Ids : /\ rows'[k].user = u
                         /\ rows[k] = NoRow => Bound(u) = {}
                         /\ \A x \in Ids \ {k} : rows'[x] = rows[x]
    BY <1>2, CreateShape
  <2>2. KeepsUsers
    BY <1>2, CreateShape
  <2>3. CASE rows[k] = NoRow
    BY <2>1, <2>3 DEF OneBinding, Bound
  <2>4. CASE rows[k] # NoRow
    BY <2>1, <2>2, <2>4 DEF OneBinding, KeepsUsers
  <2> QED BY <2>3, <2>4
<1>3. ASSUME NEW u \in Users, Reassign(u) PROVE i = j
  BY <1>3, ReassignShape DEF OneBinding, KeepsUsers
<1>4. ASSUME NEW r \in Requests, Assign(r) PROVE i = j
  <2>1. PICK n \in Ids \cup {NoId} :
          /\ n # NoId => Inserts(r, n)
          /\ \A x \in Ids : rows[x] = NoRow /\ rows'[x] # NoRow => NewRow(r, x, n)
    BY <1>4, AssignShape
  <2>2. KeepsUsers
    BY <1>4, AssignShape
  <2>3. ASSUME NEW x \in Ids, NEW y \in Ids, rows[x] # NoRow, rows[y] = NoRow, rows'[y] # NoRow
        PROVE  rows'[y].user # rows'[x].user
    <3>1. rows'[x].user = rows[x].user /\ x \in Bound(rows[x].user)
      BY <2>2, <2>3 DEF KeepsUsers, Bound
    <3>2. CASE Holds(r) /\ y = req[r].held /\ rows'[y].user = req[r].owner
      BY <2>3, <3>1, <3>2 DEF HeldRows, HeldIsOwners
    <3>3. CASE y = n /\ rows'[y].user = req[r].target
      BY <2>1, <2>3, <3>1, <3>3, IdsShape DEF Inserts, MayInsert
    <3> QED BY <2>1, <2>3, <3>2, <3>3 DEF NewRow
  <2>4. CASE rows[i] = NoRow /\ rows[j] = NoRow
    <3>1. NewRow(r, i, n) /\ NewRow(r, j, n)
      BY <2>1, <2>4
    <3>2. Holds(r) => req[r].owner # req[r].target
      BY DEF Holds, RequestsKnow, Knows
    <3> QED BY <3>1, <3>2 DEF NewRow
  <2>5. CASE rows[i] # NoRow /\ rows[j] # NoRow
    BY <2>2, <2>5 DEF KeepsUsers, OneBinding
  <2> QED BY <2>3, <2>4, <2>5
<1>5. ASSUME NEW r \in Requests, Remove(r) PROVE i = j
  <2>1. rows'[i] = rows[i] /\ rows'[j] = rows[j]
    BY <1>5, RemoveShape
  <2> QED BY <2>1 DEF OneBinding
<1> QED BY <1>1, <1>2, <1>3, <1>4, <1>5, TableSteps

\* What a request has found, and what the sequence has given, are numbers.
LEMMA FoundShape ==
  ASSUME TypeOK, NEW r \in Requests, Running(r)
  PROVE  req[r].found \in Nat /\ last \in Nat
<1>1. req[r].found \in Ids \cup {NoId} /\ last \in Ids \cup {0}
  BY RequestShape DEF TypeOK
<1>2. Ids \subseteq Nat /\ 0 \in Nat
  BY IdsShape
<1> QED BY <1>1, <1>2 DEF NoId

\* Every step keeps the ids below the sequence.
LEMMA StepIdsGoUp ==
  TypeOK /\ RequestsKnow /\ IdsGoUp /\ [Next]_vars => IdsGoUp'
<1> SUFFICES ASSUME TypeOK, RequestsKnow, IdsGoUp, [Next]_vars, db' = "postgresql"
             PROVE  /\ \A i \in Ids : Used(i)' => i <= last'
                    /\ \A r \in Requests : Running(r)' => req'[r].found <= last'
  BY DEF IdsGoUp
<1>0. db = "postgresql" /\ last <= last'
  BY DbStays DEF GoesUp
<1>nat. last \in Nat /\ Ids \subseteq Nat
  BY IdsShape DEF TypeOK
<1>int. last' \in Int
  <2>1. last' \in Ids \cup {0}
    BY StepTypeOK DEF TypeOK
  <2> QED BY <1>nat, <2>1
<1>old. ASSUME NEW i \in Ids, Used(i) PROVE i <= last'
  <2>1. i <= last /\ i \in Nat
    BY <1>0, <1>nat, <1>old DEF IdsGoUp
  <2> QED BY <1>0, <1>nat, <1>int, <2>1
<1>1. ASSUME NEW i \in Ids, rows'[i] # NoRow, rows[i] = NoRow PROVE i <= last'
  <2>1. ASSUME NEW u \in Users, CreateGroup(u) PROVE FALSE
    BY <1>0, <2>1, CreateShape
  <2>2. ASSUME NEW u \in Users, Reassign(u) PROVE FALSE
    BY <1>1, <2>2, ReassignShape
  <2>3. ASSUME NEW r \in Requests, Assign(r) PROVE i <= last'
    <3>1. PICK n \in Ids \cup {NoId} : (n # NoId => Inserts(r, n)) /\ NewRow(r, i, n)
      BY <1>1, <2>3, AssignShape
    <3>2. CASE Holds(r) /\ i = req[r].held
      BY <1>old, <3>2 DEF Used
    <3>3. CASE i = n
      BY <1>0, <3>1, <3>3, IdsShape, LastAfterShape DEF Inserts
    <3> QED BY <3>1, <3>2, <3>3 DEF NewRow
  <2>4. ASSUME NEW r \in Requests, Remove(r) PROVE FALSE
    BY <1>1, <2>4, RemoveShape DEF Bound
  <2>5. rows' # rows
    BY <1>1
  <2> QED BY <2>1, <2>2, <2>3, <2>4, <2>5, TableSteps
<1>2. ASSUME NEW i \in Ids, NEW q \in Requests, Holds(q)', req'[q].held = i PROVE i <= last'
  <2>1. CASE Holds(q) /\ req'[q].held = req[q].held
    BY <1>2, <1>old, <2>1 DEF Used
  <2>2. CASE \E x \in Ids : req'[q].held = x /\ last' = LastAfter(x)
    BY <1>0, <1>2, <2>2, LastAfterShape
  <2> QED BY <1>2, <2>1, <2>2, HeldSteps
<1>3. ASSUME NEW i \in Ids, Used(i)' PROVE i <= last'
  <2>1. CASE rows'[i] # NoRow /\ rows[i] # NoRow
    BY <1>old, <2>1 DEF Used
  <2> QED BY <1>1, <1>2, <1>3, <2>1 DEF Used
<1>4. ASSUME NEW r \in Requests, Running(r)' PROVE req'[r].found <= last'
  <2>old. ASSUME Running(r), req'[r].found = req[r].found PROVE req'[r].found <= last'
    <3>1. req[r].found <= last
      BY <1>0, <2>old DEF IdsGoUp
    <3>2. req[r].found \in Nat
      BY <2>old, FoundShape
    <3> QED BY <1>0, <1>nat, <1>int, <2>old, <3>1, <3>2
  <2>none. ASSUME req'[r].found = NoId PROVE req'[r].found <= last'
    BY <1>0, <1>nat, <1>int, <2>none DEF NoId
  <2>1. CASE req'[r] = req[r]
    BY <1>4, <2>old, <2>1 DEF Running
  <2>2. CASE req'[r] = Over
    BY <1>4, <2>2 DEF Running
  <2>3. CASE New(req'[r])
    BY <2>3, <2>none DEF New
  <2>4. CASE Running(r) /\ Advanced(req[r], req'[r])
    <3>1. CASE HasFound(req[r], req'[r]) /\ req'[r].found # NoId
      <4>1. req'[r].found \in Ids /\ rows[req'[r].found] # NoRow
        BY <3>1 DEF HasFound, Bound
      <4> QED BY <4>1, <1>old DEF Used
    <3>2. CASE ~HasFound(req[r], req'[r])
      BY <2>4, <2>old, <3>2 DEF Advanced, Passed, HasOwner
    <3> QED BY <2>none, <3>1, <3>2
  <2>5. CASE Demote(r)
    <3>1. Running(r) /\ req'[r].found = req[r].found
      BY <2>5, DemoteShape DEF HasPassedOver, HasWritten
    <3> QED BY <2>old, <3>1
  <2> QED BY <2>1, <2>2, <2>3, <2>4, <2>5, RequestSteps
<1> QED BY <1>3, <1>4

\* No step makes a row that is held the one that was found.
LEMMA NewIsNotFound ==
  ASSUME TypeOK, RequestsKnow, HeldRows, IdsGoUp, FoundStays, [Next]_vars, db = "postgresql",
         NEW r \in Requests, Running(r), req[r].found # NoId,
         NEW q \in Requests, Holds(q)', rows'[req'[q].held] = NoRow
  PROVE  req'[q].held # req[r].found
<1>1. CASE Holds(q) /\ req'[q].held = req[q].held /\ req'[q].owner = req[q].owner
  <2> DEFINE i == req[q].held
  <2>0. i \in Ids
    BY <1>1, RequestShape DEF Holds
  <2>1. CASE rows' = rows
    BY <1>1, <2>1 DEF FoundStays, FoundIsNotNew
  <2>2. ASSUME KeepsUsers PROVE i # req[r].found
    BY <1>1, <2>0, <2>2 DEF KeepsUsers, FoundStays, FoundIsNotNew
  <2>3. ASSUME NEW u \in Users, CreateGroup(u) \/ Reassign(u) PROVE i # req[r].found
    BY <2>2, <2>3, CreateShape, ReassignShape
  <2>4. ASSUME NEW x \in Requests, Assign(x) PROVE i # req[r].found
    BY <2>2, <2>4, AssignShape
  <2>5. ASSUME NEW x \in Requests, Remove(x) PROVE i # req[r].found
    <3>1. x \in Requests \ {q}
      BY <2>5, HoldersGoOn
    <3>2. rows'[i] = rows[i]
      BY <1>1, <2>5, <3>1, RemovedByOthers
    <3> QED BY <1>1, <3>2 DEF FoundStays, FoundIsNotNew
  <2> QED BY <1>1, <2>1, <2>3, <2>4, <2>5, TableSteps
<1>2. ASSUME rows' = rows, NEW i \in Ids, Put(q, req[q].owner, i), req'[q].held = i
      PROVE  i # req[r].found
  <2>1. IsNext(i)
    BY <1>2 DEF Put
  <2>2. i = last + 1
    BY <2>1, NextIsFree
  <2>3. req[r].found <= last
    BY DEF IdsGoUp
  <2>4. req[r].found \in Nat /\ last \in Nat
    BY FoundShape
  <2> QED BY <2>2, <2>3, <2>4
<1> QED BY <1>1, <1>2, HeldSteps

\* Every step keeps what was found of the user it was found for.
LEMMA StepFoundStays ==
  TypeOK /\ RequestsKnow /\ HeldRows /\ IdsGoUp /\ FoundStays /\ [Next]_vars => FoundStays'
<1> SUFFICES ASSUME TypeOK, RequestsKnow, HeldRows, IdsGoUp, FoundStays, [Next]_vars,
                    NEW r \in Requests, Running(r)', req'[r].found # NoId
             PROVE  FoundIsNotNew(r)' /\ FoundIsSoughts(r)'
  BY DEF FoundStays
<1>db. db' = db
  BY DbStays DEF GoesUp
<1>old. ASSUME Running(r), req'[r].found = req[r].found PROVE FoundIsNotNew(r)'
  BY <1>db, <1>old, NewIsNotFound DEF FoundIsNotNew
<1>1. CASE req'[r] = req[r]
  <2> DEFINE i == req[r].found
  <2>0. Running(r) /\ i \in Ids /\ FoundIsNotNew(r) /\ FoundIsSoughts(r) /\ (Holds(r)' => Holds(r))
        /\ Sought(r)' = Sought(r)
    BY <1>1, RequestShape DEF Running, Holds, FoundStays, Sought
  <2>1. FoundIsNotNew(r)'
    BY <1>1, <1>old, <2>0
  <2> SUFFICES ASSUME db = "postgresql" \/ Holds(r), rows'[i] # NoRow, req[r].step \in {"demote", "assign"}
               PROVE  rows'[i].user = Sought(r)
    BY <1>db, <1>1, <2>0, <2>1 DEF FoundIsSoughts
  <2>2. CASE rows' = rows
    BY <2>0, <2>2 DEF FoundIsSoughts
  <2>keeps. ASSUME KeepsUsers, rows[i] # NoRow PROVE rows'[i].user = Sought(r)
    BY <2>0, <2>keeps DEF KeepsUsers, FoundIsSoughts
  <2>3. ASSUME NEW u \in Users, CreateGroup(u) PROVE FALSE
    BY <2>3, CreateShape
  <2>4. ASSUME NEW u \in Users, Reassign(u) PROVE rows'[i].user = Sought(r)
    BY <2>0, <2>4, <2>keeps, ReassignShape
  <2>5. ASSUME NEW q \in Requests, Assign(q) PROVE rows'[i].user = Sought(r)
    <3>1. q \in Requests \ {r} /\ KeepsUsers
      BY <2>5, HoldersGoOn, AssignShape
    <3>2. ASSUME rows[i] = NoRow PROVE FALSE
      <4>1. db = "postgresql"
        BY <2>0, <2>5, <3>1, <3>2, AssignedByOthers
      <4>2. PICK n \in Ids \cup {NoId} : (n # NoId => Inserts(q, n)) /\ NewRow(q, i, n)
        BY <2>0, <2>5, <3>2, AssignShape
      <4>3. CASE Holds(q) /\ i = req[q].held
        BY <2>0, <3>2, <4>1, <4>3 DEF FoundIsNotNew
      <4>4. CASE i = n
        <5>1. IsNext(i)
          BY <2>0, <4>2, <4>4, IdsShape DEF Inserts
        <5>2. i = last + 1
          BY <2>0, <4>1, <5>1, NextIsFree
        <5>3. i <= last
          BY <2>0, <4>1 DEF IdsGoUp
        <5>4. last \in Nat
          BY <2>0, FoundShape
        <5> QED BY <5>2, <5>3, <5>4
      <4> QED BY <4>2, <4>3, <4>4 DEF NewRow
    <3> QED BY <2>keeps, <3>1, <3>2
  <2>6. ASSUME NEW q \in Requests, Remove(q) PROVE rows'[i].user = Sought(r)
    <3>1. rows'[i] = rows[i]
      BY <2>0, <2>6, RemoveShape
    <3> QED BY <2>0, <3>1 DEF FoundIsSoughts
  <2> QED BY <2>2, <2>3, <2>4, <2>5, <2>6, TableSteps
<1>2. CASE req'[r] = Over
  BY <1>2 DEF Running
<1>3. CASE New(req'[r])
  BY <1>3 DEF New
<1>4. CASE Quiet /\ Running(r) /\ Advanced(req[r], req'[r])
  <2>1. CASE HasFound(req[r], req'[r])
    <3> DEFINE i == req'[r].found
               u == IF req'[r].step = "assign" THEN req'[r].target ELSE req'[r].owner
    <3>1. i \in Bound(u)
      BY <2>1 DEF HasFound, Carried
    <3>2. rows'[i] # NoRow /\ rows'[i].user = u
      BY <1>4, <3>1 DEF Bound, Quiet
    <3>3. FoundIsNotNew(r)'
      BY <3>2 DEF FoundIsNotNew
    <3>4. FoundIsSoughts(r)'
      BY <3>2 DEF FoundIsSoughts, Sought
    <3> QED BY <3>3, <3>4
  <2>2. CASE ~HasFound(req[r], req'[r])
    <3>1. req'[r].found = req[r].found /\ req'[r].step \notin {"demote", "assign"}
      BY <1>4, <2>2 DEF Advanced, Passed, HasOwner
    <3> QED BY <1>4, <1>old, <3>1 DEF FoundIsSoughts
  <2> QED BY <2>1, <2>2
<1>5. CASE Demote(r)
  <2>1. Running(r) /\ req'[r].found = req[r].found /\ req'[r].step = "find"
    BY <1>5, DemoteShape DEF HasPassedOver, HasWritten
  <2> QED BY <1>old, <2>1 DEF FoundIsSoughts
<1> QED BY <1>1, <1>2, <1>3, <1>4, <1>5, RequestSteps


-----------------------------------------------------------------------------

\* The group is deleted by a request that nobody's writes stand against, and is
\* created again on SQLite only.
LEMMA GroupSteps ==
  ASSUME TypeOK, RequestsKnow, [Next]_vars
  PROVE  \/ group' = group
         \/ \E u \in Users : CreateGroup(u)
         \/ \E r \in Requests : DeleteGroup(r)
<1>1. ASSUME NEW r \in Requests, Looks(r) \/ Demote(r) PROVE group' = group
  BY <1>1, LooksShape, DemoteShape DEF Quiet
<1>2. ASSUME NEW r \in Requests, Asks(r) PROVE group' = group
  BY <1>2, AsksShape DEF Quiet
<1>3. ASSUME NEW r \in Requests, Assign(r) PROVE group' = group
  BY <1>3 DEF Assign
<1>4. ASSUME NEW r \in Requests, Ends(r), ~DeleteGroup(r) PROVE group' = group
  BY <1>4 DEF Ends, Remove, CreatePeriod, Abort, Fail
<1>5. ASSUME NEW u \in Users, Reassign(u) PROVE group' = group
  BY <1>5 DEF Reassign
<1>6. ASSUME NEW p \in Periods, NEW status, ChangePeriod(p, status) PROVE group' = group
  BY <1>6 DEF ChangePeriod
<1>7. CASE UNCHANGED vars
  BY <1>7 DEF vars
<1> QED BY <1>1, <1>2, <1>3, <1>4, <1>5, <1>6, <1>7, Steps

\* A period is opened by a request, and changed by those that are not modelled.
LEMMA PeriodSteps ==
  ASSUME TypeOK, RequestsKnow, [Next]_vars
  PROVE  \/ periods' = periods /\ late' = late
         \/ \E r \in Requests : CreatePeriod(r)
         \/ \E p \in Periods, status \in {"open", "busy", "closed"} : ChangePeriod(p, status)
<1> DEFINE Still == periods' = periods /\ late' = late
<1>1. ASSUME NEW r \in Requests, Looks(r) \/ Demote(r) PROVE Still
  BY <1>1, LooksShape, DemoteShape DEF Quiet
<1>2. ASSUME NEW r \in Requests, Asks(r) PROVE Still
  BY <1>2, AsksShape DEF Quiet
<1>3. ASSUME NEW r \in Requests, Assign(r) PROVE Still
  BY <1>3 DEF Assign
<1>4. ASSUME NEW r \in Requests, Ends(r), ~CreatePeriod(r) PROVE Still
  BY <1>4 DEF Ends, Remove, DeleteGroup, Abort, Fail
<1>5. ASSUME NEW u \in Users, CreateGroup(u) \/ Reassign(u) PROVE Still
  BY <1>5 DEF CreateGroup, Reassign
<1>6. CASE UNCHANGED vars
  BY <1>6 DEF vars
<1> QED BY <1>1, <1>2, <1>3, <1>4, <1>5, <1>6, Steps

\* Every step keeps transfers from writing for a group that has been deleted.
LEMMA StepNobodyWritesTheDeleted ==
  TypeOK /\ RequestsKnow /\ NobodyWritesTheDeleted /\ DeletedLeavesNothing /\ [Next]_vars
    => NobodyWritesTheDeleted'
<1> SUFFICES ASSUME TypeOK, RequestsKnow, NobodyWritesTheDeleted, DeletedLeavesNothing, [Next]_vars,
                    db' = "postgresql", group' = "deleted", NEW r \in Requests, Holds(r)'
             PROVE  FALSE
  BY DEF NobodyWritesTheDeleted
<1>0. db = "postgresql"
  BY DbStays DEF GoesUp
<1>1. CASE Holds(r)
  <2>1. group # "deleted"
    BY <1>0, <1>1 DEF NobodyWritesTheDeleted
  <2>2. ~\E q \in Requests : DeleteGroup(q)
    BY <1>1 DEF DeleteGroup
  <2>3. ~\E u \in Users : CreateGroup(u)
    BY <1>0, CreateShape
  <2> QED BY <2>1, <2>2, <2>3, GroupSteps
<1>2. ASSUME Demote(r), NEW i \in Ids, Put(r, req[r].owner, i) PROVE FALSE
  <2>1. group = "deleted"
    BY <1>2, DemoteShape
  <2>2. rows[i] = NoRow
    BY <1>0, <2>1 DEF DeletedLeavesNothing
  <2> QED BY <1>0, <1>2, <2>1, <2>2 DEF Put, MayInsert
<1> QED BY <1>1, <1>2, HeldSteps

\* Every step keeps a deleted group without members and periods.
LEMMA StepDeletedLeavesNothing ==
  TypeOK /\ RequestsKnow /\ NobodyWritesTheDeleted /\ DeletedLeavesNothing /\ [Next]_vars
    => DeletedLeavesNothing'
<1> SUFFICES ASSUME TypeOK, RequestsKnow, NobodyWritesTheDeleted, DeletedLeavesNothing, [Next]_vars,
                    db' = "postgresql", group' = "deleted"
             PROVE  (\A i \in Ids : rows'[i] = NoRow) /\ (\A p \in Periods : periods'[p] = "none")
  BY DEF DeletedLeavesNothing
<1>0. db = "postgresql"
  BY DbStays DEF GoesUp
<1>1. ASSUME NEW r \in Requests, DeleteGroup(r)
      PROVE  (\A i \in Ids : rows'[i] = NoRow) /\ (\A p \in Periods : periods'[p] = "none")
  BY <1>0, <1>1 DEF DeleteGroup, Refused
<1>2. CASE group = "deleted"
  <2>0. /\ \A i \in Ids : rows[i] = NoRow
        /\ \A p \in Periods : periods[p] = "none"
        /\ \A r \in Requests : ~Holds(r)
    BY <1>0, <1>2 DEF DeletedLeavesNothing, NobodyWritesTheDeleted
  <2>1. ASSUME NEW i \in Ids PROVE rows'[i] = NoRow
    <3>1. ASSUME NEW u \in Users, CreateGroup(u) PROVE FALSE
      BY <1>0, <3>1, CreateShape
    <3>2. ASSUME NEW u \in Users, Reassign(u) PROVE rows'[i] = NoRow
      BY <2>0, <3>2, ReassignShape
    <3>3. ASSUME NEW r \in Requests, Assign(r) PROVE rows'[i] = NoRow
      <4>1. PICK n \in Ids \cup {NoId} :
              /\ n # NoId => Inserts(r, n)
              /\ rows[i] = NoRow /\ rows'[i] # NoRow => NewRow(r, i, n)
        BY <3>3, AssignShape
      <4>2. ~NewRow(r, i, n)
        BY <1>0, <1>2, <2>0, <4>1, IdsShape DEF NewRow, Inserts, MayInsert
      <4> QED BY <2>0, <4>1, <4>2
    <3>4. ASSUME NEW r \in Requests, Remove(r) PROVE rows'[i] = NoRow
      BY <2>0, <3>4, RemoveShape
    <3> QED BY <2>0, <3>1, <3>2, <3>3, <3>4, TableSteps
  <2>2. ASSUME NEW r \in Requests, CreatePeriod(r) PROVE FALSE
    BY <1>0, <1>2, <2>2 DEF CreatePeriod
  <2>3. ASSUME NEW p \in Periods, NEW status, ChangePeriod(p, status) PROVE FALSE
    BY <2>0, <2>3 DEF ChangePeriod
  <2>4. periods' = periods
    BY <2>2, <2>3, PeriodSteps
  <2> QED BY <2>0, <2>1, <2>4
<1>3. ASSUME NEW u \in Users, CreateGroup(u) PROVE FALSE
  BY <1>0, <1>3, CreateShape
<1> QED BY <1>1, <1>2, <1>3, GroupSteps

\* Every step keeps a request that has been checked with all transactions but
\* later ones.
LEMMA StepCheckedSeesAll ==
  TypeOK /\ RequestsKnow /\ CheckedSeesAll /\ [Next]_vars => CheckedSeesAll'
<1> SUFFICES ASSUME TypeOK, RequestsKnow, CheckedSeesAll, [Next]_vars, NEW r \in Requests
             PROVE  SeesAll(r)'
  BY DEF CheckedSeesAll
<1> USE DEF SeesAll
<1>0. SeesAll(r)
  BY DEF CheckedSeesAll
<1>1. CASE req'[r] = req[r]
  <2>1. Checked(r)' = Checked(r) /\ At(r, "transactions")' = At(r, "transactions")
    BY <1>1 DEF Checked, At, Running
  <2>2. CASE periods' = periods /\ late' = late
    BY <1>0, <1>1, <2>1, <2>2 DEF Busy
  <2>3. ASSUME NEW q \in Requests, CreatePeriod(q) PROVE SeesAll(r)'
    <3>1. Busy' \subseteq Busy /\ late' = late
      BY <2>3 DEF CreatePeriod, Busy, TypeOK
    <3> QED BY <1>0, <1>1, <2>1, <3>1
  <2>4. ASSUME NEW p \in Periods, NEW status \in {"open", "busy", "closed"}, ChangePeriod(p, status)
        PROVE  SeesAll(r)'
    <3>1. Busy' \subseteq IF status = "busy" THEN Busy \cup {p} ELSE Busy
      BY <2>4 DEF ChangePeriod, Busy, TypeOK
    <3>2. late'[r] = IF status = "busy" /\ LookedAt(r, p) THEN late[r] \cup {p} ELSE late[r]
      BY <2>4 DEF ChangePeriod
    <3> QED BY <1>0, <1>1, <2>1, <3>1, <3>2 DEF LookedAt
  <2> QED BY <2>2, <2>3, <2>4, PeriodSteps
<1>2. CASE req'[r] = Over
  BY <1>2 DEF Checked, At, Running
<1>3. CASE New(req'[r])
  BY <1>3 DEF New, Checked, At
<1>4. CASE Quiet /\ Running(r) /\ Advanced(req[r], req'[r])
  <2>1. Busy' = Busy /\ late' = late
    BY <1>4 DEF Quiet, Busy
  <2>2. CASE ~Checked(r)' /\ ~At(r, "transactions")'
    BY <2>2
  <2>3. CASE Checked(r)' \/ At(r, "transactions")'
    <3>1. \/ req'[r].step \in {"remove", "delete", "transactions"}
          \/ req'[r].step = "load" /\ req'[r].op = "delete"
      BY <2>3 DEF Checked, At
    <3>2. Passed(req[r], req'[r])
      BY <1>4, <3>1 DEF Advanced, HasOwner, HasFound
    <3>3. CASE Open = {}
      <4>1. Busy = {}
        BY <3>3 DEF Busy, Open
      <4> QED BY <2>1, <4>1
    <3>4. ASSUME OneOrNone, NEW p \in Open, req'[r].active = {p}, req'[r].step = "transactions"
          PROVE  SeesAll(r)'
      <4>1. Busy \subseteq {p}
        BY <3>4 DEF OneOrNone, Busy, Open
      <4>2. ~Checked(r)'
        BY <3>4 DEF Checked, At
      <4> QED BY <2>1, <3>4, <4>1, <4>2
    <3>5. ASSUME req[r].step = "transactions", req[r].active \cap Busy = {},
                 req'[r].step \in {"remove", "load"}
          PROVE  SeesAll(r)'
      <4>1. Busy \ req[r].active \subseteq late[r]
        BY <1>0, <1>4, <3>5 DEF At, Busy
      <4>2. ~At(r, "transactions")'
        BY <3>5 DEF At
      <4> QED BY <2>1, <3>5, <4>1, <4>2
    <3>6. CASE req[r].step = "load" /\ req[r].op # "transfer" /\ req'[r].step = "delete"
      <4>1. Checked(r)
        BY <1>4, <3>6 DEF RequestsKnow, Knows, Checked, At
      <4>2. ~At(r, "transactions")'
        BY <3>6 DEF At
      <4> QED BY <1>0, <2>1, <4>1, <4>2
    <3> QED BY <3>1, <3>2, <3>3, <3>4, <3>5, <3>6 DEF Passed, Carried
  <2> QED BY <2>2, <2>3
<1>5. CASE Demote(r)
  BY <1>5, DemoteShape DEF HasPassedOver, HasWritten, Checked, At
<1> QED BY <1>1, <1>2, <1>3, <1>4, <1>5, RequestSteps

-----------------------------------------------------------------------------

\* What has gone astray stays so.
LEMMA AstrayStays ==
  ASSUME TypeOK, RequestsKnow, [Next]_vars, astray
  PROVE  astray'
<1>1. ASSUME NEW r \in Requests, Asks(r) \/ Looks(r) PROVE astray'
  BY <1>1, AsksShape, LooksShape
<1>2. ASSUME NEW r \in Requests, Demote(r) \/ Assign(r) PROVE astray'
  BY <1>2 DEF Demote, Assign
<1>3. ASSUME NEW r \in Requests, Ends(r) PROVE astray'
  BY <1>3 DEF Ends, Remove, DeleteGroup, CreatePeriod, Abort, Fail
<1>4. ASSUME NEW u \in Users, CreateGroup(u) \/ Reassign(u) PROVE astray'
  BY <1>4 DEF CreateGroup, Reassign
<1>5. ASSUME NEW p \in Periods, NEW status, ChangePeriod(p, status) PROVE astray'
  BY <1>5 DEF ChangePeriod
<1>6. CASE UNCHANGED vars
  BY <1>6 DEF vars
<1> QED BY <1>1, <1>2, <1>3, <1>4, <1>5, <1>6, Steps

\* Every step keeps transfers that go on to the new owner after the old one.
LEMMA StepDemotedUnlessAstray ==
  TypeOK /\ RequestsKnow /\ DemotedUnlessAstray /\ [Next]_vars => DemotedUnlessAstray'
<1> SUFFICES ASSUME TypeOK, RequestsKnow, DemotedUnlessAstray, [Next]_vars, ~astray',
                    NEW r \in Requests, Running(r)'
             PROVE  HasDemoted(r)'
  BY DEF DemotedUnlessAstray
<1>0. ~astray
  BY AstrayStays
<1>old. Running(r) => HasDemoted(r)
  BY <1>0 DEF DemotedUnlessAstray
<1>1. CASE req'[r] = req[r]
  BY <1>old, <1>1 DEF HasDemoted, Running
<1>2. CASE req'[r] = Over
  BY <1>2 DEF Running
<1>3. CASE New(req'[r])
  BY <1>3 DEF New, HasDemoted
<1>4. CASE Running(r) /\ Advanced(req[r], req'[r])
  <2>1. CASE Passed(req[r], req'[r])
    BY <2>1 DEF Passed, HasDemoted
  <2>2. CASE HasOwner(req[r], req'[r])
    BY <2>2, NobodyAssumption DEF HasOwner, Carried, HasDemoted
  <2>3. CASE HasFound(req[r], req'[r])
    BY <1>4, <1>old, <2>3 DEF HasFound, Carried, HasDemoted
  <2> QED BY <1>4, <2>1, <2>2, <2>3 DEF Advanced
<1>5. CASE Demote(r)
  <2>1. PICK i \in Ids : HasWritten(req[r], req'[r], i)
    BY <1>5, DemoteShape
  <2> QED BY <2>1, IdsShape DEF HasWritten, HasDemoted
<1> QED BY <1>1, <1>2, <1>3, <1>4, <1>5, RequestSteps

\* What assigning another role than owner leaves of the owners, when none of
\* them was meant.
LEMMA AssignKeepsOwners ==
  ASSUME TypeOK, RequestsKnow, NEW r \in Requests, Assign(r), req[r].op # "transfer", ~astray'
  PROVE  Owners' = Owners
<1>1. Running(r) /\ req[r].op = "assign" /\ req[r].target \in Users /\ req[r].role \in {"admin", "member"} /\ ~Holds(r)
  BY DEF Assign, At, Holds, RequestsKnow, Knows
<1>2. Own(r) = rows
  BY <1>1 DEF Own
<1>3. \A i \in Ids : rows[i] # NoRow /\ rows[i].role = "owner" => rows'[i] = rows[i]
  BY DEF Assign
<1>4. CASE rows' = rows
  BY <1>4 DEF Owners
<1>5. ASSUME NEW i \in Ids, rows' = With(rows, i, req[r].target, req[r].role) PROVE Owners' = Owners
  <2>1. rows \in [Ids -> Rows \cup {NoRow}] /\ req[r].role \in Roles
    BY <1>1 DEF TypeOK, Roles
  <2>2. rows'[i].role # "owner" /\ \A j \in Ids \ {i} : rows'[j] = rows[j]
    BY <1>1, <1>5, <2>1, WithShape
  <2>3. \A j \in Ids : rows'[j] # NoRow /\ rows'[j].role = "owner" <=> rows[j] # NoRow /\ rows[j].role = "owner"
    BY <1>3, <2>2
  <2>4. {j \in Ids : rows'[j] # NoRow /\ rows'[j].role = "owner"} = {j \in Ids : rows[j] # NoRow /\ rows[j].role = "owner"}
    BY <2>3
  <2>5. \A j \in {k \in Ids : rows[k] # NoRow /\ rows[k].role = "owner"} : rows'[j].user = rows[j].user
    BY <1>3
  <2> QED BY <2>4, <2>5 DEF Owners
<1> QED BY <1>2, <1>4, <1>5 DEF Assign

\* A transfer that knew the owner leaves its target as the only one.
LEMMA TransferLeavesOneOwner ==
  ASSUME TypeOK, RequestsKnow, OneBinding, FoundStays, DemotedUnlessAstray,
         NEW r \in Requests, Assign(r), req[r].op = "transfer", ~astray'
  PROVE  Owners' = {req[r].target}
<1> DEFINE o == req[r].owner
           u == req[r].target
           h == req[r].held
           IsOwner(tbl, j) == tbl[j] # NoRow /\ tbl[j].role = "owner"
<1>1. Running(r) /\ req[r].step = "assign" /\ u \in Users /\ req[r].role = "owner"
  BY DEF Assign, At, RequestsKnow, Knows
<1>2. ~astray /\ KnewTheOwner(r)
  BY DEF Assign
<1>3. Owners = {o} /\ o \in Users
  BY <1>2, OwnersAreUsers DEF KnewTheOwner
<1>4. \A j \in Ids : IsOwner(rows, j) => rows[j].user = o
  BY <1>3 DEF Owners
<1>5. PICK k \in Ids : IsOwner(rows, k)
  BY <1>3 DEF Owners
<1>tbl. rows \in [Ids -> Rows \cup {NoRow}] /\ "owner" \in Roles
  BY DEF TypeOK, Roles
<1>6. CASE o = u
  <2>1. ~Holds(r) /\ Own(r) = rows
    BY <1>6 DEF Holds, Own, RequestsKnow, Knows
  <2>2. CASE Unchanged(r, "owner")
    <3>1. rows' = rows
      BY <1>1, <2>1, <2>2 DEF Assign
    <3> QED BY <1>3, <1>6, <3>1 DEF Owners
  <2>3. CASE ~Unchanged(r, "owner")
    <3>1. PICK i \in Ids : Put(r, u, i) /\ rows' = With(rows, i, u, "owner")
      BY <1>1, <2>1, <2>3 DEF Assign
    <3>2. req[r].found # NoId
      BY <1>4, <1>5, <1>6, <3>1 DEF Put, MayInsert, Bound
    <3>3. rows[i] # NoRow /\ rows[i].user = o
      BY <1>2, <1>6, <3>1, <3>2 DEF Put, KnewTheOwner
    <3>4. /\ rows'[i] # NoRow /\ rows'[i].role = "owner" /\ rows'[i].user = o
          /\ \A j \in Ids \ {i} : rows'[j] = rows[j]
      BY <1>1, <1>tbl, <3>1, <3>3, WithShape
    <3>5. \A j \in Ids : IsOwner(rows', j) => rows'[j].user = o
      BY <1>4, <3>4
    <3> QED BY <1>6, <3>4, <3>5 DEF Owners
  <2> QED BY <2>2, <2>3
<1>7. CASE o # u
  <2>1. Holds(r)
    BY <1>1, <1>2, <1>3, <1>7 DEF DemotedUnlessAstray, HasDemoted, Holds
  <2>2. h \in Ids /\ rows[h] # NoRow /\ rows[h].user = o
    BY <1>2, <1>7, <2>1, RequestShape DEF KnewTheOwner, Holds
  <2>3. /\ Own(r) \in [Ids -> Rows \cup {NoRow}]
        /\ Own(r)[h] \in Rows /\ Own(r)[h].role = "member"
        /\ \A j \in Ids \ {h} : Own(r)[j] = rows[j]
    BY <1>1, <2>1, OwnShape
  <2>4. PICK i \in Ids : Put(r, u, i) /\ rows' = With(Own(r), i, u, "owner")
    BY <1>1, <1>2, <1>7 DEF Assign, KnewTheOwner
  <2>5. i # h /\ (rows[i] # NoRow => rows[i].user = u)
    <3>1. CASE req[r].found # NoId
      <4>1. i = req[r].found /\ rows[i] # NoRow
        BY <2>4, <3>1 DEF Put
      <4>2. rows[i].user = u
        BY <1>1, <2>1, <3>1, <4>1 DEF FoundStays, FoundIsSoughts, Sought
      <4> QED BY <1>7, <2>2, <4>2
    <3>2. CASE req[r].found = NoId
      BY <2>2, <2>4, <3>2, NextIsFree DEF Put
    <3> QED BY <3>1, <3>2
  <2>6. Own(r)[i] = rows[i]
    BY <2>3, <2>5
  <2>7. /\ rows'[i] # NoRow /\ rows'[i].role = "owner" /\ rows'[i].user = u
        /\ \A j \in Ids \ {i} : rows'[j] = Own(r)[j]
    BY <1>1, <1>tbl, <2>3, <2>4, <2>5, <2>6, WithShape
  <2>8. rows'[h].role = "member"
    BY <2>2, <2>3, <2>5, <2>7
  <2>9. ASSUME NEW j \in Ids, IsOwner(rows', j) PROVE j = i
    <3>1. SUFFICES ASSUME j # i PROVE FALSE
      OBVIOUS
    <3>2. j # h /\ rows'[j] = rows[j]
      BY <2>3, <2>7, <2>8, <2>9, <3>1
    <3>3. rows[j].user = o
      BY <1>4, <2>9, <3>2
    <3> QED BY <2>2, <2>9, <3>2, <3>3 DEF OneBinding
  <2> QED BY <2>7, <2>9 DEF Owners
<1> QED BY <1>6, <1>7

\* Every step keeps the group at one owner, unless something goes astray.
LEMMA StepOneOwner ==
  /\ TypeOK /\ RequestsKnow /\ OneBinding /\ FoundStays /\ DemotedUnlessAstray /\ OneOwnerUnlessAstray
  /\ [Next]_vars
  => OneOwnerUnlessAstray'
<1> SUFFICES ASSUME TypeOK, RequestsKnow, OneBinding, FoundStays, DemotedUnlessAstray, OneOwnerUnlessAstray,
                    [Next]_vars, group' = "there", ~astray'
             PROVE  \E u \in Users : Owners' = {u}
  BY DEF OneOwnerUnlessAstray
<1>1. ASSUME NEW u \in Users, CreateGroup(u) PROVE Owners' = {u}
  <2>1. PICK i \in Ids : /\ rows'[i] # NoRow /\ rows'[i].user = u /\ rows'[i].role = "owner"
                         /\ \A j \in Ids \ {i} : rows'[j] = rows[j]
    BY <1>1, CreateShape
  <2>2. \A j \in Ids : rows[j] = NoRow
    BY <1>1, CreateShape
  <2> QED BY <2>1, <2>2 DEF Owners
<1>2. CASE group = "there" /\ ~\E u \in Users : CreateGroup(u)
  <2>1. ~astray
    BY AstrayStays
  <2>2. PICK u \in Users : Owners = {u}
    BY <1>2, <2>1 DEF OneOwnerUnlessAstray
  <2>3. CASE rows' = rows
    BY <2>2, <2>3 DEF Owners
  <2>4. ASSUME NEW x \in Users, Reassign(x) PROVE FALSE
    BY <2>4, ReassignShape
  <2>5. ASSUME NEW r \in Requests, Remove(r) PROVE Owners' = Owners
    <3>1. req[r].target \notin Owners
      BY <2>5, RemoveShape
    <3>2. \A j \in Ids : rows'[j] = IF j \in Bound(req[r].target) THEN NoRow ELSE rows[j]
      BY <2>5, RemoveShape
    <3>3. \A j \in Ids : rows[j] # NoRow /\ rows[j].role = "owner" => j \notin Bound(req[r].target)
      BY <3>1 DEF Owners, Bound
    <3>4. \A j \in Ids : rows'[j] # NoRow /\ rows'[j].role = "owner" <=> rows[j] # NoRow /\ rows[j].role = "owner"
      BY <3>2, <3>3
    <3>5. {j \in Ids : rows'[j] # NoRow /\ rows'[j].role = "owner"} = {j \in Ids : rows[j] # NoRow /\ rows[j].role = "owner"}
      BY <3>4
    <3>6. \A j \in {k \in Ids : rows[k] # NoRow /\ rows[k].role = "owner"} : rows'[j].user = rows[j].user
      BY <3>2, <3>3
    <3> QED BY <3>5, <3>6 DEF Owners
  <2>6. ASSUME NEW r \in Requests, Assign(r) PROVE \E x \in Users : Owners' = {x}
    <3>1. CASE req[r].op = "transfer"
      BY <2>6, <3>1, AssignShape, TransferLeavesOneOwner
    <3>2. CASE req[r].op # "transfer"
      BY <2>2, <2>6, <3>2, AssignKeepsOwners
    <3> QED BY <3>1, <3>2
  <2> QED BY <1>2, <2>2, <2>3, <2>4, <2>5, <2>6, TableSteps
<1>3. CASE group # "there" /\ ~\E u \in Users : CreateGroup(u)
  BY <1>3, GroupSteps DEF DeleteGroup
<1> QED BY <1>1, <1>2, <1>3

-----------------------------------------------------------------------------

\* What the requests find is as the invariant says.
LEMMA InitIInv == Init => IInv
<1> SUFFICES ASSUME Init PROVE IInv
  OBVIOUS
<1>1. PICK g \in Groups :
        /\ rows = [i \in Ids |-> IF i \in DOMAIN g.bindings THEN g.bindings[i] ELSE NoRow]
        /\ last = Len(g.bindings)
        /\ periods = g.periods
  BY DEF Init
<1>2. /\ g.bindings \in Seq(Rows) /\ Len(g.bindings) <= MaxId
      /\ \A i, j \in 1..Len(g.bindings) : g.bindings[i].user = g.bindings[j].user => i = j
      /\ g.periods \in [Periods -> PeriodStates]
  BY GroupsAssumption
<1>3. DOMAIN g.bindings = 1..Len(g.bindings) /\ Len(g.bindings) \in Nat
      /\ \A i \in 1..Len(g.bindings) : g.bindings[i] \in Rows
  BY <1>2
<1>4. \A i \in Ids : /\ i \in 1..Len(g.bindings) => rows[i] = g.bindings[i] /\ rows[i] \in Rows
                     /\ i \notin 1..Len(g.bindings) => rows[i] = NoRow
  BY <1>1, <1>3
<1>5. rows \in [Ids -> Rows \cup {NoRow}]
  BY <1>1, <1>3
<1>6. \A r \in Requests : req[r] = Idle /\ ~Running(r) /\ ~Holds(r)
  BY DEF Init, Running, Holds
<1>7. last \in Ids \cup {0}
  BY <1>1, <1>2, <1>3, MaxIdAssumption DEF Ids
<1>8. TypeOK
  BY <1>1, <1>2, <1>5, <1>7 DEF Init, TypeOK
<1>9. OneBinding
  BY <1>2, <1>4 DEF OneBinding
<1>10. IdsGoUp
  <2>1. \A i \in Ids : Used(i) => i \in 1..last
    BY <1>1, <1>4, <1>6 DEF Used
  <2>2. \A i \in Ids : Used(i) => i <= last
    BY <1>1, <1>3, <2>1
  <2> QED BY <1>6, <2>2 DEF IdsGoUp
<1>11. RequestsKnow /\ HeldRows /\ FoundStays /\ NobodyWritesTheDeleted /\ CheckedSeesAll /\ DemotedUnlessAstray
  BY <1>6 DEF RequestsKnow, HeldRows, FoundStays, NobodyWritesTheDeleted, CheckedSeesAll, SeesAll, Checked, At,
              DemotedUnlessAstray
<1>12. DeletedLeavesNothing /\ OneOwnerUnlessAstray
  BY DEF Init, DeletedLeavesNothing, OneOwnerUnlessAstray
<1> QED BY <1>8, <1>9, <1>10, <1>11, <1>12 DEF IInv

\* Every step keeps the invariant.
LEMMA StepIInv == IInv /\ [Next]_vars => IInv'
<1> SUFFICES ASSUME IInv, [Next]_vars PROVE IInv'
  OBVIOUS
<1>1. /\ TypeOK /\ RequestsKnow /\ OneBinding /\ HeldRows /\ IdsGoUp /\ FoundStays
      /\ NobodyWritesTheDeleted /\ DeletedLeavesNothing /\ CheckedSeesAll
      /\ DemotedUnlessAstray /\ OneOwnerUnlessAstray
  BY DEF IInv
<1>2. TypeOK' /\ RequestsKnow'
  BY <1>1, StepTypeOK, StepRequestsKnow
<1>3. OneBinding' /\ HeldRows' /\ IdsGoUp' /\ FoundStays'
  BY <1>1, StepOneBinding, StepHeldRows, StepIdsGoUp, StepFoundStays
<1>4. NobodyWritesTheDeleted' /\ DeletedLeavesNothing' /\ CheckedSeesAll'
  BY <1>1, StepNobodyWritesTheDeleted, StepDeletedLeavesNothing, StepCheckedSeesAll
<1>5. DemotedUnlessAstray' /\ OneOwnerUnlessAstray'
  BY <1>1, StepDemotedUnlessAstray, StepOneOwner
<1> QED BY <1>2, <1>3, <1>4, <1>5 DEF IInv

\* The invariant holds of whatever requests overlap.
THEOREM Invariant == Spec => []IInv
<1> QED BY InitIInv, StepIInv, PTL DEF Spec

\* The tables and the requests are always of the shape the code gives them.
THEOREM TypeCorrect == Spec => []TypeOK
<1>1. IInv => TypeOK
  BY DEF IInv
<1> QED BY <1>1, Invariant, PTL

\* However many requests look for a binding of a user and then insert or update
\* one (assign_group_role), the user has at most one in the group.
THEOREM UsersHaveOneBinding == Spec => []OneBinding
<1>1. IInv => OneBinding
  BY DEF IInv
<1> QED BY <1>1, Invariant, PTL

\* However many transfers and assignments overlap, the group has one owner as
\* long as none of them demotes, removes or overlooks one
\* (transfer_group_owner).
THEOREM GroupsHaveOneOwner == Spec => []OneOwnerUnlessAstray
<1>1. IInv => OneOwnerUnlessAstray
  BY DEF IInv
<1> QED BY <1>1, Invariant, PTL

\* A deletion that PostgreSQL lets through leaves no binding and no period, and
\* none is written for the group later (delete_group).
THEOREM DeletionIsComplete == Spec => []DeletedLeavesNothing
<1>1. IInv => DeletedLeavesNothing
  BY DEF IInv
<1> QED BY <1>1, Invariant, PTL

\* Whoever is removed, and a group that is deleted, leaves no open period with
\* transactions but those that came after the SELECT that looked for them
\* (requires_settled_active_period), however many periods are open and whatever
\* happens between its two SELECTs.
THEOREM NothingOpenIsLeft == Spec => LeavesNothingOpen
<1>1. ASSUME IInv, NEW r \in Requests, At(r, "remove") \/ At(r, "delete") PROVE Busy \subseteq late[r]
  BY <1>1 DEF IInv, CheckedSeesAll, SeesAll, Checked
<1>2. IInv => [\A r \in Requests :
                 (At(r, "remove") \/ At(r, "delete")) /\ req'[r] = Over /\ << rows, group >>' # << rows, group >>
                   => Busy \subseteq late[r]]_vars
  BY <1>1
<1> QED BY <1>2, Invariant, PTL DEF LeavesNothingOpen

-----------------------------------------------------------------------------
(* Waiting.  That every request is answered is liveness and stays with TLC;  *)
(* that there is always one that can go on holds of each state.              *)

\* the guards on locks: the next statement of r waits for another request
Waits(r) ==
  \/ At(r, "demote") /\ ~Unchanged(r, "member") /\ ~Free(r, req[r].owner)
  \/ At(r, "assign") /\ ~Unchanged(r, req[r].role) /\ ~Free(r, req[r].target)
  \/ At(r, "remove") /\ ~Free(r, req[r].target)
  \/ At(r, "delete") /\ \E q \in Requests : Holds(q)
  \/ At(r, "open") /\ db = "sqlite" /\ \E q \in Requests : Holds(q)

\* While any request is under way there is one that need not wait, or that the
\* database fails.
NobodyIsStuck ==
  (\E r \in Requests : Running(r)) => \E r \in Requests : Running(r) /\ (~Waits(r) \/ MustFail(r))

\* Following a function from a finite set into itself ends in a circle: the
\* smallest nonempty part that it maps into itself is its own image.
LEMMA CircleExists ==
  ASSUME NEW H, IsFiniteSet(H), H # {}, NEW f \in [H -> H]
  PROVE  \E C \in SUBSET H : C # {} /\ \A x \in C : f[x] \in C /\ \E y \in C : f[y] = x
<1> DEFINE Closed == {C \in SUBSET H : C # {} /\ \A x \in C : f[x] \in C}
<1>1. IsWellFoundedOn(StrictSubsetOrdering(H), SUBSET H)
  BY FS_StrictSubsetOrderingWellFounded, FS_FiniteSubsetsOfFinite
<1>2. H \in Closed
  OBVIOUS
<1>3. PICK C \in Closed : \A D \in Closed : ~(<< D, C >> \in StrictSubsetOrdering(H))
  <2>1. Closed \subseteq SUBSET H /\ Closed # {}
    BY <1>2
  <2> HIDE DEF Closed
  <2> QED BY <1>1, <2>1, WFMin
<1> DEFINE D == {f[x] : x \in C}
<1>4. D \subseteq C /\ D # {} /\ \A x \in D : f[x] \in D
  BY <1>3
<1>5. D \in Closed /\ D \in SUBSET H /\ C \in SUBSET H
  BY <1>3, <1>4
<1>6. D = C
  BY <1>3, <1>4, <1>5 DEF StrictSubsetOrdering
<1> QED BY <1>3, <1>5, <1>6

\* Finitely many requests hold a row, each one of its own.
LEMMA FewHold ==
  ASSUME TypeOK, HeldRows
  PROVE  IsFiniteSet({r \in Requests : Holds(r)})
<1> DEFINE H == {r \in Requests : Holds(r)}
           held == [r \in H |-> req[r].held]
<1>1. IsFiniteSet(Ids)
  BY MaxIdAssumption, FS_Interval DEF Ids
<1>2. \A r \in H : req[r].held \in Ids
  BY RequestShape DEF Holds
<1>3. \A r, q \in H : held[r] = held[q] => r = q
  BY DEF HeldRows, HeldAlone
<1>4. held \in [H -> Ids]
  BY <1>2
<1>5. held \in Injection(H, Ids)
  BY <1>3, <1>4 DEF Injection, IsInjective
<1> HIDE DEF H, held
<1>6. IsFiniteSet(H)
  BY <1>1, <1>5, FS_Injection
<1> QED BY <1>6 DEF H

\* Transfers that all wait wait in a circle, and one in the circle is failed.
LEMMA AllWaitingIsDeadlock ==
  ASSUME IInv, \E r \in Requests : Holds(r), \A r \in Requests : Holds(r) => Waits(r)
  PROVE  \E r \in Requests : Holds(r) /\ Deadlocked(r)
<1> DEFINE H == {r \in Requests : Holds(r)}
<1>1. TypeOK /\ RequestsKnow /\ HeldRows
  BY DEF IInv
<1>2. ASSUME NEW r \in H PROVE \E q \in H : WaitsFor(r, q) /\ db = "postgresql"
  <2>1. Running(r) /\ req[r].step \in {"find", "assign"}
    BY <1>1 DEF Holds, RequestsKnow, Knows
  <2>2. At(r, "assign") /\ ~Unchanged(r, req[r].role) /\ ~Free(r, req[r].target)
    BY <2>1 DEF Waits, At
  <2>3. PICK q \in Requests \ {r} : Holds(q) /\ ~(db = "postgresql" /\ req[q].owner # req[r].target)
    BY <2>2 DEF Free
  <2>4. db = "postgresql"
    BY <1>1, <2>3 DEF HeldRows, HeldAlone
  <2> QED BY <2>2, <2>3, <2>4 DEF WaitsFor
<1>3. PICK f \in [H -> H] : \A r \in H : WaitsFor(r, f[r])
  <2> DEFINE g == [r \in H |-> CHOOSE q \in H : WaitsFor(r, q)]
  <2>1. \A r \in H : g[r] \in H /\ WaitsFor(r, g[r])
    BY <1>2
  <2> QED BY <2>1
<1>4. IsFiniteSet(H) /\ H # {}
  BY <1>1, FewHold
<1>5. PICK C \in SUBSET H : C # {} /\ \A x \in C : f[x] \in C /\ \E y \in C : f[y] = x
  <2> HIDE DEF H
  <2> QED BY <1>4, CircleExists
<1>6. PICK r \in C : TRUE
  BY <1>5
<1>7. Deadlocked(r)
  <2>1. db = "postgresql" /\ C \in SUBSET Requests
    BY <1>2, <1>5, <1>6
  <2>2. \A q \in C : (\E p \in C : WaitsFor(q, p)) /\ (\E p \in C : WaitsFor(p, q))
    BY <1>3, <1>5
  <2> QED BY <1>6, <2>1, <2>2 DEF Deadlocked
<1> QED BY <1>5, <1>6, <1>7

\* However many transfers, assignments, removals and deletions overlap, they do
\* not all wait for each other: one can go on, or PostgreSQL fails one of a
\* circle of transfers.
THEOREM LocksAreReleased == Spec => []NobodyIsStuck
<1>1. ASSUME IInv, NEW r \in Requests, Running(r)
      PROVE  \E q \in Requests : Running(q) /\ (~Waits(q) \/ MustFail(q))
  <2>1. CASE \A q \in Requests : ~Holds(q)
    BY <1>1, <2>1 DEF Waits, Free
  <2>2. CASE \E q \in Requests : Holds(q) /\ ~Waits(q)
    BY <2>2 DEF Holds
  <2>3. CASE (\E q \in Requests : Holds(q)) /\ \A q \in Requests : Holds(q) => Waits(q)
    BY <1>1, <2>3, AllWaitingIsDeadlock DEF MustFail, Holds
  <2> QED BY <2>1, <2>2, <2>3
<1>2. IInv => NobodyIsStuck
  BY <1>1 DEF NobodyIsStuck
<1> QED BY <1>2, Invariant, PTL

-----------------------------------------------------------------------------
(* Going on.  A request passes each of its statements once. *)

\* how far a request under way has come
StageUnderWay(x) ==
  IF x.step = "check" /\ x.op = "delete" THEN 1
  ELSE IF x.step = "transactions" /\ x.op = "delete" THEN 2
  ELSE CASE x.step = "load" -> 3
         [] x.step = "target" -> 4
         [] x.step = "check" -> 5
         [] x.step = "transactions" -> 6
         [] x.step = "owner" -> 7
         [] x.step = "find_owner" -> 8
         [] x.step = "demote" -> 9
         [] x.step = "find" -> 10
         [] OTHER -> 11

Stage(x) == IF x = Idle THEN 0 ELSE IF x = Over THEN 12 ELSE StageUnderWay(x)

\* Every step of a request brings it nearer to its answer, and no step of
\* another one takes it back: it is answered after twelve steps at most.
RequestsMoveOn ==
  [][\A r \in Requests :
       /\ Step(r) => Stage(req'[r]) > Stage(req[r])
       /\ req'[r] # req[r] => Stage(req'[r]) > Stage(req[r])]_vars

\* There are thirteen stages.
LEMMA StageShape ==
  ASSUME NEW x
  PROVE  Stage(x) \in 0..12 /\ (x \notin {Idle, Over} => Stage(x) \in 1..11 /\ Stage(x) = StageUnderWay(x))
<1>1. StageUnderWay(x) \in 1..11
  BY DEF StageUnderWay
<1> QED BY <1>1 DEF Stage

\* What becomes of a request under way is a later stage.
LEMMA LaterStage ==
  ASSUME TypeOK, RequestsKnow, NEW r \in Requests, Running(r), NEW y,
         y = Over \/ Advanced(req[r], y) \/ (y \in UnderWay /\ HasPassedOver(req[r], y))
         \/ \E i \in Ids : HasWritten(req[r], y, i)
  PROVE  Stage(y) > Stage(req[r])
<1> DEFINE x == req[r]
<1>1. Knows(x) /\ x \notin {Idle, Over} /\ Stage(x) \in 1..11 /\ Stage(x) = StageUnderWay(x)
  BY StageShape DEF RequestsKnow, Running
<1>2. CASE y = Over
  BY <1>1, <1>2, IdleAssumption DEF Stage
<1>3. ASSUME y \in UnderWay, StageUnderWay(y) > StageUnderWay(x) PROVE Stage(y) > Stage(x)
  BY <1>1, <1>3, IdleAssumption DEF Stage
<1>4. CASE y \in UnderWay /\ Passed(x, y)
  BY <1>1, <1>3, <1>4 DEF Passed, Carried, Knows, StageUnderWay
<1>5. CASE y \in UnderWay /\ HasOwner(x, y)
  BY <1>1, <1>3, <1>5 DEF HasOwner, StageUnderWay
<1>6. CASE y \in UnderWay /\ HasFound(x, y)
  BY <1>1, <1>3, <1>6 DEF HasFound, StageUnderWay
<1>7. CASE y \in UnderWay /\ HasPassedOver(x, y)
  BY <1>1, <1>3, <1>7 DEF HasPassedOver, StageUnderWay
<1>8. ASSUME NEW i \in Ids, HasWritten(x, y, i) PROVE Stage(y) > Stage(x)
  BY <1>1, <1>3, <1>8 DEF HasWritten, StageUnderWay
<1> QED BY <1>2, <1>4, <1>5, <1>6, <1>7, <1>8 DEF Advanced

\* For any number of users, ids, periods and overlapping requests, no request
\* goes round in circles.
THEOREM RequestsWindDown == Spec => RequestsMoveOn
<1>1. ASSUME IInv, [Next]_vars, NEW r \in Requests
      PROVE  /\ Step(r) => Stage(req'[r]) > Stage(req[r])
             /\ req'[r] # req[r] => Stage(req'[r]) > Stage(req[r])
  <2>1. TypeOK /\ RequestsKnow
    BY <1>1 DEF IInv
  <2>2. ASSUME Demote(r) PROVE Stage(req'[r]) > Stage(req[r])
    <3>1. /\ Running(r) /\ req'[r] \in UnderWay
          /\ HasPassedOver(req[r], req'[r]) \/ \E i \in Ids : HasWritten(req[r], req'[r], i)
      BY <2>1, <2>2, DemoteShape
    <3> QED BY <2>1, <3>1, LaterStage
  <2>3. ASSUME Looks(r) PROVE Stage(req'[r]) > Stage(req[r])
    <3>1. Running(r) /\ (req'[r] = Over \/ Advanced(req[r], req'[r]))
      BY <2>1, <2>3, LooksShape
    <3> QED BY <2>1, <3>1, LaterStage
  <2>4. ASSUME Assign(r) \/ Ends(r) PROVE Stage(req'[r]) > Stage(req[r])
    <3>1. Running(r) /\ req'[r] = Over
      BY <2>1, <2>4, EndShape
    <3> QED BY <2>1, <3>1, LaterStage
  <2>5. Step(r) => Stage(req'[r]) > Stage(req[r])
    BY <2>2, <2>3, <2>4 DEF Step, Looks, Ends
  <2>6. ASSUME req'[r] # req[r] PROVE Stage(req'[r]) > Stage(req[r])
    <3>1. ASSUME NEW q \in Requests, Asks(q) PROVE Stage(req'[r]) > Stage(req[r])
      <4>1. req[q] = Idle /\ req' = [req EXCEPT ![q] = req'[q]] /\ req'[q] \in UnderWay
        BY <2>1, <3>1, AsksShape DEF Asks, Admit, New
      <4>2. q = r
        BY <2>1, <2>6, <4>1 DEF TypeOK
      <4>3. Stage(req[r]) = 0 /\ Stage(req'[r]) \in 1..11
        BY <4>1, <4>2, StageShape, IdleAssumption DEF Stage
      <4> QED BY <4>3
    <3>2. CASE ~\E q \in Requests : Asks(q)
      <4>1. \A q \in Requests : Looks(q) \/ Assign(q) \/ Ends(q) => q = r
        BY <2>1, <2>6, LooksShape, EndShape DEF TypeOK
      <4>2. \A q \in Requests : Demote(q) => q = r
        BY <2>1, <2>6, DemoteShape DEF TypeOK
      <4>3. \E q \in Requests : Looks(q) \/ Demote(q) \/ Assign(q) \/ Ends(q)
        <5>1. ASSUME NEW u \in Users, CreateGroup(u) \/ Reassign(u) PROVE FALSE
          BY <2>6, <5>1 DEF CreateGroup, Reassign
        <5>2. ASSUME NEW p \in Periods, NEW status, ChangePeriod(p, status) PROVE FALSE
          BY <2>6, <5>2 DEF ChangePeriod
        <5>3. ~UNCHANGED vars
          BY <2>6 DEF vars
        <5> QED BY <1>1, <3>2, <5>1, <5>2, <5>3, Steps
      <4> QED BY <2>2, <2>3, <2>4, <4>1, <4>2, <4>3
    <3> QED BY <3>1, <3>2
  <2> QED BY <2>5, <2>6
<1>2. IInv /\ [Next]_vars => [\A r \in Requests :
       /\ Step(r) => Stage(req'[r]) > Stage(req[r])
       /\ req'[r] # req[r] => Stage(req'[r]) > Stage(req[r])]_vars
  BY <1>1
<1> QED BY <1>2, Invariant, PTL DEF Spec, RequestsMoveOn
=============================================================================
