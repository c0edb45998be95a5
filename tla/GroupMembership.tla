--------------------------- MODULE GroupMembership ---------------------------
(***************************************************************************)
(* The requests on a group: create and delete it, transfer its ownership,  *)
(* assign a role, remove a member, open a period                           *)
(* (app/api/routers/v1/groups.py, GroupService, AuthorizationRepository).  *)
(*                                                                         *)
(* A request passes its enforcement points and then its handler, one       *)
(* statement after the other; each read sees what is committed then.  Only *)
(* a transfer writes twice: between its two writes it holds a lock, on the *)
(* row it has written on PostgreSQL and on the database on SQLite.  The    *)
(* last write of a request and its commit are one step.                    *)
(***************************************************************************)
EXTENDS Integers, Sequences

CONSTANTS
  Databases, \* those an installation may run on
  Requests,  \* bound: the requests there will be
  Users,
  MaxId,     \* bound: ids of role bindings
  Periods,   \* bound: periods the group can have
  Groups,    \* what the requests may find: bindings in the order of their ids, and periods
  Nobody,    \* no user
  NoRow,     \* there is no row with that id
  Idle,      \* the request has not come yet
  Over       \* it has been answered

Ids   == 1..MaxId
NoId  == 0
Roles == {"owner", "admin", "member"}
Rows  == [user : Users, role : Roles]

PeriodStates == {"none", "open", "busy", "closed"}

ASSUME GroupsAssumption ==
  \A g \in Groups :
    /\ g.bindings \in Seq(Rows) /\ Len(g.bindings) <= MaxId
    /\ \A i, j \in 1..Len(g.bindings) : g.bindings[i].user = g.bindings[j].user => i = j
    /\ g.periods \in [Periods -> PeriodStates]
ASSUME MaxIdAssumption  == MaxId \in Nat \ {0}
ASSUME NobodyAssumption == Nobody \notin Users
ASSUME NoRowAssumption  == NoRow \notin Rows
ASSUME DatabasesAssumption == Databases \subseteq {"postgresql", "sqlite"}

VARIABLES
  db,       \* the database the installation runs on
  group,    \* "there" or "deleted"
  rows,     \* the table of role bindings, those with the id of the group
  last,     \* the last id PostgreSQL's sequence has given
  periods,  \* the periods: "none", "open", "busy" (open, with transactions) or "closed"
  req,      \* the requests
  astray,   \* history: an owner was demoted, removed or overlooked
  late      \* history: periods that got transactions since a request had looked at them

vars == << db, group, rows, last, periods, req, astray, late >>

Ops == {"transfer", "assign", "remove", "delete", "period"}

\* the roles the enforcement point of a request asks for
Allowed == [op \in Ops |-> IF op \in {"transfer", "delete"} THEN {"owner"} ELSE {"owner", "admin"}]

Bound(u) == {i \in Ids : rows[i] # NoRow /\ rows[i].user = u}
Owners   == {rows[i].user : i \in {j \in Ids : rows[j] # NoRow /\ rows[j].role = "owner"}}
Open     == {p \in Periods : periods[p] \in {"open", "busy"}}
Busy     == {p \in Periods : periods[p] = "busy"}

Running(r)  == req[r] \notin {Idle, Over}
Holds(r)    == Running(r) /\ req[r].held # NoId
At(r, step) == Running(r) /\ req[r].step = step
Done(r)     == req' = [req EXCEPT ![r] = Over]
GoTo(r, step) == req' = [req EXCEPT ![r].step = step]

\* A group as its founder and other requests have left it: the bindings have
\* the ids they were given in.
Init ==
  /\ db \in Databases
  /\ group = "there"
  /\ \E g \in Groups :
       /\ rows = [i \in Ids |-> IF i \in DOMAIN g.bindings THEN g.bindings[i] ELSE NoRow]
       /\ last = Len(g.bindings)
       /\ periods = g.periods
  /\ astray = ~\E u \in Users : Owners = {u}
  /\ req = [r \in Requests |-> Idle]
  /\ late = [r \in Requests |-> {}]

-----------------------------------------------------------------------------
(* what the database makes of a write *)

Used(i) == rows[i] # NoRow \/ \E r \in Requests : Holds(r) /\ req[r].held = i

\* SQLite gives out the highest id in the table plus one, a deleted one again.
IsNext(i) ==
  IF db = "sqlite"
    THEN (i > 1 => Used(i - 1)) /\ \A j \in Ids : j >= i => ~Used(j)
    ELSE i = last + 1 /\ ~Used(i)

\* Nobody else holds the lock that writing the row of a user needs.
Free(r, u) ==
  \A q \in Requests \ {r} : Holds(q) => db = "postgresql" /\ req[q].owner # u

\* seeded fault: without the unique constraint any INSERT is accepted
AnyInsert(u) == db = "postgresql" => group = "there"
\* the unique constraint on user and group, and the foreign key of the group
MayInsert(u) == Bound(u) = {} /\ (db = "postgresql" => group = "there")

\* the row that the binding of u becomes, and its id: the one that was found,
\* or else a new one
Put(r, u, i) ==
  LET found == req[r].found IN
  IF found # NoId THEN i = found /\ rows[i] # NoRow
                  ELSE IsNext(i) /\ MayInsert(u)

\* Nothing is written when the row was found with the role it is to have.
Unchanged(r, role) == req[r].found # NoId /\ req[r].was = role

\* The UPDATE names the row by its id, whosever it is by now.
With(tbl, i, u, role) ==
  [tbl EXCEPT ![i] = [user |-> IF tbl[i] = NoRow THEN u ELSE tbl[i].user, role |-> role]]

\* seeded fault: the sequence leaves the range of ids
SkipAhead(i) == IF db = "postgresql" THEN i + 1 ELSE last
\* A sequence goes up; SQLite has none.
LastAfter(i) == IF db = "postgresql" /\ i > last THEN i ELSE last

-----------------------------------------------------------------------------
(* POST /groups *)

\* A group created on SQLite after another has been deleted has its id, and
\* with it the bindings that were left.  On PostgreSQL it has a new one.
CreateGroup(u) ==
  /\ group = "deleted" /\ db = "sqlite"
  /\ \A q \in Requests : ~Holds(q)
  /\ group' = "there"
  /\ \E i \in Ids :
       /\ IF Bound(u) # {} THEN i \in Bound(u) ELSE IsNext(i)
       /\ rows' = With(rows, i, u, "owner")
       /\ last' = LastAfter(i)
  /\ astray' = (astray \/ \E i \in Ids : rows[i] # NoRow)
  /\ UNCHANGED << db, periods, req, late >>

-----------------------------------------------------------------------------
(* the enforcement points *)

\* requires_group_role; a request that is refused changes nothing
Admit(r, op, by, target, role) ==
  /\ req[r] = Idle
  /\ \E i \in Bound(by) : rows[i].role \in Allowed[op]
  /\ req' = [req EXCEPT ![r] =
       [op |-> op, target |-> target, role |-> role, owner |-> Nobody,
        found |-> NoId, was |-> "member", held |-> NoId, active |-> {},
        step |-> CASE op = "transfer" -> "load"
                   [] op = "assign"   -> "find"
                   [] op = "remove"   -> "target"
                   [] op = "delete"   -> "check"
                   [] op = "period"   -> "open"]]
  /\ UNCHANGED << db, group, rows, last, periods, astray, late >>

\* verifies_target_user_membership; a transfer asks again after it has loaded
\* the group, and that answer decides
CheckTarget(r) ==
  /\ At(r, "target")
  /\ IF Bound(req[r].target) # {}
       THEN GoTo(r, IF req[r].op = "transfer" THEN "owner" ELSE "check")
       ELSE Done(r)
  /\ UNCHANGED << db, group, rows, last, periods, astray, late >>

\* seeded fault: of several open periods, one is looked at
TakeAny == TRUE
\* one_or_none fails on two open periods
OneOrNone == \A p, q \in Open : p = q

\* a request that requires_settled_active_period lets through
GoOn(r) ==
  req' = [req EXCEPT ![r].active = {},
                     ![r].step = IF req[r].op = "remove" THEN "remove" ELSE "load"]

\* get_active_period_by_group_id: the SELECT of the open period
CheckPeriod(r) ==
  /\ At(r, "check")
  /\ \/ Open = {} /\ GoOn(r)
     \/ OneOrNone /\ \E p \in Open :
          req' = [req EXCEPT ![r].active = {p}, ![r].step = "transactions"]
     \/ ~OneOrNone /\ Done(r)
  /\ UNCHANGED << db, group, rows, last, periods, astray, late >>

\* selectinload: the SELECT of the transactions of the period that was found
\* open.  If it has been closed meanwhile, it may have some or none.
CheckTransactions(r) ==
  /\ At(r, "transactions")
  /\ \/ req[r].active \cap Busy = {} /\ GoOn(r)
     \/ ~(req[r].active \subseteq Open \ Busy) /\ Done(r)
  /\ UNCHANGED << db, group, rows, last, periods, astray, late >>

-----------------------------------------------------------------------------
(* the handlers *)

\* get_group_by_id
LoadGroup(r) ==
  /\ At(r, "load")
  /\ IF group = "there"
       THEN GoTo(r, IF req[r].op = "transfer" THEN "target" ELSE "delete")
       ELSE Done(r)
  /\ UNCHANGED << db, group, rows, last, periods, astray, late >>

\* get_group_owner: one of them, if there are several
ReadOwner(r) ==
  /\ At(r, "owner")
  /\ \E o \in IF Owners = {} THEN {Nobody} ELSE Owners :
       req' = [req EXCEPT ![r].owner = o,
                          ![r].step = IF o \in {Nobody, req[r].target} THEN "find" ELSE "find_owner"]
  /\ UNCHANGED << db, group, rows, last, periods, astray, late >>

\* the SELECT of assign_group_role
Find(r, u, step) ==
  /\ IF Bound(u) = {}
       THEN req' = [req EXCEPT ![r].found = NoId, ![r].step = step]
       ELSE \E i \in Bound(u) :
              req' = [req EXCEPT ![r].found = i, ![r].was = rows[i].role, ![r].step = step]
  /\ UNCHANGED << db, group, rows, last, periods, astray, late >>

FindOwner(r)  == At(r, "find_owner") /\ Find(r, req[r].owner, "demote")
FindTarget(r) == At(r, "find") /\ Find(r, req[r].target, "assign")

\* seeded fault: the owner that was read keeps the role
DemoteNot(r) ==
  /\ At(r, "demote")
  /\ GoTo(r, "find")
  /\ UNCHANGED << db, group, rows, last, periods, astray, late >>

\* assign_group_role(current_owner, MEMBER): flushed, seen by others after
\* the commit
Demote(r) ==
  LET o == req[r].owner IN
  /\ At(r, "demote")
  /\ IF Unchanged(r, "member")
       THEN GoTo(r, "find") /\ UNCHANGED last
       ELSE /\ Free(r, o)
            /\ \E i \in Ids :
                 /\ Put(r, o, i)
                 /\ req' = [req EXCEPT ![r].held = i, ![r].step = "find"]
                 /\ last' = LastAfter(i)
  /\ astray' = (astray \/ Unchanged(r, "member"))
  /\ UNCHANGED << db, group, rows, periods, late >>

\* The table with the row this request has already written.
Own(r) == IF Holds(r) THEN With(rows, req[r].held, req[r].owner, "member") ELSE rows

\* The transfer knew whom it took the ownership from: the only owner, whose
\* row is the one it has demoted, or writes now when it gives it to the owner
\* again.
KnewTheOwner(r) ==
  LET o    == req[r].owner
      mine == IF o = req[r].target THEN req[r].found ELSE req[r].held
  IN  /\ Owners = {o}
      /\ mine # NoId => rows[mine] # NoRow /\ rows[mine].user = o
      /\ o # req[r].target => ~Unchanged(r, "owner")

\* assign_group_role and the commit
Assign(r) ==
  LET u == req[r].target
      role == req[r].role
  IN
  /\ At(r, "assign")
  /\ IF Unchanged(r, role)
       THEN rows' = Own(r) /\ UNCHANGED last
       ELSE /\ Free(r, u)
            /\ \E i \in Ids :
                 /\ Put(r, u, i)
                 /\ rows' = With(Own(r), i, u, role)
                 /\ last' = LastAfter(i)
  /\ astray' = \/ astray
               \/ IF req[r].op = "transfer" THEN ~KnewTheOwner(r)
                    ELSE \E i \in Ids : rows[i] # rows'[i] /\ rows[i] # NoRow /\ rows[i].role = "owner"
  /\ Done(r)
  /\ UNCHANGED << db, group, periods, late >>

\* Another request makes an owner an administrator, with nothing in between.
Reassign(u) ==
  /\ \A q \in Requests : Holds(q) => db = "postgresql" /\ req[q].owner # u
  /\ \E i \in Bound(u) :
       /\ rows[i].role = "owner"
       /\ rows' = With(rows, i, u, "admin")
  /\ astray' = TRUE
  /\ UNCHANGED << db, group, last, periods, req, late >>

\* remove_user_from_group; a DELETE of no row is no error
Remove(r) ==
  LET u == req[r].target IN
  /\ At(r, "remove")
  /\ Free(r, u)
  /\ rows' = [i \in Ids |-> IF i \in Bound(u) THEN NoRow ELSE rows[i]]
  /\ astray' = (astray \/ u \in Owners)
  /\ Done(r)
  /\ UNCHANGED << db, group, last, periods, late >>

\* seeded fault: the foreign keys refer to no group
NeverRefused == FALSE
\* the foreign keys of role bindings and periods on PostgreSQL
Refused ==
  /\ db = "postgresql"
  /\ (\E i \in Ids : rows[i] # NoRow) \/ (\E p \in Periods : periods[p] # "none")

\* delete_group is one DELETE of the row: the cascade of the model is not
\* applied, and SQLite, whose foreign keys are off, leaves what refers to it.
DeleteGroup(r) ==
  /\ At(r, "delete")
  /\ ~Refused
  /\ \A q \in Requests : ~Holds(q)
  /\ group' = "deleted"
  /\ Done(r)
  /\ UNCHANGED << db, rows, last, periods, astray, late >>

\* create_period looks at no other period.
CreatePeriod(r) ==
  /\ At(r, "open")
  /\ db = "postgresql" => group = "there"
  /\ db = "sqlite" => \A q \in Requests : ~Holds(q)
  /\ \E p \in Periods :
       /\ periods[p] = "none"
       /\ periods' = [periods EXCEPT ![p] = "open"]
  /\ Done(r)
  /\ UNCHANGED << db, group, rows, last, astray, late >>

\* Transfer r is to write the row of a user that transfer q has written.
WaitsFor(r, q) ==
  /\ At(r, "assign") /\ ~Unchanged(r, req[r].role)
  /\ q # r /\ Holds(q) /\ req[q].owner = req[r].target

\* Transfers wait for each other's rows in a circle: PostgreSQL fails one.
Deadlocked(r) ==
  /\ db = "postgresql"
  /\ \E circle \in SUBSET Requests :
       /\ r \in circle
       /\ \A q \in circle : (\E p \in circle : WaitsFor(q, p)) /\ (\E p \in circle : WaitsFor(p, q))

\* seeded fault: a deadlock is not noticed
NoWay(r) ==
  CASE At(r, "demote") -> ~Unchanged(r, "member") /\ ~\E i \in Ids : Put(r, req[r].owner, i)
    [] At(r, "assign") -> ~Unchanged(r, req[r].role) /\ ~\E i \in Ids : Put(r, req[r].target, i)
    [] At(r, "delete") -> Refused
    [] At(r, "open")   -> (db = "postgresql" /\ group # "there") \/ \A p \in Periods : periods[p] # "none"
    [] OTHER           -> FALSE
\* The write is refused: by a constraint, because its row is gone, or by one
\* of the bounds.
MustFail(r) == NoWay(r) \/ Deadlocked(r)

\* The transaction rolls back.
Abort(r) ==
  /\ MustFail(r)
  /\ Done(r)
  /\ UNCHANGED << db, group, rows, last, periods, astray, late >>

\* A crash, a timeout or a lost connection does the same at any moment.
Fail(r) ==
  /\ Running(r)
  /\ Done(r)
  /\ UNCHANGED << db, group, rows, last, periods, astray, late >>

-----------------------------------------------------------------------------

\* requires_settled_active_period has let the request through.
Checked(r) == At(r, "remove") \/ At(r, "delete") \/ (At(r, "load") /\ req[r].op = "delete")

\* The request has looked for transactions of period p: that of a period found
\* open comes with the second SELECT, that of all others with the first.
LookedAt(r, p) == Checked(r) \/ (At(r, "transactions") /\ p \notin req[r].active)

\* The requests on periods and transactions.
ChangePeriod(p, status) ==
  /\ periods[p] \in {"open", "busy"} /\ periods[p] # status
  /\ db = "sqlite" => \A q \in Requests : ~Holds(q)
  /\ periods' = [periods EXCEPT ![p] = status]
  /\ late' = [r \in Requests |->
                IF status = "busy" /\ LookedAt(r, p) THEN late[r] \cup {p} ELSE late[r]]
  /\ UNCHANGED << db, group, rows, last, req, astray >>

\* what a request on the group can be about
Targets(op) == IF op \in {"delete", "period"} THEN {Nobody} ELSE Users
Given(op)   == IF op = "transfer" THEN {"owner"} ELSE IF op = "assign" THEN {"admin", "member"} ELSE {"member"}

Step(r) ==
  \/ CheckTarget(r) \/ CheckPeriod(r) \/ CheckTransactions(r) \/ LoadGroup(r)
  \/ ReadOwner(r) \/ FindOwner(r) \/ FindTarget(r)
  \/ Demote(r) \/ Assign(r) \/ Remove(r) \/ DeleteGroup(r) \/ CreatePeriod(r)
  \/ Abort(r)

Next ==
  \/ \E u \in Users : CreateGroup(u) \/ Reassign(u)
  \/ \E r \in Requests :
       \/ \E op \in Ops, by \in Users : \E u \in Targets(op), role \in Given(op) : Admit(r, op, by, u, role)
       \/ Step(r)
       \/ Fail(r)
  \/ \E p \in Periods, status \in {"open", "busy", "closed"} : ChangePeriod(p, status)

Spec == Init /\ [][Next]_vars

\* A request whose await is done goes on, and a lock that is free is granted.
FairSpec == Spec /\ \A r \in Requests : WF_vars(Step(r))

-----------------------------------------------------------------------------

UnderWay ==
  [op : Ops, target : Users \cup {Nobody}, role : Roles, owner : Users \cup {Nobody},
   found : Ids \cup {NoId}, was : Roles, held : Ids \cup {NoId}, active : SUBSET Periods,
   step : {"load", "target", "check", "transactions", "owner", "find_owner", "demote", "find", "assign",
           "remove", "delete", "open"}]

ASSUME IdleAssumption == Idle # Over /\ Idle \notin UnderWay /\ Over \notin UnderWay

\* The tables and the requests are of the shape the code gives them.
TypeOK ==
  /\ db \in Databases
  /\ group \in {"there", "deleted"}
  /\ rows \in [Ids -> Rows \cup {NoRow}]
  /\ last \in Ids \cup {0}
  /\ periods \in [Periods -> PeriodStates]
  /\ req \in [Requests -> UnderWay \cup {Idle, Over}]
  /\ astray \in BOOLEAN
  /\ late \in [Requests -> SUBSET Periods]

\* A user has one role in a group, as every lookup with one_or_none relies on,
\* though assign_group_role looks for a binding and inserts one in two steps.
OneBinding ==
  \A i, j \in Ids :
    rows[i] # NoRow /\ rows[j] # NoRow /\ rows[i].user = rows[j].user => i = j

\* A group has exactly one owner (get_group_owner and transfer_group_owner take
\* it for granted), unless a request demoted or removed the owner by name,
\* a transfer was overtaken, or the group was created over the bindings of a
\* deleted one.
OneOwnerUnlessAstray ==
  group = "there" /\ ~astray => \E u \in Users : Owners = {u}

\* On PostgreSQL a group that has been deleted has left no member and no period,
\* not even one that a request had already looked up a place for: the DELETE
\* waits for INSERTs under way, is refused by what they leave, and refuses what
\* comes after (delete_group relies on a cascade that is not applied).
DeletedLeavesNothing ==
  db = "postgresql" /\ group = "deleted"
    => (\A i \in Ids : rows[i] = NoRow) /\ (\A p \in Periods : periods[p] = "none")

\* Whoever is removed, and a group that is deleted, leaves no open period with
\* transactions but those that got them when the guard could not see them any
\* more (requires_settled_active_period): the period it had found open, after
\* its transactions were read; a period opened since, after the one SELECT of
\* open periods.  This holds whatever number of periods is open, and whatever
\* becomes of the period between the two SELECTs.
LeavesNothingOpen ==
  [][\A r \in Requests :
       (At(r, "remove") \/ At(r, "delete")) /\ req'[r] = Over /\ << rows, group >>' # << rows, group >>
         => Busy \subseteq late[r]]_vars

\* Every request ends: transfers that hold one row and wait for another do
\* not wait for ever.
RequestsAnswered == \A r \in Requests : Running(r) ~> ~Running(r)
=============================================================================
