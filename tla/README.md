# Divvy: a verification development

Divvy splits the expenses of a group: members record transactions in a
*period*, the period is closed, a settlement plan says who pays whom, and
applying the plan records the transfers and settles the period. The program is
a FastAPI application on async SQLAlchemy (`src/app`), with SQLite as its
default database and PostgreSQL as the one meant for production.

This directory holds TLA+ models of its core, the TLC configurations that check
them on small instances, and theorems about them that TLAPS checks for every
instance. `PROJECT.json` lists the components, the runs, the seeded faults that
show each property can fail, the lines every definition stands for, the hazards
and the theorems.

Run a model with `tlc -workers 2 -config X.cfg M`, check proofs with
`tlapm M.tla`, both in this directory.

## Inventory

| Component | State it keeps | Operations | Hard behaviour | What makes it correct |
|---|---|---|---|---|
| Settlement plan (`services/settlement.py`) | two lists, two cursors, the plan | `get_settlement_plan` | cursors and amounts written back in place, one-sided lists, ties | no cent lost, every match clears somebody, the rest is the imbalance |
| Period lifecycle, applied settlements (`services/period.py`, `services/settlement.py`, `db/`) | period rows, settlement rows, sessions | create, rename, close, settle, apply | requests interleave at every await, two databases with different isolation, conflict aborts, rollback | one batch of transfers per closing, computed from one moment of the period |
| Shares of a transaction (`services/transaction.py`) | none | validate, calculate | percentages are added up as floats and calculated as decimals; rounding, left-over cents, negative amounts | what validation lets pass can be calculated, to the cent; where floats and decimals disagree, only there it cannot |
| Balances (`services/transaction.py`) | none | `get_all_balances` | a chain of reads, one per transaction | credits and debits of one moment |
| Transactions and approval (routers, `dependencies/authz/transaction.py`) | transaction and share rows, status | create, update, submit, approve, reject, draft, delete | the status is checked by a dependency and written by the handler later; the delete bypasses the cascade | a verdict is given on what is pending, shares belong to their transaction |
| Groups and membership (`services/group.py`, `repositories/authorization.py`, `dependencies/authz/`) | groups, role bindings | create, transfer ownership, assign role, remove, delete, open a period | read-then-write upserts, a transfer that writes two rows, guards in dependencies, deletes without a cascade | one owner, one binding a user, nobody leaves with unsettled transactions, nothing is left of a deleted group |
| Authentication (`services/authentication.py`, `routers/v1/auth.py`) | refresh tokens | register, log in, rotate, revoke, log out everywhere | rotation and revocation are a check and a later write; access tokens outlive them | a login has one valid token, an ended login stays ended |
| Identity providers, account linking (`services/identity_provider.py`, `services/account_link_request.py`) | identities, link requests | callback, approve | the user repository commits in the middle of a request; expiry; no constraint on pending requests | an approved request has linked its account to its user only; a user a callback creates gets the account, unless the callback fails half way |
| Users (`services/user.py`) | users | create, update, (de)activate | read-then-write | activation is as last asked for |
| Audit columns (`db/audit.py`) | a context variable, two columns | flush listener | the variable is never set by a request | the creator is known |
| Categories, configuration, translation, schemas, password and token primitives, provider clients, policy registry, migrations, scripts, Flutter client | | | single statements, libraries or no state | |

How they interact. A request has one database session that its enforcement
points (FastAPI dependencies) and its handler share; services call each other
within it; `get_session` commits when the request's dependencies are torn down
and rolls back on an exception. `apply_settlement_plan` alone has a session of
a second, SERIALIZABLE engine and commits explicitly. `SettlementService` calls
`PeriodService` and `TransactionService`; `IdentityProviderService` calls the
user, identity, link-request and authentication services. There are no queues
or background tasks: concurrency is the interleaving of requests at their
awaits, and the database is the only state they share.

## Modules

| Module | What it models |
|---|---|
| `Transfers` | abstract: what a settlement plan promises, one transfer at a time |
| `SettlementPlan` | the split, the sort and the loop of `get_settlement_plan`; implements `Transfers` |
| `PeriodLifecycle` | abstract: what the life of a period promises |
| `PeriodSettlement` | close and apply requests statement by statement, on both databases, with the writes of other requests; implements `PeriodLifecycle` |
| `TransactionWorkflow` | the requests on transactions: enforcement point, loads and write as separate steps, on both databases |
| `ShareCalculation` | `_validate_transaction` followed by `_calculate_shares_for_transaction` |
| `GroupMembership` | the requests on one group: enforcement points, reads and writes as separate steps, with the locks of both databases |
| `Sessions` | abstract: what refresh tokens promise of a login |
| `RefreshTokens` | registration, login, rotation, revocation, logout and the profile update, statement by statement; implements `Sessions` |
| `AccountLinking` | the callback of an identity provider in all its branches, link requests, their approval and expiry |
| `MC...` | the instances TLC checks |
| `...Proofs` | the theorems about the module they are named after |
| `FoldLemmas` | what the sums of the community modules compute, for `SettlementPlanProofs` and `ShareCalculationProofs` |

Correspondence to the code:

* **SettlementPlan.** A user is its position in the list of balances, which is
  all the stable sort sees. The lists of `(user_id, amount)` are split into the
  order of the users (`creditors`, `debtors`) and the amounts that the loop
  overwrites (`remaining`). `Match` is one iteration, `Finish` the failing loop
  condition. Any integers are balances: a deposit or a refund has one side
  only, so balances need not add up to zero.
* **PeriodSettlement.** `pc[r]` is the next statement of request `r`.
  `LoadPeriodToClose`, `FlushClose`, `CommitClose` are `close_period` and the
  commit of its session; `ReadPeriod` to `CommitSettled` are
  `apply_settlement_plan` with everything it calls. A transaction is the number
  of the write that produced its current row and shares, and a settlement's
  `basis` is the number each of its three reads (list, row, shares) has seen:
  two reads agree when the numbers do. `lock` is the request with uncommitted
  writes that others wait for: the lock of the period row on PostgreSQL, the
  write lock of the whole database on SQLite. On PostgreSQL an apply has a
  snapshot, taken by its first statement, and its UPDATE fails when the row has
  changed since (`RowUnchanged`). On SQLite the driver opens a transaction at the
  first INSERT or UPDATE, so each SELECT before it sees the latest commit. `Fail`
  is every other way a request can end: an error, a missing user, a crash.
  An UPDATE has only the columns whose value differs from the row as loaded,
  which is what `CloseRow` says.
* **ShareCalculation.** A request is any kind, split, amount and list of shares
  the schema accepts; `given` is the column the split reads. Participants are
  numbered in the order of their ids, in which the cents left over are handed
  out. `Validate`, `CheckShare`, `CheckTotal` are the validation; a request it
  stores goes on to the calculation. `index_error`, `decimal_error`, `invalid`
  and `internal_error` are the four ways the calculation can fail.

  A percentage is a binary float. The validation adds the floats up in the order
  of the request (`order`, `Plus`) and compares with 100.0 exactly; the
  calculation reads each of them as `Decimal(str(...))` (`Decimal`) and is exact
  from there. The module assumes nothing of `Plus` and `Decimal` but their
  ranges, so that it holds of IEEE doubles as of any others. The two need not
  agree on what makes 100 percent, and they do not: `[1e20, 50, -1e20, 100]`
  comes to 100.0 in floats and to 150 in decimals, which leaves more cents to take
  back than there are participants, and `sorted_user_ids[i]` raises `IndexError`.
  `AddsUp` says that the decimals make 100. A product of the decimals, which have
  28 digits, is exact for an amount of up to eleven, the text of a double having
  at most seventeen; `quantize` refuses a share of more than 28 (`TooLong`).

* **TransactionWorkflow.** `rows` and `shares` are the two tables, `req[r]` is
  a request that its enforcement point has let through (`Admit`), with what it
  asks for and what it has loaded so far. `LoadRow` and `LoadShares` are the two
  SELECTs of `get_transaction_by_id`; `Edit`, `SetStatus` and `Delete` are the
  flush and the commit of `update_transaction`, `update_transaction_status` and
  `delete_transaction`, `Fail` is their rollback, `Create` the whole of
  `create_transaction`. An UPDATE names the columns whose value differs from the
  one loaded (`Written`); a share row is inserted, updated or deleted according
  to the share rows loaded (`Added`, `Kept`, `Dropped`). `Create` leaves the
  creator null, because nothing calls `set_current_user_id`; transactions with a
  creator come from `scripts/seed_sample_data.py` (`Samples`). Ids go up on
  PostgreSQL and are given out again on SQLite (`IsNext`). `overtaken` is a
  history variable: the transactions whose last writer found another status
  than the one it had been let through on, or overwrote something it had not
  loaded, or that found share rows under their id.

* **GroupMembership.** `rows` is the table of role bindings of one group, in
  the order of their ids; `req[r].step` is the next statement of request `r`.
  `Admit` is `requires_group_role`, `CheckTarget` is `verifies_target_user_membership`;
  `CheckPeriod` and `CheckTransactions` are the two SELECTs behind
  `requires_settled_active_period`: the open period, where `one_or_none` fails on
  two of them (`OneOrNone`), and then, for the period found (`active`), the
  `selectinload` of its transactions. In between the period may get
  transactions, lose them to a closing, or be closed and another one opened;
  `LoadGroup`, `ReadOwner`, `FindOwner`, `Demote`, `FindTarget`, `Assign` are
  `transfer_group_owner` with the SELECT and the write of the two
  `assign_group_role` calls apart; an assignment of a role takes the last two.
  Between its two writes a transfer has a row nobody else sees and that nobody
  else may write: `held` names it, `Own` is the table as the transfer sees it,
  `Free` the lock. `Put` says which row a write reaches: the one that was found,
  whosever it is by now, or a new one with the next id, where the unique
  constraint and the foreign key let it in (`MayInsert`). `Deadlocked` is
  transfers waiting for each other's rows in a circle, of which PostgreSQL fails
  one (`Abort`). `CreateGroup` and `Reassign` are other requests in one step, the
  first on SQLite only: there a deleted group's id, and with it what was left
  under it, goes to the next group. `astray` is a history variable: an owner
  was demoted or removed by name, a transfer was overtaken, or a group came
  into being over bindings that were left. `late[r]` has the periods that got
  transactions after `r` had looked for them (`LookedAt`): in the period it has
  found open, after the second SELECT; in any other, after the first.
* **RefreshTokens.** A token's row has its user, the login it descends from and
  the token it replaced (`from`); the last two are history, everything else is
  in the code. `Register` to `IssueTokens`, `Refresh` to `Rotate`, `Logout` to
  `RevokeAll` and `UpdateProfile` to `SaveProfile` are the endpoints, `seen`
  what a SELECT has returned to a request. Whoever has an access token is
  `Bearer`; nothing takes that back. `session` maps the tokens to the state of
  each login in `Sessions`. A login is `overtaken` when a request wrote on the
  strength of a token that another had replaced or revoked meanwhile.
* **AccountLinking.** `Profile` is what a provider answers for an account;
  `MailOf` is whose e-mail address `get_user_info` makes of it. `Callback` has
  found no identity, then follows `handle_oauth_callback`: `CheckUser`,
  `FindIdentity`, `LinkAccount` with a signed state; `FindUser`, `FindPending`,
  `CreateRequest` for an address that is known; `CreateUser`, `FindIdentity`,
  `LinkAccount` for one that is not. `CreateUser` commits, everything else is
  committed with the last write. `Approve`, `FindIdentity`, `ApproveLink` are
  `approve_request`. `Expire` is the passing of a day. A link state is
  signed for a user who is signed in, as is the one who approves and the one who
  changes the own profile, and one signs in with a password or through an
  account that is linked (`CanSignIn`); nothing takes either away, and a user a
  callback creates has no password. `created`, `stranded` and `overlapped` are
  history variables: whom a callback created for which account, whose callback
  failed after that (`LeftBehind`), and accounts whose callbacks overlapped. The registration of the providers is
  commented out in `core/identity_providers/registry.py`: the module is of an
  installation that has it.

Some definitions are marked *seeded fault*: they are the faults named under
"mutants" in `PROJECT.json`, never used by a specification.

## What the runs check

| Run | Result | Shows |
|---|---|---|
| `settlement_plan` | holds | over every list of four balances: no cent lost (`NoCentLost`), what is left is exactly the imbalance (`LeftoverIsImbalance`), one side is settled (`OneSideSettled`), fewer transfers than users (`FewerTransfersThanUsers`), the plan is that of a reference definition without a loop (`PlanIsOverlapPlan`), the loop ends (`Terminates`) and implements `Transfers` (`ImplementsTransfers`) |
| `plan_minimal` | violated | the docstring's "minimal set of transfers" |
| `period` | holds | one batch of transfers per closing (`OneBatchPerClosing`), a batch on PostgreSQL is based on one moment since the closing (`SettlesASnapshot`), dates are set (`ClosedHasDates`), the requests implement `PeriodLifecycle` (`ImplementsLifecycle`), every request is answered (`RequestsAnswered`) |
| `settled_final` | violated | "This status cannot be changed once set": a close request changes it |
| `sqlite_snapshot` | violated | the SERIALIZABLE session on the default database: a plan can mix two versions of an expense |
| `shares` | holds | what is stored can be calculated unless its percentages, which came to 100.0 as floats, are off 100 as decimals, or a share is too long for a Decimal (`FailsOnlyOffHundred`), equal shares differ by at most a cent (`EqualSplitIsEven`), amounts are kept (`AmountsAreKept`), percentages are within one and a half cents, those off 100 included (`PercentagesAreClose`) |
| `transactions` | holds | a stored transaction passes the validation (`ValidUnlessOvertaken`) and an approved one is what was submitted (`ApprovedUnlessOvertaken`) unless a writer was overtaken; share rows on PostgreSQL have a transaction (`SharesHaveTransaction`); what the API creates stays a draft on PostgreSQL (`ApiRowsFrozen`) |
| `groups` | holds | a user has one binding (`OneBinding`); a group has one owner unless somebody demoted, removed or overlooked one (`OneOwnerUnlessAstray`); nothing is left of a group deleted on PostgreSQL (`DeletedLeavesNothing`); a removal or a deletion leaves no open period with transactions but those recorded after its guard, which takes two SELECTs, had looked for them (`LeavesNothingOpen`); every request ends, deadlocked transfers too (`RequestsAnswered`) |
| `tokens` | holds | a login has one valid refresh token (`OneLivePerLogin`) and an ended one has none (`EndedStaysOut`) unless a request was overtaken; the requests implement `Sessions` (`KeepsPromise`) |
| `linking` | holds | an approved link request has linked its account to its user only (`ApprovedAreLinked`), a user a callback has created is the one linked to the account unless the callback failed half way (`CreatedUsersGetIn`), in which case nothing ever lets that user in (`LockedOutForGood`), one link request is pending unless callbacks overlapped (`OnePendingUnlessOverlap`), an account whose requests have expired gets no other one (`ExpiredRequestBlocks`) |
| `stored_valid` | violated | "Only EXPENSE transactions can have expense_shares": on SQLite, after an expense has been taken back to draft and deleted, a new deposit inherits its shares |
| `approved_submitted` | violated | "Approve a pending transaction.": an edited draft is approved |

`ApiRowsFrozen` holds for a reason the program does not want: the creator of a
transaction is never recorded, so no enforcement point that asks for the
creator lets anybody through. The approval workflow works on the sample data
only. The property says how far this goes: not even requests that overlap with
others reach such a transaction.

`LockedOutForGood` and `ExpiredRequestBlocks` are unwanted facts as well, stated
because nothing in the code says them: a user whose callback fails between the
commit of `create_user` and that of `create_identity` has neither a password nor an
account that is linked. The next callback for the account finds the e-mail
address taken and leaves a link request, which only that user could approve. An
expired link request is never cleared away, and no other one is written.

What the exceptions mean: `FailsOnlyOffHundred`, `OneOwnerUnlessAstray`, `OneLivePerLogin`,
`EndedStaysOut`, `LeavesNothingOpen`, `CreatedUsersGetIn` and
`OnePendingUnlessOverlap` name the cases the code does not guard against, and
say that there are no others; a hazard that is such a case says so in its note.
Percentages that floats and decimals add up differently pass the validation; two
transfers that read
the same owner leave two; an owner can be given another role or removed by name;
two rotations of one token both issue a successor; a rotation that has read its
token before a logout survives it; two callbacks for one account both write a
link request, and from then on the lookup fails; a transaction recorded after the
guard has looked is left behind by the removal or the deletion;
a callback may be broken off after it has created a user, or find that another
request has linked the account meanwhile. On PostgreSQL `delete_group` is refused while a
member or a period is left, since the cascade of the model classes is not
applied to a bulk DELETE; and only an owner, who is a member, may ask for it.
There a deletion succeeds only when the last member is removed between its check
and its DELETE, in a group without periods.

### Bounds

* `settlement_plan`: four users, balances from -3 to 3: every number of
  creditors and debtors up to four, ties, balances that cancel out, partial
  payments in chains on both sides, sums of either sign. `plan_minimal` has five
  users and the four balances of the smallest counterexample.
* `period`: two close and two apply requests, so that each kind races with its
  own kind and with the other; two transactions, two writes of them, so that a
  write can fall between any two reads and a transaction can be created,
  updated and deleted (`MaxWrites`); one renaming (`MaxRenames`), which makes a
  version conflict that is not a status change. The two violating runs use the
  smallest instance that shows them.
* `transactions`: two requests under way, which is what each race takes, any
  number of them one after the other; two ids, so that an id is given out again
  and a new one is not; two members, one an administrator and one the creator; a
  content that is split equally, one split by amounts with another set of
  shares, and one without shares, which PostgreSQL can delete. The two violating
  runs have one database each, the one the finding is about.
* `shares`: up to five participants, amounts of both signs that leave
  remainders for four and five, negative and zero shares, which nothing forbids.
  The floats have three binary digits instead of 53, so that what doubles do at
  1e20 happens among small numbers: `MCPercentages` has some that make 100.0
  exactly, some that make it by rounding in one order of the request and not in the
  other, and some that make it by absorption. Their decimals are in thirds of a
  unit (`Hundred` = 48 is the float 16) and of some of them a little off, as the
  text of a double is. Every outcome of the calculation that
  `FailsOnlyOffHundred` allows happens in the run.
* `groups`: two requests and the one-step `Reassign` of others: two transfers
  and a role given in between are what the deadlock takes, every other race
  takes two. Three users: two owners and the target of a transfer; three ids
  (`MaxId`): each can have a binding, and on PostgreSQL a removed one is not
  given out again. Two periods: two open ones, one of them with transactions,
  is the case the guard fails on. It is checked on both databases.
* `tokens`: two requests under way, any number of them one after the other;
  four tokens: a chain of rotations with a fork, and the login of another user.
  Users, tokens and requests are interchangeable (symmetry).
* `linking`: two requests under way, two accounts with the same address at the
  two providers, another user who may link them, three link requests: two for
  one account and one for the other. Link requests and requests are
  interchangeable.

### Fairness

`ShareCalculation`, `TransactionWorkflow`, `RefreshTokens` and `AccountLinking`
have safety properties only and assume no fairness. `GroupMembership` has weak fairness of
each request's step, for the reason given for `PeriodSettlement` below;
`Abort` is part of the step, because a database answers a write it refuses and
resolves a deadlock, and `Fail` is not. In `transactions` and `groups` the
system can stop, since nobody has to send a request. `SettlementPlan` runs without awaiting
anything: weak fairness of its steps. `PeriodSettlement` has weak fairness of each request's
next statement: the event loop resumes a request whose await is done, and a
database grants a lock that is free. Waiting for a lock disables the statement,
so `RequestsAnswered` also says that locks are released. Nothing is assumed of
clients (no write, no renaming is fair) or of failures.

## What is proved

TLAPS proves, for all values of the constants that satisfy the assumptions
stated in the modules (finite sets of users, any number of requests,
transactions and writes):

* `FoldLemmas`: the sum of a function over a finite set or a sequence, which the
  community modules define by a recursion over sets, can be taken apart at any
  element, is an integer, and over `1..n` is the last of the prefix sums. The
  provers cannot instantiate induction theorems with an operator parameter;
  induction is stated with a set of the good cases instead
  (`InductionOverSubsets`) and follows from the library's `WFMin`.
* `SettlementPlanProofs`: every invariant of the run, and more.
  * Type correctness, `OneSideSettled`, `FewerTransfersThanUsers`, and that every
    step is a transfer of `Transfers` or a stutter. The invariant `IInv` says that
    the two lists are enumerations without repetition of the creditors and the
    debtors, that amounts before a cursor are 0 and from the cursor on positive,
    that an amount after the cursor is untouched, and that there are at most as
    many transfers as cursor moves.
  * `LosesNoCent`: `NoCentLost`. The invariant `Accounted` has, for each user, what
    the plan moves and what remains add up to the balance; a transfer lowers both
    ends by what it appends. `LeavesTheImbalance` sums it over the users: once one
    side is settled, what remains is all of one sign and equals the imbalance.
    With balances that add up to zero the plan therefore gives everybody exactly
    the balance (`SettlesZeroSums`).
  * `ReturnsTheReference`: `PlanIsOverlapPlan`. Lay the creditors' amounts end to
    end on a line, and the debtors' on another; the reference pays the overlap of
    two segments. The invariant `Follows` says that the amounts from the cursors on
    still make the same segments, that both lines are consumed to the same
    point, and that the plan so far is the overlaps up to the cursors; `Match`
    meets the next one and moves the cursor whose segment ends first.
  * `AtMostTwiceMinimal`: the docstring's "minimal" is refuted by the run
    `plan_minimal`; what is true is that any other list of transfers that settles
    the same balances has more than half as many, because each touches two users.
  * `SortIsAFunction`: for any balances there is exactly one stable order, so the
    step that sorts is neither stuck nor a choice. `LoopWindsDown`: the number of
    entries ahead of the cursors is a natural number that every step lowers.
* `PeriodSettlementProofs`: type correctness, `OneBatchPerClosing`,
  `ClosedHasDates`, `SettlesASnapshot` and the implementation of
  `PeriodLifecycle`. `OneBatchPerClosing` alone is not inductive: the invariant
  adds that a request past its UPDATE holds the lock and that the period is
  still closed while an apply holds it, that a version loaded by an apply is at
  most the committed one and, when equal, its snapshot is one of the tables
  since the closing, and that each of its reads has come from that snapshot.
  `LockIsNeverStuck`: a lock is held by a request under way that waits for
  nobody (`LockIsLive`), so that while any request is under way one can go on.
  `RequestsWindDown`: each step of a request takes it to a later statement, or
  leaves it less to read, and no writer takes it back. This needs `RowsStay`:
  a row that was there when it was read again is still in the view when its
  shares are, as a deleted one leaves its shares on SQLite; otherwise the loop
  could read the same shares for ever.
* `ShareCalculationProofs`: type correctness, `FailsOnlyOffHundred`,
  `EqualSplitIsEven`, `AmountsAreKept`, `PercentagesAreClose`. The invariant
  keeps prefix sums of the given column and of the shares as history variables;
  the lemma `FewCentsLeft` bounds the cents left over by the participants: half
  a cent each for rounding, less than one each for an equal split.
  `SharesAddUp`: the shares calculated for an expense sum to its amount.
  `ValidationIsExact`: the checks, done one after the other with early returns,
  reject what a definition without a loop calls ill-formed (`WellFormed`) and
  nothing else; for percentages that definition is the float sum in the order of
  the request, which is all the code asks. None of this assumes anything of
  `Plus` and `Decimal` beyond their ranges. That the shares are taken in the
  order of the request and added up in that of the users needs a lemma: a sum
  over a permutation is the sum (`SumInOrder`).
* `TransactionWorkflowProofs`: type correctness and the other four properties of
  the run. `EditExact` is the central lemma: an edit that writes only what
  differs from what it loaded leaves exactly what was asked for when nobody has
  written in between. The invariant adds that what is pending is what was
  submitted, and that on PostgreSQL ids and requests stay below the sequence,
  transactions without a creator are drafts and no request has one as its aim
  (`ApiRowsOutOfReach`), which no single step shows.
* `GroupMembershipProofs`: type correctness, `OneBinding`,
  `OneOwnerUnlessAstray`, `DeletedLeavesNothing` and `LeavesNothingOpen`. A
  transfer has written a row the table does not show yet, so `OneBinding` needs
  to know that this row is of the owner who was read, that it is nobody else's
  to write and that no two transfers hold the same (`HeldRows`). That in turn
  needs a row that was found to be still of the user it was found for: on
  PostgreSQL because ids are not given out twice (`IdsGoUp`, `FoundStays`), on
  SQLite because of the one write lock. One owner needs that a transfer whose
  target is not the owner has demoted the owner (`DemotedUnlessAstray`); nothing left
  of a deleted group, that no transfer is between its writes then
  (`NobodyWritesTheDeleted`). `CheckedSeesAll` says that a request past the
  SELECT that would have shown the transactions of a period has seen them, but
  for later ones: between the two SELECTs this is every period but the one it
  has found. `LocksAreReleased`:
  while requests are under way one of them need not wait or is failed by the
  database. If every holder of a row waits, following whom each waits for ends in
  a circle (`CircleExists`), and a circle is what PostgreSQL breaks. The circle
  may have any length: three transfers, each reading an owner who is given
  another role before it looks for the binding, can wait for one another, which
  the two requests of the run do not show. `RequestsWindDown`: a request passes each of at
  most twelve stages once.
* `RefreshTokensProofs`: type correctness, `OneLivePerLogin`, `EndedStaysOut`
  and the implementation of `Sessions`. The invariant adds that a token's login
  is a token that exists, that what a request has read exists, and that a token
  listed by a logout is valid or replaced or revoked since
  (`ListedUntilOvertaken`).
* `AccountLinkingProofs`: type correctness and the other five properties of the
  run. The invariant adds that a request's step says what it has found
  (`RequestsKnow`): an approval's link request exists and is of its account and
  user; and that a callback about to write a link request has found none pending,
  and there is none still, unless the account counts as overlapped
  (`FoundNonePending`). `LockedOutForGood` needs that whoever is under way to link
  or to approve could sign in when the request began (`KnownAsk`), so that a user
  who cannot is nobody's aim but the callback's that created the user.

Every invariant and every action property of the passing runs is proved. Only
model-checked: liveness, which needs ENABLED and fairness and is out of reach of
TLAPS here: `Terminates`, `RequestsAnswered` of the periods and of the
groups, and the fairness part of `ImplementsTransfers`. Of each, what concerns
states and steps is proved: that every step comes nearer to the end
(`LoopWindsDown`, the two `RequestsWindDown`), and that a
request that has to wait waits for one that need not (`LockIsNeverStuck`,
`LocksAreReleased`). That a request that need not wait has an enabled step
is left to TLC.

## What is not modelled

* Percentages that are NaN or infinite. Python's JSON reader takes them, but the
  answer with them cannot be rendered, so that the session rolls back.
* MySQL and SQL Server, which `db/connection.py` names.
* The additions per user in `get_all_balances`, which counts drafts and rejected
  transactions as well.
* In `TransactionWorkflow`: roles that change while a request is under way, the
  columns the validation does not look at, and the splits `personal` and
  `percentage`, which relate to the row as `equal` and `amount` do. The sample
  data's deposit with a share row, which the validation would refuse, is left
  out: it is approved, so no request changes it.
* A deposit or refund is read by the list of transactions alone; in
  `PeriodSettlement` it is an expense whose three reads fall together.
* In `GroupMembership`: the group's name, and system roles, which nothing
  assigns. One group; a group created on PostgreSQL has an id of its own and so
  nothing to do with the one modelled.
* In `RefreshTokens` and `AccountLinking`: the clock (a token that has run out is
  one nobody uses any more), changes of the e-mail address, the exchange of an
  authorization code with a provider, `change_password`, `reset_password`,
  `delete_user`, editing and unlinking identities, which have no caller in a router.
* The answer to the client: the session of a request commits after the handler
  has returned, and the models end a request at its commit. So an access token that
  reached its user before a commit that then fails is left out, in
  `AccountLinking` too: a user created by a callback whose commit fails has one
  until it runs out, with which an account could still be linked.
* Categories: independent rows with single statements, nothing interleaves.
* The policy registry, which nothing calls, configuration, logging, translation,
  schemas and the Flutter client, which keep no state of their own. Of the
  migrations the constraints are modelled, of the sample data the rows; of the
  token primitives and provider clients what they let through.

## What is left

1. An abstract specification of the workflow of transactions (a verdict is given
   once, on a submitted version) for the instances without overtaking.
2. Composition: `PeriodSettlement` with the transactions of
   `TransactionWorkflow`, balances per user from `ShareCalculation` into
   `SettlementPlan`; `GroupMembership` with the roles that `TransactionWorkflow`
   takes as given.
3. Changes of the e-mail address in `AccountLinking`, which would let an account
   find another user than before.
4. Proofs: that a request which need not wait has an enabled step, for which a
   theorem would have to state the steps without ENABLED.
