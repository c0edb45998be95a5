---------------------------- MODULE AccountLinking ----------------------------
(***************************************************************************)
(* What the callback of an identity provider makes of an account there     *)
(* (IdentityProviderService.handle_oauth_callback), and the approval of    *)
(* the link requests it leaves (AccountLinkRequestService).                *)
(*                                                                         *)
(* A request is its statements, one after the other; each SELECT sees what *)
(* is committed then.  The writes of a request and its commit are one step *)
(* and the last one, except that create_user commits at once.              *)
(***************************************************************************)

CONSTANTS
  Users,     \* those there may be, each with an e-mail address
  Accounts,  \* accounts at the providers: provider and external id
  Profile,   \* what the provider answers for an account: whose e-mail addresses
  Links,     \* tokens of link requests
  Requests,  \* bound: requests under way at the same time
  Nobody,    \* no user
  NoLink,    \* no link request with that token
  Idle       \* no request is under way

Providers  == {"google", "microsoft"}
UserStates == {"absent", "active", "inactive"}
Statuses   == {"pending", "approved"}
Identities == [account : Accounts, user : Users]
LinkRows == [account : Accounts, user : Users, status : Statuses, expired : BOOLEAN]

UnderWay ==
  [op : {"login", "link", "approve"}, account : Accounts, user : Users \cup {Nobody},
   link : Links \cup {NoLink},
   step : {"user", "identity", "insert", "email", "pending", "request", "create"}]

ASSUME ProfileAssumption ==
  Profile \in [Accounts -> [provider : Providers, mail : Users \cup {Nobody},
                           principal : Users \cup {Nobody}]]
ASSUME NobodyAssumption == Nobody \notin Users
ASSUME NoLinkAssumption == NoLink \notin LinkRows
ASSUME IdleAssumption   == Idle \notin UnderWay

VARIABLES
  users,       \* "absent", "active" or "inactive"
  passwords,   \* the users who have a password
  identities,  \* the table of identities: accounts and the users they are linked to
  links,       \* the table of link requests
  req,         \* the requests under way
  created,     \* history: which account a user was created for
  stranded,    \* history: users whose callback failed after it had created them
  overlapped   \* history: accounts with callbacks that asked for a link at the same time

vars == << users, passwords, identities, links, req, created, stranded, overlapped >>

Exists(l)  == links[l] # NoLink
Linked(a)  == \E i \in identities : i.account = a
Pending(a) == {l \in Links : Exists(l) /\ links[l].account = a /\ links[l].status = "pending"}

\* POST /auth/token asks for the password, a callback for an account that is
\* linked; nothing takes either away.
CanSignIn(u) == u \in passwords \/ \E i \in identities : i.user = u

\* get_user_info: a callback for an account without an e-mail address fails.
GoogleMail(p)    == p.mail
MicrosoftMail(p) == IF p.mail # Nobody THEN p.mail ELSE p.principal
MailOf == [a \in Accounts |->
  IF Profile[a].provider = "google" THEN GoogleMail(Profile[a]) ELSE MicrosoftMail(Profile[a])]

\* what create_state_token signs
StateFor(u) == [operation |-> "link", user_id |-> u]
\* The states initiate_account_link may have given out: to users signed in at the time.
Signed == {StateFor(u) : u \in {v \in Users : CanSignIn(v)}}
\* The random string of a login says nothing of that.
PlainState == [operation |-> "login", user_id |-> Nobody]
\* who is to get the link, according to a state that has been decoded
Wants(state) == IF state.operation = "link" THEN state.user_id ELSE Nobody

At(r, step)   == req[r] # Idle /\ req[r].step = step
GoTo(r, step) == req' = [req EXCEPT ![r].step = step]
Done(r)       == req' = [req EXCEPT ![r] = Idle]

Init ==
  /\ users \in [Users -> {"absent", "active"}]
  /\ passwords = {u \in Users : users[u] = "active"}
  /\ identities = {}
  /\ links = [l \in Links |-> NoLink]
  /\ req = [r \in Requests |-> Idle]
  /\ created = {} /\ stranded = {} /\ overlapped = {}

Admit(r, op, a, u, l, step) ==
  /\ req[r] = Idle
  /\ req' = [req EXCEPT ![r] = [op |-> op, account |-> a, user |-> u, link |-> l, step |-> step]]
  /\ UNCHANGED << users, passwords, identities, links, created, stranded, overlapped >>

-----------------------------------------------------------------------------
(* GET /oauth/{provider}/callback *)

\* There is no identity yet; where there is one, its user is signed in and
\* nothing else changes.
Callback(r, a, state) ==
  /\ ~Linked(a) /\ MailOf[a] # Nobody
  /\ IF Wants(state) = Nobody THEN Admit(r, "login", a, Nobody, NoLink, "email")
                             ELSE Admit(r, "link", a, Wants(state), NoLink, "user")

\* The user who wants the link is there and active.
CheckUser(r) ==
  /\ At(r, "user")
  /\ IF users[req[r].user] = "active" THEN GoTo(r, "identity") ELSE Done(r)
  /\ UNCHANGED << users, passwords, identities, links, created, stranded, overlapped >>

\* the users a request leaves behind when it fails: the one it has created
LeftBehind(r) ==
  IF req[r].op = "login" /\ req[r].step \in {"identity", "insert"} THEN {req[r].user} ELSE {}

\* create_identity looks for the identity once more.
FindIdentity(r) ==
  /\ At(r, "identity")
  /\ IF Linked(req[r].account)
       THEN Done(r) /\ stranded' = stranded \cup LeftBehind(r)
       ELSE GoTo(r, "insert") /\ UNCHANGED stranded
  /\ UNCHANGED << users, passwords, identities, links, created, overlapped >>

\* seeded fault: no unique constraint on provider and external id
InsertAny(a, u) == identities' = identities \cup {[account |-> a, user |-> u]}
\* the INSERT of an identity, and the unique constraint
InsertIdentity(a, u) == ~Linked(a) /\ identities' = identities \cup {[account |-> a, user |-> u]}

\* create_identity, and issues_tokens for a user who is active
LinkAccount(r) ==
  LET u == req[r].user IN
  /\ At(r, "insert") /\ req[r].op # "approve"
  /\ users[u] = "active"
  /\ InsertIdentity(req[r].account, u)
  /\ Done(r)
  /\ UNCHANGED << users, passwords, links, created, stranded, overlapped >>

\* get_user_by_email, of whatever standing
FindUser(r) ==
  LET u == MailOf[req[r].account] IN
  /\ At(r, "email")
  /\ req' = [req EXCEPT ![r].user = u,
                        ![r].step = IF users[u] = "absent" THEN "create" ELSE "pending"]
  /\ UNCHANGED << users, passwords, identities, links, created, stranded, overlapped >>

\* seeded fault: a link request that has expired does not count
FindValid(r) ==
  /\ At(r, "pending")
  /\ IF \A l \in Pending(req[r].account) : links[l].expired THEN GoTo(r, "request") ELSE Done(r)
  /\ UNCHANGED << users, passwords, identities, links, created, stranded, overlapped >>
\* create_request fails on a pending link request, expired or not, and on two.
FindPending(r) ==
  /\ At(r, "pending")
  /\ IF Pending(req[r].account) = {} THEN GoTo(r, "request") ELSE Done(r)
  /\ UNCHANGED << users, passwords, identities, links, created, stranded, overlapped >>

\* seeded fault: the row has no status
RequestWithout(r) ==
  /\ At(r, "request")
  /\ \E l \in Links :
       /\ ~Exists(l)
       /\ links' = [links EXCEPT ![l] = [account |-> req[r].account, user |-> req[r].user,
                                         status |-> Nobody, expired |-> FALSE]]
  /\ Done(r)
  /\ UNCHANGED << users, passwords, identities, created, stranded, overlapped >>
\* the INSERT of create_request; no constraint is on the account
CreateRequest(r) ==
  LET account == req[r].account IN
  /\ At(r, "request")
  /\ \E l \in Links :
       /\ ~Exists(l)
       /\ links' = [links EXCEPT ![l] = [account |-> account, user |-> req[r].user,
                                         status |-> "pending", expired |-> FALSE]]
  /\ overlapped' = IF \E q \in Requests \ {r} : At(q, "request") /\ req[q].account = account
                     THEN overlapped \cup {account} ELSE overlapped
  /\ Done(r)
  /\ UNCHANGED << users, passwords, identities, created, stranded >>

\* seeded fault: the callback ends with the new user
CreateAndStop(r) ==
  LET u == req[r].user IN
  /\ At(r, "create")
  /\ users[u] = "absent"
  /\ users' = [users EXCEPT ![u] = "active"]
  /\ created' = created \cup {[account |-> req[r].account, user |-> u]}
  /\ Done(r)
  /\ UNCHANGED << passwords, identities, links, stranded, overlapped >>
\* create_user commits; the e-mail address is unique.
CreateUser(r) ==
  LET u == req[r].user IN
  /\ At(r, "create")
  /\ IF users[u] = "absent"
       THEN /\ users' = [users EXCEPT ![u] = "active"]
            /\ created' = created \cup {[account |-> req[r].account, user |-> u]}
            /\ GoTo(r, "identity")
       ELSE UNCHANGED << users, created >> /\ Done(r)
  /\ UNCHANGED << passwords, identities, links, stranded, overlapped >>

-----------------------------------------------------------------------------
(* POST /link/approve *)

\* seeded fault: nobody asks who approves
ApproveUnasked(r, l) ==
  /\ Exists(l) /\ links[l].status = "pending" /\ ~links[l].expired
  /\ users[links[l].user] = "active"
  /\ Admit(r, "approve", links[l].account, links[l].user, l, "identity")
\* approve_request has found the link request pending and in time, and its
\* user signed in and active.
Approve(r, l) ==
  /\ Exists(l) /\ links[l].status = "pending" /\ ~links[l].expired
  /\ CanSignIn(links[l].user)
  /\ users[links[l].user] = "active"
  /\ Admit(r, "approve", links[l].account, links[l].user, l, "identity")

\* The identity and the status of the link request are one transaction.
ApproveLink(r) ==
  LET l == req[r].link IN
  /\ At(r, "insert") /\ req[r].op = "approve"
  /\ InsertIdentity(req[r].account, req[r].user)
  /\ links' = [links EXCEPT ![l].status = "approved"]
  /\ Done(r)
  /\ UNCHANGED << users, passwords, created, stranded, overlapped >>

-----------------------------------------------------------------------------

\* An error, of a constraint that refuses a write among others, or a crash
\* rolls back what is not committed: a user just created stays.
Fail(r) ==
  /\ req[r] # Idle
  /\ stranded' = stranded \cup LeftBehind(r)
  /\ Done(r)
  /\ UNCHANGED << users, passwords, identities, links, created, overlapped >>

\* Somebody registers with a password.
Register(u) ==
  /\ users[u] = "absent"
  /\ users' = [users EXCEPT ![u] = "active"]
  /\ passwords' = passwords \cup {u}
  /\ UNCHANGED << identities, links, req, created, stranded, overlapped >>

\* PUT /user/me
SetActive(u, status) ==
  /\ CanSignIn(u)
  /\ users' = [users EXCEPT ![u] = status]
  /\ UNCHANGED << passwords, identities, links, req, created, stranded, overlapped >>

\* The day of a link request is over.
Expire(l) ==
  /\ Exists(l) /\ ~links[l].expired
  /\ links' = [links EXCEPT ![l].expired = TRUE]
  /\ UNCHANGED << users, passwords, identities, req, created, stranded, overlapped >>

Next ==
  \/ \E r \in Requests :
       \/ \E a \in Accounts, state \in Signed \cup {PlainState} : Callback(r, a, state)
       \/ \E l \in Links : Approve(r, l)
       \/ CheckUser(r) \/ FindIdentity(r) \/ LinkAccount(r)
       \/ FindUser(r) \/ FindPending(r) \/ CreateRequest(r) \/ CreateUser(r)
       \/ ApproveLink(r) \/ Fail(r)
  \/ \E u \in Users : Register(u) \/ \E status \in {"active", "inactive"} : SetActive(u, status)
  \/ \E l \in Links : Expire(l)

Spec == Init /\ [][Next]_vars

-----------------------------------------------------------------------------

\* The tables and the requests are of the shape the code gives them.
TypeOK ==
  /\ users \in [Users -> UserStates]
  /\ passwords \subseteq Users
  /\ identities \subseteq Identities
  /\ links \in [Links -> LinkRows \cup {NoLink}]
  /\ req \in [Requests -> UnderWay \cup {Idle}]
  /\ created \subseteq Identities
  /\ stranded \subseteq Users
  /\ overlapped \subseteq Accounts

\* An approved link request has given its account to its user and to nobody
\* else, whatever callbacks and approvals ran at the same time
\* (approve_request, uq_provider_external_id).
ApprovedAreLinked ==
  \A l \in Links :
    Exists(l) /\ links[l].status = "approved"
      => {i.user : i \in {j \in identities : j.account = links[l].account}} = {links[l].user}

\* A user whom a callback has created for an account is the one linked to that
\* account, though create_user commits before create_identity has run, unless
\* the callback is still at it or has failed in between: broken off, or because
\* another request had linked the account first.
CreatedUsersGetIn ==
  \A c \in created :
    \/ c \in identities
    \/ c.user \in stranded
    \/ \E r \in Requests :
         /\ At(r, "identity") \/ At(r, "insert")
         /\ req[r].op = "login" /\ req[r].account = c.account /\ req[r].user = c.user

\* The user has neither a password nor an account that is linked, and no
\* callback is about to link one.
LockedOut(u) ==
  /\ users[u] # "absent" /\ ~CanSignIn(u)
  /\ \A r \in Requests : At(r, "identity") \/ At(r, "insert") => req[r].user # u

\* A user whose callback failed between create_user and create_identity never
\* gets in: the e-mail address is taken, so another callback only leaves a link
\* request, which nobody but that user can approve (approve_request), and
\* initiate_account_link asks for a user who is signed in.
LockedOutForGood == [][\A u \in Users : LockedOut(u) => LockedOut(u)']_vars

\* An account has one pending link request at most, which create_request and
\* its lookup with one_or_none rely on, unless callbacks for it overlapped.
OnePendingUnlessOverlap ==
  \A a \in Accounts \ overlapped : \A k, l \in Pending(a) : k = l

\* All that is left for the account is pending link requests that have expired:
\* nobody is about to approve one or to write another.
Blocked(a) ==
  /\ Pending(a) # {} /\ \A l \in Pending(a) : links[l].expired
  /\ \A r \in Requests :
       req[r] # Idle /\ req[r].account = a => req[r].op # "approve" /\ req[r].step # "request"

\* An account whose link requests have expired gets no other one for good:
\* create_request counts them as pending, approve_request refuses them, and
\* nothing takes them away.
ExpiredRequestBlocks == [][\A a \in Accounts : Blocked(a) => Blocked(a)']_vars
=============================================================================
