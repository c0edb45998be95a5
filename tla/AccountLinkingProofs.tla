------------------------- MODULE AccountLinkingProofs -------------------------
(***************************************************************************)
(* For any users, accounts, link requests and number of callbacks and      *)
(* approvals under way, what the run of AccountLinking checks on two.      *)
(***************************************************************************)
EXTENDS AccountLinking, TLAPS

\* What a request under way relies on: the user it is for has been found, and
\* an approval is of a link request that is still there and of its account.
RequestsKnow ==
  \A r \in Requests :
    req[r] # Idle =>
      /\ req[r].step = "email" => req[r].op = "login" /\ MailOf[req[r].account] \in Users
      /\ req[r].step # "email" => req[r].user \in Users
      /\ req[r].step \in {"pending", "request", "create"} => req[r].op = "login"
      /\ req[r].op = "approve" => /\ req[r].link \in Links /\ Exists(req[r].link)
                                  /\ links[req[r].link].account = req[r].account
                                  /\ links[req[r].link].user = req[r].user

\* Whoever asks for a link, or approves one, can sign in.
KnownAsk ==
  \A r \in Requests :
    req[r] # Idle =>
      /\ req[r].op # "login" => CanSignIn(req[r].user)
      /\ req[r].step = "user" => req[r].op = "link"

\* Whoever is about to write a link request has found none pending, and there
\* is none still, unless another callback has been faster.
FoundNonePending ==
  \A r \in Requests :
    At(r, "request") => Pending(req[r].account) = {} \/ req[r].account \in overlapped

-----------------------------------------------------------------------------

\* A link request that is there is a row of the table.
LEMMA LinkShape ==
  ASSUME TypeOK, NEW l \in Links, Exists(l)
  PROVE  /\ links[l] \in LinkRows
         /\ links[l] = [account |-> links[l].account, user |-> links[l].user,
                        status |-> links[l].status, expired |-> links[l].expired]
         /\ links[l].account \in Accounts /\ links[l].user \in Users
         /\ links[l].status \in Statuses /\ links[l].expired \in BOOLEAN
<1>1. links[l] \in LinkRows
  BY DEF TypeOK, Exists
<1> QED BY <1>1 DEF LinkRows

\* A row is not the absence of one.
LEMMA RowsAreThere ==
  ASSUME NEW row \in LinkRows
  PROVE  row # NoLink
BY NoLinkAssumption

\* A request under way is of the shape of one.
LEMMA RequestShape ==
  ASSUME TypeOK, NEW r \in Requests, req[r] # Idle
  PROVE  /\ req[r] \in UnderWay
         /\ req[r].account \in Accounts /\ req[r].user \in Users \cup {Nobody}
         /\ req[r].op \in {"login", "link", "approve"}
<1>1. req[r] \in UnderWay
  BY DEF TypeOK
<1> QED BY <1>1 DEF UnderWay

\* Steps that change nothing but the requests: their end or their next statement.
LEMMA NextStatement ==
  ASSUME TypeOK, NEW r \in Requests, NEW from, At(r, from), NEW step, GoTo(r, step),
         step \in {"identity", "insert", "pending", "request", "create"}
  PROVE  /\ req' = [req EXCEPT ![r] = req'[r]]
         /\ req'[r] \in UnderWay /\ req'[r].step = step
         /\ req'[r].op = req[r].op /\ req'[r].account = req[r].account
         /\ req'[r].user = req[r].user /\ req'[r].link = req[r].link
<1>1. req[r] \in UnderWay
  BY RequestShape DEF At
<1>2. req'[r] = [req[r] EXCEPT !.step = step]
  BY DEF GoTo, TypeOK
<1>3. req' = [req EXCEPT ![r] = req'[r]]
  BY <1>2 DEF GoTo, TypeOK
<1>4. [req[r] EXCEPT !.step = step] \in UnderWay
  BY <1>1 DEF UnderWay
<1>5. /\ req'[r].step = step
      /\ req'[r].op = req[r].op /\ req'[r].account = req[r].account
      /\ req'[r].user = req[r].user /\ req'[r].link = req[r].link
  BY <1>1, <1>2 DEF UnderWay
<1> QED BY <1>2, <1>3, <1>4, <1>5

\* What a new request is.
LEMMA AdmitShape ==
  ASSUME TypeOK, NEW r \in Requests, NEW op \in {"login", "link", "approve"}, NEW a \in Accounts,
         NEW u \in Users \cup {Nobody}, NEW l \in Links \cup {NoLink},
         NEW step \in {"email", "user", "identity"}, Admit(r, op, a, u, l, step)
  PROVE  /\ req[r] = Idle
         /\ req' = [req EXCEPT ![r] = req'[r]]
         /\ req'[r] = [op |-> op, account |-> a, user |-> u, link |-> l, step |-> step]
         /\ req'[r] \in UnderWay
         /\ UNCHANGED << users, passwords, identities, links, created, stranded, overlapped >>
<1>1. req'[r] = [op |-> op, account |-> a, user |-> u, link |-> l, step |-> step]
  BY DEF Admit, TypeOK
<1>2. [op |-> op, account |-> a, user |-> u, link |-> l, step |-> step] \in UnderWay
  BY DEF UnderWay
<1>3. req' = [req EXCEPT ![r] = req'[r]]
  BY <1>1 DEF Admit
<1> QED BY <1>1, <1>2, <1>3 DEF Admit

\* A state that has been signed names a user, and one that was not names nobody.
LEMMA StatesName ==
  ASSUME NEW state \in Signed \cup {PlainState}
  PROVE  /\ Wants(state) \in Users \cup {Nobody}
         /\ Wants(state) # Nobody => CanSignIn(Wants(state))
<1>1. CASE state \in Signed
  <2>1. PICK u \in Users : state = StateFor(u) /\ CanSignIn(u)
    BY <1>1 DEF Signed
  <2> QED BY <2>1 DEF StateFor, Wants
<1>2. CASE state = PlainState
  BY <1>2 DEF PlainState, Wants
<1> QED BY <1>1, <1>2

\* The mail of an account is that of a user, or there is none.
LEMMA MailShape ==
  ASSUME NEW a \in Accounts
  PROVE  MailOf[a] \in Users \cup {Nobody}
BY ProfileAssumption DEF MailOf, GoogleMail, MicrosoftMail

\* A callback is let in as a login or, with a state that was signed, as a link.
LEMMA CallbackShape ==
  ASSUME TypeOK, NEW r \in Requests, NEW a \in Accounts, NEW state \in Signed \cup {PlainState},
         Callback(r, a, state)
  PROVE  \E op \in {"login", "link"}, u \in Users \cup {Nobody}, step \in {"email", "user"} :
           /\ Admit(r, op, a, u, NoLink, step)
           /\ step = "email" => op = "login" /\ MailOf[a] \in Users
           /\ step # "email" => u \in Users
           /\ op = "link" => CanSignIn(u)
           /\ step = "user" => op = "link"
<1>1. MailOf[a] \in Users
  BY MailShape DEF Callback
<1>2. CASE Wants(state) = Nobody
  <2>1. Admit(r, "login", a, Nobody, NoLink, "email")
    BY <1>2 DEF Callback
  <2> QED BY <1>1, <2>1
<1>3. CASE Wants(state) # Nobody
  <2>1. /\ Admit(r, "link", a, Wants(state), NoLink, "user") /\ Wants(state) \in Users
        /\ CanSignIn(Wants(state))
    BY <1>3, StatesName DEF Callback
  <2> QED BY <2>1
<1> QED BY <1>2, <1>3

\* What CreateRequest adds: a link request that is pending.
LEMMA CreateShape ==
  ASSUME TypeOK, RequestsKnow, NEW r \in Requests, CreateRequest(r)
  PROVE  \E l \in Links :
           /\ ~Exists(l)
           /\ links' = [links EXCEPT ![l] = links'[l]]
           /\ links'[l] \in LinkRows
           /\ links'[l].account = req[r].account /\ links'[l].status = "pending"
<1>1. PICK l \in Links :
        /\ ~Exists(l)
        /\ links' = [links EXCEPT ![l] = [account |-> req[r].account, user |-> req[r].user,
                                          status |-> "pending", expired |-> FALSE]]
  BY DEF CreateRequest
<1>2. req[r].account \in Accounts /\ req[r].user \in Users
  BY RequestShape DEF CreateRequest, At, RequestsKnow
<1>3. links'[l] = [account |-> req[r].account, user |-> req[r].user,
                   status |-> "pending", expired |-> FALSE]
  BY <1>1 DEF TypeOK
<1>4. links'[l] \in LinkRows
  BY <1>2, <1>3 DEF LinkRows, Statuses
<1>5. links'[l].account = req[r].account /\ links'[l].status = "pending"
  BY <1>3
<1>6. links' = [links EXCEPT ![l] = links'[l]]
  BY <1>1, <1>3
<1> QED BY <1>1, <1>4, <1>5, <1>6

\* What an approval leaves: the identity, and the link request approved.
LEMMA ApproveShape ==
  ASSUME TypeOK, RequestsKnow, NEW r \in Requests, ApproveLink(r)
  PROVE  LET l == req[r].link IN
         /\ l \in Links /\ Exists(l)
         /\ ~Linked(links[l].account)
         /\ identities' = identities \cup {[account |-> links[l].account, user |-> links[l].user]}
         /\ links' = [links EXCEPT ![l] = links'[l]]
         /\ links'[l] \in LinkRows /\ links'[l].status = "approved"
         /\ links'[l].account = links[l].account /\ links'[l].user = links[l].user
         /\ links'[l].expired = links[l].expired
<1> DEFINE l == req[r].link
<1>1. /\ l \in Links /\ Exists(l) /\ links[l].account = req[r].account
      /\ links[l].user = req[r].user
  BY DEF ApproveLink, At, RequestsKnow
<1>2. links[l] \in LinkRows
  BY <1>1, LinkShape
<1>3. links'[l] = [links[l] EXCEPT !.status = "approved"]
  BY <1>1 DEF ApproveLink, TypeOK
<1>4. links' = [links EXCEPT ![l] = links'[l]]
  BY <1>1, <1>3 DEF ApproveLink, TypeOK
<1>5. [links[l] EXCEPT !.status = "approved"] \in LinkRows
  BY <1>2 DEF LinkRows, Statuses
<1>6. /\ links'[l].status = "approved" /\ links'[l].account = links[l].account
      /\ links'[l].user = links[l].user /\ links'[l].expired = links[l].expired
  BY <1>2, <1>3 DEF LinkRows
<1>7. ~Linked(links[l].account)
      /\ identities' = identities \cup {[account |-> links[l].account, user |-> links[l].user]}
  BY <1>1 DEF ApproveLink, InsertIdentity
<1> HIDE DEF l
<1> QED BY <1>1, <1>3, <1>4, <1>5, <1>6, <1>7 DEF l

\* What a day's end makes of a link request.
LEMMA ExpireShape ==
  ASSUME TypeOK, NEW l \in Links, Expire(l)
  PROVE  /\ Exists(l)
         /\ links' = [links EXCEPT ![l] = links'[l]]
         /\ links'[l] \in LinkRows /\ links'[l].status = links[l].status
         /\ links'[l].account = links[l].account /\ links'[l].user = links[l].user
         /\ links'[l].expired
<1>1. links[l] \in LinkRows /\ Exists(l)
  BY LinkShape DEF Expire
<1>2. links'[l] = [links[l] EXCEPT !.expired = TRUE]
  BY DEF Expire, TypeOK
<1>3. links' = [links EXCEPT ![l] = links'[l]]
  BY <1>2 DEF Expire, TypeOK
<1>4. [links[l] EXCEPT !.expired = TRUE] \in LinkRows
  BY <1>1 DEF LinkRows
<1>5. /\ links'[l].status = links[l].status /\ links'[l].account = links[l].account
      /\ links'[l].user = links[l].user /\ links'[l].expired
  BY <1>1, <1>2 DEF LinkRows
<1> QED BY <1>1, <1>2, <1>3, <1>4, <1>5

-----------------------------------------------------------------------------

\* Every initial state is well formed.
LEMMA InitTypeOK == Init => TypeOK /\ RequestsKnow /\ FoundNonePending
BY DEF Init, TypeOK, UserStates, Identities, RequestsKnow, FoundNonePending, At

\* Every step keeps the tables and the requests well formed.
LEMMA StepTypeOK == TypeOK /\ RequestsKnow /\ [Next]_vars => TypeOK'
<1> SUFFICES ASSUME TypeOK, RequestsKnow, [Next]_vars PROVE TypeOK'
  OBVIOUS
<1>done. ASSUME NEW r \in Requests, Done(r)
         PROVE  req' \in [Requests -> UnderWay \cup {Idle}]
  BY <1>done DEF Done, TypeOK
<1>goto. ASSUME NEW r \in Requests, NEW from, At(r, from), NEW step, GoTo(r, step),
                step \in {"identity", "insert", "pending", "request", "create"}
         PROVE  req' \in [Requests -> UnderWay \cup {Idle}]
  BY <1>goto, NextStatement DEF TypeOK
<1>1. CASE UNCHANGED vars
  BY <1>1 DEF vars, TypeOK
<1>2. ASSUME NEW r \in Requests, NEW a \in Accounts, NEW state \in Signed \cup {PlainState},
             Callback(r, a, state)
      PROVE  TypeOK'
  <2>1. PICK op \in {"login", "link"}, u \in Users \cup {Nobody}, step \in {"email", "user"} :
          Admit(r, op, a, u, NoLink, step)
    BY <1>2, CallbackShape
  <2>2. /\ req' = [req EXCEPT ![r] = req'[r]] /\ req'[r] \in UnderWay
        /\ UNCHANGED << users, passwords, identities, links, created, stranded, overlapped >>
    BY <2>1, AdmitShape
  <2> QED BY <2>2 DEF TypeOK
<1>3. ASSUME NEW r \in Requests, NEW l \in Links, Approve(r, l)
      PROVE  TypeOK'
  <2>1. Admit(r, "approve", links[l].account, links[l].user, l, "identity")
        /\ links[l].account \in Accounts /\ links[l].user \in Users
    BY <1>3, LinkShape DEF Approve
  <2> QED BY <2>1, AdmitShape DEF TypeOK
<1>4. ASSUME NEW r \in Requests, CheckUser(r) \/ FindIdentity(r) \/ FindPending(r)
      PROVE  TypeOK'
  <2>1. req' \in [Requests -> UnderWay \cup {Idle}]
    BY <1>4, <1>done, <1>goto DEF CheckUser, FindIdentity, FindPending
  <2>2. At(r, "identity") => LeftBehind(r) \subseteq Users
    BY DEF LeftBehind, RequestsKnow, At
  <2>3. stranded' \subseteq Users
    BY <1>4, <2>2 DEF CheckUser, FindIdentity, FindPending, TypeOK
  <2> QED BY <1>4, <2>1, <2>3 DEF CheckUser, FindIdentity, FindPending, TypeOK
<1>5. ASSUME NEW r \in Requests, FindUser(r)
      PROVE  TypeOK'
  <2>1. req[r] \in UnderWay /\ MailOf[req[r].account] \in Users
    BY <1>5, RequestShape DEF FindUser, At, RequestsKnow
  <2>2. \A u \in Users, step \in {"create", "pending"} :
          [req[r] EXCEPT !.user = u, !.step = step] \in UnderWay
    BY <2>1 DEF UnderWay
  <2>3. req' \in [Requests -> UnderWay \cup {Idle}]
    <3> DEFINE u == MailOf[req[r].account]
               step == IF users[u] = "absent" THEN "create" ELSE "pending"
    <3>1. req' = [req EXCEPT ![r] = [req[r] EXCEPT !.user = u, !.step = step]]
      BY <1>5 DEF FindUser, TypeOK
    <3>2. step \in {"create", "pending"}
      OBVIOUS
    <3> HIDE DEF u, step
    <3>3. [req[r] EXCEPT !.user = u, !.step = step] \in UnderWay
      BY <2>1, <2>2, <3>2 DEF u
    <3> QED BY <3>1, <3>3 DEF TypeOK
  <2> QED BY <1>5, <2>3 DEF FindUser, TypeOK
<1>6. ASSUME NEW r \in Requests, LinkAccount(r)
      PROVE  TypeOK'
  <2>1. req' \in [Requests -> UnderWay \cup {Idle}]
    BY <1>6, <1>done DEF LinkAccount
  <2>2. req[r].account \in Accounts /\ req[r].user \in Users
    BY <1>6, RequestShape DEF LinkAccount, At, RequestsKnow
  <2>3. identities' \subseteq Identities
    BY <1>6, <2>2 DEF LinkAccount, InsertIdentity, Identities, TypeOK
  <2> QED BY <1>6, <2>1, <2>3 DEF LinkAccount, TypeOK
<1>7. ASSUME NEW r \in Requests, CreateRequest(r)
      PROVE  TypeOK'
  <2>1. req' \in [Requests -> UnderWay \cup {Idle}]
    BY <1>7, <1>done DEF CreateRequest
  <2>2. links' \in [Links -> LinkRows \cup {NoLink}]
    BY <1>7, CreateShape DEF TypeOK
  <2>3. overlapped' \subseteq Accounts
    BY <1>7, RequestShape DEF CreateRequest, At, TypeOK
  <2> QED BY <1>7, <2>1, <2>2, <2>3 DEF CreateRequest, TypeOK
<1>8. ASSUME NEW r \in Requests, CreateUser(r)
      PROVE  TypeOK'
  <2>1. req' \in [Requests -> UnderWay \cup {Idle}]
    BY <1>8, <1>done, <1>goto DEF CreateUser
  <2>2. req[r].account \in Accounts /\ req[r].user \in Users
    BY <1>8, RequestShape DEF CreateUser, At, RequestsKnow
  <2>3. users' \in [Users -> UserStates] /\ created' \subseteq Identities
    BY <1>8, <2>2 DEF CreateUser, UserStates, Identities, TypeOK
  <2> QED BY <1>8, <2>1, <2>3 DEF CreateUser, TypeOK
<1>9. ASSUME NEW r \in Requests, ApproveLink(r)
      PROVE  TypeOK'
  <2>1. req' \in [Requests -> UnderWay \cup {Idle}]
    BY <1>9, <1>done DEF ApproveLink
  <2>2. links' \in [Links -> LinkRows \cup {NoLink}]
    BY <1>9, ApproveShape DEF TypeOK
  <2>3. identities' \subseteq Identities
    BY <1>9, ApproveShape, LinkShape DEF Identities, TypeOK
  <2> QED BY <1>9, <2>1, <2>2, <2>3 DEF ApproveLink, TypeOK
<1>10. ASSUME NEW r \in Requests, Fail(r)
       PROVE  TypeOK'
  <2>1. req' \in [Requests -> UnderWay \cup {Idle}]
    BY <1>10, <1>done DEF Fail
  <2>2. stranded' \subseteq Users
    BY <1>10 DEF Fail, LeftBehind, RequestsKnow, TypeOK
  <2> QED BY <1>10, <2>1, <2>2 DEF Fail, TypeOK
<1>11. ASSUME NEW u \in Users,
              Register(u) \/ \E status \in {"active", "inactive"} : SetActive(u, status)
       PROVE  TypeOK'
  BY <1>11 DEF Register, SetActive, TypeOK, UserStates
<1>12. ASSUME NEW l \in Links, Expire(l)
       PROVE  TypeOK'
  <2>1. links' \in [Links -> LinkRows \cup {NoLink}]
    BY <1>12, ExpireShape DEF TypeOK
  <2> QED BY <1>12, <2>1 DEF Expire, TypeOK
<1> QED
  BY <1>1, <1>2, <1>3, <1>4, <1>5, <1>6, <1>7, <1>8, <1>9, <1>10, <1>11, <1>12 DEF Next

-----------------------------------------------------------------------------

\* No step takes a link request away, gives it to somebody else, makes one
\* pending again or takes an approval back.
LEMMA LinksStay ==
  ASSUME TypeOK, RequestsKnow, [Next]_vars, NEW l \in Links, Exists(l)
  PROVE  /\ Exists(l)' /\ links'[l].account = links[l].account /\ links'[l].user = links[l].user
         /\ links[l].expired => links'[l].expired
         /\ links'[l].status # links[l].status
              => links'[l].status = "approved" /\ \E r \in Requests : ApproveLink(r) /\ req[r].link = l
<1>same. ASSUME links'[l] = links[l]
         PROVE  /\ Exists(l)' /\ links'[l].account = links[l].account /\ links'[l].user = links[l].user
                /\ links[l].expired => links'[l].expired
                /\ links'[l].status = links[l].status
  BY <1>same DEF Exists
<1>1. CASE UNCHANGED links
  BY <1>1, <1>same
<1>2. ASSUME NEW r \in Requests, CreateRequest(r) PROVE links'[l] = links[l]
  BY <1>2, CreateShape DEF TypeOK
<1>3. ASSUME NEW r \in Requests, ApproveLink(r), l # req[r].link PROVE links'[l] = links[l]
  BY <1>3, ApproveShape DEF TypeOK
<1>4. ASSUME NEW r \in Requests, ApproveLink(r), l = req[r].link
      PROVE  /\ Exists(l)' /\ links'[l].account = links[l].account /\ links'[l].user = links[l].user
             /\ links'[l].expired = links[l].expired
             /\ links'[l].status = "approved"
  BY <1>4, ApproveShape, RowsAreThere DEF Exists
<1>5. ASSUME NEW x \in Links, Expire(x), x # l PROVE links'[l] = links[l]
  BY <1>5, ExpireShape DEF TypeOK
<1>6. ASSUME Expire(l)
      PROVE  /\ Exists(l)' /\ links'[l].account = links[l].account /\ links'[l].user = links[l].user
             /\ links'[l].expired /\ links'[l].status = links[l].status
  BY <1>6, ExpireShape, RowsAreThere DEF Exists
<1>7. \/ UNCHANGED links
      \/ \E r \in Requests : CreateRequest(r) \/ ApproveLink(r)
      \/ \E x \in Links : Expire(x)
  BY DEF Next, vars, Callback, Approve, Admit, CheckUser, FindIdentity, LinkAccount, FindUser,
         FindPending, CreateUser, Fail, Register, SetActive
<1> QED BY <1>1, <1>2, <1>3, <1>4, <1>5, <1>6, <1>7, <1>same

\* A link request that was not there has been written by a callback, and is
\* pending.
LEMMA LinksAdded ==
  ASSUME TypeOK, RequestsKnow, [Next]_vars, NEW l \in Links, ~Exists(l), Exists(l)'
  PROVE  /\ links'[l].status = "pending"
         /\ \E r \in Requests :
              /\ CreateRequest(r) /\ links'[l].account = req[r].account
              /\ \A k \in Links \ {l} : links'[k] = links[k]
<1>1. ASSUME NEW r \in Requests, CreateRequest(r)
      PROVE  /\ links'[l].status = "pending" /\ links'[l].account = req[r].account
             /\ \A k \in Links \ {l} : links'[k] = links[k]
  <2>1. PICK x \in Links :
          /\ links' = [links EXCEPT ![x] = links'[x]]
          /\ links'[x].account = req[r].account /\ links'[x].status = "pending"
    BY <1>1, CreateShape
  <2>2. x = l
    BY <2>1 DEF Exists, TypeOK
  <2> QED BY <2>1, <2>2 DEF TypeOK
<1>2. ASSUME NEW r \in Requests, ApproveLink(r) PROVE FALSE
  BY <1>2, ApproveShape DEF Exists, TypeOK
<1>3. ASSUME NEW x \in Links, Expire(x) PROVE FALSE
  BY <1>3, ExpireShape DEF Exists, TypeOK
<1>4. CASE UNCHANGED links
  BY <1>4 DEF Exists
<1>5. \/ UNCHANGED links
      \/ \E r \in Requests : CreateRequest(r) \/ ApproveLink(r)
      \/ \E x \in Links : Expire(x)
  BY DEF Next, vars, Callback, Approve, Admit, CheckUser, FindIdentity, LinkAccount, FindUser,
         FindPending, CreateUser, Fail, Register, SetActive
<1> QED BY <1>1, <1>2, <1>3, <1>4, <1>5

\* What a step makes of a request: nothing, its end, or its next statement.
LEMMA RequestSteps ==
  ASSUME TypeOK, RequestsKnow, [Next]_vars, NEW r \in Requests, req'[r] # Idle, req'[r] # req[r]
  PROVE  \/ /\ req[r] = Idle /\ req'[r].step \in {"email", "user"} /\ req'[r].op # "approve"
            /\ req'[r].step = "email" => req'[r].op = "login" /\ MailOf[req'[r].account] \in Users
            /\ req'[r].step # "email" => req'[r].user \in Users
            /\ req'[r].op # "login" => CanSignIn(req'[r].user)
            /\ req'[r].step = "user" => req'[r].op = "link"
         \/ /\ req[r] = Idle /\ req'[r].op = "approve" /\ req'[r].step = "identity"
            /\ \E l \in Links : /\ Approve(r, l) /\ req'[r].link = l
                                /\ req'[r].account = links[l].account /\ req'[r].user = links[l].user
         \/ /\ At(r, "email") /\ req'[r].step \in {"create", "pending"} /\ req'[r].op = req[r].op
            /\ req'[r].account = req[r].account /\ req'[r].user \in Users
         \/ /\ req[r] # Idle /\ req[r].step # "email"
            /\ req'[r].step \in {"identity", "insert", "request"}
            /\ req'[r].step = "request" => At(r, "pending") /\ FindPending(r)
            /\ req'[r].step = "insert" => At(r, "identity")
            /\ req'[r].step = "identity" => CheckUser(r) \/ CreateUser(r)
            /\ req'[r].op = req[r].op /\ req'[r].account = req[r].account
            /\ req'[r].user = req[r].user /\ req'[r].link = req[r].link
<1>done. ASSUME NEW q \in Requests, Done(q) PROVE FALSE
  BY <1>done DEF Done, TypeOK
<1>1. CASE UNCHANGED req
  BY <1>1
<1>2. ASSUME NEW q \in Requests, NEW a \in Accounts, NEW state \in Signed \cup {PlainState},
             Callback(q, a, state)
      PROVE  /\ req[r] = Idle /\ req'[r].step \in {"email", "user"} /\ req'[r].op # "approve"
             /\ req'[r].step = "email" => req'[r].op = "login" /\ MailOf[req'[r].account] \in Users
             /\ req'[r].step # "email" => req'[r].user \in Users
             /\ req'[r].op # "login" => CanSignIn(req'[r].user)
             /\ req'[r].step = "user" => req'[r].op = "link"
  <2>1. PICK op \in {"login", "link"}, u \in Users \cup {Nobody}, step \in {"email", "user"} :
          /\ Admit(q, op, a, u, NoLink, step)
          /\ step = "email" => op = "login" /\ MailOf[a] \in Users
          /\ step # "email" => u \in Users
          /\ op = "link" => CanSignIn(u)
          /\ step = "user" => op = "link"
    BY <1>2, CallbackShape
  <2>2. /\ req[q] = Idle
        /\ req' = [req EXCEPT ![q] =
             [op |-> op, account |-> a, user |-> u, link |-> NoLink, step |-> step]]
    BY <2>1 DEF Admit
  <2>3. q = r
    BY <2>2 DEF TypeOK
  <2>4. req'[r] = [op |-> op, account |-> a, user |-> u, link |-> NoLink, step |-> step]
    BY <2>2, <2>3 DEF TypeOK
  <2> QED BY <2>1, <2>2, <2>3, <2>4
<1>3. ASSUME NEW q \in Requests, NEW l \in Links, Approve(q, l)
      PROVE  /\ req[r] = Idle /\ req'[r].op = "approve" /\ req'[r].step = "identity"
             /\ Approve(r, l) /\ req'[r].link = l
             /\ req'[r].account = links[l].account /\ req'[r].user = links[l].user
  <2>1. Admit(q, "approve", links[l].account, links[l].user, l, "identity")
        /\ links[l].account \in Accounts /\ links[l].user \in Users
    BY <1>3, LinkShape DEF Approve
  <2>2. /\ req[q] = Idle
        /\ req' = [req EXCEPT ![q] = [op |-> "approve", account |-> links[l].account,
                                      user |-> links[l].user, link |-> l, step |-> "identity"]]
    BY <2>1 DEF Admit
  <2>3. q = r
    BY <2>2 DEF TypeOK
  <2>4. req'[r] = [op |-> "approve", account |-> links[l].account, user |-> links[l].user,
                   link |-> l, step |-> "identity"]
    BY <2>2, <2>3 DEF TypeOK
  <2> QED BY <1>3, <2>2, <2>3, <2>4
<1>4. ASSUME NEW q \in Requests, FindUser(q)
      PROVE  /\ At(r, "email") /\ req'[r].step \in {"create", "pending"} /\ req'[r].op = req[r].op
             /\ req'[r].account = req[r].account /\ req'[r].user \in Users
  <2> DEFINE u == MailOf[req[q].account]
             step == IF users[u] = "absent" THEN "create" ELSE "pending"
  <2>1. req' = [req EXCEPT ![q].user = u, ![q].step = step]
    BY <1>4 DEF FindUser
  <2>2. req[q] \in UnderWay /\ u \in Users
    BY <1>4, RequestShape DEF FindUser, At, RequestsKnow
  <2>3. step \in {"create", "pending"}
    OBVIOUS
  <2> HIDE DEF u, step
  <2>4. q = r
    BY <2>1 DEF TypeOK
  <2>5. req'[r] = [req[r] EXCEPT !.user = u, !.step = step]
    BY <2>1, <2>4 DEF TypeOK
  <2>6. /\ req'[r].step = step /\ req'[r].op = req[r].op
        /\ req'[r].account = req[r].account /\ req'[r].user = u
    BY <2>2, <2>4, <2>5 DEF UnderWay
  <2> QED BY <1>4, <2>2, <2>3, <2>4, <2>6 DEF FindUser
<1> DEFINE Goes(q, step) ==
      /\ req[q] # Idle /\ req[q].step # "email" /\ req' = [req EXCEPT ![q] = req'[q]]
      /\ req'[q].step = step
      /\ req'[q].op = req[q].op /\ req'[q].account = req[q].account
      /\ req'[q].user = req[q].user /\ req'[q].link = req[q].link
<1>goto. ASSUME NEW q \in Requests, NEW from, At(q, from), NEW step, GoTo(q, step), from # "email",
                step \in {"identity", "insert", "request"}
         PROVE  q = r /\ Goes(q, step)
  <2>1. Goes(q, step)
    BY <1>goto, NextStatement DEF At
  <2>2. q = r
    BY <2>1 DEF TypeOK
  <2> QED BY <2>1, <2>2
<1>5. ASSUME NEW q \in Requests, CheckUser(q) \/ CreateUser(q) PROVE q = r /\ Goes(q, "identity")
  BY <1>5, <1>done, <1>goto DEF CheckUser, CreateUser
<1>6. ASSUME NEW q \in Requests, FindIdentity(q)
      PROVE  q = r /\ Goes(q, "insert") /\ At(q, "identity")
  BY <1>6, <1>done, <1>goto DEF FindIdentity
<1>7. ASSUME NEW q \in Requests, FindPending(q)
      PROVE  q = r /\ Goes(q, "request") /\ At(q, "pending")
  BY <1>7, <1>done, <1>goto DEF FindPending
<1>8. ASSUME NEW q \in Requests, LinkAccount(q) \/ CreateRequest(q) \/ ApproveLink(q) \/ Fail(q)
      PROVE  FALSE
  BY <1>8, <1>done DEF LinkAccount, CreateRequest, ApproveLink, Fail
<1>9. \/ UNCHANGED req
      \/ \E q \in Requests :
           \/ \E a \in Accounts, state \in Signed \cup {PlainState} : Callback(q, a, state)
           \/ \E l \in Links : Approve(q, l)
           \/ FindUser(q) \/ CheckUser(q) \/ CreateUser(q) \/ FindIdentity(q) \/ FindPending(q)
           \/ LinkAccount(q) \/ CreateRequest(q) \/ ApproveLink(q) \/ Fail(q)
  BY DEF Next, vars, Register, SetActive, Expire
<1> QED BY <1>1, <1>2, <1>3, <1>4, <1>5, <1>6, <1>7, <1>8, <1>9

\* The history forgets nothing.
LEMMA HistoryGrows ==
  ASSUME [Next]_vars
  PROVE  stranded \subseteq stranded' /\ overlapped \subseteq overlapped'
<1>1. ASSUME NEW r \in Requests, CreateRequest(r) \/ FindIdentity(r) \/ Fail(r)
      PROVE  stranded \subseteq stranded' /\ overlapped \subseteq overlapped'
  BY <1>1 DEF CreateRequest, FindIdentity, Fail
<1>2. \/ UNCHANGED << stranded, overlapped >>
      \/ \E r \in Requests : CreateRequest(r) \/ FindIdentity(r) \/ Fail(r)
  BY DEF Next, vars, Callback, Approve, Admit, CheckUser, LinkAccount, FindUser,
         FindPending, CreateUser, ApproveLink, Register, SetActive, Expire
<1> QED BY <1>1, <1>2

\* What becomes of the identities: one more at most, of an account without any.
LEMMA IdentitiesGrow ==
  ASSUME [Next]_vars
  PROVE  \/ UNCHANGED identities
         \/ \E a, u : ~Linked(a) /\ identities' = identities \cup {[account |-> a, user |-> u]}
<1>1. ASSUME NEW r \in Requests, LinkAccount(r) \/ ApproveLink(r)
      PROVE  \E a, u : ~Linked(a) /\ identities' = identities \cup {[account |-> a, user |-> u]}
  BY <1>1 DEF LinkAccount, ApproveLink, InsertIdentity
<1>2. \/ UNCHANGED identities
      \/ \E r \in Requests : LinkAccount(r) \/ ApproveLink(r)
  BY DEF Next, vars, Callback, Approve, Admit, CheckUser, FindIdentity, FindUser, FindPending,
         CreateRequest, CreateUser, Fail, Register, SetActive, Expire
<1> QED BY <1>1, <1>2

\* What was pending for an account and still is, and what is now: nothing comes
\* back, and what is new a callback has written.
LEMMA PendingShape ==
  ASSUME TypeOK, RequestsKnow, [Next]_vars, NEW a \in Accounts, NEW l \in Pending(a)'
  PROVE  \/ l \in Pending(a)
         \/ /\ ~Exists(l)
            /\ \E r \in Requests :
                 CreateRequest(r) /\ req[r].account = a /\ \A k \in Links \ {l} : links'[k] = links[k]
<1>1. l \in Links /\ Exists(l)' /\ links'[l].account = a /\ links'[l].status = "pending"
  BY DEF Pending
<1>2. CASE Exists(l)
  <2>1. links'[l].account = links[l].account /\ links'[l].status = links[l].status
    BY <1>1, <1>2, LinksStay
  <2> QED BY <1>1, <1>2, <2>1 DEF Pending
<1>3. CASE ~Exists(l)
  BY <1>1, <1>3, LinksAdded
<1> QED BY <1>2, <1>3

\* Nobody loses a way to sign in.
LEMMA SignInStays ==
  ASSUME [Next]_vars, NEW u, CanSignIn(u)
  PROVE  CanSignIn(u)'
<1>1. identities \subseteq identities'
  BY IdentitiesGrow
<1>2. passwords \subseteq passwords'
  <2>1. ASSUME NEW v \in Users, Register(v) PROVE passwords \subseteq passwords'
    BY <2>1 DEF Register
  <2>2. (\E v \in Users : Register(v)) \/ UNCHANGED passwords
    BY DEF Next, vars, Callback, Approve, Admit, CheckUser, FindIdentity, LinkAccount, FindUser,
           FindPending, CreateRequest, CreateUser, ApproveLink, Fail, SetActive, Expire
  <2> QED BY <2>1, <2>2
<1> QED BY <1>1, <1>2 DEF CanSignIn

-----------------------------------------------------------------------------

\* The parts of the inductive invariant, together.
IInv ==
  /\ TypeOK /\ RequestsKnow /\ KnownAsk /\ FoundNonePending
  /\ ApprovedAreLinked /\ CreatedUsersGetIn /\ OnePendingUnlessOverlap

\* Every step leaves requests that know what they rely on.
LEMMA StepRequestsKnow == TypeOK /\ RequestsKnow /\ [Next]_vars => RequestsKnow'
<1> SUFFICES ASSUME TypeOK, RequestsKnow, [Next]_vars, NEW r \in Requests, req'[r] # Idle
             PROVE  /\ req'[r].step = "email" => req'[r].op = "login" /\ MailOf[req'[r].account] \in Users
                    /\ req'[r].step # "email" => req'[r].user \in Users
                    /\ req'[r].step \in {"pending", "request", "create"} => req'[r].op = "login"
                    /\ req'[r].op = "approve" => /\ req'[r].link \in Links /\ Exists(req[r].link)'
                                                 /\ links'[req'[r].link].account = req'[r].account
                                                 /\ links'[req'[r].link].user = req'[r].user
  BY DEF RequestsKnow, MailOf
<1>stay. \A l \in Links : Exists(l) => /\ Exists(l)'
                                       /\ links'[l].account = links[l].account
                                       /\ links'[l].user = links[l].user
  BY LinksStay
<1>link. ASSUME req[r] # Idle, req'[r].op = req[r].op, req'[r].account = req[r].account,
                req'[r].user = req[r].user, req'[r].link = req[r].link, req'[r].op = "approve"
         PROVE  /\ req'[r].link \in Links /\ Exists(req[r].link)'
                /\ links'[req'[r].link].account = req'[r].account
                /\ links'[req'[r].link].user = req'[r].user
  BY <1>link, <1>stay DEF RequestsKnow, Exists
<1>1. CASE req'[r] = req[r]
  BY <1>1, <1>link DEF RequestsKnow
<1>2. CASE req'[r] # req[r]
  <2>1. CASE /\ req[r] = Idle /\ req'[r].step \in {"email", "user"} /\ req'[r].op # "approve"
             /\ req'[r].step = "email" => req'[r].op = "login" /\ MailOf[req'[r].account] \in Users
             /\ req'[r].step # "email" => req'[r].user \in Users
    BY <2>1
  <2>2. ASSUME NEW l \in Links, Approve(r, l), req'[r].link = l, req'[r].op = "approve",
               req'[r].step = "identity",
               req'[r].account = links[l].account, req'[r].user = links[l].user
        PROVE  /\ req'[r].user \in Users
               /\ req'[r].link \in Links /\ Exists(req[r].link)'
               /\ links'[req'[r].link].account = req'[r].account
               /\ links'[req'[r].link].user = req'[r].user
    <3>1. Exists(l)
      BY <2>2 DEF Approve
    <3> QED BY <1>stay, <2>2, <3>1, LinkShape DEF Exists
  <2>3. CASE /\ At(r, "email") /\ req'[r].step \in {"create", "pending"} /\ req'[r].op = req[r].op
             /\ req'[r].account = req[r].account /\ req'[r].user \in Users
    BY <2>3 DEF At, RequestsKnow
  <2>4. CASE /\ req[r] # Idle /\ req[r].step # "email"
             /\ req'[r].step \in {"identity", "insert", "request"}
             /\ req'[r].step = "request" => At(r, "pending")
             /\ req'[r].op = req[r].op /\ req'[r].account = req[r].account
             /\ req'[r].user = req[r].user /\ req'[r].link = req[r].link
    BY <1>link, <2>4 DEF At, RequestsKnow
  <2> QED BY <1>2, <2>1, <2>2, <2>3, <2>4, RequestSteps
<1> QED BY <1>1, <1>2

\* Whoever asks for a link after a step could sign in before it.
LEMMA AskersKnown ==
  ASSUME TypeOK, RequestsKnow, KnownAsk, [Next]_vars, NEW r \in Requests, req'[r] # Idle
  PROVE  /\ req'[r].op # "login" => CanSignIn(req'[r].user)
         /\ req'[r].step = "user" => req'[r].op = "link"
<1>1. CASE req'[r] = req[r]
  BY <1>1 DEF KnownAsk
<1>2. CASE req'[r] # req[r]
  <2>1. ASSUME NEW l \in Links, Approve(r, l) PROVE CanSignIn(links[l].user)
    BY <2>1 DEF Approve
  <2>2. At(r, "email") => req[r].op = "login" /\ req[r] # Idle
    BY DEF At, RequestsKnow
  <2>3. req[r] # Idle /\ req[r].op # "login" => CanSignIn(req[r].user)
    BY DEF KnownAsk
  <2> QED BY <1>2, <2>1, <2>2, <2>3, RequestSteps
<1> QED BY <1>1, <1>2

\* Every step leaves those who ask for a link a way to sign in.
LEMMA StepKnownAsk == TypeOK /\ RequestsKnow /\ KnownAsk /\ [Next]_vars => KnownAsk'
<1> SUFFICES ASSUME TypeOK, RequestsKnow, KnownAsk, [Next]_vars, NEW r \in Requests, req'[r] # Idle
             PROVE  /\ req'[r].op # "login" => CanSignIn(req[r].user)'
                    /\ req'[r].step = "user" => req'[r].op = "link"
  BY DEF KnownAsk
<1>1. /\ req'[r].op # "login" => CanSignIn(req'[r].user)
      /\ req'[r].step = "user" => req'[r].op = "link"
  BY AskersKnown
<1>2. CanSignIn(req'[r].user) => CanSignIn(req[r].user)'
  BY SignInStays DEF CanSignIn
<1> QED BY <1>1, <1>2

\* Every step leaves the callbacks about to write what they have found, or the
\* overlap is on record.
LEMMA StepFoundNonePending == IInv /\ [Next]_vars => FoundNonePending'
<1> SUFFICES ASSUME IInv, [Next]_vars, NEW r \in Requests, At(r, "request")', NEW a,
                    a = req'[r].account, a \notin overlapped', NEW l \in Links, Exists(l)',
                    links'[l].account = a, links'[l].status = "pending"
             PROVE  FALSE
  BY DEF FoundNonePending, Pending, Exists
<1>inv. TypeOK /\ RequestsKnow /\ FoundNonePending
  BY DEF IInv
<1>at. req'[r] # Idle /\ req'[r].step = "request"
  BY DEF At
<1>l. l \in Pending(a)'
  BY DEF Pending
<1>1. CASE req'[r] = req[r]
  <2>1. At(r, "request") /\ a = req[r].account /\ a \in Accounts
    BY <1>1, <1>at, <1>inv, RequestShape DEF At
  <2>2. Pending(a) = {}
    BY <1>inv, <2>1, HistoryGrows DEF FoundNonePending
  <2>3. PICK q \in Requests : CreateRequest(q) /\ req[q].account = a
    BY <1>inv, <1>l, <2>1, <2>2, PendingShape
  <2>4. q # r
    BY <1>at, <1>inv, <2>3 DEF CreateRequest, Done, TypeOK
  <2> QED BY <2>1, <2>3, <2>4 DEF CreateRequest
<1>2. CASE req'[r] # req[r]
  <2>1. FindPending(r) /\ req'[r].account = req[r].account /\ req[r] # Idle
    BY <1>2, <1>at, <1>inv, RequestSteps
  <2>2. Pending(a) = {} /\ UNCHANGED links
    BY <1>at, <1>inv, <2>1 DEF FindPending, Done, TypeOK
  <2> QED BY <1>l, <2>2 DEF Pending, Exists
<1> QED BY <1>1, <1>2

\* Every step leaves an account with one pending link request, unless callbacks
\* for it overlapped.
LEMMA StepOnePending == IInv /\ [Next]_vars => OnePendingUnlessOverlap'
<1> SUFFICES ASSUME IInv, [Next]_vars, NEW a \in Accounts, a \notin overlapped',
                    NEW k \in Pending(a)', NEW l \in Pending(a)', k # l
             PROVE  FALSE
  BY DEF OnePendingUnlessOverlap
<1>inv. TypeOK /\ RequestsKnow /\ FoundNonePending /\ OnePendingUnlessOverlap
  BY DEF IInv
<1>a. a \notin overlapped
  BY HistoryGrows
<1>new. ASSUME NEW x \in Pending(a)', NEW y \in Pending(a)', x # y, ~Exists(x),
               NEW r \in Requests, CreateRequest(r), req[r].account = a,
               \A z \in Links \ {x} : links'[z] = links[z]
        PROVE  FALSE
  <2>1. Pending(a) = {}
    BY <1>inv, <1>a, <1>new DEF CreateRequest, FoundNonePending
  <2>2. y \in Pending(a)
    BY <1>new DEF Pending, Exists
  <2> QED BY <2>1, <2>2
<1>1. k \in Pending(a) /\ l \in Pending(a)
  BY <1>inv, <1>new, PendingShape
<1> QED BY <1>inv, <1>a, <1>1 DEF OnePendingUnlessOverlap

\* Every step leaves approved link requests with the identity they were for.
LEMMA StepApprovedAreLinked == IInv /\ [Next]_vars => ApprovedAreLinked'
<1> SUFFICES ASSUME IInv, [Next]_vars, NEW l \in Links, Exists(l)', links'[l].status = "approved"
             PROVE  {i.user : i \in {j \in identities' : j.account = links'[l].account}} = {links'[l].user}
  BY DEF ApprovedAreLinked
<1>inv. TypeOK /\ RequestsKnow /\ ApprovedAreLinked
  BY DEF IInv
<1>1. Exists(l)
  BY <1>inv, LinksAdded
<1>2. links'[l].account = links[l].account /\ links'[l].user = links[l].user
  BY <1>inv, <1>1, LinksStay
<1>3. CASE links'[l].status = links[l].status
  <2>1. {i.user : i \in {j \in identities : j.account = links[l].account}} = {links[l].user}
    BY <1>inv, <1>1, <1>3 DEF ApprovedAreLinked
  <2>2. CASE UNCHANGED identities
    BY <1>2, <2>1, <2>2
  <2>3. ASSUME NEW a, NEW u, ~Linked(a), identities' = identities \cup {[account |-> a, user |-> u]}
        PROVE  {j \in identities' : j.account = links[l].account}
                 = {j \in identities : j.account = links[l].account}
    <3>1. \E j \in identities : j.account = links[l].account
      BY <2>1
    <3>2. a # links[l].account
      BY <2>3, <3>1 DEF Linked
    <3> QED BY <2>3, <3>2
  <2> QED BY <1>2, <2>1, <2>2, <2>3, IdentitiesGrow
<1>4. CASE links'[l].status # links[l].status
  <2>1. PICK r \in Requests : ApproveLink(r) /\ req[r].link = l
    BY <1>inv, <1>1, <1>4, LinksStay
  <2>2. /\ ~Linked(links[l].account)
        /\ identities' = identities \cup {[account |-> links[l].account, user |-> links[l].user]}
    BY <1>inv, <2>1, ApproveShape
  <2> DEFINE row  == [account |-> links[l].account, user |-> links[l].user]
             mine == {j \in identities' : j.account = links[l].account}
  <2>3. mine = {row}
    BY <2>2 DEF Linked
  <2>4. row.user = links[l].user
    OBVIOUS
  <2> HIDE DEF row, mine
  <2>5. {i.user : i \in mine} = {links[l].user}
    BY <2>3, <2>4
  <2> QED BY <1>2, <2>5 DEF mine
<1> QED BY <1>3, <1>4

\* A callback that has come as far as the identity ends with the account linked
\* to its user or in a failure.
LEMMA CallbackEnds ==
  ASSUME TypeOK, RequestsKnow, [Next]_vars, NEW r \in Requests, At(r, "identity") \/ At(r, "insert"),
         req[r].op = "login", req'[r] = Idle, NEW a, a = req[r].account
  PROVE  [account |-> a, user |-> req[r].user] \in identities' \/ req[r].user \in stranded'
<1>left. LeftBehind(r) = {req[r].user}
  BY DEF LeftBehind, At
<1>other. req'[r] # req[r]
  BY DEF At
<1>go. ASSUME NEW q \in Requests, NEW from, At(q, from), NEW step, GoTo(q, step),
              step \in {"identity", "insert", "pending", "request", "create"}
       PROVE  FALSE
  <2>1. req' = [req EXCEPT ![q] = req'[q]] /\ req'[q] \in UnderWay
    BY <1>go, NextStatement
  <2> QED BY <1>other, <2>1, IdleAssumption DEF TypeOK
<1>new. ASSUME NEW q \in Requests, req[q] = Idle, NEW new, req' = [req EXCEPT ![q] = new] PROVE FALSE
  BY <1>new, <1>other DEF At, TypeOK
<1>1. ASSUME NEW q \in Requests, FindIdentity(q)
      PROVE  req[r].user \in stranded'
  <2>1. stranded' = stranded \cup LeftBehind(q) /\ Done(q)
    BY <1>1, <1>go DEF FindIdentity
  <2>2. q = r
    BY <1>other, <2>1 DEF Done, TypeOK
  <2> QED BY <1>left, <2>1, <2>2
<1>2. ASSUME NEW q \in Requests, LinkAccount(q)
      PROVE  [account |-> a, user |-> req[r].user] \in identities'
  <2>1. q = r
    BY <1>other, <1>2 DEF LinkAccount, Done, TypeOK
  <2> QED BY <1>2, <2>1 DEF LinkAccount, InsertIdentity
<1>3. ASSUME NEW q \in Requests, Fail(q)
      PROVE  req[r].user \in stranded'
  <2>1. q = r
    BY <1>3, <1>other DEF Fail, Done, TypeOK
  <2> QED BY <1>3, <1>left, <2>1 DEF Fail
<1>4. ASSUME NEW q \in Requests, CheckUser(q) \/ FindPending(q) \/ CreateRequest(q) \/ CreateUser(q)
      PROVE  FALSE
  <2>1. CASE Done(q)
    <3>1. q = r
      BY <1>other, <2>1 DEF Done, TypeOK
    <3>2. ~At(r, "user") /\ ~At(r, "pending") /\ ~At(r, "request") /\ ~At(r, "create")
      BY DEF At
    <3> QED BY <1>4, <3>1, <3>2 DEF CheckUser, FindPending, CreateRequest, CreateUser
  <2> QED BY <1>4, <1>go, <2>1 DEF CheckUser, FindPending, CreateRequest, CreateUser
<1>5. ASSUME NEW q \in Requests, FindUser(q) PROVE FALSE
  <2>1. q = r
    BY <1>5, <1>other DEF FindUser, TypeOK
  <2>2. ~At(r, "email")
    BY DEF At
  <2> QED BY <1>5, <2>1, <2>2 DEF FindUser
<1>6. ASSUME NEW q \in Requests, ApproveLink(q) PROVE FALSE
  <2>1. q = r
    BY <1>6, <1>other DEF ApproveLink, Done, TypeOK
  <2> QED BY <1>6, <2>1 DEF ApproveLink
<1>7. ASSUME NEW q \in Requests, NEW x \in Accounts, NEW state, Callback(q, x, state) PROVE FALSE
  BY <1>7, <1>new DEF Callback, Admit
<1>8. ASSUME NEW q \in Requests, NEW l \in Links, Approve(q, l) PROVE FALSE
  BY <1>8, <1>new DEF Approve, Admit
<1>9. ~UNCHANGED req
  BY <1>other
<1>10. \/ UNCHANGED req
       \/ \E q \in Requests :
            \/ \E x \in Accounts, state \in Signed \cup {PlainState} : Callback(q, x, state)
            \/ \E l \in Links : Approve(q, l)
            \/ CheckUser(q) \/ FindIdentity(q) \/ LinkAccount(q)
            \/ FindUser(q) \/ FindPending(q) \/ CreateRequest(q) \/ CreateUser(q)
            \/ ApproveLink(q) \/ Fail(q)
  BY DEF Next, vars, Register, SetActive, Expire
<1> QED BY <1>1, <1>2, <1>3, <1>4, <1>5, <1>6, <1>7, <1>8, <1>9, <1>10

\* Every step leaves users whom a callback created with a way in.
LEMMA StepCreatedUsersGetIn == IInv /\ [Next]_vars => CreatedUsersGetIn'
<1> SUFFICES ASSUME IInv, [Next]_vars, NEW c \in created'
             PROVE  \/ c \in identities'
                    \/ c.user \in stranded'
                    \/ \E r \in Requests :
                         /\ At(r, "identity")' \/ At(r, "insert")'
                         /\ req'[r].op = "login" /\ req'[r].account = c.account /\ req'[r].user = c.user
  BY DEF CreatedUsersGetIn, At
<1>inv. TypeOK /\ RequestsKnow /\ CreatedUsersGetIn
  BY DEF IInv
<1>1. CASE c \in created
  <2>0. c = [account |-> c.account, user |-> c.user]
    BY <1>1, <1>inv DEF TypeOK, Identities
  <2>1. CASE c \in identities
    BY <2>1, IdentitiesGrow
  <2>2. CASE c.user \in stranded
    BY <2>2, HistoryGrows
  <2>3. ASSUME NEW r \in Requests, At(r, "identity") \/ At(r, "insert"),
               req[r].op = "login", req[r].account = c.account, req[r].user = c.user
        PROVE  \/ c \in identities'
               \/ c.user \in stranded'
               \/ /\ At(r, "identity")' \/ At(r, "insert")'
                  /\ req'[r].op = "login" /\ req'[r].account = c.account /\ req'[r].user = c.user
    <3>1. CASE req'[r] = Idle
      BY <1>inv, <2>0, <2>3, <3>1, CallbackEnds
    <3>2. CASE req'[r] = req[r]
      BY <2>3, <3>2 DEF At
    <3>3. CASE req'[r] # Idle /\ req'[r] # req[r]
      <4>1. /\ req[r] # Idle /\ req[r].step \in {"identity", "insert"}
        BY <2>3 DEF At
      <4>2. /\ req'[r].step \in {"identity", "insert"}
            /\ req'[r].op = req[r].op /\ req'[r].account = req[r].account
            /\ req'[r].user = req[r].user
        BY <1>inv, <3>3, <4>1, RequestSteps DEF At
      <4> QED BY <2>3, <3>3, <4>2 DEF At
    <3> QED BY <3>1, <3>2, <3>3
  <2> QED BY <1>1, <1>inv, <2>1, <2>2, <2>3 DEF CreatedUsersGetIn
<1>2. CASE c \notin created
  <2>1. PICK r \in Requests : CreateUser(r)
    BY <1>2 DEF Next, vars, Callback, Approve, Admit, CheckUser, FindIdentity, LinkAccount, FindUser,
                FindPending, CreateRequest, ApproveLink, Fail, Register, SetActive, Expire
  <2>2. /\ At(r, "create") /\ GoTo(r, "identity")
        /\ c = [account |-> req[r].account, user |-> req[r].user]
    BY <1>2, <2>1 DEF CreateUser
  <2>3. /\ req'[r] \in UnderWay /\ req'[r].step = "identity" /\ req'[r].op = req[r].op
        /\ req'[r].account = req[r].account /\ req'[r].user = req[r].user
    BY <1>inv, <2>2, NextStatement
  <2>4. req[r].op = "login"
    BY <1>inv, <2>2 DEF At, RequestsKnow
  <2>5. At(r, "identity")'
    BY <2>3, IdleAssumption DEF At
  <2>6. c.account = req[r].account /\ c.user = req[r].user
    BY <2>2
  <2> QED BY <2>3, <2>4, <2>5, <2>6
<1> QED BY <1>1, <1>2

-----------------------------------------------------------------------------

\* The invariant holds in every behaviour.
THEOREM Invariant == Spec => []IInv
<1>1. Init => IInv
  <2>1. Init => KnownAsk /\ ApprovedAreLinked /\ CreatedUsersGetIn /\ OnePendingUnlessOverlap
    BY DEF Init, KnownAsk, ApprovedAreLinked, CreatedUsersGetIn, OnePendingUnlessOverlap, Pending, Exists
  <2> QED BY <2>1, InitTypeOK DEF IInv
<1>2. IInv /\ [Next]_vars => IInv'
  <2>1. IInv => TypeOK /\ RequestsKnow /\ KnownAsk
    BY DEF IInv
  <2>2. IInv /\ [Next]_vars => TypeOK' /\ RequestsKnow' /\ KnownAsk'
    BY <2>1, StepTypeOK, StepRequestsKnow, StepKnownAsk
  <2> QED BY <2>2, StepFoundNonePending, StepApprovedAreLinked, StepCreatedUsersGetIn,
             StepOnePending DEF IInv
<1> QED BY <1>1, <1>2, PTL DEF Spec

\* The tables and the requests keep the shape the code gives them.
THEOREM TypeCorrect == Spec => []TypeOK
<1>1. IInv => TypeOK
  BY DEF IInv
<1> QED BY Invariant, <1>1, PTL

\* However many callbacks and approvals overlap, an approved link request has
\* given its account to its user and to nobody else.
THEOREM ApprovalLinks == Spec => []ApprovedAreLinked
<1>1. IInv => ApprovedAreLinked
  BY DEF IInv
<1> QED BY Invariant, <1>1, PTL

\* However many callbacks overlap, a user one of them has created is the one
\* linked to the account, about to be, or left behind by a callback that failed.
THEOREM CreatedAreLinked == Spec => []CreatedUsersGetIn
<1>1. IInv => CreatedUsersGetIn
  BY DEF IInv
<1> QED BY Invariant, <1>1, PTL

\* However many callbacks there are, an account has one pending link request
\* at most unless two of them overlapped.
THEOREM OnePending == Spec => []OnePendingUnlessOverlap
<1>1. IInv => OnePendingUnlessOverlap
  BY DEF IInv
<1> QED BY Invariant, <1>1, PTL

\* However long the system runs, an account whose link requests have expired
\* gets no other one: create_request and approve_request refuse it.
THEOREM ExpiredBlocks == Spec => ExpiredRequestBlocks
<1>1. IInv /\ [Next]_vars => [\A a \in Accounts : Blocked(a) => Blocked(a)']_vars
  <2> SUFFICES ASSUME IInv, [Next]_vars, NEW a \in Accounts, Blocked(a) PROVE Blocked(a)'
    OBVIOUS
  <2>inv. TypeOK /\ RequestsKnow
    BY DEF IInv
  <2>blocked. /\ Pending(a) # {} /\ \A l \in Pending(a) : links[l].expired
              /\ \A r \in Requests :
                   req[r] # Idle /\ req[r].account = a => req[r].op # "approve" /\ req[r].step # "request"
    BY DEF Blocked
  <2>1. ASSUME NEW l \in Pending(a) PROVE l \in Pending(a)'
    <3>1. l \in Links /\ Exists(l) /\ links[l].account = a /\ links[l].status = "pending"
      BY DEF Pending
    <3>2. ASSUME NEW r \in Requests, ApproveLink(r), req[r].link = l PROVE FALSE
      BY <2>inv, <2>blocked, <3>1, <3>2 DEF ApproveLink, At, RequestsKnow
    <3>3. Exists(l)' /\ links'[l].account = a /\ links'[l].status = "pending"
      BY <2>inv, <3>1, <3>2, LinksStay
    <3> QED BY <3>1, <3>3 DEF Pending
  <2>2. ASSUME NEW l \in Pending(a)' PROVE l \in Pending(a) /\ links'[l].expired
    <3>1. l \in Pending(a)
      BY <2>inv, <2>blocked, PendingShape DEF CreateRequest, At
    <3>2. l \in Links /\ Exists(l)
      BY <3>1 DEF Pending
    <3> QED BY <2>inv, <2>blocked, <3>1, <3>2, LinksStay
  <2>3. ASSUME NEW r \in Requests, req'[r] # Idle, req'[r].account = a
        PROVE  req'[r].op # "approve" /\ req'[r].step # "request"
    <3>1. CASE req'[r] = req[r]
      BY <2>blocked, <2>3, <3>1
    <3>2. ASSUME NEW l \in Links, Approve(r, l), links[l].account = a PROVE FALSE
      BY <2>blocked, <3>2 DEF Approve, Pending
    <3>3. ASSUME FindPending(r), req[r].account = a, req'[r].step = "request" PROVE FALSE
      BY <2>3, <2>blocked, <2>inv, <3>3 DEF FindPending, Done, TypeOK
    <3>4. CASE req'[r] # req[r]
      <4>1. req[r] # Idle /\ req[r].account = a => req[r].op # "approve" /\ req[r].step # "request"
        BY <2>blocked
      <4>2. At(r, "email") => req[r].op = "login"
        BY <2>inv DEF At, RequestsKnow
      <4> QED BY <2>3, <2>inv, <3>2, <3>3, <3>4, <4>1, <4>2, RequestSteps
    <3> QED BY <3>1, <3>4
  <2> QED BY <2>blocked, <2>1, <2>2, <2>3 DEF Blocked
<1> QED BY Invariant, <1>1, PTL DEF Spec, ExpiredRequestBlocks

\* Nobody is taken away.
LEMMA UsersStay ==
  ASSUME TypeOK, [Next]_vars, NEW u \in Users, users[u] # "absent"
  PROVE  users'[u] # "absent"
<1>1. ASSUME NEW r \in Requests, CreateUser(r) PROVE users'[u] # "absent"
  BY <1>1 DEF CreateUser, TypeOK
<1>2. ASSUME NEW v \in Users, Register(v) \/ \E status \in {"active", "inactive"} : SetActive(v, status)
      PROVE  users'[u] # "absent"
  BY <1>2 DEF Register, SetActive, TypeOK
<1>3. \/ UNCHANGED users
      \/ \E r \in Requests : CreateUser(r)
      \/ \E v \in Users : Register(v) \/ \E status \in {"active", "inactive"} : SetActive(v, status)
  BY DEF Next, vars, Callback, Approve, Admit, CheckUser, FindIdentity, LinkAccount, FindUser,
         FindPending, CreateRequest, ApproveLink, Fail, Expire
<1> QED BY <1>1, <1>2, <1>3

\* Only a user who was not there gets a password.
LEMMA PasswordsAreOfNew ==
  ASSUME [Next]_vars, NEW u, users[u] # "absent", u \notin passwords
  PROVE  u \notin passwords'
<1>1. ASSUME NEW v \in Users, Register(v) PROVE u \notin passwords'
  BY <1>1 DEF Register
<1>2. (\E v \in Users : Register(v)) \/ UNCHANGED passwords
  BY DEF Next, vars, Callback, Approve, Admit, CheckUser, FindIdentity, LinkAccount, FindUser,
         FindPending, CreateRequest, CreateUser, ApproveLink, Fail, SetActive, Expire
<1> QED BY <1>1, <1>2

\* An identity comes from a request that was about to write it.
LEMMA LinkedIsAsked ==
  ASSUME [Next]_vars, NEW i \in identities', i \notin identities
  PROVE  \E r \in Requests : At(r, "insert") /\ req[r].user = i.user
<1>1. ASSUME NEW r \in Requests, LinkAccount(r) \/ ApproveLink(r)
      PROVE  At(r, "insert") /\ req[r].user = i.user
  BY <1>1 DEF LinkAccount, ApproveLink, InsertIdentity
<1>2. \/ UNCHANGED identities
      \/ \E r \in Requests : LinkAccount(r) \/ ApproveLink(r)
  BY DEF Next, vars, Callback, Approve, Admit, CheckUser, FindIdentity, FindUser, FindPending,
         CreateRequest, CreateUser, Fail, Register, SetActive, Expire
<1> QED BY <1>1, <1>2

\* A callback about to create an identity was so already, or has just created
\* its user.
LEMMA LoginGoesOn ==
  ASSUME TypeOK, RequestsKnow, KnownAsk, [Next]_vars, NEW r \in Requests,
         req'[r] # req[r], req'[r] # Idle, req'[r].op = "login", req'[r].step \in {"identity", "insert"}
  PROVE  /\ req'[r].user = req[r].user
         /\ At(r, "identity") \/ users[req[r].user] = "absent"
<1>1. /\ req[r] # Idle /\ req'[r].op = req[r].op /\ req'[r].user = req[r].user
      /\ At(r, "identity") \/ CheckUser(r) \/ CreateUser(r)
  BY RequestSteps
<1>2. ~CheckUser(r)
  BY <1>1 DEF CheckUser, At, KnownAsk
<1>3. ASSUME CreateUser(r) PROVE users[req[r].user] = "absent"
  BY <1>3 DEF CreateUser, Done, TypeOK
<1> QED BY <1>1, <1>2, <1>3

\* However long the system runs, a user whose callback failed after create_user
\* has committed does not get in: nobody asks for a link or approves one in that
\* user's name, and a callback finds the e-mail address taken.
THEOREM LockedOutStay == Spec => LockedOutForGood
<1>1. IInv /\ [Next]_vars => [\A u \in Users : LockedOut(u) => LockedOut(u)']_vars
  <2> SUFFICES ASSUME IInv, [Next]_vars, NEW u \in Users, LockedOut(u) PROVE LockedOut(u)'
    OBVIOUS
  <2>inv. TypeOK /\ RequestsKnow /\ KnownAsk
    BY DEF IInv
  <2>out. /\ users[u] # "absent" /\ ~CanSignIn(u)
          /\ \A r \in Requests : At(r, "identity") \/ At(r, "insert") => req[r].user # u
    BY DEF LockedOut
  <2>1. ASSUME NEW r \in Requests, At(r, "identity")' \/ At(r, "insert")' PROVE req'[r].user # u
    <3>1. req'[r] # Idle /\ req'[r].step \in {"identity", "insert"}
      BY <2>1 DEF At
    <3>2. CASE req'[r] = req[r]
      BY <2>out, <3>1, <3>2 DEF At
    <3>3. CASE req'[r] # req[r] /\ req'[r].op # "login"
      BY <2>inv, <2>out, <3>1, <3>3, AskersKnown
    <3>4. CASE req'[r] # req[r] /\ req'[r].op = "login"
      <4>1. /\ req'[r].user = req[r].user
            /\ At(r, "identity") \/ users[req[r].user] = "absent"
        BY <2>inv, <3>1, <3>4, LoginGoesOn
      <4> QED BY <2>out, <4>1
    <3> QED BY <3>2, <3>3, <3>4
  <2>2. users'[u] # "absent"
    BY <2>inv, <2>out, UsersStay
  <2>3. u \notin passwords'
    BY <2>out, PasswordsAreOfNew DEF CanSignIn
  <2>4. ASSUME NEW i \in identities', i.user = u PROVE FALSE
    BY <2>out, <2>4, LinkedIsAsked DEF CanSignIn
  <2> QED BY <2>1, <2>2, <2>3, <2>4 DEF LockedOut, CanSignIn
<1> QED BY Invariant, <1>1, PTL DEF Spec, LockedOutForGood
=============================================================================
