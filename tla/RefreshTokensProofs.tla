------------------------- MODULE RefreshTokensProofs -------------------------
(***************************************************************************)
(* For any users, tokens and number of requests under way, what the run of *)
(* RefreshTokens checks on two requests.                                   *)
(***************************************************************************)
EXTENDS RefreshTokens, TLAPS

\* A token descends from one that is still in the table, and so does whatever
\* the history remembers: a new id is of no login yet.
LoginsExist ==
  /\ \A t \in Tokens : Exists(t) => Exists(tokens[t].login)
  /\ \A l \in overtaken \cup ended : Exists(l)

\* What a request has read was in the table, where it stays.
ReadsExist ==
  \A r \in Requests :
    req[r] # Idle =>
      /\ \A t \in req[r].seen : Exists(t)
      /\ req[r].step \in {"read", "rotate"} => req[r].token \in Tokens /\ Exists(req[r].token)
      /\ req[r].step = "rotate" => req[r].token \in req[r].seen

\* A token that revoke_all has listed is valid until another request replaces
\* it or ends its login.
ListedUntilOvertaken ==
  \A r \in Requests :
    At(r, "revoke") =>
      \A t \in req[r].seen : Live(t) \/ Rotated(t) \/ tokens[t].login \in ended

-----------------------------------------------------------------------------

\* A token that is there is a row of the table.
LEMMA TokenShape ==
  ASSUME TypeOK, NEW t \in Tokens, Exists(t)
  PROVE  /\ tokens[t] \in Rows
         /\ tokens[t] = [user |-> tokens[t].user, login |-> tokens[t].login,
                         from |-> tokens[t].from, revoked |-> tokens[t].revoked]
         /\ tokens[t].user \in Users /\ tokens[t].login \in Tokens
         /\ tokens[t].from \in Tokens \cup Origins /\ tokens[t].revoked \in BOOLEAN
<1>1. tokens[t] \in Rows
  BY DEF TypeOK, Exists
<1> QED BY <1>1 DEF Rows

\* A request under way is of the shape of one.
LEMMA RequestShape ==
  ASSUME TypeOK, NEW r \in Requests, req[r] # Idle
  PROVE  /\ req[r] \in UnderWay
         /\ req[r].user \in Users /\ req[r].seen \in SUBSET Tokens
         /\ req[r].wanted \in {"active", "inactive"}
<1>1. req[r] \in UnderWay
  BY DEF TypeOK
<1> QED BY <1>1 DEF UnderWay

\* A row is not the absence of one.
LEMMA RowsAreThere ==
  ASSUME NEW row \in Rows
  PROVE  row # NoToken
BY NoTokenAssumption

\* An UPDATE of the column leaves the rest of a row.
LEMMA RevokedRow ==
  ASSUME NEW row \in Rows
  PROVE  LET new == [row EXCEPT !.revoked = TRUE] IN
         /\ new \in Rows /\ new # NoToken
         /\ new.user = row.user /\ new.login = row.login /\ new.from = row.from
         /\ new.revoked = TRUE
<1>1. [row EXCEPT !.revoked = TRUE] \in Rows
  BY DEF Rows
<1> QED BY <1>1, RowsAreThere DEF Rows

\* What a login or a registration inserts: a token that begins a login.
LEMMA IssueShape ==
  ASSUME TypeOK, NEW r \in Requests, IssueTokens(r)
  PROVE  \E n \in Tokens :
           /\ ~Exists(n)
           /\ tokens' = [tokens EXCEPT ![n] = tokens'[n]]
           /\ tokens'[n] \in Rows
           /\ tokens'[n].login = n /\ ~tokens'[n].revoked
<1>1. PICK n \in Tokens :
        /\ ~Exists(n)
        /\ tokens' = [tokens EXCEPT ![n] =
             [user |-> req[r].user, login |-> n, revoked |-> FALSE,
              from |-> IF req[r].op = "register" THEN "registration" ELSE "login"]]
  BY DEF IssueTokens, Fresh
<1>2. req[r].user \in Users
  BY RequestShape DEF IssueTokens, At
<1>3. tokens'[n] = [user |-> req[r].user, login |-> n, revoked |-> FALSE,
                    from |-> IF req[r].op = "register" THEN "registration" ELSE "login"]
  BY <1>1 DEF TypeOK
<1>4. tokens'[n] \in Rows /\ tokens'[n].login = n /\ ~tokens'[n].revoked
  BY <1>2, <1>3 DEF Rows, Origins
<1> QED BY <1>1, <1>3, <1>4

\* What a rotation leaves: the old token revoked and one new token of its login.
LEMMA RotateShape ==
  ASSUME TypeOK, ReadsExist, NEW r \in Requests, Rotate(r)
  PROVE  LET t == req[r].token IN
         /\ t \in Tokens /\ Exists(t) /\ t \in req[r].seen
         /\ \E n \in Tokens \ {t} :
              /\ ~Exists(n)
              /\ tokens' = [tokens EXCEPT ![t] = tokens'[t], ![n] = tokens'[n]]
              /\ tokens'[t] = [tokens[t] EXCEPT !.revoked = TRUE]
              /\ tokens'[n] = Successor(t) /\ tokens'[n] \in Rows
<1> DEFINE t == req[r].token
<1>1. t \in Tokens /\ Exists(t) /\ t \in req[r].seen
  BY DEF Rotate, At, ReadsExist
<1>2. PICK n \in Tokens :
        ~Exists(n) /\ tokens' = [tokens EXCEPT ![t].revoked = TRUE, ![n] = Successor(t)]
  BY DEF Rotate, Fresh
<1>3. n # t
  BY <1>1, <1>2
<1>4. tokens'[t] = [tokens[t] EXCEPT !.revoked = TRUE] /\ tokens'[n] = Successor(t)
  BY <1>1, <1>2, <1>3 DEF TypeOK
<1>5. tokens' = [tokens EXCEPT ![t] = tokens'[t], ![n] = tokens'[n]]
  BY <1>1, <1>2, <1>3, <1>4 DEF TypeOK
<1>6. Successor(t) \in Rows
  BY <1>1, TokenShape DEF Successor, Rows
<1> HIDE DEF t
<1> QED BY <1>1, <1>2, <1>3, <1>4, <1>5, <1>6 DEF t

-----------------------------------------------------------------------------

\* Every initial state is well formed.
LEMMA InitIInv == Init => TypeOK /\ LoginsExist /\ ReadsExist /\ ListedUntilOvertaken
BY DEF Init, TypeOK, UserStates, LoginsExist, ReadsExist, ListedUntilOvertaken, Exists, At

\* Every step keeps the tables and the requests well formed.
LEMMA StepTypeOK == TypeOK /\ ReadsExist /\ [Next]_vars => TypeOK'
<1> SUFFICES ASSUME TypeOK, ReadsExist, [Next]_vars PROVE TypeOK'
  OBVIOUS
<1>done. ASSUME NEW r \in Requests, Done(r)
         PROVE  req' \in [Requests -> UnderWay \cup {Idle}]
  BY <1>done DEF Done, TypeOK
<1>goto. ASSUME NEW r \in Requests, NEW from, At(r, from), NEW step, GoTo(r, step),
                step \in {"create", "find", "issue", "read", "rotate", "list", "revoke", "load", "save"}
         PROVE  req' \in [Requests -> UnderWay \cup {Idle}]
  <2>1. req[r] \in UnderWay
    BY <1>goto, RequestShape DEF At
  <2>2. [req[r] EXCEPT !.step = step] \in UnderWay
    BY <1>goto, <2>1 DEF UnderWay
  <2> QED BY <1>goto, <2>2 DEF GoTo, TypeOK
<1>read. ASSUME NEW r \in Requests, req[r] # Idle, NEW some \in SUBSET Tokens, NEW step,
                step \in {"rotate", "revoke"},
                req' = [req EXCEPT ![r].seen = some, ![r].step = step]
         PROVE  req' \in [Requests -> UnderWay \cup {Idle}]
  <2>1. req[r] \in UnderWay
    BY <1>read, RequestShape
  <2>2. [req[r] EXCEPT !.seen = some, !.step = step] \in UnderWay
    BY <1>read, <2>1 DEF UnderWay
  <2>3. req' = [req EXCEPT ![r] = [req[r] EXCEPT !.seen = some, !.step = step]]
    BY <1>read DEF TypeOK
  <2> QED BY <2>2, <2>3 DEF TypeOK
<1>admit. ASSUME NEW r \in Requests, NEW u \in Users, NEW t \in Tokens \cup {NoToken},
                 NEW op \in {"register", "login", "refresh", "logout", "profile"},
                 NEW wanted \in {"active", "inactive"},
                 NEW step \in {"create", "find", "read", "list", "load"},
                 Admit(r, op, u, t, wanted, step)
          PROVE  TypeOK'
  <2>1. [op |-> op, user |-> u, token |-> t, seen |-> {}, wanted |-> wanted, step |-> step] \in UnderWay
    BY DEF UnderWay
  <2> QED BY <1>admit, <2>1 DEF Admit, TypeOK
<1>1. CASE UNCHANGED vars
  BY <1>1 DEF vars, TypeOK
<1>2. ASSUME NEW t \in Tokens, RevokeToken(t) PROVE TypeOK'
  <2>1. Exists(t) /\ tokens[t] \in Rows /\ tokens[t].login \in Tokens
    BY <1>2, TokenShape DEF RevokeToken, Accepted
  <2>2. [tokens[t] EXCEPT !.revoked = TRUE] \in Rows
    BY <2>1, RevokedRow
  <2> QED BY <1>2, <2>1, <2>2 DEF RevokeToken, TypeOK
<1>3. ASSUME NEW r \in Requests, NEW u \in Users, Register(r, u) \/ Login(r, u) \/ Logout(r, u)
      PROVE  TypeOK'
  BY <1>3, <1>admit DEF Register, Login, Logout
<1>4. ASSUME NEW r \in Requests, NEW u \in Users, NEW active \in {"active", "inactive"},
             UpdateProfile(r, u, active)
      PROVE  TypeOK'
  BY <1>4, <1>admit DEF UpdateProfile
<1>5. ASSUME NEW r \in Requests, NEW t \in Tokens, Refresh(r, t)
      PROVE  TypeOK'
  BY <1>5, <1>admit, TokenShape DEF Refresh, Accepted, Holder
<1>6. ASSUME NEW r \in Requests, CreateUser(r)
      PROVE  TypeOK'
  <2>1. req[r].user \in Users
    BY <1>6, RequestShape DEF CreateUser, At
  <2>2. req' \in [Requests -> UnderWay \cup {Idle}]
    BY <1>6, <1>done, <1>goto DEF CreateUser
  <2>3. users' \in [Users -> UserStates]
    BY <1>6, <2>1 DEF CreateUser, TypeOK, UserStates
  <2> QED BY <1>6, <2>2, <2>3 DEF CreateUser, TypeOK
<1>7. ASSUME NEW r \in Requests, FindUser(r) \/ LoadProfile(r) \/ Fail(r)
      PROVE  TypeOK'
  <2>1. req' \in [Requests -> UnderWay \cup {Idle}]
    BY <1>7, <1>done, <1>goto DEF FindUser, LoadProfile, Fail
  <2> QED BY <1>7, <2>1 DEF FindUser, LoadProfile, Fail, TypeOK
<1>8. ASSUME NEW r \in Requests, IssueTokens(r)
      PROVE  TypeOK'
  <2>1. req' \in [Requests -> UnderWay \cup {Idle}]
    BY <1>8, <1>done DEF IssueTokens
  <2>2. tokens' \in [Tokens -> Rows \cup {NoToken}]
    BY <1>8, IssueShape DEF TypeOK
  <2> QED BY <1>8, <2>1, <2>2 DEF IssueTokens, TypeOK
<1>9. ASSUME NEW r \in Requests, ReadToken(r)
      PROVE  TypeOK'
  <2>1. req[r] # Idle /\ req[r].token \in Tokens
    BY <1>9 DEF ReadToken, At, ReadsExist
  <2>2. req' \in [Requests -> UnderWay \cup {Idle}]
    BY <1>9, <2>1, <1>done, <1>read DEF ReadToken
  <2> QED BY <1>9, <2>2 DEF ReadToken, TypeOK
<1>10. ASSUME NEW r \in Requests, Rotate(r)
       PROVE  TypeOK'
  <2>1. req' \in [Requests -> UnderWay \cup {Idle}]
    BY <1>10, <1>done DEF Rotate
  <2>2. tokens' \in [Tokens -> Rows \cup {NoToken}]
    <3>1. PICK n \in Tokens :
            /\ tokens' = [tokens EXCEPT ![req[r].token] = tokens'[req[r].token], ![n] = tokens'[n]]
            /\ tokens'[req[r].token] = [tokens[req[r].token] EXCEPT !.revoked = TRUE]
            /\ tokens'[n] \in Rows
      BY <1>10, RotateShape
    <3>2. tokens[req[r].token] \in Rows
      BY <1>10, RotateShape, TokenShape
    <3>3. tokens'[req[r].token] \in Rows
      BY <3>1, <3>2, RevokedRow
    <3> QED BY <3>1, <3>3 DEF TypeOK
  <2>3. \A x \in {y \in req[r].seen : ~Live(y)} : tokens[x].login \in Tokens
    BY <1>10, TokenShape, RequestShape DEF Rotate, At, ReadsExist
  <2>4. overtaken' \subseteq Tokens
    BY <1>10, <2>3 DEF Rotate, TypeOK
  <2> QED BY <1>10, <2>1, <2>2, <2>4 DEF Rotate, TypeOK
<1>11. ASSUME NEW r \in Requests, ListTokens(r)
       PROVE  TypeOK'
  <2>1. req' \in [Requests -> UnderWay \cup {Idle}]
    BY <1>11, <1>read DEF ListTokens, At
  <2> QED BY <1>11, <2>1 DEF ListTokens, TypeOK
<1>12. ASSUME NEW r \in Requests, RevokeAll(r)
       PROVE  TypeOK'
  <2>1. req' \in [Requests -> UnderWay \cup {Idle}]
    BY <1>12, <1>done DEF RevokeAll
  <2>2. \A t \in req[r].seen : t \in Tokens /\ tokens[t] \in Rows /\ tokens[t].login \in Tokens
    BY <1>12, TokenShape, RequestShape DEF RevokeAll, At, ReadsExist
  <2>3. tokens' \in [Tokens -> Rows \cup {NoToken}]
    BY <1>12, <2>2, RevokedRow DEF RevokeAll, TypeOK
  <2>4. overtaken' \subseteq Tokens /\ ended' \subseteq Tokens
    BY <1>12, <2>2 DEF RevokeAll, TypeOK
  <2> QED BY <1>12, <2>1, <2>3, <2>4 DEF RevokeAll, TypeOK
<1>13. ASSUME NEW r \in Requests, SaveProfile(r)
       PROVE  TypeOK'
  <2>1. req' \in [Requests -> UnderWay \cup {Idle}]
    BY <1>13, <1>done DEF SaveProfile
  <2>2. users' \in [Users -> UserStates]
    BY <1>13, RequestShape DEF SaveProfile, At, TypeOK, UserStates
  <2> QED BY <1>13, <2>1, <2>2 DEF SaveProfile, TypeOK
<1> QED
  BY <1>1, <1>2, <1>3, <1>4, <1>5, <1>6, <1>7, <1>8, <1>9, <1>10, <1>11, <1>12, <1>13 DEF Next

-----------------------------------------------------------------------------

\* No step takes a token away or gives it to another login.
LEMMA TokensStay ==
  ASSUME TypeOK, ReadsExist, [Next]_vars, NEW t \in Tokens, Exists(t)
  PROVE  /\ Exists(t)' /\ tokens'[t].login = tokens[t].login /\ tokens'[t].from = tokens[t].from
         /\ Live(t)' => Live(t)
<1>row. tokens[t] \in Rows /\ tokens[t] # NoToken
  BY TokenShape DEF Exists
<1>revoked. LET new == [tokens[t] EXCEPT !.revoked = TRUE] IN
            /\ new # NoToken /\ new.login = tokens[t].login /\ new.from = tokens[t].from
            /\ new.revoked = TRUE
  BY <1>row, RevokedRow
<1>same. ASSUME tokens'[t] = tokens[t]
         PROVE  /\ Exists(t)' /\ tokens'[t].login = tokens[t].login /\ tokens'[t].from = tokens[t].from
                /\ Live(t)' => Live(t)
  BY <1>same, <1>row DEF Exists, Live
<1>gone. ASSUME tokens'[t] = [tokens[t] EXCEPT !.revoked = TRUE]
         PROVE  /\ Exists(t)' /\ tokens'[t].login = tokens[t].login /\ tokens'[t].from = tokens[t].from
                /\ Live(t)' => Live(t)
  BY <1>gone, <1>revoked DEF Exists, Live
<1>1. CASE UNCHANGED tokens
  BY <1>1, <1>same
<1>2. ASSUME NEW x \in Tokens, RevokeToken(x)
      PROVE  tokens'[t] = tokens[t] \/ tokens'[t] = [tokens[t] EXCEPT !.revoked = TRUE]
  BY <1>2 DEF RevokeToken, TypeOK
<1>3. ASSUME NEW r \in Requests, IssueTokens(r)
      PROVE  tokens'[t] = tokens[t]
  BY <1>3, IssueShape DEF TypeOK
<1>4. ASSUME NEW r \in Requests, Rotate(r)
      PROVE  tokens'[t] = tokens[t] \/ tokens'[t] = [tokens[t] EXCEPT !.revoked = TRUE]
  <2> DEFINE old == req[r].token
  <2>1. PICK n \in Tokens \ {old} :
          /\ ~Exists(n)
          /\ tokens' = [tokens EXCEPT ![old] = tokens'[old], ![n] = tokens'[n]]
          /\ tokens'[old] = [tokens[old] EXCEPT !.revoked = TRUE]
    BY <1>4, RotateShape
  <2>2. n # t
    BY <2>1
  <2>3. CASE t = old
    BY <2>1, <2>3
  <2>4. CASE t # old
    <3> HIDE DEF old
    <3> QED BY <2>1, <2>2, <2>4 DEF TypeOK
  <2> QED BY <2>3, <2>4
<1>5. ASSUME NEW r \in Requests, RevokeAll(r)
      PROVE  tokens'[t] = tokens[t] \/ tokens'[t] = [tokens[t] EXCEPT !.revoked = TRUE]
  BY <1>5 DEF RevokeAll
<1>6. \/ UNCHANGED tokens
      \/ \E x \in Tokens : RevokeToken(x)
      \/ \E r \in Requests : IssueTokens(r) \/ Rotate(r) \/ RevokeAll(r)
  BY DEF Next, vars, Register, Login, Logout, UpdateProfile, Refresh, Admit, CreateUser, FindUser,
         ReadToken, ListTokens, LoadProfile, SaveProfile, Fail
<1> QED
  BY <1>1, <1>2, <1>3, <1>4, <1>5, <1>6, <1>same, <1>gone

\* A valid token that a step leaves invalid has been replaced, or its login ended.
LEMMA TokensEnd ==
  ASSUME TypeOK, ReadsExist, [Next]_vars, NEW t \in Tokens, Live(t), ~Live(t)'
  PROVE  Rotated(t)' \/ tokens[t].login \in ended'
<1>0. Exists(t)
  BY DEF Live
<1>same. ASSUME tokens'[t] = tokens[t] PROVE FALSE
  BY <1>same DEF Live, Exists
<1>1. CASE UNCHANGED tokens
  BY <1>1, <1>same
<1>2. ASSUME NEW x \in Tokens, RevokeToken(x) PROVE tokens[t].login \in ended'
  <2>1. CASE x = t
    BY <1>2, <2>1 DEF RevokeToken
  <2>2. CASE x # t
    BY <1>2, <2>2, <1>same DEF RevokeToken, TypeOK
  <2> QED BY <2>1, <2>2
<1>3. ASSUME NEW r \in Requests, IssueTokens(r) PROVE FALSE
  BY <1>0, <1>3, <1>same, IssueShape DEF TypeOK
<1>4. ASSUME NEW r \in Requests, Rotate(r) PROVE Rotated(t)'
  <2> DEFINE old == req[r].token
  <2>1. PICK n \in Tokens \ {old} :
          /\ ~Exists(n)
          /\ tokens' = [tokens EXCEPT ![old] = tokens'[old], ![n] = tokens'[n]]
          /\ tokens'[n] = Successor(old) /\ tokens'[n] \in Rows
    BY <1>4, RotateShape
  <2>2. t = old
    <3> HIDE DEF old
    <3> QED BY <1>0, <2>1, <1>same DEF TypeOK
  <2>3. tokens'[n].from = old
    BY <2>1 DEF Successor
  <2>4. tokens'[n] # NoToken
    BY <2>1, RowsAreThere
  <2> QED BY <2>2, <2>3, <2>4 DEF Rotated, Exists
<1>5. ASSUME NEW r \in Requests, RevokeAll(r) PROVE tokens[t].login \in ended'
  <2>1. t \in req[r].seen
    BY <1>5, <1>same DEF RevokeAll
  <2> QED BY <1>5, <2>1 DEF RevokeAll
<1>6. \/ UNCHANGED tokens
      \/ \E x \in Tokens : RevokeToken(x)
      \/ \E r \in Requests : IssueTokens(r) \/ Rotate(r) \/ RevokeAll(r)
  BY DEF Next, vars, Register, Login, Logout, UpdateProfile, Refresh, Admit, CreateUser, FindUser,
         ReadToken, ListTokens, LoadProfile, SaveProfile, Fail
<1> QED BY <1>1, <1>2, <1>3, <1>4, <1>5, <1>6

\* The history forgets nothing, and learns of logins that are there only.
LEMMA HistoryGrows ==
  ASSUME TypeOK, ReadsExist, [Next]_vars
  PROVE  /\ overtaken \subseteq overtaken' /\ ended \subseteq ended'
         /\ \A l \in (overtaken' \ overtaken) \cup (ended' \ ended) :
              \E t \in Tokens : Exists(t) /\ tokens[t].login = l
<1>1. ASSUME NEW r \in Requests, Rotate(r) \/ RevokeAll(r)
      PROVE  \A t \in req[r].seen : t \in Tokens /\ Exists(t)
  BY <1>1, RequestShape DEF Rotate, RevokeAll, At, ReadsExist
<1>2. ASSUME NEW r \in Requests, Rotate(r)
      PROVE  /\ overtaken \subseteq overtaken' /\ ended' = ended
             /\ \A l \in overtaken' \ overtaken : \E t \in req[r].seen : tokens[t].login = l
  BY <1>2 DEF Rotate
<1>3. ASSUME NEW r \in Requests, RevokeAll(r)
      PROVE  /\ overtaken \subseteq overtaken' /\ ended \subseteq ended'
             /\ \A l \in (overtaken' \ overtaken) \cup (ended' \ ended) :
                  \E t \in req[r].seen : tokens[t].login = l
  BY <1>3 DEF RevokeAll
<1>4. ASSUME NEW x \in Tokens, RevokeToken(x)
      PROVE  /\ overtaken' = overtaken /\ ended \subseteq ended' /\ Exists(x)
             /\ \A l \in ended' \ ended : tokens[x].login = l
  BY <1>4 DEF RevokeToken, Accepted
<1>5. \/ UNCHANGED << overtaken, ended >>
      \/ \E x \in Tokens : RevokeToken(x)
      \/ \E r \in Requests : Rotate(r) \/ RevokeAll(r)
  BY DEF Next, vars, Register, Login, Logout, UpdateProfile, Refresh, Admit, CreateUser, FindUser,
         IssueTokens, ReadToken, ListTokens, LoadProfile, SaveProfile, Fail
<1> QED BY <1>1, <1>2, <1>3, <1>4, <1>5

\* What a step makes of a request: nothing, its end, a new one, one that is about
\* to write what it is for, or one that has read a token or listed some.
LEMMA RequestSteps ==
  ASSUME TypeOK, ReadsExist, [Next]_vars, NEW r \in Requests, req'[r] # Idle, req'[r] # req[r]
  PROVE  \/ /\ req'[r].seen = {} /\ req'[r].step \notin {"rotate", "revoke"}
            /\ req'[r].step = "read" => req'[r].token \in Tokens /\ Exists(req'[r].token)
         \/ /\ req[r] # Idle /\ req'[r].seen = req[r].seen
            /\ req'[r].step \notin {"read", "rotate", "revoke"}
         \/ /\ req'[r].seen = {req'[r].token} /\ req'[r].token \in Tokens
            /\ Live(req'[r].token) /\ req'[r].step = "rotate"
         \/ /\ \A t \in req'[r].seen : t \in Tokens /\ Live(t)
            /\ req'[r].step = "revoke" /\ UNCHANGED tokens
<1> DEFINE New == /\ req'[r].seen = {} /\ req'[r].step \notin {"rotate", "revoke"}
                  /\ req'[r].step = "read" => req'[r].token \in Tokens /\ Exists(req'[r].token)
           Ready == /\ req[r] # Idle /\ req'[r].seen = req[r].seen
                    /\ req'[r].step \notin {"read", "rotate", "revoke"}
<1>admit. ASSUME NEW q \in Requests, NEW u, NEW t, NEW op, NEW wanted, NEW step,
                 Admit(q, op, u, t, wanted, step), step \notin {"rotate", "revoke"},
                 step = "read" => t \in Tokens /\ Exists(t)
          PROVE  New
  <2>1. q = r
    BY <1>admit DEF Admit, TypeOK
  <2>2. req'[r] = [op |-> op, user |-> u, token |-> t, seen |-> {}, wanted |-> wanted, step |-> step]
    BY <1>admit, <2>1 DEF Admit, TypeOK
  <2> QED BY <1>admit, <2>2
<1>done. ASSUME NEW q \in Requests, Done(q) PROVE FALSE
  BY <1>done DEF Done, TypeOK
<1>goto. ASSUME NEW q \in Requests, NEW from, At(q, from), NEW step, GoTo(q, step),
                step \in {"issue", "save"}
         PROVE  Ready
  <2>1. q = r
    BY <1>goto DEF GoTo, TypeOK
  <2>2. req[r] \in UnderWay
    BY <1>goto, <2>1, RequestShape DEF At
  <2>3. req'[r] = [req[r] EXCEPT !.step = step]
    BY <1>goto, <2>1 DEF GoTo, TypeOK
  <2> QED BY <1>goto, <2>1, <2>2, <2>3 DEF UnderWay, At
<1>1. CASE UNCHANGED req
  BY <1>1
<1>2. ASSUME NEW q \in Requests, NEW u \in Users, Register(q, u) \/ Login(q, u) \/ Logout(q, u)
      PROVE  New
  BY <1>2, <1>admit DEF Register, Login, Logout
<1>3. ASSUME NEW q \in Requests, NEW u \in Users, NEW active, UpdateProfile(q, u, active)
      PROVE  New
  BY <1>3, <1>admit DEF UpdateProfile
<1>4. ASSUME NEW q \in Requests, NEW t \in Tokens, Refresh(q, t)
      PROVE  New
  BY <1>4, <1>admit DEF Refresh, Accepted
<1>5. ASSUME NEW q \in Requests, CreateUser(q) \/ FindUser(q) \/ LoadProfile(q)
      PROVE  Ready
  BY <1>5, <1>goto, <1>done DEF CreateUser, FindUser, LoadProfile
<1>6. ASSUME NEW q \in Requests, IssueTokens(q) \/ Rotate(q) \/ RevokeAll(q) \/ SaveProfile(q) \/ Fail(q)
      PROVE  FALSE
  BY <1>6, <1>done DEF IssueTokens, Rotate, RevokeAll, SaveProfile, Fail
<1>7. ASSUME NEW q \in Requests, ReadToken(q)
      PROVE  /\ req'[r].seen = {req'[r].token} /\ req'[r].token \in Tokens
             /\ Live(req'[r].token) /\ req'[r].step = "rotate"
  <2>1. /\ Live(req[q].token)
        /\ req' = [req EXCEPT ![q].seen = {req[q].token}, ![q].step = "rotate"]
    BY <1>7, <1>done DEF ReadToken
  <2>2. req[q].token \in Tokens /\ req[q] \in UnderWay
    BY <1>7, RequestShape DEF ReadToken, At, ReadsExist
  <2>3. q = r
    BY <2>1 DEF TypeOK
  <2>4. req'[r] = [req[r] EXCEPT !.seen = {req[r].token}, !.step = "rotate"]
    BY <2>1, <2>3 DEF TypeOK
  <2>5. req'[r].seen = {req[r].token} /\ req'[r].step = "rotate" /\ req'[r].token = req[r].token
    BY <2>2, <2>3, <2>4 DEF UnderWay
  <2> QED BY <2>1, <2>2, <2>3, <2>5
<1>8. ASSUME NEW q \in Requests, ListTokens(q)
      PROVE  /\ \A t \in req'[r].seen : t \in Tokens /\ Live(t)
             /\ req'[r].step = "revoke" /\ UNCHANGED tokens
  <2> DEFINE listed == {t \in Tokens : Live(t) /\ tokens[t].user = req[q].user}
  <2>1. req' = [req EXCEPT ![q].seen = listed, ![q].step = "revoke"] /\ UNCHANGED tokens
    BY <1>8 DEF ListTokens
  <2>2. req[q] \in UnderWay
    BY <1>8, RequestShape DEF ListTokens, At
  <2>3. q = r
    BY <2>1 DEF TypeOK
  <2> HIDE DEF listed
  <2>4. req'[r] = [req[r] EXCEPT !.seen = listed, !.step = "revoke"]
    BY <2>1, <2>3 DEF TypeOK
  <2>5. req'[r].seen = listed /\ req'[r].step = "revoke"
    BY <2>2, <2>3, <2>4 DEF UnderWay
  <2> QED BY <2>1, <2>5 DEF listed
<1>9. \/ UNCHANGED req
      \/ \E q \in Requests :
           \/ \E u \in Users :
                \/ Register(q, u) \/ Login(q, u) \/ Logout(q, u)
                \/ \E active \in {"active", "inactive"} : UpdateProfile(q, u, active)
           \/ \E t \in Tokens : Refresh(q, t)
           \/ CreateUser(q) \/ FindUser(q) \/ LoadProfile(q)
           \/ IssueTokens(q) \/ Rotate(q) \/ RevokeAll(q) \/ SaveProfile(q) \/ Fail(q)
           \/ ReadToken(q) \/ ListTokens(q)
  BY DEF Next, vars, RevokeToken
<1> QED BY <1>1, <1>2, <1>3, <1>4, <1>5, <1>6, <1>7, <1>8, <1>9

-----------------------------------------------------------------------------

\* The parts of the inductive invariant, together.
IInv ==
  /\ TypeOK /\ LoginsExist /\ ReadsExist /\ ListedUntilOvertaken
  /\ OneLivePerLogin /\ EndedStaysOut

\* Every step keeps to logins that are there.
LEMMA StepLoginsExist == IInv /\ [Next]_vars => LoginsExist'
<1> SUFFICES ASSUME IInv, [Next]_vars PROVE LoginsExist'
  OBVIOUS
<1>inv. TypeOK /\ LoginsExist /\ ReadsExist
  BY DEF IInv
<1>stay. \A t \in Tokens : Exists(t) => Exists(t)' /\ tokens'[t].login = tokens[t].login
  BY <1>inv, TokensStay
<1>1. ASSUME NEW t \in Tokens, Exists(t)' PROVE Exists(tokens[t].login)'
  <2>1. CASE Exists(t)
    BY <1>inv, <1>stay, <2>1, TokenShape DEF LoginsExist
  <2>2. CASE ~Exists(t)
    <3>1. ASSUME NEW r \in Requests, IssueTokens(r) PROVE Exists(tokens[t].login)'
      <4>1. PICK n \in Tokens :
              tokens' = [tokens EXCEPT ![n] = tokens'[n]] /\ tokens'[n].login = n
        BY <1>inv, <3>1, IssueShape
      <4>2. n = t
        BY <1>1, <1>inv, <2>2, <4>1 DEF Exists, TypeOK
      <4> QED BY <1>1, <4>1, <4>2
    <3>2. ASSUME NEW r \in Requests, Rotate(r) PROVE Exists(tokens[t].login)'
      <4> DEFINE old == req[r].token
      <4>1. PICK n \in Tokens \ {old} :
              /\ tokens' = [tokens EXCEPT ![old] = tokens'[old], ![n] = tokens'[n]]
              /\ tokens'[n] = Successor(old)
        BY <1>inv, <3>2, RotateShape
      <4>2. old \in Tokens /\ Exists(old)
        BY <1>inv, <3>2, RotateShape
      <4> HIDE DEF old
      <4>3. n = t
        BY <1>1, <1>inv, <2>2, <4>1, <4>2 DEF Exists, TypeOK
      <4>4. tokens'[t].login = tokens[old].login
        BY <4>1, <4>3 DEF Successor
      <4> QED BY <1>inv, <1>stay, <4>2, <4>4, TokenShape DEF LoginsExist
    <3>3. ASSUME NEW x \in Tokens, RevokeToken(x) PROVE Exists(t)
      BY <1>1, <1>inv, <3>3 DEF RevokeToken, Accepted, Exists, TypeOK
    <3>4. ASSUME NEW r \in Requests, RevokeAll(r) PROVE Exists(t)
      <4>1. t \in req[r].seen => Exists(t)
        BY <1>inv, <3>4 DEF RevokeAll, At, ReadsExist
      <4> QED BY <1>1, <3>4, <4>1 DEF RevokeAll, Exists
    <3>5. CASE UNCHANGED tokens
      BY <1>1, <2>2, <3>5 DEF Exists
    <3>6. \/ UNCHANGED tokens
          \/ \E x \in Tokens : RevokeToken(x)
          \/ \E r \in Requests : IssueTokens(r) \/ Rotate(r) \/ RevokeAll(r)
      BY DEF Next, vars, Register, Login, Logout, UpdateProfile, Refresh, Admit, CreateUser, FindUser,
             ReadToken, ListTokens, LoadProfile, SaveProfile, Fail
    <3> QED BY <2>2, <3>1, <3>2, <3>3, <3>4, <3>5, <3>6
  <2> QED BY <2>1, <2>2
<1>2. ASSUME NEW l \in overtaken' \cup ended' PROVE Exists(l)'
  <2>1. CASE l \in overtaken \cup ended
    BY <1>inv, <1>stay, <2>1 DEF LoginsExist, TypeOK
  <2>2. CASE l \notin overtaken \cup ended
    <3>1. PICK t \in Tokens : Exists(t) /\ tokens[t].login = l
      BY <1>inv, <2>2, HistoryGrows
    <3> QED BY <1>inv, <1>stay, <3>1, TokenShape DEF LoginsExist
  <2> QED BY <2>1, <2>2
<1> QED BY <1>1, <1>2 DEF LoginsExist

\* Every step leaves requests with tokens that are there.
LEMMA StepReadsExist == IInv /\ [Next]_vars => ReadsExist'
<1> SUFFICES ASSUME IInv, [Next]_vars, NEW r \in Requests, req'[r] # Idle
             PROVE  /\ \A t \in req'[r].seen : Exists(t)'
                    /\ req'[r].step \in {"read", "rotate"}
                         => req'[r].token \in Tokens /\ Exists(req[r].token)'
                    /\ req'[r].step = "rotate" => req'[r].token \in req'[r].seen
  BY DEF ReadsExist
<1>inv. TypeOK /\ LoginsExist /\ ReadsExist
  BY DEF IInv
<1>stay. \A t \in Tokens : Exists(t) => Exists(t)'
  BY <1>inv, TokensStay
<1>1. CASE req'[r] = req[r]
  <2>1. req[r] # Idle /\ req[r].seen \in SUBSET Tokens
    BY <1>1, <1>inv, RequestShape
  <2> QED BY <1>1, <1>inv, <1>stay, <2>1 DEF ReadsExist, Exists
<1>2. CASE req'[r] # req[r]
  <2>1. req[r] # Idle => req[r].seen \in SUBSET Tokens /\ \A t \in req[r].seen : Exists(t)
    BY <1>inv, RequestShape DEF ReadsExist
  <2>2. \A t \in Tokens : Live(t) => Exists(t)
    BY DEF Live
  <2> QED BY <1>inv, <1>2, <1>stay, <2>1, <2>2, RequestSteps DEF Exists
<1> QED BY <1>1, <1>2

\* Every step keeps what revoke_all has listed valid, or it is known why not.
LEMMA StepListedUntilOvertaken == IInv /\ [Next]_vars => ListedUntilOvertaken'
<1> SUFFICES ASSUME IInv, [Next]_vars, NEW r \in Requests, At(r, "revoke")', NEW t \in req'[r].seen
             PROVE  Live(t)' \/ Rotated(t)' \/ tokens'[t].login \in ended'
  BY DEF ListedUntilOvertaken
<1>inv. TypeOK /\ LoginsExist /\ ReadsExist
  BY DEF IInv
<1>at. req'[r] # Idle /\ req'[r].step = "revoke"
  BY DEF At
<1>1. CASE req'[r] = req[r]
  <2>1. At(r, "revoke") /\ t \in req[r].seen
    BY <1>1, <1>at DEF At
  <2>2. t \in Tokens /\ Exists(t)
    BY <1>inv, <2>1, RequestShape DEF At, ReadsExist
  <2>3. Live(t) \/ Rotated(t) \/ tokens[t].login \in ended
    BY <2>1 DEF IInv, ListedUntilOvertaken
  <2>4. CASE Live(t)
    BY <1>inv, <2>2, <2>4, TokensEnd, TokensStay
  <2>5. CASE Rotated(t)
    <3>1. PICK n \in Tokens : Exists(n) /\ tokens[n].from = t
      BY <2>5 DEF Rotated
    <3>2. Exists(n)' /\ tokens'[n].from = t
      BY <1>inv, <3>1, TokensStay
    <3> QED BY <3>2 DEF Rotated
  <2>6. CASE tokens[t].login \in ended
    BY <1>inv, <2>2, <2>6, TokensStay, HistoryGrows
  <2> QED BY <2>3, <2>4, <2>5, <2>6
<1>2. CASE req'[r] # req[r]
  <2>1. t \in Tokens /\ Live(t) /\ UNCHANGED tokens
    BY <1>inv, <1>2, <1>at, RequestSteps
  <2> QED BY <2>1 DEF Live, Exists
<1> QED BY <1>1, <1>2

\* A new token next to a valid one of the same login: only when the rotation
\* that issued it had been overtaken.
LEMMA NewIsAlone ==
  ASSUME IInv, [Next]_vars, NEW n \in Tokens, NEW t \in Tokens, ~Exists(n), n # t,
         Live(n)', Live(t)', tokens'[n].login = tokens'[t].login
  PROVE  tokens'[n].login \in overtaken'
<1>inv. TypeOK /\ LoginsExist /\ ReadsExist /\ OneLivePerLogin
  BY DEF IInv
<1>new. Exists(n)' /\ Exists(t)'
  BY DEF Live
<1>1. ASSUME NEW r \in Requests, IssueTokens(r) PROVE FALSE
  <2>1. PICK i \in Tokens :
          tokens' = [tokens EXCEPT ![i] = tokens'[i]] /\ tokens'[i].login = i
    BY <1>inv, <1>1, IssueShape
  <2>2. i = n
    BY <1>inv, <1>new, <2>1 DEF Exists, TypeOK
  <2>3. tokens'[t] = tokens[t]
    BY <1>inv, <2>1, <2>2 DEF TypeOK
  <2>4. Exists(t) /\ tokens[t].login = n
    BY <1>new, <2>1, <2>2, <2>3 DEF Exists
  <2> QED BY <1>inv, <2>4 DEF LoginsExist
<1>2. ASSUME NEW r \in Requests, Rotate(r) PROVE tokens'[n].login \in overtaken'
  <2> DEFINE old == req[r].token
  <2>1. PICK i \in Tokens \ {old} :
          /\ ~Exists(i)
          /\ tokens' = [tokens EXCEPT ![old] = tokens'[old], ![i] = tokens'[i]]
          /\ tokens'[old] = [tokens[old] EXCEPT !.revoked = TRUE]
          /\ tokens'[i] = Successor(old)
    BY <1>inv, <1>2, RotateShape
  <2>2. old \in Tokens /\ Exists(old) /\ old \in req[r].seen
    BY <1>inv, <1>2, RotateShape
  <2>3. ~Live(old) => tokens[old].login \in overtaken'
    BY <1>2, <2>2 DEF Rotate
  <2>4. tokens[old] \in Rows
    BY <1>inv, <2>2, TokenShape
  <2> HIDE DEF old
  <2>5. i = n
    BY <1>inv, <1>new, <2>1, <2>2 DEF Exists, TypeOK
  <2>6. tokens'[n].login = tokens[old].login
    BY <2>1, <2>5 DEF Successor
  <2>7. tokens'[old].revoked = TRUE
    BY <2>1, <2>4, RevokedRow
  <2>8. t # old
    BY <2>7 DEF Live
  <2>9. tokens'[t] = tokens[t]
    BY <1>inv, <2>1, <2>5, <2>8 DEF TypeOK
  <2>10. Live(t) /\ tokens[t].login = tokens[old].login
    BY <2>6, <2>9 DEF Live, Exists
  <2>11. Live(old) => tokens[old].login \in overtaken
    BY <1>inv, <2>2, <2>8, <2>10 DEF OneLivePerLogin
  <2> QED BY <1>inv, <2>3, <2>6, <2>11, HistoryGrows
<1>3. ASSUME NEW x \in Tokens, RevokeToken(x) PROVE Exists(n)
  BY <1>inv, <1>new, <1>3 DEF RevokeToken, Accepted, Exists, TypeOK
<1>4. ASSUME NEW r \in Requests, RevokeAll(r) PROVE Exists(n)
  <2>1. n \in req[r].seen => Exists(n)
    BY <1>inv, <1>4 DEF RevokeAll, At, ReadsExist
  <2> QED BY <1>new, <1>4, <2>1 DEF RevokeAll, Exists
<1>5. CASE UNCHANGED tokens
  BY <1>new, <1>5 DEF Exists
<1>6. \/ UNCHANGED tokens
      \/ \E x \in Tokens : RevokeToken(x)
      \/ \E r \in Requests : IssueTokens(r) \/ Rotate(r) \/ RevokeAll(r)
  BY DEF Next, vars, Register, Login, Logout, UpdateProfile, Refresh, Admit, CreateUser, FindUser,
         ReadToken, ListTokens, LoadProfile, SaveProfile, Fail
<1> QED BY <1>1, <1>2, <1>3, <1>4, <1>5, <1>6

\* Every step leaves a login with one valid token, unless overtaken.
LEMMA StepOneLivePerLogin == IInv /\ [Next]_vars => OneLivePerLogin'
<1> SUFFICES ASSUME IInv, [Next]_vars, NEW s \in Tokens, NEW t \in Tokens, s # t,
                    Live(s)', Live(t)', tokens'[s].login = tokens'[t].login,
                    tokens'[s].login \notin overtaken'
             PROVE  FALSE
  BY DEF OneLivePerLogin
<1>inv. TypeOK /\ ReadsExist /\ OneLivePerLogin
  BY DEF IInv
<1>1. CASE ~Exists(s)
  BY <1>1, NewIsAlone
<1>2. CASE ~Exists(t)
  BY <1>2, NewIsAlone
<1>3. CASE Exists(s) /\ Exists(t)
  <2>1. Live(s) /\ Live(t) /\ tokens[s].login = tokens'[s].login /\ tokens[t].login = tokens'[t].login
    BY <1>inv, <1>3, TokensStay
  <2> QED BY <1>inv, <2>1, HistoryGrows DEF OneLivePerLogin
<1> QED BY <1>1, <1>2, <1>3

\* Every step leaves a login that was ended without a valid token, unless
\* overtaken.
LEMMA StepEndedStaysOut == IInv /\ [Next]_vars => EndedStaysOut'
<1> SUFFICES ASSUME IInv, [Next]_vars, NEW t \in Tokens, Live(t)', tokens'[t].login \in ended',
                    tokens'[t].login \notin overtaken'
             PROVE  FALSE
  BY DEF EndedStaysOut
<1>inv. TypeOK /\ LoginsExist /\ ReadsExist /\ ListedUntilOvertaken /\ OneLivePerLogin /\ EndedStaysOut
  BY DEF IInv
<1>grows. overtaken \subseteq overtaken'
  BY <1>inv, HistoryGrows
<1>old. Exists(t) => Live(t) /\ tokens'[t].login = tokens[t].login
  BY <1>inv, TokensStay
<1>same. ASSUME Exists(t), ended' = ended PROVE FALSE
  BY <1>inv, <1>grows, <1>old, <1>same DEF EndedStaysOut
<1>1. ASSUME NEW x \in Tokens, RevokeToken(x) PROVE FALSE
  <2>1. Exists(t)
    BY <1>inv, <1>1 DEF RevokeToken, Accepted, Live, Exists, TypeOK
  <2>2. Live(x) /\ tokens[t].login = tokens[x].login
    BY <1>1, <1>inv, <1>grows, <1>old, <2>1 DEF RevokeToken, EndedStaysOut
  <2>3. t = x
    BY <1>inv, <1>grows, <1>old, <2>1, <2>2 DEF OneLivePerLogin
  <2>4. tokens'[x] = [tokens[x] EXCEPT !.revoked = TRUE]
    BY <1>inv, <1>1 DEF RevokeToken, TypeOK
  <2>5. tokens[x] \in Rows
    BY <1>inv, <2>1, <2>3, TokenShape
  <2>6. tokens'[x].revoked = TRUE
    BY <2>4, <2>5, RevokedRow
  <2> QED BY <2>3, <2>6 DEF Live
<1>2. ASSUME NEW r \in Requests, IssueTokens(r) PROVE FALSE
  <2>1. PICK n \in Tokens :
          ~Exists(n) /\ tokens' = [tokens EXCEPT ![n] = tokens'[n]] /\ tokens'[n].login = n
    BY <1>inv, <1>2, IssueShape
  <2>2. ended' = ended
    BY <1>2 DEF IssueTokens
  <2>3. CASE t = n
    BY <1>inv, <2>1, <2>2, <2>3 DEF LoginsExist
  <2>4. CASE t # n
    <3>1. Exists(t)
      BY <1>inv, <2>1, <2>4 DEF Live, Exists, TypeOK
    <3> QED BY <1>same, <2>2, <3>1
  <2> QED BY <2>3, <2>4
<1>3. ASSUME NEW r \in Requests, Rotate(r) PROVE FALSE
  <2> DEFINE old == req[r].token
  <2>1. PICK n \in Tokens \ {old} :
          /\ ~Exists(n)
          /\ tokens' = [tokens EXCEPT ![old] = tokens'[old], ![n] = tokens'[n]]
          /\ tokens'[n] = Successor(old)
    BY <1>inv, <1>3, RotateShape
  <2>2. old \in Tokens /\ Exists(old) /\ old \in req[r].seen
    BY <1>inv, <1>3, RotateShape
  <2>3. ~Live(old) => tokens[old].login \in overtaken'
    BY <1>3, <2>2 DEF Rotate
  <2>4. ended' = ended
    BY <1>3 DEF Rotate
  <2> HIDE DEF old
  <2>5. CASE t = n
    <3>1. tokens'[t].login = tokens[old].login
      BY <2>1, <2>5 DEF Successor
    <3> QED BY <1>inv, <1>grows, <2>2, <2>3, <2>4, <3>1 DEF EndedStaysOut
  <2>6. CASE t # n
    <3>1. Exists(t)
      BY <1>inv, <2>1, <2>2, <2>6 DEF Live, Exists, TypeOK
    <3> QED BY <1>same, <2>4, <3>1
  <2> QED BY <2>5, <2>6
<1>4. ASSUME NEW r \in Requests, RevokeAll(r) PROVE FALSE
  <2>1. At(r, "revoke") /\ \A x \in req[r].seen : x \in Tokens /\ Exists(x)
    BY <1>inv, <1>4, RequestShape DEF RevokeAll, At, ReadsExist
  <2>2. Exists(t)
    BY <1>4, <2>1 DEF RevokeAll, Live, Exists
  <2>3. PICK x \in req[r].seen : tokens[t].login = tokens[x].login
    BY <1>4, <1>inv, <1>grows, <1>old, <2>2 DEF RevokeAll, EndedStaysOut
  <2>4. ~Rotated(x)
    BY <1>4, <1>old, <2>2, <2>3 DEF RevokeAll
  <2>5. tokens[x].login \notin ended
    BY <1>inv, <1>grows, <1>old, <2>2, <2>3 DEF EndedStaysOut
  <2>6. Live(x)
    BY <1>inv, <2>1, <2>4, <2>5 DEF ListedUntilOvertaken
  <2>7. x = t
    BY <1>inv, <1>grows, <1>old, <2>1, <2>2, <2>3, <2>6 DEF OneLivePerLogin
  <2>8. tokens'[t] = [tokens[t] EXCEPT !.revoked = TRUE]
    BY <1>4, <2>7 DEF RevokeAll
  <2>9. tokens[t] \in Rows
    BY <1>inv, <2>2, TokenShape
  <2>10. tokens'[t].revoked = TRUE
    BY <2>8, <2>9, RevokedRow
  <2> QED BY <2>10 DEF Live
<1>5. CASE UNCHANGED << tokens, ended >>
  BY <1>5, <1>same DEF Live, Exists
<1>6. \/ UNCHANGED << tokens, ended >>
      \/ \E x \in Tokens : RevokeToken(x)
      \/ \E r \in Requests : IssueTokens(r) \/ Rotate(r) \/ RevokeAll(r)
  BY DEF Next, vars, Register, Login, Logout, UpdateProfile, Refresh, Admit, CreateUser, FindUser,
         ReadToken, ListTokens, LoadProfile, SaveProfile, Fail
<1> QED BY <1>1, <1>2, <1>3, <1>4, <1>5, <1>6

-----------------------------------------------------------------------------

\* The invariant holds in every behaviour.
THEOREM Invariant == Spec => []IInv
<1>1. Init => IInv
  <2>1. Init => OneLivePerLogin /\ EndedStaysOut
    BY DEF Init, OneLivePerLogin, EndedStaysOut, Live, Exists
  <2> QED BY <2>1, InitIInv DEF IInv
<1>2. IInv /\ [Next]_vars => IInv'
  <2>1. IInv => TypeOK /\ ReadsExist
    BY DEF IInv
  <2>2. IInv /\ [Next]_vars => TypeOK'
    BY <2>1, StepTypeOK
  <2> QED BY <2>2, StepLoginsExist, StepReadsExist, StepListedUntilOvertaken,
             StepOneLivePerLogin, StepEndedStaysOut DEF IInv
<1> QED BY <1>1, <1>2, PTL DEF Spec

\* The tables and the requests keep the shape the code gives them.
THEOREM TypeCorrect == Spec => []TypeOK
<1>1. IInv => TypeOK
  BY DEF IInv
<1> QED BY Invariant, <1>1, PTL

\* However many requests rotate_token serves, a login has one valid refresh
\* token at most, unless two requests rotated or revoked it at once.
THEOREM LoginsHaveOneToken == Spec => []OneLivePerLogin
<1>1. IInv => OneLivePerLogin
  BY DEF IInv
<1> QED BY Invariant, <1>1, PTL

\* However many requests overlap, revoke_token and revoke_all end a login for
\* good, unless one of them was overtaken.
THEOREM EndedLoginsStayOut == Spec => []EndedStaysOut
<1>1. IInv => EndedStaysOut
  BY DEF IInv
<1> QED BY Invariant, <1>1, PTL

-----------------------------------------------------------------------------

\* What a login makes of itself: how the abstract state is read off the tokens.
LEMMA SessionShape ==
  ASSUME NEW l \in Tokens
  PROVE  session[l] = IF l \in overtaken THEN "forked"
                      ELSE IF \E t \in Tokens : Live(t) /\ tokens[t].login = l THEN "live"
                      ELSE IF \E t \in Tokens : Exists(t) /\ tokens[t].login = l THEN "over" ELSE "none"
BY DEF session

\* A step that issues no token to a new login adds one of a login that has
\* a valid token, if it adds one at all, or is overtaken.
LEMMA AddedToLogin ==
  ASSUME IInv, [Next]_vars, NEW n \in Tokens, ~Exists(n), Exists(n)',
         ~\E r \in Requests : IssueTokens(r)
  PROVE  \E t \in Tokens :
           /\ Exists(t) /\ tokens'[n].login = tokens[t].login
           /\ Live(t) \/ tokens[t].login \in overtaken'
<1>inv. TypeOK /\ ReadsExist
  BY DEF IInv
<1>1. ASSUME NEW r \in Requests, Rotate(r)
      PROVE  \E t \in Tokens :
               /\ Exists(t) /\ tokens'[n].login = tokens[t].login
               /\ Live(t) \/ tokens[t].login \in overtaken'
  <2> DEFINE old == req[r].token
  <2>1. PICK i \in Tokens \ {old} :
          /\ tokens' = [tokens EXCEPT ![old] = tokens'[old], ![i] = tokens'[i]]
          /\ tokens'[i] = Successor(old)
    BY <1>inv, <1>1, RotateShape
  <2>2. old \in Tokens /\ Exists(old) /\ old \in req[r].seen
    BY <1>inv, <1>1, RotateShape
  <2>3. ~Live(old) => tokens[old].login \in overtaken'
    BY <1>1, <2>2 DEF Rotate
  <2> HIDE DEF old
  <2>4. i = n
    BY <1>inv, <2>1, <2>2 DEF Exists, TypeOK
  <2>5. tokens'[n].login = tokens[old].login
    BY <2>1, <2>4 DEF Successor
  <2> QED BY <2>2, <2>3, <2>5
<1>2. ASSUME NEW x \in Tokens, RevokeToken(x) PROVE Exists(n)
  BY <1>inv, <1>2 DEF RevokeToken, Accepted, Exists, TypeOK
<1>3. ASSUME NEW r \in Requests, RevokeAll(r) PROVE Exists(n)
  <2>1. n \in req[r].seen => Exists(n)
    BY <1>inv, <1>3 DEF RevokeAll, At, ReadsExist
  <2> QED BY <1>3, <2>1 DEF RevokeAll, Exists
<1>4. CASE UNCHANGED tokens
  BY <1>4 DEF Exists
<1>5. \/ UNCHANGED tokens
      \/ \E x \in Tokens : RevokeToken(x)
      \/ \E r \in Requests : Rotate(r) \/ RevokeAll(r)
  BY DEF Next, vars, Register, Login, Logout, UpdateProfile, Refresh, Admit, CreateUser, FindUser,
         ReadToken, ListTokens, LoadProfile, SaveProfile, Fail
<1> QED BY <1>1, <1>2, <1>3, <1>4, <1>5

\* A step that begins no login lets one go on, end or fork, and revives none.
LEMMA LoginsLeave ==
  ASSUME IInv, [Next]_vars, ~\E r \in Requests : IssueTokens(r)
  PROVE  Promise!Leave
<1> SUFFICES ASSUME NEW l \in Tokens
             PROVE  /\ session'[l] \in {"none", "live", "over", "forked"}
                    /\ session'[l] \in Promise!After[session[l]]
  BY DEF Promise!Leave, session
<1>inv. TypeOK /\ LoginsExist /\ ReadsExist
  BY DEF IInv
<1> DEFINE HasLive == \E t \in Tokens : Live(t) /\ tokens[t].login = l
           HasAny  == \E t \in Tokens : Exists(t) /\ tokens[t].login = l
<1>any. HasLive => HasAny
  BY DEF Live
<1>1. HasAny => HasAny'
  BY <1>inv, TokensStay
<1>2. HasAny' => HasAny
  <2> SUFFICES ASSUME NEW t \in Tokens, Exists(t)', tokens'[t].login = l PROVE HasAny
    OBVIOUS
  <2>1. CASE Exists(t)
    BY <1>inv, <2>1, TokensStay
  <2>2. CASE ~Exists(t)
    BY <2>2, AddedToLogin
  <2> QED BY <2>1, <2>2
<1>3. HasLive' => HasLive \/ l \in overtaken'
  <2> SUFFICES ASSUME NEW t \in Tokens, Live(t)', tokens'[t].login = l PROVE HasLive \/ l \in overtaken'
    OBVIOUS
  <2>1. CASE Exists(t)
    BY <1>inv, <2>1, TokensStay
  <2>2. CASE ~Exists(t)
    <3>1. Exists(t)'
      BY DEF Live
    <3> QED BY <2>2, <3>1, AddedToLogin
  <2> QED BY <2>1, <2>2
<1>4. l \in overtaken => l \in overtaken'
  BY <1>inv, HistoryGrows
<1>5. l \in overtaken' => l \in overtaken \/ HasAny
  BY <1>inv, HistoryGrows
<1>6. session[l] = IF l \in overtaken THEN "forked" ELSE IF HasLive THEN "live"
                   ELSE IF HasAny THEN "over" ELSE "none"
  BY SessionShape
<1>7. session'[l] = IF l \in overtaken' THEN "forked" ELSE IF HasLive' THEN "live"
                    ELSE IF HasAny' THEN "over" ELSE "none"
  BY DEF session
<1> HIDE DEF HasLive, HasAny
<1> QED BY <1>any, <1>1, <1>2, <1>3, <1>4, <1>5, <1>6, <1>7 DEF Promise!After

\* A step that issues a token to a new login begins that one and touches no other.
LEMMA LoginBegins ==
  ASSUME IInv, NEW r \in Requests, IssueTokens(r)
  PROVE  \E l \in Tokens : Promise!SignIn(l)
<1>inv. TypeOK /\ LoginsExist
  BY DEF IInv
<1>1. PICK n \in Tokens :
        /\ ~Exists(n)
        /\ tokens' = [tokens EXCEPT ![n] = tokens'[n]]
        /\ tokens'[n] \in Rows
        /\ tokens'[n].login = n /\ ~tokens'[n].revoked
  BY <1>inv, IssueShape
<1>2. overtaken' = overtaken /\ n \notin overtaken
  BY <1>inv, <1>1 DEF IssueTokens, LoginsExist
<1>3. \A t \in Tokens \ {n} : tokens'[t] = tokens[t]
  BY <1>inv, <1>1 DEF TypeOK
<1>4. \A t \in Tokens : Exists(t) => tokens[t].login # n
  BY <1>inv, <1>1 DEF LoginsExist
<1>5. session[n] = "none"
  BY <1>2, <1>4, SessionShape DEF Live
<1>6. Live(n)'
  BY <1>1, RowsAreThere DEF Live, Exists
<1>7. session'[n] = "live"
  BY <1>1, <1>2, <1>6 DEF session
<1>8. ASSUME NEW l \in Tokens \ {n} PROVE session'[l] = session[l]
  <2>1. \A t \in Tokens : (Live(t)' /\ tokens'[t].login = l) <=> (Live(t) /\ tokens[t].login = l)
    BY <1>1, <1>3 DEF Live, Exists
  <2>2. \A t \in Tokens : (Exists(t)' /\ tokens'[t].login = l) <=> (Exists(t) /\ tokens[t].login = l)
    BY <1>1, <1>3 DEF Exists
  <2> QED BY <1>2, <2>1, <2>2 DEF session
<1>9. session' = [session EXCEPT ![n] = "live"]
  <2>1. session = [l \in Tokens |-> session[l]] /\ session' = [l \in Tokens |-> session'[l]]
    BY DEF session
  <2> QED BY <1>7, <1>8, <2>1
<1> QED BY <1>5, <1>9 DEF Promise!SignIn

\* The tokens of the logins implement Sessions: a login goes on until it is
\* ended, and an ended one does not come back (rotate_token refuses a token
\* that is revoked).
THEOREM ImplementsSessions == Spec => KeepsPromise
<1>1. Init => Promise!Init
  BY DEF Init, Promise!Init, session, Live, Exists
<1>2. IInv /\ [Next]_vars => [Promise!Next]_session
  <2> SUFFICES ASSUME IInv, [Next]_vars PROVE [Promise!Next]_session
    OBVIOUS
  <2>1. CASE \E r \in Requests : IssueTokens(r)
    BY <2>1, LoginBegins DEF Promise!Next
  <2>2. CASE ~\E r \in Requests : IssueTokens(r)
    BY <2>2, LoginsLeave DEF Promise!Next
  <2> QED BY <2>1, <2>2
<1> QED BY Invariant, <1>1, <1>2, PTL DEF Spec, KeepsPromise, Promise!Spec
=============================================================================
