---------------------------- MODULE RefreshTokens ----------------------------
(***************************************************************************)
(* Registration, login, rotation and revocation of refresh tokens          *)
(* (app/api/routers/v1/auth.py, AuthenticationService,                     *)
(* RefreshTokenRepository), with the profile update that deactivates.      *)
(*                                                                         *)
(* A request is its statements, one after the other; each SELECT sees what *)
(* is committed then.  The writes of a request and its commit are one step *)
(* and the last one, except that a registration commits the user before it *)
(* issues the token.                                                       *)
(***************************************************************************)
EXTENDS FiniteSets

CONSTANTS
  Users,     \* those there may be, each with an e-mail address
  Tokens,    \* ids of refresh tokens
  Requests,  \* bound: requests under way at the same time
  NoToken,   \* no token with that id
  Idle       \* no request is under way

UserStates == {"absent", "active", "inactive"}

Origins == {"registration", "login"}
Rows    == [user : Users, login : Tokens, from : Tokens \cup Origins, revoked : BOOLEAN]

UnderWay ==
  [op : {"register", "login", "refresh", "logout", "profile"}, user : Users,
   token : Tokens \cup {NoToken}, seen : SUBSET Tokens, wanted : {"active", "inactive"},
   step : {"create", "find", "issue", "read", "rotate", "list", "revoke", "load", "save"}]

ASSUME NoTokenAssumption == NoToken \notin Rows
ASSUME IdleAssumption    == Idle \notin UnderWay
ASSUME OriginsAssumption == Tokens \cap Origins = {}

VARIABLES
  users,      \* "absent", "active" or "inactive"
  tokens,     \* the table of refresh tokens
  req,        \* the requests under way
  overtaken,  \* history: logins with a token that a request had read as valid, when another
              \* had replaced or revoked it by the time it wrote
  ended       \* history: logins whose token a revocation or a logout has revoked

vars == << users, tokens, req, overtaken, ended >>

Exists(t)  == tokens[t] # NoToken
Live(t)    == Exists(t) /\ ~tokens[t].revoked
\* A successor has been issued for the token.
Rotated(t) == \E n \in Tokens : Exists(n) /\ tokens[n].from = t

\* A new id is random and not in use.
Fresh(t)    == ~Exists(t)
\* What validate_refresh_token lets through: a token that was signed here.  One
\* that has run out is not let through, as if nobody used it.
Accepted(t) == Exists(t)
\* the user a token was signed for
Holder(t)   == tokens[t].user
\* An access token is signed with each refresh token, and nothing revokes it.
Bearer(u)   == \E t \in Tokens : Accepted(t) /\ Holder(t) = u
\* get_current_user
CurrentUser(u) == Bearer(u) /\ users[u] = "active"

At(r, step)   == req[r] # Idle /\ req[r].step = step
GoTo(r, step) == req' = [req EXCEPT ![r].step = step]
Done(r)       == req' = [req EXCEPT ![r] = Idle]

Init ==
  /\ users \in [Users -> {"absent", "active"}]
  /\ tokens = [t \in Tokens |-> NoToken]
  /\ req = [r \in Requests |-> Idle]
  /\ overtaken = {}
  /\ ended = {}

Admit(r, op, u, t, wanted, step) ==
  /\ req[r] = Idle
  /\ req' = [req EXCEPT ![r] = [op |-> op, user |-> u, token |-> t, seen |-> {},
                                wanted |-> wanted, step |-> step]]
  /\ UNCHANGED << users, tokens, overtaken, ended >>

-----------------------------------------------------------------------------
(* POST /register, and POST /token with a password *)

\* register has found no user with the address.
Register(r, u) == users[u] = "absent" /\ Admit(r, "register", u, NoToken, "active", "create")

\* create_user commits; the address is unique.
CreateUser(r) ==
  LET u == req[r].user IN
  /\ At(r, "create")
  /\ IF users[u] = "absent"
       THEN users' = [users EXCEPT ![u] = "active"] /\ GoTo(r, "issue")
       ELSE UNCHANGED users /\ Done(r)
  /\ UNCHANGED << tokens, overtaken, ended >>

\* A user who is there, active or not, knows the password.
Knows(u) == users[u] # "absent"
\* authenticate has checked the password.
Login(r, u) == Knows(u) /\ Admit(r, "login", u, NoToken, "active", "find")

\* issues_tokens reads the user again.
FindUser(r) ==
  /\ At(r, "find")
  /\ IF users[req[r].user] = "active" THEN GoTo(r, "issue") ELSE Done(r)
  /\ UNCHANGED << users, tokens, overtaken, ended >>

\* _issues_tokens: a random id is not in use.
IssueTokens(r) ==
  /\ At(r, "issue")
  /\ \E t \in Tokens :
       /\ Fresh(t)
       /\ tokens' = [tokens EXCEPT ![t] =
            [user |-> req[r].user, login |-> t, revoked |-> FALSE,
             from |-> IF req[r].op = "register" THEN "registration" ELSE "login"]]
  /\ Done(r)
  /\ UNCHANGED << users, overtaken, ended >>

-----------------------------------------------------------------------------
(* POST /token with a refresh token *)

\* rotate_token has found its user active.
Refresh(r, t) ==
  /\ Accepted(t) /\ users[Holder(t)] = "active"
  /\ Admit(r, "refresh", Holder(t), t, "active", "read")

\* seeded fault: a revoked token is accepted
ReadAny(r) ==
  LET t == req[r].token IN
  /\ At(r, "read")
  /\ req' = [req EXCEPT ![r].seen = {x \in {t} : Live(x)}, ![r].step = "rotate"]
  /\ UNCHANGED << users, tokens, overtaken, ended >>
\* get_by_id, and the refusal of a revoked token
ReadToken(r) ==
  LET t == req[r].token IN
  /\ At(r, "read")
  /\ IF Live(t) THEN req' = [req EXCEPT ![r].seen = {t}, ![r].step = "rotate"] ELSE Done(r)
  /\ UNCHANGED << users, tokens, overtaken, ended >>

\* the successor of a token: of the same user and login
Successor(t) == [user |-> tokens[t].user, login |-> tokens[t].login, from |-> t, revoked |-> FALSE]

\* seeded fault: the old token stays valid
KeepAndIssue(r) ==
  /\ At(r, "rotate")
  /\ \E n \in Tokens : Fresh(n) /\ tokens' = [tokens EXCEPT ![n] = Successor(req[r].token)]
  /\ overtaken' = overtaken \cup {tokens[x].login : x \in {y \in req[r].seen : ~Live(y)}}
  /\ Done(r)
  /\ UNCHANGED << users, ended >>
\* revoke_by_id and _issues_tokens; the UPDATE does not ask what others have
\* made of the token since it was read.
Rotate(r) ==
  LET t == req[r].token IN
  /\ At(r, "rotate")
  /\ \E n \in Tokens :
       /\ Fresh(n)
       /\ tokens' = [tokens EXCEPT ![t].revoked = TRUE, ![n] = Successor(t)]
  /\ overtaken' = overtaken \cup {tokens[x].login : x \in {y \in req[r].seen : ~Live(y)}}
  /\ Done(r)
  /\ UNCHANGED << users, ended >>

-----------------------------------------------------------------------------
(* POST /revoke, POST /logout-all and PUT /user/me *)

\* revoke_token: what its SELECT reads does not matter, the UPDATE only sets
\* what may be set already.
RevokeToken(t) ==
  /\ Accepted(t)
  /\ tokens' = [tokens EXCEPT ![t].revoked = TRUE]
  /\ ended' = IF Live(t) THEN ended \cup {tokens[t].login} ELSE ended
  /\ UNCHANGED << users, req, overtaken >>

\* logout_all of the current user
Logout(r, u) == CurrentUser(u) /\ Admit(r, "logout", u, NoToken, "active", "list")

\* the SELECT of revoke_all
ListTokens(r) ==
  /\ At(r, "list")
  /\ req' = [req EXCEPT ![r].seen = {t \in Tokens : Live(t) /\ tokens[t].user = req[r].user},
                        ![r].step = "revoke"]
  /\ UNCHANGED << users, tokens, overtaken, ended >>

\* seeded fault: one of the tokens is left out
RevokeSome(r) ==
  LET seen  == req[r].seen
      spare == CHOOSE t \in seen : TRUE
  IN
  /\ At(r, "revoke")
  /\ tokens' = [t \in Tokens |-> IF t \in seen \ {spare} THEN [tokens[t] EXCEPT !.revoked = TRUE] ELSE tokens[t]]
  /\ overtaken' = overtaken \cup {tokens[x].login : x \in {y \in seen : Rotated(y)}}
  /\ ended' = ended \cup {tokens[t].login : t \in seen}
  /\ Done(r)
  /\ UNCHANGED users
\* the UPDATEs of revoke_all, of the tokens it has seen
RevokeAll(r) ==
  LET seen == req[r].seen IN
  /\ At(r, "revoke")
  /\ tokens' = [t \in Tokens |-> IF t \in seen THEN [tokens[t] EXCEPT !.revoked = TRUE] ELSE tokens[t]]
  /\ overtaken' = overtaken \cup {tokens[x].login : x \in {y \in seen : Rotated(y)}}
  /\ ended' = ended \cup {tokens[t].login : t \in seen}
  /\ Done(r)
  /\ UNCHANGED users

\* update_profile of the current user, with a value for is_active
UpdateProfile(r, u, active) == CurrentUser(u) /\ Admit(r, "profile", u, NoToken, active, "load")

\* A column that was read with the value wanted is not written.
LoadProfile(r) ==
  /\ At(r, "load")
  /\ IF users[req[r].user] = req[r].wanted THEN Done(r) ELSE GoTo(r, "save")
  /\ UNCHANGED << users, tokens, overtaken, ended >>

\* seeded fault: a request that does not name the column clears it
SaveNull(r) ==
  /\ At(r, "save")
  /\ users' = [users EXCEPT ![req[r].user] = Idle]
  /\ Done(r)
  /\ UNCHANGED << tokens, overtaken, ended >>
SaveProfile(r) ==
  /\ At(r, "save")
  /\ users' = [users EXCEPT ![req[r].user] = req[r].wanted]
  /\ Done(r)
  /\ UNCHANGED << tokens, overtaken, ended >>

\* An error or a crash rolls back what is not committed.
Fail(r) ==
  /\ req[r] # Idle
  /\ Done(r)
  /\ UNCHANGED << users, tokens, overtaken, ended >>

-----------------------------------------------------------------------------

Next ==
  \/ \E t \in Tokens : RevokeToken(t)
  \/ \E r \in Requests :
       \/ \E u \in Users :
            \/ Register(r, u) \/ Login(r, u) \/ Logout(r, u)
            \/ \E active \in {"active", "inactive"} : UpdateProfile(r, u, active)
       \/ \E t \in Tokens : Refresh(r, t)
       \/ CreateUser(r) \/ FindUser(r) \/ IssueTokens(r)
       \/ ReadToken(r) \/ Rotate(r)
       \/ ListTokens(r) \/ RevokeAll(r)
       \/ LoadProfile(r) \/ SaveProfile(r)
       \/ Fail(r)

Spec == Init /\ [][Next]_vars

-----------------------------------------------------------------------------

\* The tables and the requests are of the shape the code gives them.
TypeOK ==
  /\ users \in [Users -> UserStates]
  /\ tokens \in [Tokens -> Rows \cup {NoToken}]
  /\ req \in [Requests -> UnderWay \cup {Idle}]
  /\ overtaken \subseteq Tokens
  /\ ended \subseteq Tokens

\* A login has one valid refresh token at most, however often rotate_token has
\* replaced it, unless it was rotated or revoked by two requests at once.
OneLivePerLogin ==
  \A s, t \in Tokens :
    Live(s) /\ Live(t) /\ tokens[s].login = tokens[t].login /\ tokens[s].login \notin overtaken
      => s = t

\* A login that revoke_token or revoke_all_user_refresh_tokens has ended has no
\* valid refresh token any more, with the same exception.
EndedStaysOut ==
  \A t \in Tokens : Live(t) /\ tokens[t].login \in ended => tokens[t].login \in overtaken

\* what the tokens make of the logins
session ==
  [l \in Tokens |->
     IF l \in overtaken THEN "forked"
       ELSE IF \E t \in Tokens : Live(t) /\ tokens[t].login = l THEN "live"
       ELSE IF \E t \in Tokens : Exists(t) /\ tokens[t].login = l THEN "over" ELSE "none"]

Promise == INSTANCE Sessions WITH Logins <- Tokens, session <- session

\* The tokens of the logins keep the promise of Sessions: a login that has no
\* valid token left gets none again (rotate_token refuses revoked ones).
KeepsPromise == Promise!Spec
=============================================================================
