------------------------------- MODULE Sessions -------------------------------
(***************************************************************************)
(* What refresh tokens promise of the logins of the users: a login goes on *)
(* until it is ended, and an ended one does not come back - unless it is   *)
(* forked, when nothing is promised of it any more.                        *)
(***************************************************************************)
CONSTANT Logins

VARIABLE session  \* of each login: "none" yet, "live", "over" or "forked"

\* what becomes of a login in a step that begins none
After ==
  [none |-> {"none"}, live |-> {"live", "over", "forked"}, over |-> {"over", "forked"},
   forked |-> {"forked"}]

Init == session = [l \in Logins |-> "none"]

\* A login begins.
SignIn(l) ==
  /\ session[l] = "none"
  /\ session' = [session EXCEPT ![l] = "live"]

\* Some logins end, and some are forked.
Leave ==
  /\ session' \in [Logins -> {"none", "live", "over", "forked"}]
  /\ \A l \in Logins : session'[l] \in After[session[l]]

Next == Leave \/ \E l \in Logins : SignIn(l)

Spec == Init /\ [][Next]_session
=============================================================================
