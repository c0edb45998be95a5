--------------------------- MODULE MCAccountLinking ---------------------------
(***************************************************************************)
(* An account at each provider with the same e-mail address, and another   *)
(* user who may link them to himself.                                      *)
(***************************************************************************)
EXTENDS AccountLinking, TLC

CONSTANTS a, b, google, microsoft

MCProfile ==
  [x \in Accounts |-> IF x = google THEN [provider |-> "google", mail |-> a, principal |-> Nobody]
                     ELSE [provider |-> "microsoft", mail |-> Nobody, principal |-> a]]

Symmetry == Permutations(Links) \cup Permutations(Requests)
=============================================================================
