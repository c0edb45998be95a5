--------------------------- MODULE MCRefreshTokens ---------------------------
(***************************************************************************)
(* The ids of tokens and the users are interchangeable.                    *)
(***************************************************************************)
EXTENDS RefreshTokens, TLC

Symmetry == Permutations(Users) \cup Permutations(Tokens) \cup Permutations(Requests)
=============================================================================
