--------------------------- MODULE MCSettlementPlan ---------------------------
(***************************************************************************)
(* Instances of SettlementPlan for TLC.                                    *)
(***************************************************************************)
EXTENDS SettlementPlan

\* Every list of four balances of up to three cents either way, whether or not
\* they add up to zero: ties, one-sided lists, chains of partial payments.
MCUsers   == 1..4
MCAmounts == -3..3

\* Five users and the balances of the smallest period whose greedy plan is not
\* minimal.
MinimalUsers   == 1..5
MinimalAmounts == {-3, -2, 3, 4}
=============================================================================
