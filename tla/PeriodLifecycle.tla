--------------------------- MODULE PeriodLifecycle ---------------------------
(***************************************************************************)
(* What the life of a period promises to the people who pay, with no       *)
(* sessions and no database in it.                                         *)
(*                                                                         *)
(* A period is closed, then settled; a close request can close it again.   *)
(* The transfers that settle it are recorded in the same step that turns   *)
(* it from closed to settled, or there is nothing to transfer.             *)
(*                                                                         *)
(* PeriodSettlement implements this specification.                         *)
(***************************************************************************)
EXTENDS Integers

VARIABLES
  status,    \* "open", "closed" or "settled"
  closings,  \* how many times the period has become closed
  paid       \* how many batches of transfers have been recorded

vars == << status, closings, paid >>

Init == status = "open" /\ closings = 0 /\ paid = 0

Close ==
  /\ status # "closed"
  /\ status' = "closed"
  /\ closings' = closings + 1
  /\ UNCHANGED paid

\* batches is 1 when there is something to transfer, 0 when all balances are 0
Settle(batches) ==
  /\ status = "closed"
  /\ status' = "settled"
  /\ paid' = paid + batches
  /\ UNCHANGED closings

Next == Close \/ \E batches \in {0, 1} : Settle(batches)

Spec == Init /\ [][Next]_vars
=============================================================================
