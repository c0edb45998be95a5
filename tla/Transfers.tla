------------------------------ MODULE Transfers ------------------------------
(***************************************************************************)
(* What a settlement plan promises, with no algorithm in it.               *)
(*                                                                         *)
(* Every user starts with a signed balance in cents: positive when the     *)
(* group owes the user, negative when the user owes the group.  A plan is  *)
(* built one transfer at a time; a transfer goes from somebody who still   *)
(* owes to somebody who is still owed, never exceeds what either has left, *)
(* and clears at least one of the two.  Building goes on while a debtor    *)
(* and a creditor are left.                                                *)
(*                                                                         *)
(* SettlementPlan implements this specification.                           *)
(***************************************************************************)
EXTENDS Integers, Sequences

CONSTANTS
  Users,     \* the users the balances are about
  Amounts    \* the balances a user may start with, in cents

VARIABLES
  due,       \* due[u]: what u is still owed (> 0) or still owes (< 0)
  transfers  \* the transfers of the plan so far, in order

vars == << due, transfers >>

Init ==
  /\ due \in [Users -> Amounts]
  /\ transfers = << >>

Owing == {u \in Users : due[u] < 0}
Owed  == {u \in Users : due[u] > 0}

\* a transfer of `amount` cents from `payer` to `payee`
Transfer(payer, payee, amount) ==
  /\ payer \in Owing
  /\ payee \in Owed
  /\ amount <= -due[payer]
  /\ amount <= due[payee]
  /\ amount = -due[payer] \/ amount = due[payee]
  /\ due' = [due EXCEPT ![payer] = @ + amount, ![payee] = @ - amount]
  /\ transfers' = Append(transfers,
                         [payer_id |-> payer, payee_id |-> payee, amount |-> amount])

\* the amount that clears one of the two, as a witness for the quantifier
Clearing(payer, payee) == {-due[payer], due[payee]}

Next ==
  \E payer, payee \in Users :
    \E amount \in Clearing(payer, payee) : Transfer(payer, payee, amount)

SafeSpec == Init /\ [][Next]_vars
Spec     == SafeSpec /\ WF_vars(Next)
=============================================================================
