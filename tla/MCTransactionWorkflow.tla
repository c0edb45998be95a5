------------------------ MODULE MCTransactionWorkflow ------------------------
(***************************************************************************)
(* Two members, one of them an administrator, and contents that differ     *)
(* from each other in one column, in the shares, or in both.               *)
(***************************************************************************)
EXTENDS TransactionWorkflow, TLC

Expense(split, amount, sh) ==
  [cols |-> [kind |-> "expense", split |-> split, amount |-> amount], shares |-> sh]

MCAdmins == {1}

Rent == Expense("equal", 2, 1 :> Null)

\* split equally, by the member who is no administrator
MCSamples == { [content |-> Rent, created_by |-> 2] }

MCContents ==
  { Rent,
    Expense("amount", 2, 1 :> 1 @@ 2 :> 1),
    [cols |-> [kind |-> "deposit", split |-> "equal", amount |-> 1], shares |-> << >>] }

RequestSymmetry == Permutations(Requests)
=============================================================================
