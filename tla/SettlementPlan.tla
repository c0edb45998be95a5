---------------------------- MODULE SettlementPlan ----------------------------
(***************************************************************************)
(* SettlementService.get_settlement_plan (app/services/settlement.py): the *)
(* greedy two-cursor loop that turns the balances of a period into a list  *)
(* of transfers.                                                           *)
(*                                                                         *)
(* The users are named by their position in the list get_all_balances      *)
(* returns, which is all the loop sees of them: the stable sort breaks     *)
(* ties by that position.  The tuples (user_id, amount) of the two lists   *)
(* are kept apart: `creditors` and `debtors` hold the order of the users,  *)
(* `remaining` the amount, which the loop overwrites in place.             *)
(***************************************************************************)
EXTENDS Integers, Sequences, FiniteSets, Functions, SequencesExt

CONSTANTS
  Users,     \* positions in the list of balances
  Amounts    \* balances a user can have, in cents

ASSUME UsersAssumption   == Users \subseteq Nat /\ IsFiniteSet(Users)
ASSUME AmountsAssumption == Amounts \subseteq Int

VARIABLES
  pc,            \* "sort", "match" or "done"
  balances,      \* the balances get_all_balances returned
  creditors,     \* users with a positive balance, largest first
  debtors,       \* users with a negative balance, largest debt first
  remaining,     \* remaining[u]: cents u still has to receive or to pay
  creditor_idx,  \* cursor into creditors
  debtor_idx,    \* cursor into debtors
  plan           \* the transfers, in the order they are appended

vars == << pc, balances, creditors, debtors, remaining, creditor_idx, debtor_idx, plan >>

Magnitude(x) == IF x < 0 THEN -x ELSE x

-----------------------------------------------------------------------------
(* The algorithm *)

Init ==
  /\ pc = "sort"
  /\ balances \in [Users -> Amounts]
  /\ creditors = << >>
  /\ debtors = << >>
  /\ remaining = [u \in Users |-> Magnitude(balances[u])]
  /\ creditor_idx = 1
  /\ debtor_idx = 1
  /\ plan = << >>

\* seeded fault: balances of one cent are dropped from the creditors
CreditorSetSkipsOneCent == {u \in Users : balances[u] > 1}
CreditorSet == {u \in Users : balances[u] > 0}
DebtorSet   == {u \in Users : balances[u] < 0}

\* seeded fault: the lists are sorted smallest first
SortsAscending(u, v) ==
  \/ remaining[u] < remaining[v]
  \/ remaining[u] = remaining[v] /\ u < v
\* the order of the stable sort by amount, largest first
SortsBefore(u, v) ==
  \/ remaining[u] > remaining[v]
  \/ remaining[u] = remaining[v] /\ u < v

\* the set S in that order: the set has exactly one element
InOrder(S) ==
  {s \in [1..Cardinality(S) -> S] :
     \A i, j \in 1..Cardinality(S) : i < j => SortsBefore(s[i], s[j])}

SortBalances ==
  /\ pc = "sort"
  /\ creditors' \in InOrder(CreditorSet)
  /\ debtors' \in InOrder(DebtorSet)
  /\ pc' = "match"
  /\ UNCHANGED << balances, remaining, creditor_idx, debtor_idx, plan >>

MoreToMatch == creditor_idx <= Len(creditors) /\ debtor_idx <= Len(debtors)

\* seeded fault: the larger of the two amounts is transferred
LargerAmount(creditor_amount, debtor_amount) ==
  IF creditor_amount <= debtor_amount THEN debtor_amount ELSE creditor_amount
\* seeded fault: an iteration moves a single cent
SingleCent(creditor_amount, debtor_amount) == 1
TransferAmount(creditor_amount, debtor_amount) ==
  IF creditor_amount <= debtor_amount THEN creditor_amount ELSE debtor_amount

\* seeded fault: the cursor moves on even when cents are left
MoveOnAlways(idx, amount_left) == idx + 1
\* a list's cursor moves on when the amount of its current user has reached 0
NextIdx(idx, amount_left) == IF amount_left = 0 THEN idx + 1 ELSE idx

\* seeded fault: the transfer is recorded from the creditor to the debtor
EntryReversed(debtor_id, creditor_id, amount) ==
  [payer_id |-> creditor_id, payee_id |-> debtor_id, amount |-> amount]
SettlementEntry(debtor_id, creditor_id, amount) ==
  [payer_id |-> debtor_id, payee_id |-> creditor_id, amount |-> amount]

\* seeded fault: only the creditor's amount is written back
MatchForgetsDebtor ==
  /\ pc = "match"
  /\ MoreToMatch
  /\ LET creditor_id == creditors[creditor_idx]
         debtor_id   == debtors[debtor_idx]
         amount      == TransferAmount(remaining[creditor_id], remaining[debtor_id])
     IN  /\ plan' = Append(plan, SettlementEntry(debtor_id, creditor_id, amount))
         /\ remaining' = [remaining EXCEPT ![creditor_id] = @ - amount]
         /\ creditor_idx' = NextIdx(creditor_idx, remaining[creditor_id] - amount)
         /\ debtor_idx' = NextIdx(debtor_idx, remaining[debtor_id] - amount)
  /\ UNCHANGED << pc, balances, creditors, debtors >>

\* one iteration of the while loop
Match ==
  /\ pc = "match"
  /\ MoreToMatch
  /\ LET creditor_id == creditors[creditor_idx]
         debtor_id   == debtors[debtor_idx]
         amount      == TransferAmount(remaining[creditor_id], remaining[debtor_id])
     IN  /\ plan' = Append(plan, SettlementEntry(debtor_id, creditor_id, amount))
         /\ remaining' = [remaining EXCEPT ![creditor_id] = @ - amount,
                                           ![debtor_id] = @ - amount]
         /\ creditor_idx' = NextIdx(creditor_idx, remaining'[creditor_id])
         /\ debtor_idx' = NextIdx(debtor_idx, remaining'[debtor_id])
  /\ UNCHANGED << pc, balances, creditors, debtors >>

\* seeded fault: the loop is left only when both lists are exhausted
FinishWhenBothExhausted ==
  /\ pc = "match"
  /\ creditor_idx > Len(creditors) /\ debtor_idx > Len(debtors)
  /\ pc' = "done"
  /\ UNCHANGED << balances, creditors, debtors, remaining, creditor_idx, debtor_idx, plan >>

\* the loop condition fails and the plan is returned
Finish ==
  /\ pc = "match"
  /\ ~MoreToMatch
  /\ pc' = "done"
  /\ UNCHANGED << balances, creditors, debtors, remaining, creditor_idx, debtor_idx, plan >>

\* the plan has been returned
Terminated == pc = "done" /\ UNCHANGED vars

Next == SortBalances \/ Match \/ Finish \/ Terminated

\* The loop runs to its end without awaiting anything: each step is taken.
Spec == Init /\ [][Next]_vars /\ WF_vars(SortBalances \/ Match \/ Finish)

-----------------------------------------------------------------------------
(* Properties *)

Entries == [payer_id : Users, payee_id : Users, amount : Nat \ {0}]

\* The cursors stay within one past the end of the lists, every list entry is
\* a user, every amount left is a natural number and every transfer is of at
\* least one cent.
TypeOK ==
  /\ pc \in {"sort", "match", "done"}
  /\ balances \in [Users -> Int]
  /\ creditors \in Seq(Users)
  /\ debtors \in Seq(Users)
  /\ remaining \in [Users -> Nat]
  /\ creditor_idx \in 1..(Len(creditors) + 1)
  /\ debtor_idx \in 1..(Len(debtors) + 1)
  /\ plan \in Seq(Entries)

\* what a list of transfers makes a user receive, less what it makes the user pay
NetOf(u, list) ==
  LET add(net, entry) == CASE entry.payee_id = u -> net + entry.amount
                           [] entry.payer_id = u -> net - entry.amount
                           [] OTHER -> net
  IN  FoldLeft(add, 0, list)
NetReceived(u) == NetOf(u, plan)

\* At every point of the loop, what the plan already moves for a user and the
\* amount the loop still has against the user add up to the user's balance:
\* nobody's cents are lost, doubled or moved in the wrong direction.
NoCentLost ==
  \A u \in Users :
    IF balances[u] >= 0 THEN NetReceived(u) + remaining[u] = balances[u]
                        ELSE NetReceived(u) - remaining[u] = balances[u]

\* When the loop ends, what is left unsettled is exactly the imbalance of the
\* period.  Deposits and refunds credit the payer and debit nobody
\* (get_all_balances), so the balances of a period need not add up to zero;
\* when they do, the plan settles every balance.
LeftoverIsImbalance ==
  pc = "done" => SumFunction(remaining) = Magnitude(SumFunction(balances))

\* When the loop ends, one of the two sides is settled in full: the plan never
\* stops while a debtor and a creditor could still be matched.
OneSideSettled ==
  pc = "done" => \/ \A u \in CreditorSet : remaining[u] = 0
                 \/ \A u \in DebtorSet : remaining[u] = 0

\* The plan has fewer transfers than there are users with a balance.
FewerTransfersThanUsers ==
  plan # << >> => Len(plan) < Cardinality({u \in Users : balances[u] # 0})

\* Reference definition, with no loop and no lists: lay the creditors' amounts
\* end to end on a line, largest first, and the debtors' amounts below them; a
\* debtor pays a creditor the length of the overlap of their two segments.
RanksAbove(u, v) ==
  \/ Magnitude(balances[u]) > Magnitude(balances[v])
  \/ Magnitude(balances[u]) = Magnitude(balances[v]) /\ u < v
SegmentStart(side, u) ==
  SumFunctionOnSet([v \in side |-> Magnitude(balances[v])], {v \in side : RanksAbove(v, u)})
Overlap(debtor, creditor) ==
  LET low(x, y)  == IF x <= y THEN x ELSE y
      high(x, y) == IF x <= y THEN y ELSE x
      debt       == SegmentStart({u \in Users : balances[u] < 0}, debtor)
      credit     == SegmentStart({u \in Users : balances[u] > 0}, creditor)
  IN  low(credit + balances[creditor], debt - balances[debtor]) - high(credit, debt)
OverlapPlan ==
  UNION {{[payer_id |-> d, payee_id |-> c, amount |-> Overlap(d, c)] :
            d \in {u \in Users : balances[u] < 0 /\ Overlap(u, c) > 0}} :
         c \in {u \in Users : balances[u] > 0}}

\* The loop returns the reference plan, each of its transfers once.
PlanIsOverlapPlan ==
  pc = "done" => /\ {plan[k] : k \in DOMAIN plan} = OverlapPlan
                 /\ Len(plan) = Cardinality(OverlapPlan)

\* The loop ends.
Terminates == <>(pc = "done")

\* What each user is still owed or owes, as the abstract specification has it.
Due == [u \in Users |-> IF balances[u] < 0 THEN -remaining[u] ELSE remaining[u]]

T == INSTANCE Transfers WITH due <- Due, transfers <- plan

\* The loop implements the abstract specification of a settlement plan: each
\* iteration is one transfer between a debtor and a creditor that clears one
\* of them, and it goes on while there is such a pair.
ImplementsTransfers == T!Spec

-----------------------------------------------------------------------------
(* Minimality, which the docstring claims: checked by a run of its own *)

\* The fewest transfers that settle balances adding up to zero: the users with
\* a balance, less the largest number of disjoint groups whose balances add up
\* to zero.
ZeroSumGroups ==
  {g \in SUBSET {u \in Users : balances[u] # 0} :
     g # {} /\ SumFunctionOnSet(balances, g) = 0}
GroupsOfAPartition ==
  {p \in SUBSET ZeroSumGroups :
     /\ UNION p = {u \in Users : balances[u] # 0}
     /\ \A g, h \in p : g = h \/ g \cap h = {}}

\* get_settlement_plan's docstring: "Returns a minimal set of transfers to
\* settle all balances."
PlanIsMinimal ==
  (pc = "done" /\ SumFunction(balances) = 0) =>
    \A p \in GroupsOfAPartition :
      Len(plan) <= Cardinality({u \in Users : balances[u] # 0}) - Cardinality(p)
=============================================================================
