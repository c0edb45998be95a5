------------------------- MODULE SettlementPlanProofs -------------------------
(***************************************************************************)
(* Theorems about SettlementPlan, for every finite set of users and every  *)
(* set of integer balances.                                                *)
(***************************************************************************)
EXTENDS SettlementPlan, FoldLemmas

\* A list of users holds the members of a set, each of them once.
Lists(list, S) ==
  /\ Len(list) = Cardinality(S)
  /\ \A i \in 1..Len(list) : list[i] \in S
  /\ \A u \in S : \E i \in 1..Len(list) : list[i] = u
  /\ \A i, j \in 1..Len(list) : list[i] = list[j] => i = j

\* The users before the cursor of a list are settled, the others are not.
SplitsAt(amounts, list, idx) ==
  \A i \in 1..Len(list) :
    IF i < idx THEN amounts[list[i]] = 0 ELSE amounts[list[i]] > 0
CursorSplits(list, idx) == SplitsAt(remaining, list, idx)

NotSortedYet ==
  /\ creditors = << >> /\ debtors = << >> /\ plan = << >>
  /\ creditor_idx = 1 /\ debtor_idx = 1
  /\ \A u \in Users : remaining[u] = Magnitude(balances[u])

\* The inductive invariant.  A cursor splits its list into settled and
\* unsettled users, and every transfer has moved a cursor.
IInv ==
  /\ TypeOK
  /\ pc = "sort" => NotSortedYet
  /\ pc # "sort" => Lists(creditors, CreditorSet) /\ Lists(debtors, DebtorSet)
  /\ CursorSplits(creditors, creditor_idx)
  /\ CursorSplits(debtors, debtor_idx)
  /\ Len(plan) <= creditor_idx + debtor_idx - 2
  /\ plan # << >> => Len(plan) < Len(creditors) + Len(debtors)
  /\ pc = "done" => ~MoreToMatch

-----------------------------------------------------------------------------
(* Sorting *)

\* The strict order of the sort leaves no room for a repeated user, so the
\* sorted list of a set holds each of its members once.
LEMMA SortedListIsComplete ==
  ASSUME NEW S, S \subseteq Users, remaining \in [Users -> Nat], NEW s \in InOrder(S)
  PROVE  s \in Seq(S) /\ Lists(s, S)
<1> DEFINE n == Cardinality(S)
<1>1. IsFiniteSet(S) /\ n \in Nat
  BY UsersAssumption, FS_Subset, FS_CardinalityType
<1>2. s \in [1..n -> S]
  BY DEF InOrder
<1>3. s \in Seq(S) /\ Len(s) = n
  BY <1>1, <1>2
<1>4. ASSUME NEW i \in 1..n, NEW j \in 1..n, i < j PROVE s[i] # s[j]
  <2>1. SortsBefore(s[i], s[j])
    BY <1>4 DEF InOrder
  <2>2. ASSUME NEW u \in Users PROVE ~SortsBefore(u, u)
    <3>1. u \in Nat /\ remaining[u] \in Nat
      BY UsersAssumption
    <3>2. QED
      BY <3>1 DEF SortsBefore
  <2>3. s[i] \in Users
    BY <1>2
  <2>4. QED
    BY <2>1, <2>2, <2>3
<1>5. \A i, j \in 1..n : s[i] = s[j] => i = j
  BY <1>1, <1>4
<1>6. s \in Injection(1..n, S)
  BY <1>2, <1>5 DEF Injection, IsInjective
<1>7. IsFiniteSet(1..n) /\ Cardinality(1..n) = n
  BY <1>1, FS_Interval
<1>8. s \in Surjection(1..n, S)
  BY <1>1, <1>6, <1>7, FS_Injection
<1>9. \A u \in S : \E i \in 1..n : s[i] = u
  BY <1>8 DEF Surjection
<1>10. QED
  BY <1>2, <1>3, <1>5, <1>9 DEF Lists

-----------------------------------------------------------------------------
(* The invariant *)

\* Nothing is matched yet.
LEMMA InitInvariant == Init => IInv
<1> SUFFICES ASSUME Init PROVE IInv
  OBVIOUS
<1>1. balances \in [Users -> Int]
  BY AmountsAssumption DEF Init
<1>2. remaining \in [Users -> Nat] /\ \A u \in Users : remaining[u] = Magnitude(balances[u])
  BY <1>1 DEF Init, Magnitude
<1>3. QED
  BY <1>1, <1>2 DEF Init, IInv, TypeOK, NotSortedYet, CursorSplits, SplitsAt

\* Sorting gives lists of positive amounts in order.
LEMMA SortPreserves == IInv /\ SortBalances => IInv'
<1> SUFFICES ASSUME IInv, SortBalances PROVE IInv'
  OBVIOUS
<1>1. balances \in [Users -> Int] /\ remaining \in [Users -> Nat]
  BY DEF IInv, TypeOK
<1>2. NotSortedYet
  BY DEF IInv, SortBalances
<1>3. CreditorSet \subseteq Users /\ DebtorSet \subseteq Users
  BY DEF CreditorSet, DebtorSet
<1>4. creditors' \in Seq(CreditorSet) /\ Lists(creditors', CreditorSet)
  BY <1>1, <1>3, SortedListIsComplete DEF SortBalances
<1>5. debtors' \in Seq(DebtorSet) /\ Lists(debtors', DebtorSet)
  BY <1>1, <1>3, SortedListIsComplete DEF SortBalances
<1>6. CreditorSet' = CreditorSet /\ DebtorSet' = DebtorSet
  BY DEF SortBalances, CreditorSet, DebtorSet
<1>7. creditors' \in Seq(Users) /\ debtors' \in Seq(Users)
  BY <1>3, <1>4, <1>5
<1>8. \A u \in CreditorSet \cup DebtorSet : remaining[u] > 0
  BY <1>1, <1>2 DEF NotSortedYet, CreditorSet, DebtorSet, Magnitude
<1>9. TypeOK'
  BY <1>1, <1>2, <1>7 DEF IInv, TypeOK, NotSortedYet, SortBalances
<1>10. CursorSplits(creditors, creditor_idx)' /\ CursorSplits(debtors, debtor_idx)'
  BY <1>2, <1>4, <1>5, <1>8 DEF CursorSplits, SplitsAt, Lists, NotSortedYet, SortBalances
<1>11. QED
  BY <1>2, <1>4, <1>5, <1>6, <1>9, <1>10 DEF IInv, NotSortedYet, SortBalances

\* What one iteration of the loop does, in terms of the two users it matches.
LEMMA MatchStep ==
  ASSUME IInv, Match
  PROVE  \E c \in CreditorSet, d \in DebtorSet, amount \in Nat \ {0} :
           /\ c = creditors[creditor_idx] /\ d = debtors[debtor_idx] /\ c # d
           /\ amount <= remaining[c] /\ amount <= remaining[d]
           /\ amount = remaining[c] \/ amount = remaining[d]
           /\ plan' = Append(plan, SettlementEntry(d, c, amount))
           /\ remaining' \in [Users -> Nat]
           /\ \A u \in Users : remaining'[u] = IF u \in {c, d} THEN remaining[u] - amount
                                                               ELSE remaining[u]
           /\ creditor_idx' = IF amount = remaining[c] THEN creditor_idx + 1 ELSE creditor_idx
           /\ debtor_idx' = IF amount = remaining[d] THEN debtor_idx + 1 ELSE debtor_idx
<1> DEFINE c == creditors[creditor_idx]
           d == debtors[debtor_idx]
           amount == TransferAmount(remaining[c], remaining[d])
<1>1. TypeOK /\ pc # "sort"
  BY DEF IInv, Match
<1>2. creditor_idx \in 1..Len(creditors) /\ debtor_idx \in 1..Len(debtors)
  BY <1>1 DEF TypeOK, Match, MoreToMatch
<1>3. c \in CreditorSet /\ d \in DebtorSet
  BY <1>1, <1>2 DEF IInv, Lists
<1>4. c \in Users /\ d \in Users /\ c # d
  BY <1>1, <1>3 DEF CreditorSet, DebtorSet, TypeOK
<1>5. remaining[c] \in Nat \ {0} /\ remaining[d] \in Nat \ {0}
  <2>1. SplitsAt(remaining, creditors, creditor_idx) /\ SplitsAt(remaining, debtors, debtor_idx)
    BY DEF IInv, CursorSplits
  <2>2. remaining[c] > 0 /\ remaining[d] > 0
    BY <1>1, <1>2, <2>1 DEF SplitsAt, TypeOK
  <2>3. remaining[c] \in Nat /\ remaining[d] \in Nat
    BY <1>1, <1>4 DEF TypeOK
  <2>4. QED
    BY <2>2, <2>3
<1>6. /\ amount \in Nat \ {0}
      /\ amount <= remaining[c] /\ amount <= remaining[d]
      /\ amount = remaining[c] \/ amount = remaining[d]
  BY <1>5 DEF TransferAmount
<1>7. /\ plan' = Append(plan, SettlementEntry(d, c, amount))
      /\ remaining' = [remaining EXCEPT ![c] = @ - amount, ![d] = @ - amount]
      /\ creditor_idx' = NextIdx(creditor_idx, remaining'[c])
      /\ debtor_idx' = NextIdx(debtor_idx, remaining'[d])
  BY DEF Match
<1> HIDE DEF c, d, amount
<1>8. remaining \in [Users -> Nat]
  BY <1>1 DEF TypeOK
<1>9. \A u \in Users : remaining'[u] = IF u \in {c, d} THEN remaining[u] - amount
                                                       ELSE remaining[u]
  BY <1>4, <1>7, <1>8
<1>10. remaining' \in [Users -> Nat]
  <2>1. remaining[c] - amount \in Nat /\ remaining[d] - amount \in Nat
    BY <1>5, <1>6
  <2>2. QED
    BY <1>4, <1>7, <1>8, <2>1
<1>11. remaining'[c] = remaining[c] - amount /\ remaining'[d] = remaining[d] - amount
  BY <1>4, <1>9
<1>12. /\ creditor_idx' = IF amount = remaining[c] THEN creditor_idx + 1 ELSE creditor_idx
       /\ debtor_idx' = IF amount = remaining[d] THEN debtor_idx + 1 ELSE debtor_idx
  BY <1>5, <1>6, <1>7, <1>11 DEF NextIdx
<1>13. QED
  BY <1>3, <1>4, <1>6, <1>7, <1>9, <1>10, <1>12 DEF c, d

\* The iteration as one of the two lists sees it: `amount` cents move between
\* the user x at the cursor and a user y of the other list.
StepsList(list, idx, idx2, x, y, amount, old, new) ==
  /\ list \in Seq(Users) /\ idx \in 1..Len(list)
  /\ x = list[idx] /\ x \in Users
  /\ \A i, j \in 1..Len(list) : list[i] = list[j] => i = j
  /\ \A i \in 1..Len(list) : list[i] # y
  /\ old \in [Users -> Nat] /\ amount \in Nat /\ amount <= old[x]
  /\ \A u \in Users : new[u] = IF u \in {x, y} THEN old[u] - amount ELSE old[u]
  /\ idx2 = IF amount = old[x] THEN idx + 1 ELSE idx
  /\ SplitsAt(old, list, idx)

\* An iteration keeps a list split at its cursor: the user at the cursor
\* leaves the unsettled part exactly when its last cent is moved.
LEMMA CursorStep ==
  ASSUME NEW list, NEW idx, NEW idx2, NEW x, NEW y, NEW amount, NEW old, NEW new,
         StepsList(list, idx, idx2, x, y, amount, old, new)
  PROVE  SplitsAt(new, list, idx2)
<1> USE DEF StepsList
<1> SUFFICES ASSUME NEW i \in 1..Len(list)
             PROVE  IF i < idx2 THEN new[list[i]] = 0 ELSE new[list[i]] > 0
  BY DEF SplitsAt
<1>1. list[i] \in Users /\ list[i] # y
  OBVIOUS
<1>2. old[x] \in Nat /\ old[list[i]] \in Nat
  BY <1>1
<1>3. CASE i = idx
  <2>1. new[list[i]] = old[x] - amount
    BY <1>3
  <2>2. QED
    BY <1>2, <1>3, <2>1
<1>4. CASE i # idx
  <2>1. new[list[i]] = old[list[i]]
    BY <1>1, <1>4
  <2>2. IF i < idx THEN old[list[i]] = 0 ELSE old[list[i]] > 0
    BY DEF SplitsAt
  <2>3. (i < idx) <=> (i < idx2)
    BY <1>4
  <2>4. QED
    BY <2>1, <2>2, <2>3
<1>5. QED
  BY <1>3, <1>4

\* A transfer lowers both amounts and passes at least one entry.
LEMMA MatchPreserves == IInv /\ Match => IInv'
<1> SUFFICES ASSUME IInv, Match PROVE IInv'
  OBVIOUS
<1>1. PICK c \in CreditorSet, d \in DebtorSet, amount \in Nat \ {0} :
           /\ c = creditors[creditor_idx] /\ d = debtors[debtor_idx] /\ c # d
           /\ amount <= remaining[c] /\ amount <= remaining[d]
           /\ amount = remaining[c] \/ amount = remaining[d]
           /\ plan' = Append(plan, SettlementEntry(d, c, amount))
           /\ remaining' \in [Users -> Nat]
           /\ \A u \in Users : remaining'[u] = IF u \in {c, d} THEN remaining[u] - amount
                                                               ELSE remaining[u]
           /\ creditor_idx' = IF amount = remaining[c] THEN creditor_idx + 1 ELSE creditor_idx
           /\ debtor_idx' = IF amount = remaining[d] THEN debtor_idx + 1 ELSE debtor_idx
  BY MatchStep
<1>2. TypeOK /\ pc = "match" /\ UNCHANGED << pc, balances, creditors, debtors >>
  BY DEF IInv, Match
<1>3. creditor_idx \in 1..Len(creditors) /\ debtor_idx \in 1..Len(debtors)
  BY <1>2 DEF TypeOK, Match, MoreToMatch
<1>4. c \in Users /\ d \in Users
  BY DEF CreditorSet, DebtorSet
<1>5. SettlementEntry(d, c, amount) \in Entries
  BY <1>4 DEF SettlementEntry, Entries
<1>6. /\ creditor_idx' \in {creditor_idx, creditor_idx + 1}
      /\ debtor_idx' \in {debtor_idx, debtor_idx + 1}
      /\ creditor_idx' = creditor_idx + 1 \/ debtor_idx' = debtor_idx + 1
  BY <1>1
<1>7. plan' \in Seq(Entries) /\ Len(plan') = Len(plan) + 1
  BY <1>1, <1>2, <1>5 DEF TypeOK
<1>8. TypeOK'
  <2>1. Len(creditors) \in Nat /\ Len(debtors) \in Nat
    BY <1>2 DEF TypeOK
  <2>2. creditor_idx' \in 1..(Len(creditors) + 1) /\ debtor_idx' \in 1..(Len(debtors) + 1)
    BY <1>3, <1>6, <2>1
  <2>3. QED
    BY <1>1, <1>2, <1>7, <2>2 DEF TypeOK
<1>9. CreditorSet' = CreditorSet /\ DebtorSet' = DebtorSet
  BY <1>2 DEF CreditorSet, DebtorSet
<1>10. Lists(creditors, CreditorSet) /\ Lists(debtors, DebtorSet)
  BY <1>2 DEF IInv
<1>11. Lists(creditors, CreditorSet)' /\ Lists(debtors, DebtorSet)'
  BY <1>2, <1>9, <1>10 DEF Lists
<1>12. CreditorSet \cap DebtorSet = {}
  BY <1>2 DEF CreditorSet, DebtorSet, TypeOK
<1>13. CursorSplits(creditors, creditor_idx)'
  <2>1. creditors \in Seq(Users) /\ remaining \in [Users -> Nat]
    BY <1>2 DEF TypeOK
  <2>2. \A i \in 1..Len(creditors) : creditors[i] # d
    BY <1>10, <1>12 DEF Lists
  <2>3. \A i, j \in 1..Len(creditors) : creditors[i] = creditors[j] => i = j
    BY <1>10 DEF Lists
  <2>4. CursorSplits(creditors, creditor_idx)
    BY DEF IInv
  <2>5. StepsList(creditors, creditor_idx, creditor_idx', c, d, amount, remaining, remaining')
    BY <1>1, <1>3, <1>4, <2>1, <2>2, <2>3, <2>4 DEF StepsList, CursorSplits
  <2>6. SplitsAt(remaining', creditors, creditor_idx')
    BY <2>5, CursorStep
  <2>7. QED
    BY <1>2, <2>6 DEF CursorSplits
<1>14. CursorSplits(debtors, debtor_idx)'
  <2>1. debtors \in Seq(Users) /\ remaining \in [Users -> Nat]
    BY <1>2 DEF TypeOK
  <2>2. \A i \in 1..Len(debtors) : debtors[i] # c
    BY <1>10, <1>12 DEF Lists
  <2>3. \A i, j \in 1..Len(debtors) : debtors[i] = debtors[j] => i = j
    BY <1>10 DEF Lists
  <2>4. CursorSplits(debtors, debtor_idx)
    BY DEF IInv
  <2>5. \A u \in Users : remaining'[u] = IF u \in {d, c} THEN remaining[u] - amount
                                                         ELSE remaining[u]
    BY <1>1
  <2>6. StepsList(debtors, debtor_idx, debtor_idx', d, c, amount, remaining, remaining')
    BY <1>1, <1>3, <1>4, <2>1, <2>2, <2>3, <2>4, <2>5 DEF StepsList, CursorSplits
  <2>7. SplitsAt(remaining', debtors, debtor_idx')
    BY <2>6, CursorStep
  <2>8. QED
    BY <1>2, <2>7 DEF CursorSplits
<1>15. Len(plan') <= creditor_idx' + debtor_idx' - 2
  <2>1. Len(plan) <= creditor_idx + debtor_idx - 2 /\ Len(plan) \in Nat
    BY <1>2 DEF IInv, TypeOK
  <2>2. QED
    BY <1>3, <1>6, <1>7, <2>1
<1>16. Len(plan') < Len(creditors') + Len(debtors')
  <2>1. Len(plan) <= creditor_idx + debtor_idx - 2 /\ Len(plan) \in Nat
    BY <1>2 DEF IInv, TypeOK
  <2>2. QED
    BY <1>2, <1>3, <1>7, <2>1
<1>17. QED
  BY <1>2, <1>8, <1>11, <1>13, <1>14, <1>15, <1>16 DEF IInv

\* The loop ends when one list is used up.
LEMMA FinishPreserves == IInv /\ Finish => IInv'
<1> SUFFICES ASSUME IInv, Finish PROVE IInv'
  OBVIOUS
<1>1. CreditorSet' = CreditorSet /\ DebtorSet' = DebtorSet /\ ~MoreToMatch'
  BY DEF Finish, CreditorSet, DebtorSet, MoreToMatch
<1>2. TypeOK' /\ pc = "match" /\ pc' = "done"
  BY DEF IInv, TypeOK, Finish
<1>3. CursorSplits(creditors, creditor_idx)' /\ CursorSplits(debtors, debtor_idx)'
  BY DEF IInv, Finish, CursorSplits, SplitsAt
<1>4. Lists(creditors, CreditorSet)' /\ Lists(debtors, DebtorSet)'
  BY <1>1, <1>2 DEF IInv, Finish, Lists
<1>5. QED
  BY <1>1, <1>2, <1>3, <1>4 DEF IInv, Finish

\* A step that changes nothing.
LEMMA StutterPreserves == IInv /\ UNCHANGED vars => IInv'
BY DEF IInv, TypeOK, vars, NotSortedYet, Lists, CursorSplits, SplitsAt, CreditorSet, DebtorSet, MoreToMatch

\* The loop keeps its invariant, whatever the balances are.
THEOREM Invariant == Spec => []IInv
<1>1. IInv /\ [Next]_vars => IInv'
  BY SortPreserves, MatchPreserves, FinishPreserves, StutterPreserves DEF Next, Terminated
<1>2. QED
  BY <1>1, InitInvariant, PTL DEF Spec

-----------------------------------------------------------------------------
(* What follows from it *)

\* The types, for every finite set of users: the cursors never leave the lists
\* and no transfer of the plan is of zero or fewer cents.
THEOREM TypeCorrect == Spec => []TypeOK
<1>1. IInv => TypeOK
  BY DEF IInv
<1>2. QED
  BY <1>1, Invariant, PTL

\* A cursor past the end of its list has the whole list settled.
LEMMA DoneSettlesOneSide == IInv => OneSideSettled
<1> SUFFICES ASSUME IInv, pc = "done" PROVE OneSideSettled
  BY DEF OneSideSettled
<1>1. TypeOK /\ ~MoreToMatch /\ Lists(creditors, CreditorSet) /\ Lists(debtors, DebtorSet)
  BY DEF IInv
<1>2. SplitsAt(remaining, creditors, creditor_idx) /\ SplitsAt(remaining, debtors, debtor_idx)
  BY DEF IInv, CursorSplits
<1>3. Len(creditors) \in Nat /\ Len(debtors) \in Nat
  BY <1>1 DEF TypeOK
<1>4. CASE creditor_idx > Len(creditors)
  <2>1. \A i \in 1..Len(creditors) : remaining[creditors[i]] = 0
    BY <1>1, <1>2, <1>3, <1>4 DEF SplitsAt, TypeOK
  <2>2. QED
    BY <1>1, <2>1 DEF Lists, OneSideSettled
<1>5. CASE debtor_idx > Len(debtors)
  <2>1. \A i \in 1..Len(debtors) : remaining[debtors[i]] = 0
    BY <1>1, <1>2, <1>3, <1>5 DEF SplitsAt, TypeOK
  <2>2. QED
    BY <1>1, <2>1 DEF Lists, OneSideSettled
<1>6. creditor_idx \in Nat /\ debtor_idx \in Nat
  BY <1>1, <1>3 DEF TypeOK
<1>7. creditor_idx > Len(creditors) \/ debtor_idx > Len(debtors)
  BY <1>1, <1>3, <1>6 DEF MoreToMatch
<1>8. QED
  BY <1>4, <1>5, <1>7, Zenon

\* The plan stops only when all creditors or all debtors are settled in full.
THEOREM SettlesOneSide == Spec => []OneSideSettled
BY DoneSettlesOneSide, Invariant, PTL

\* The plan always has fewer transfers than there are users with a balance.
THEOREM BoundsThePlan == Spec => []FewerTransfersThanUsers
<1>1. IInv => FewerTransfersThanUsers
  <2> SUFFICES ASSUME IInv, plan # << >> PROVE FewerTransfersThanUsers
    BY DEF FewerTransfersThanUsers
  <2>1. TypeOK /\ Lists(creditors, CreditorSet) /\ Lists(debtors, DebtorSet)
    BY DEF IInv, NotSortedYet
  <2>2. /\ CreditorSet \cup DebtorSet = {u \in Users : balances[u] # 0}
        /\ CreditorSet \cap DebtorSet = {}
    BY <2>1 DEF CreditorSet, DebtorSet, TypeOK
  <2>3. IsFiniteSet(CreditorSet) /\ IsFiniteSet(DebtorSet)
    BY UsersAssumption, FS_Subset DEF CreditorSet, DebtorSet
  <2>4. Cardinality({u \in Users : balances[u] # 0})
          = Cardinality(CreditorSet) + Cardinality(DebtorSet)
    <3>1. Cardinality(CreditorSet \cup DebtorSet)
            = Cardinality(CreditorSet) + Cardinality(DebtorSet)
                - Cardinality(CreditorSet \cap DebtorSet)
      BY <2>3, FS_Union
    <3>2. Cardinality(CreditorSet \cap DebtorSet) = 0
      BY <2>2, FS_EmptySet
    <3>3. Cardinality(CreditorSet) \in Nat /\ Cardinality(DebtorSet) \in Nat
      BY <2>3, FS_CardinalityType
    <3>4. Cardinality(CreditorSet \cup DebtorSet)
            = Cardinality(CreditorSet) + Cardinality(DebtorSet)
      BY <3>1, <3>2, <3>3
    <3>5. QED
      BY <2>2, <3>4
  <2>5. Len(plan) < Len(creditors) + Len(debtors)
    BY DEF IInv
  <2>6. QED
    BY <2>1, <2>4, <2>5 DEF Lists, FewerTransfersThanUsers
<1>2. QED
  BY <1>1, Invariant, PTL

\* The loop implements the abstract plan: its first state is an initial state
\* of Transfers, an iteration is a Transfer that clears the debtor or the
\* creditor, and the other steps leave the abstract state alone.
THEOREM ImplementsSafety == Spec => T!SafeSpec
<1>1. Init => T!Init
  <2> SUFFICES ASSUME Init PROVE T!Init
    OBVIOUS
  <2>1. balances \in [Users -> Amounts] /\ balances \in [Users -> Int]
    BY AmountsAssumption DEF Init
  <2>2. ASSUME NEW u \in Users PROVE Due[u] = balances[u]
    BY <2>1 DEF Init, Due, Magnitude
  <2>3. Due = balances
    BY <2>1, <2>2 DEF Due
  <2>4. QED
    BY <2>1, <2>3 DEF Init, T!Init
<1>2. IInv /\ [Next]_vars => [T!Next]_(T!vars)
  <2> SUFFICES ASSUME IInv, [Next]_vars PROVE [T!Next]_(T!vars)
    OBVIOUS
  <2>1. CASE Match
    <3>1. PICK c \in CreditorSet, d \in DebtorSet, amount \in Nat \ {0} :
           /\ c = creditors[creditor_idx] /\ d = debtors[debtor_idx] /\ c # d
           /\ amount <= remaining[c] /\ amount <= remaining[d]
           /\ amount = remaining[c] \/ amount = remaining[d]
           /\ plan' = Append(plan, SettlementEntry(d, c, amount))
           /\ remaining' \in [Users -> Nat]
           /\ \A u \in Users : remaining'[u] = IF u \in {c, d} THEN remaining[u] - amount
                                                               ELSE remaining[u]
           /\ creditor_idx' = IF amount = remaining[c] THEN creditor_idx + 1 ELSE creditor_idx
           /\ debtor_idx' = IF amount = remaining[d] THEN debtor_idx + 1 ELSE debtor_idx
      BY <2>1, MatchStep
    <3>2. balances' = balances /\ balances \in [Users -> Int] /\ remaining \in [Users -> Nat]
      BY <2>1 DEF IInv, TypeOK, Match
    <3>3. c \in Users /\ balances[c] > 0 /\ d \in Users /\ balances[d] < 0
      BY DEF CreditorSet, DebtorSet
    <3>4. remaining[c] \in Nat /\ remaining[d] \in Nat /\ balances[c] \in Int /\ balances[d] \in Int
      BY <3>2, <3>3
    <3>5. Due[c] = remaining[c] /\ Due[d] = -remaining[d]
      BY <3>3, <3>4 DEF Due
    <3>6. Due' = [Due EXCEPT ![d] = @ + amount, ![c] = @ - amount]
      <4>1. Due' = [u \in Users |-> IF balances[u] < 0 THEN -remaining'[u] ELSE remaining'[u]]
        BY <3>2 DEF Due
      <4>2. ASSUME NEW u \in Users
            PROVE  (IF balances[u] < 0 THEN -remaining'[u] ELSE remaining'[u])
                     = [Due EXCEPT ![d] = @ + amount, ![c] = @ - amount][u]
        <5>1. remaining[u] \in Nat
          BY <3>2
        <5>2. CASE u = c
          <6>1. remaining'[c] = remaining[c] - amount
            BY <3>1, <3>3
          <6>2. QED
            BY <3>1, <3>3, <3>4, <3>5, <5>2, <6>1 DEF Due
        <5>3. CASE u = d
          <6>1. remaining'[d] = remaining[d] - amount
            BY <3>1, <3>3
          <6>2. QED
            BY <3>1, <3>3, <3>4, <3>5, <5>3, <6>1 DEF Due
        <5>4. CASE u # c /\ u # d
          BY <3>1, <5>4 DEF Due
        <5>5. QED
          BY <5>2, <5>3, <5>4
      <4>3. QED
        BY <4>1, <4>2 DEF Due
    <3>7. T!Transfer(d, c, amount)
      <4>1. d \in T!Owing /\ c \in T!Owed
        <5>1. Due[d] < 0 /\ Due[c] > 0
          BY <3>1, <3>4, <3>5
        <5>2. QED
          BY <3>3, <5>1 DEF T!Owing, T!Owed
      <4>2. /\ amount <= -Due[d] /\ amount <= Due[c]
            /\ amount = -Due[d] \/ amount = Due[c]
        BY <3>1, <3>4, <3>5
      <4>3. plan' = Append(plan, [payer_id |-> d, payee_id |-> c, amount |-> amount])
        BY <3>1 DEF SettlementEntry
      <4>4. QED
        BY <3>6, <4>1, <4>2, <4>3 DEF T!Transfer
    <3>8. amount \in T!Clearing(d, c)
      BY <3>1, <3>4, <3>5 DEF T!Clearing
    <3>9. QED
      BY <3>3, <3>7, <3>8 DEF T!Next
  <2>2. CASE SortBalances \/ Finish \/ Terminated \/ UNCHANGED vars
    BY <2>2 DEF SortBalances, Finish, Terminated, vars, T!vars, Due
  <2>3. QED
    BY <2>1, <2>2 DEF Next
<1>3. QED
  BY <1>1, <1>2, Invariant, PTL DEF Spec, T!SafeSpec

-----------------------------------------------------------------------------
(* Where the cents are *)

\* what one more transfer makes of a user's net
NetAfter(u, net, entry) ==
  CASE entry.payee_id = u -> net + entry.amount
    [] entry.payer_id = u -> net - entry.amount
    [] OTHER -> net

\* g[s] is the net of a user after the transfers with an index in s
NetsOver(g, u, transfers) ==
  \A s \in SUBSET (1..Len(transfers)) :
    /\ g[s] \in Int
    /\ g[s] = IF s = {} THEN 0 ELSE NetAfter(u, g[s \ {Max(s)}], transfers[Max(s)])

\* The net amount of a list is a fold over its positions.
LEMMA NetIsFold ==
  ASSUME NEW u, NEW transfers \in Seq(Entries)
  PROVE  \E g : NetsOver(g, u, transfers) /\ NetOf(u, transfers) = g[1..Len(transfers)]
<1> DEFINE
      S == 1..Len(transfers)
      pick == Largest(S)
      step == [s \in SUBSET S |->
                 [net \in Int |-> IF s = {} THEN 0 ELSE NetAfter(u, net, transfers[pick[s]])]]
      Recurs(g) ==
        g = [s \in SUBSET S |->
               IF s = {} THEN 0 ELSE NetAfter(u, g[s \ {Max(s)}], transfers[Max(s)])]
      nets == CHOOSE g : Recurs(g)
<1>1. NetOf(u, transfers) = nets[S]
  <2>1. DOMAIN transfers = S
    OBVIOUS
  <2>2. QED
    BY <2>1 DEF NetOf, NetAfter, FoldLeft, MapThenFoldSet
<1>2. IsFiniteSet(S) /\ S \subseteq Int
  BY FS_Interval
<1>3. Picks(pick, S)
  BY <1>2, MaxPicks
<1>4. \A s \in SUBSET S : s # {} => transfers[pick[s]] \in Entries
  <2>1. \A i \in S : transfers[i] \in Entries
    OBVIOUS
  <2> HIDE DEF pick
  <2>2. QED
    BY <1>3, <2>1 DEF Picks
<1>5. ASSUME NEW entry \in Entries, NEW net \in Int PROVE NetAfter(u, net, entry) \in Int
  BY DEF NetAfter, Entries
<1>6. step \in [SUBSET S -> [Int -> Int]]
  <2>1. ASSUME NEW s \in SUBSET S, NEW net \in Int
        PROVE  (IF s = {} THEN 0 ELSE NetAfter(u, net, transfers[pick[s]])) \in Int
    <3> HIDE DEF S, pick
    <3>1. CASE s = {}
      BY <3>1
    <3>2. CASE s # {}
      <4>1. transfers[pick[s]] \in Entries
        BY <1>4, <3>2
      <4>2. NetAfter(u, net, transfers[pick[s]]) \in Int
        BY <1>5, <4>1
      <4>3. QED
        BY <3>2, <4>2
    <3>3. QED
      BY <3>1, <3>2
  <2>2. QED
    BY <2>1, Zenon
<1>7. PICK h \in [SUBSET S -> Int] : FoldsBy(h, S, 0, step, pick)
  <2> HIDE DEF step, pick, S
  <2>1. 0 \in Int
    OBVIOUS
  <2>2. \E h \in [SUBSET S -> Int] : FoldsBy(h, S, 0, step, pick)
    BY <1>2, <1>3, <1>6, <2>1, FoldExists, Zenon
  <2>3. QED
    BY <2>2
<1>8. \A s \in SUBSET S : h[s] = IF s = {} THEN 0 ELSE NetAfter(u, h[s \ {Max(s)}], transfers[Max(s)])
  BY <1>7 DEF FoldsBy, Largest
<1>9. Recurs(h)
  BY <1>8
<1>10. Recurs(nets)
  BY <1>9
<1> HIDE DEF nets
<1>11. \A s \in SUBSET S : nets[s] = IF s = {} THEN 0 ELSE NetAfter(u, nets[s \ {Max(s)}], transfers[Max(s)])
  BY <1>10
<1> DEFINE Good == {s \in SUBSET S : nets[s] \in Int}
<1>12. {} \in Good
  <2>1. nets[{}] = 0
    BY <1>11
  <2>2. QED
    BY <2>1
<1>13. ASSUME NEW s \in SUBSET S, s # {}, s \ {pick[s]} \in Good PROVE s \in Good
  <2>1. nets[s] = NetAfter(u, nets[s \ {pick[s]}], transfers[pick[s]])
    BY <1>11, <1>13 DEF Largest
  <2>a. transfers[pick[s]] \in Entries /\ nets[s \ {pick[s]}] \in Int
    BY <1>4, <1>13
  <2> HIDE DEF pick, S
  <2>b. NetAfter(u, nets[s \ {pick[s]}], transfers[pick[s]]) \in Int
    BY <1>5, <2>a
  <2>2. nets[s] \in Int
    BY <2>1, <2>b
  <2>3. QED
    BY <2>2
<1> HIDE DEF Good, pick
<1>14. SUBSET S \subseteq Good
  BY <1>2, <1>3, <1>12, <1>13, InductionByPicking
<1>15. \A s \in SUBSET S : nets[s] \in Int
  BY <1>14 DEF Good
<1> HIDE DEF S
<1>16. NetsOver(nets, u, transfers)
  BY <1>11, <1>15 DEF NetsOver, S
<1>17. QED
  BY <1>1, <1>16 DEF S

\* g[s] is the fold of the transfers with an index in s.
NetFold(g, u, transfers, S) ==
  \A s \in SUBSET S :
    g[s] = IF s = {} THEN 0 ELSE NetAfter(u, g[s \ {Max(s)}], transfers[Max(s)])

\* The nets of two lists of transfers that agree on the indices in S are equal.
LEMMA NetsAgree ==
  ASSUME NEW S, IsFiniteSet(S), Picks(Largest(S), S),
         NEW u, NEW a, NEW b, \A i \in S : a[i] = b[i],
         NEW g, NEW h, NetFold(g, u, a, S), NetFold(h, u, b, S)
  PROVE  g[S] = h[S]
<1> DEFINE pick == Largest(S)
<1>1. \A s \in SUBSET S : s # {} => Max(s) \in s
  BY DEF Picks, Largest
<1>2. Picks(pick, S)
  OBVIOUS
<1>3. g[{}] = h[{}]
  BY DEF NetFold
<1>4. ASSUME NEW s \in SUBSET S, s # {}, g[s \ {pick[s]}] = h[s \ {pick[s]}]
      PROVE  g[s] = h[s]
  <2>1. a[Max(s)] = b[Max(s)] /\ g[s \ {Max(s)}] = h[s \ {Max(s)}]
    BY <1>1, <1>4 DEF Largest
  <2>2. QED
    BY <1>4, <2>1 DEF NetFold
<1> HIDE DEF pick
<1>5. StepAlike(g, h, S, pick)
  BY <1>3, <1>4 DEF StepAlike
<1>6. \A s \in SUBSET S : g[s] = h[s]
  BY <1>2, <1>5, FoldsAgree
<1>7. QED
  BY <1>6

\* NetReceived is the fold of the plan: a new transfer counts once, for the
\* user it pays and against the user who pays it.
LEMMA NetOfAppend ==
  ASSUME NEW u, NEW transfers \in Seq(Entries), NEW entry \in Entries
  PROVE  /\ NetOf(u, transfers) \in Int
         /\ NetOf(u, Append(transfers, entry)) = NetAfter(u, NetOf(u, transfers), entry)
<1> DEFINE n == Len(transfers)
           longer == Append(transfers, entry)
           S == 1..n
<1>1. n \in Nat /\ longer \in Seq(Entries) /\ Len(longer) = n + 1
  OBVIOUS
<1>2. \A i \in S : longer[i] = transfers[i]
  OBVIOUS
<1>3. longer[n + 1] = entry
  OBVIOUS
<1>4. PICK g : NetsOver(g, u, transfers) /\ NetOf(u, transfers) = g[S]
  BY NetIsFold
<1>5. PICK h : NetsOver(h, u, longer) /\ NetOf(u, longer) = h[1..(n + 1)]
  BY <1>1, NetIsFold
<1>6. IsFiniteSet(S) /\ Picks(Largest(S), S)
  <2>1. IsFiniteSet(S) /\ S \subseteq Int
    BY <1>1, FS_Interval
  <2>2. QED
    BY <2>1, MaxPicks
<1>8. NetFold(g, u, transfers, S)
  BY <1>4 DEF NetsOver, NetFold
<1>9. NetFold(h, u, longer, 1..(n + 1))
  BY <1>1, <1>5 DEF NetsOver, NetFold
<1>10. S \subseteq 1..(n + 1)
  BY <1>1
<1>15. h[S] = g[S]
  <2> HIDE DEF S, longer
  <2>1. NetFold(h, u, longer, S)
    BY <1>9, <1>10 DEF NetFold
  <2>2. QED
    BY <1>2, <1>6, <1>8, <2>1, NetsAgree
<1> HIDE DEF longer, S
<1>16. Max(1..(n + 1)) = n + 1 /\ (1..(n + 1)) \ {n + 1} = S
  <2>1. IsFiniteSet(1..(n + 1)) /\ 1..(n + 1) \subseteq Int /\ n + 1 \in 1..(n + 1)
    BY <1>1, FS_Interval
  <2>2. Max(1..(n + 1)) \in 1..(n + 1) /\ n + 1 <= Max(1..(n + 1))
    BY <2>1, MaxOfNumbers
  <2>3. Max(1..(n + 1)) = n + 1
    BY <1>1, <2>2
  <2>4. (1..(n + 1)) \ {n + 1} = 1..n
    BY <1>1
  <2>5. QED
    BY <2>3, <2>4 DEF S
<1>17. h[1..(n + 1)] = NetAfter(u, h[S], entry)
  <2>1. 1 \in 1..(n + 1)
    <3>1. n \in Nat
      BY <1>1
    <3>2. QED
      BY <3>1
  <2>2. QED
    BY <1>3, <1>9, <1>16, <2>1 DEF NetFold
<1>18. g[S] \in Int
  BY <1>4 DEF NetsOver, S, n
<1>19. QED
  BY <1>4, <1>5, <1>15, <1>17, <1>18 DEF longer

\* The net of a list of transfers is a number.
LEMMA NetOfType == \A u : \A transfers \in Seq(Entries) : NetOf(u, transfers) \in Int
<1>1. ASSUME NEW u, NEW transfers \in Seq(Entries) PROVE NetOf(u, transfers) \in Int
  <2>1. PICK g : NetsOver(g, u, transfers) /\ NetOf(u, transfers) = g[1..Len(transfers)]
    BY NetIsFold
  <2>2. QED
    BY <2>1 DEF NetsOver
<1>2. QED
  BY <1>1

\* An empty plan gives nobody anything.
LEMMA NetOfEmpty == \A u : NetOf(u, << >>) = 0
<1>1. ASSUME NEW u PROVE NetOf(u, << >>) = 0
  <2>1. << >> \in Seq(Entries) /\ 1..Len(<< >>) = {}
    OBVIOUS
  <2>2. PICK g : NetsOver(g, u, << >>) /\ NetOf(u, << >>) = g[1..Len(<< >>)]
    BY <2>1, NetIsFold
  <2>3. QED
    BY <2>1, <2>2 DEF NetsOver
<1>2. QED
  BY <1>1

\* What holds of the cents between two steps: none is lost, nobody has more
\* cents left than at the start, and the signed amounts left over all users
\* still add up to what the balances added up to.
Accounted ==
  /\ NoCentLost
  /\ \A u \in Users : remaining[u] <= Magnitude(balances[u])
  /\ SumFunction(Due) = SumFunction(balances)

\* Before the first transfer all of it holds.
LEMMA InitAccounted == Init => Accounted
<1> SUFFICES ASSUME Init PROVE Accounted
  OBVIOUS
<1>1. balances \in [Users -> Int] /\ plan = << >>
  BY AmountsAssumption DEF Init
<1>2. \A u \in Users : remaining[u] = Magnitude(balances[u])
  BY DEF Init
<1>3. \A u \in Users : NetReceived(u) = 0
  <2>1. \A u \in Users : NetReceived(u) = NetOf(u, << >>)
    BY <1>1 DEF NetReceived
  <2>2. QED
    BY <2>1, NetOfEmpty
<1>4. NoCentLost
  <2>1. ASSUME NEW u \in Users
        PROVE  IF balances[u] >= 0 THEN NetReceived(u) + remaining[u] = balances[u]
                                   ELSE NetReceived(u) - remaining[u] = balances[u]
    <3>1. NetReceived(u) = 0 /\ remaining[u] = Magnitude(balances[u]) /\ balances[u] \in Int
      BY <1>1, <1>2, <1>3
    <3>2. QED
      BY <3>1 DEF Magnitude
  <2>2. QED
    BY <2>1 DEF NoCentLost
<1>5. \A u \in Users : remaining[u] <= Magnitude(balances[u])
  BY <1>1, <1>2 DEF Magnitude
<1>6. Due = balances
  <2>1. \A u \in Users : Due[u] = balances[u]
    BY <1>1, <1>2 DEF Due, Magnitude
  <2>2. QED
    BY <1>1, <2>1 DEF Due
<1>7. QED
  BY <1>4, <1>5, <1>6 DEF Accounted

\* An iteration moves its amount from the debtor's due to the creditor's.
LEMMA MatchMovesDue ==
  ASSUME IInv, Match, NEW c \in CreditorSet, NEW d \in DebtorSet, NEW amount \in Nat,
         c # d,
         \A u \in Users : remaining'[u] = IF u \in {c, d} THEN remaining[u] - amount
                                                          ELSE remaining[u]
  PROVE  /\ c \in Users /\ d \in Users
         /\ \A u \in Users : Due[u] \in Int /\ Due'[u] \in Int
         /\ Due'[c] = Due[c] - amount /\ Due'[d] = Due[d] + amount
         /\ \A u \in Users \ {c, d} : Due'[u] = Due[u]
<1>1. balances' = balances /\ balances \in [Users -> Int] /\ remaining \in [Users -> Nat]
  BY DEF IInv, TypeOK, Match
<1>2. c \in Users /\ d \in Users /\ balances[c] > 0 /\ balances[d] < 0
  BY DEF CreditorSet, DebtorSet
<1>3. \A u \in Users : /\ balances[u] \in Int /\ remaining[u] \in Nat /\ remaining'[u] \in Int
                       /\ Due[u] = IF balances[u] < 0 THEN -remaining[u] ELSE remaining[u]
                       /\ Due'[u] = IF balances[u] < 0 THEN -remaining'[u] ELSE remaining'[u]
  BY <1>1 DEF Due
<1>4. remaining'[c] = remaining[c] - amount /\ remaining'[d] = remaining[d] - amount
  BY <1>2
<1>5. Due'[c] = Due[c] - amount
  <2>1. balances[c] \in Int /\ ~(balances[c] < 0)
    BY <1>2, <1>3
  <2>2. Due[c] = remaining[c] /\ Due'[c] = remaining'[c]
    BY <1>2, <1>3, <2>1
  <2>3. QED
    BY <1>4, <2>2
<1>6. Due'[d] = Due[d] + amount
  <2>1. Due[d] = -remaining[d] /\ Due'[d] = -remaining'[d] /\ remaining[d] \in Nat
    BY <1>2, <1>3
  <2>2. QED
    BY <1>4, <2>1
<1>7. \A u \in Users : Due[u] \in Int /\ Due'[u] \in Int
  BY <1>3
<1>8. \A u \in Users \ {c, d} : Due'[u] = Due[u]
  BY <1>3
<1>9. QED
  BY <1>2, <1>5, <1>6, <1>7, <1>8

\* What one user gets, another gives: the dues still add up to the same.
LEMMA MatchKeepsTotal ==
  ASSUME IInv, Match, SumFunction(Due) = SumFunction(balances)
  PROVE  SumFunction(Due)' = SumFunction(balances)'
<1>1. PICK c \in CreditorSet, d \in DebtorSet, amount \in Nat \ {0} :
           /\ c # d
           /\ \A u \in Users : remaining'[u] = IF u \in {c, d} THEN remaining[u] - amount
                                                               ELSE remaining[u]
  BY MatchStep
<1>2. /\ c \in Users /\ d \in Users
      /\ \A u \in Users : Due[u] \in Int /\ Due'[u] \in Int
      /\ Due'[c] = Due[c] - amount /\ Due'[d] = Due[d] + amount
      /\ \A u \in Users \ {c, d} : Due'[u] = Due[u]
  BY <1>1, MatchMovesDue
<1> DEFINE old == Due
           new == Due'
<1>3. /\ \A u \in Users : old[u] \in Int /\ new[u] \in Int
      /\ new[c] = old[c] - amount /\ new[d] = old[d] + amount
      /\ \A u \in Users \ {c, d} : new[u] = old[u]
  BY <1>2
<1>4. DOMAIN old = Users /\ DOMAIN new = Users
  BY DEF Due
<1> HIDE DEF old, new
<1>5. IsFiniteSet(Users)
  BY UsersAssumption
<1>6. SumFunctionOnSet(new, Users) = SumFunctionOnSet(old, Users)
  <2>1. Transferred(old, new, Users, c, d, amount)
    BY <1>1, <1>2, <1>3 DEF Transferred
  <2>2. QED
    BY <1>5, <2>1, SumKeptByTransfer
<1>7. SumFunction(new) = SumFunction(old)
  BY <1>4, <1>6 DEF SumFunction
<1>8. SumFunction(Due)' = SumFunction(Due) /\ balances' = balances
  BY <1>7 DEF old, new, Match
<1>9. QED
  BY <1>8

\* Each iteration moves for a user exactly what it takes off the user's amount.
LEMMA MatchLosesNoCent ==
  ASSUME IInv, Match, NoCentLost
  PROVE  NoCentLost'
<1>1. PICK c \in CreditorSet, d \in DebtorSet, amount \in Nat \ {0} :
           /\ c # d
           /\ plan' = Append(plan, SettlementEntry(d, c, amount))
           /\ \A u \in Users : remaining'[u] = IF u \in {c, d} THEN remaining[u] - amount
                                                               ELSE remaining[u]
  BY MatchStep
<1>2. balances' = balances /\ balances \in [Users -> Int] /\ remaining \in [Users -> Nat]
  BY DEF IInv, TypeOK, Match
<1>3. c \in Users /\ d \in Users /\ balances[c] > 0 /\ balances[d] < 0
  BY DEF CreditorSet, DebtorSet
<1>4. plan \in Seq(Entries) /\ SettlementEntry(d, c, amount) \in Entries
  BY <1>3 DEF IInv, TypeOK, SettlementEntry, Entries
<1>5. ASSUME NEW u \in Users
      PROVE  IF balances[u] >= 0 THEN NetReceived(u)' + remaining'[u] = balances[u]
                                 ELSE NetReceived(u)' - remaining'[u] = balances[u]
  <2> DEFINE net == NetOf(u, plan)
             net2 == NetOf(u, plan')
  <2>1. NetReceived(u) = net /\ NetReceived(u)' = net2
    BY DEF NetReceived
  <2>2. net \in Int /\ net2 = NetAfter(u, net, SettlementEntry(d, c, amount))
    BY <1>1, <1>4, NetOfAppend
  <2>3. IF balances[u] >= 0 THEN net + remaining[u] = balances[u]
                            ELSE net - remaining[u] = balances[u]
    BY <2>1 DEF NoCentLost
  <2> HIDE DEF net, net2
  <2>4. net2 = IF u = c THEN net + amount ELSE IF u = d THEN net - amount ELSE net
    <3> DEFINE entry == SettlementEntry(d, c, amount)
    <3>1. entry.payee_id = c /\ entry.payer_id = d /\ entry.amount = amount
      BY DEF SettlementEntry
    <3> HIDE DEF entry
    <3>2. NetAfter(u, net, entry) = CASE c = u -> net + amount
                                      [] d = u -> net - amount
                                      [] OTHER -> net
      BY <3>1 DEF NetAfter
    <3>3. QED
      BY <1>1, <2>2, <3>2 DEF entry
  <2>5. remaining'[u] = IF u \in {c, d} THEN remaining[u] - amount ELSE remaining[u]
    BY <1>1
  <2>6. balances[u] \in Int /\ remaining[u] \in Nat /\ amount \in Nat
    BY <1>2
  <2>7. CASE u = c
    <3>1. net2 = net + amount /\ remaining'[u] = remaining[u] - amount /\ balances[u] > 0
      BY <1>3, <2>4, <2>5, <2>7
    <3>2. QED
      BY <2>1, <2>2, <2>3, <2>6, <3>1
  <2>8. CASE u = d
    <3>1. net2 = net - amount /\ remaining'[u] = remaining[u] - amount /\ balances[u] < 0
      BY <1>1, <1>3, <2>4, <2>5, <2>8
    <3>2. QED
      BY <2>1, <2>2, <2>3, <2>6, <3>1
  <2>9. CASE u # c /\ u # d
    <3>1. net2 = net /\ remaining'[u] = remaining[u]
      BY <2>4, <2>5, <2>9
    <3>2. QED
      BY <2>1, <2>3, <3>1
  <2>10. QED
    BY <2>7, <2>8, <2>9
<1>6. QED
  BY <1>2, <1>5 DEF NoCentLost

\* Every step keeps the account.
LEMMA AccountKept == IInv /\ Accounted /\ [Next]_vars => Accounted'
<1> SUFFICES ASSUME IInv, Accounted, [Next]_vars PROVE Accounted'
  OBVIOUS
<1>1. CASE Match
  <2>1. NoCentLost' /\ SumFunction(Due)' = SumFunction(balances)'
    BY <1>1, MatchLosesNoCent, MatchKeepsTotal DEF Accounted
  <2>2. \A u \in Users : remaining'[u] <= Magnitude(balances'[u])
    <3>1. PICK c \in CreditorSet, d \in DebtorSet, amount \in Nat \ {0} :
           \A u \in Users : remaining'[u] = IF u \in {c, d} THEN remaining[u] - amount
                                                            ELSE remaining[u]
      BY <1>1, MatchStep
    <3>2. balances' = balances
      BY <1>1 DEF Match
    <3>3. ASSUME NEW u \in Users PROVE remaining'[u] <= Magnitude(balances[u])
      <4>1. remaining[u] \in Nat /\ balances[u] \in Int /\ remaining[u] <= Magnitude(balances[u])
        BY DEF IInv, TypeOK, Accounted
      <4>2. remaining'[u] \in Int /\ remaining'[u] <= remaining[u]
        BY <3>1, <4>1
      <4>3. QED
        BY <4>1, <4>2 DEF Magnitude
    <3>4. QED
      BY <3>2, <3>3
  <2>3. QED
    BY <2>1, <2>2 DEF Accounted
<1>2. CASE SortBalances \/ Finish \/ Terminated \/ UNCHANGED vars
  <2>1. UNCHANGED << balances, remaining, plan >>
    BY <1>2 DEF SortBalances, Finish, Terminated, vars
  <2>2. Due' = Due
    BY <2>1 DEF Due
  <2>3. NoCentLost'
    BY <2>1 DEF Accounted, NoCentLost, NetReceived
  <2>4. QED
    BY <2>1, <2>2, <2>3 DEF Accounted
<1>3. QED
  BY <1>1, <1>2 DEF Next

\* Nobody's cents are lost, doubled or moved in the wrong direction, at any
\* point of the loop and for every list of balances.
THEOREM LosesNoCent == Spec => []NoCentLost
<1>1. Accounted => NoCentLost
  BY DEF Accounted
<1>2. QED
  BY <1>1, InitAccounted, AccountKept, Invariant, PTL DEF Spec

\* When the loop ends, the amounts left are all on the same side, so that they
\* add up to what the balances add up to, in magnitude.
LEMMA DoneLeavesImbalance == IInv /\ Accounted => LeftoverIsImbalance
<1> SUFFICES ASSUME IInv, Accounted, pc = "done"
             PROVE  SumFunction(remaining) = Magnitude(SumFunction(balances))
  BY DEF LeftoverIsImbalance
<1>1. /\ IsFiniteSet(Users) /\ DOMAIN remaining = Users /\ DOMAIN Due = Users
      /\ balances \in [Users -> Int] /\ remaining \in [Users -> Nat]
  BY UsersAssumption DEF IInv, TypeOK, Due
<1> DEFINE left == SumFunctionOnSet(remaining, Users)
           due == SumFunctionOnSet(Due, Users)
<1>2. left = SumFunction(remaining) /\ due = SumFunction(balances)
  BY <1>1 DEF SumFunction, Accounted
<1>3. \A u \in Users : /\ balances[u] \in Int /\ remaining[u] \in Int /\ remaining[u] >= 0
                       /\ Due[u] = IF balances[u] < 0 THEN -remaining[u] ELSE remaining[u]
  BY <1>1 DEF Due
<1>4. \A u \in Users : balances[u] = 0 => remaining[u] = 0
  <2>1. \A u \in Users : remaining[u] <= Magnitude(balances[u])
    BY DEF Accounted
  <2>2. QED
    BY <1>3, <2>1 DEF Magnitude
<1>5. left \in Int /\ left >= 0
  BY <1>1, <1>3, SumType
<1>6. due = left \/ due = -left
  <2>1. CASE \A u \in CreditorSet : remaining[u] = 0
    <3>1. Negated(remaining, Due, Users)
      BY <1>3, <1>4, <2>1 DEF CreditorSet, Negated
    <3>2. QED
      BY <1>1, <3>1, SumNegated
  <2>2. CASE \A u \in DebtorSet : remaining[u] = 0
    <3>1. \A u \in Users : remaining[u] \in Int /\ Due[u] = remaining[u]
      BY <1>3, <2>2 DEF DebtorSet
    <3>2. QED
      BY <1>1, <3>1, SumOfEqual
  <2>3. QED
    BY <2>1, <2>2, DoneSettlesOneSide DEF OneSideSettled
<1> HIDE DEF left, due
<1>7. left = Magnitude(due)
  BY <1>5, <1>6 DEF Magnitude
<1>8. QED
  BY <1>2, <1>7

\* What is left when the loop ends is exactly the imbalance of the period.
THEOREM LeavesTheImbalance == Spec => []LeftoverIsImbalance
BY DoneLeavesImbalance, InitAccounted, AccountKept, Invariant, PTL DEF Spec

\* The docstring's "settle all balances", for balances that add up to zero:
\* the finished plan gives every user exactly the user's balance.
SettlesEveryBalance ==
  pc = "done" /\ SumFunction(balances) = 0 => \A u \in Users : NetReceived(u) = balances[u]

\* For balances that add up to nothing, as those of a period without rounding
\* residue do, the finished plan gives every user exactly the balance.
THEOREM SettlesZeroSums == Spec => []SettlesEveryBalance
<1>1. IInv /\ Accounted => SettlesEveryBalance
  <2> SUFFICES ASSUME IInv, Accounted, pc = "done", SumFunction(balances) = 0, NEW u \in Users
               PROVE  NetReceived(u) = balances[u]
    BY DEF SettlesEveryBalance
  <2>1. /\ IsFiniteSet(Users) /\ DOMAIN remaining = Users
        /\ balances \in [Users -> Int] /\ remaining \in [Users -> Nat]
    BY UsersAssumption DEF IInv, TypeOK
  <2> DEFINE left(S) == SumFunctionOnSet(remaining, S)
  <2>2. left(Users) = 0
    <3>1. SumFunction(remaining) = 0
      BY DoneLeavesImbalance DEF LeftoverIsImbalance, Magnitude
    <3>2. QED
      BY <2>1, <3>1 DEF SumFunction
  <2>3. \A v \in Users : remaining[v] \in Int /\ remaining[v] >= 0
    BY <2>1
  <2>4. left(Users) = remaining[u] + left(Users \ {u})
    BY <2>1, <2>3, SumTakeOut
  <2>5. left(Users \ {u}) \in Int /\ left(Users \ {u}) >= 0
    <3>1. IsFiniteSet(Users \ {u})
      BY <2>1, FS_RemoveElement
    <3>2. QED
      BY <2>3, <3>1, SumType
  <2> HIDE DEF left
  <2>6. remaining[u] = 0
    BY <2>2, <2>3, <2>4, <2>5
  <2>7. NetReceived(u) \in Int /\ balances[u] \in Int
    BY <2>1, NetOfType DEF NetReceived, IInv, TypeOK
  <2>8. QED
    BY <2>6, <2>7 DEF Accounted, NoCentLost
<1>2. QED
  BY <1>1, InitAccounted, AccountKept, Invariant, PTL DEF Spec

-----------------------------------------------------------------------------
(* The reference plan *)

Size(u) == Magnitude(balances[u])

\* The list is in the order of the sizes, ties by position.
Ordered(list) == \A i, j \in 1..Len(list) : i < j => RanksAbove(list[i], list[j])

\* the users of a list before the index i
Before(list, i) == {list[k] : k \in 1..(i - 1)}

\* RanksAbove is a strict order of the users.
LEMMA RankOrder ==
  ASSUME balances \in [Users -> Int]
  PROVE  /\ \A u \in Users : ~RanksAbove(u, u)
         /\ \A u, v \in Users : RanksAbove(u, v) => ~RanksAbove(v, u)
<1>1. \A u \in Users : u \in Nat /\ Size(u) \in Nat
  BY UsersAssumption DEF Size, Magnitude
<1>2. \A u, v \in Users : RanksAbove(u, v) <=> \/ Size(u) > Size(v)
                                               \/ Size(u) = Size(v) /\ u < v
  BY DEF RanksAbove, Size
<1>3. QED
  BY <1>1, <1>2

\* In a sorted list of a side, the users who rank above an entry are the
\* entries before it.
LEMMA RankedBefore ==
  ASSUME balances \in [Users -> Int], NEW side \in SUBSET Users, NEW list \in Seq(side),
         Lists(list, side), Ordered(list), NEW i \in 1..Len(list)
  PROVE  {v \in side : RanksAbove(v, list[i])} = Before(list, i)
<1>1. \A k \in 1..Len(list) : list[k] \in side /\ list[k] \in Users
  BY DEF Lists
<1>2. ASSUME NEW k \in 1..Len(list) PROVE RanksAbove(list[k], list[i]) <=> k < i
  <2>1. CASE k < i
    BY <2>1 DEF Ordered
  <2>2. CASE k = i
    BY <1>1, <2>2, RankOrder
  <2>3. CASE k > i
    <3>1. RanksAbove(list[i], list[k])
      BY <2>3 DEF Ordered
    <3>2. QED
      BY <1>1, <2>3, <3>1, RankOrder
  <2>4. QED
    BY <2>1, <2>2, <2>3
<1>3. ASSUME NEW v \in side, RanksAbove(v, list[i]) PROVE v \in Before(list, i)
  <2>1. PICK k \in 1..Len(list) : list[k] = v
    BY DEF Lists
  <2>2. k \in 1..(i - 1)
    BY <1>2, <1>3, <2>1
  <2>3. QED
    BY <2>1, <2>2 DEF Before
<1>4. ASSUME NEW v \in Before(list, i) PROVE v \in side /\ RanksAbove(v, list[i])
  <2>1. PICK k \in 1..(i - 1) : v = list[k]
    BY DEF Before
  <2>2. k \in 1..Len(list) /\ k < i
    OBVIOUS
  <2>3. QED
    BY <1>1, <1>2, <2>1, <2>2
<1>5. QED
  BY <1>3, <1>4

\* The segments of a side lie end to end in the order of its list.
LEMMA SegmentsAbut ==
  ASSUME balances \in [Users -> Int], NEW side \in SUBSET Users, NEW list \in Seq(side),
         Lists(list, side), Ordered(list)
  PROVE  /\ \A i \in 1..Len(list) : SegmentStart(side, list[i]) \in Nat
         /\ 1 <= Len(list) => SegmentStart(side, list[1]) = 0
         /\ \A i \in 1..Len(list) : i + 1 <= Len(list) =>
              SegmentStart(side, list[i + 1]) = SegmentStart(side, list[i]) + Size(list[i])
         /\ \A i, j \in 1..Len(list) : i < j =>
              SegmentStart(side, list[i]) + Size(list[i]) <= SegmentStart(side, list[j])
<1> DEFINE w == [v \in side |-> Magnitude(balances[v])]
           start(i) == SumFunctionOnSet(w, Before(list, i))
<1>1. \A i \in 1..Len(list) : list[i] \in side
  BY DEF Lists
<1>2. \A v \in side : w[v] \in Int /\ w[v] >= 0 /\ w[v] = Size(v)
  BY DEF Magnitude, Size
<1>3. \A i \in 1..Len(list) : SegmentStart(side, list[i]) = start(i)
  BY RankedBefore DEF SegmentStart
<1> HIDE DEF w
<1>4. IsFiniteSet(side)
  BY UsersAssumption, FS_Subset
<1>5. \A i \in 1..(Len(list) + 1) : Before(list, i) \in SUBSET side /\ IsFiniteSet(Before(list, i))
  <2>1. \A i \in 1..(Len(list) + 1) : Before(list, i) \in SUBSET side
    BY <1>1 DEF Before
  <2>2. QED
    BY <1>4, <2>1, FS_Subset
<1>6. \A i \in 1..(Len(list) + 1) : start(i) \in Int /\ start(i) >= 0
  <2>1. ASSUME NEW i \in 1..(Len(list) + 1) PROVE start(i) \in Int /\ start(i) >= 0
    <3> DEFINE B == Before(list, i)
    <3>1. IsFiniteSet(B) /\ \A v \in B : w[v] \in Int /\ w[v] >= 0
      BY <1>2, <1>5
    <3> HIDE DEF B
    <3>2. SumFunctionOnSet(w, B) \in Int /\ SumFunctionOnSet(w, B) >= 0
      BY <3>1, SumType
    <3>3. QED
      BY <3>2 DEF B
  <2>2. QED
    BY <2>1
<1>7. ASSUME NEW i \in 1..Len(list) PROVE start(i + 1) = start(i) + Size(list[i])
  <2> DEFINE B == Before(list, i + 1)
             x == list[i]
  <2>1. IsFiniteSet(B) /\ (\A v \in B : w[v] \in Int) /\ i + 1 \in 1..(Len(list) + 1)
    <3>1. i + 1 \in 1..(Len(list) + 1)
      OBVIOUS
    <3>2. QED
      BY <1>2, <1>5, <3>1
  <2>2. x \in B
    BY DEF Before
  <2>3. B \ {x} = Before(list, i)
    <3>1. \A k \in 1..i : list[k] = x => k = i
      BY DEF Lists
    <3>2. (i + 1) - 1 = i
      OBVIOUS
    <3>3. B = {list[k] : k \in 1..i}
      BY <3>2 DEF Before
    <3>4. \A k \in 1..i : k # i <=> k \in 1..(i - 1)
      OBVIOUS
    <3>5. QED
      BY <3>1, <3>3, <3>4 DEF Before
  <2> HIDE DEF B, x
  <2>4. SumFunctionOnSet(w, B) = w[x] + SumFunctionOnSet(w, B \ {x})
    BY <2>1, <2>2, SumTakeOut
  <2>5. w[x] \in Int /\ w[x] = Size(x)
    BY <1>1, <1>2 DEF x
  <2>6. start(i + 1) = Size(list[i]) + start(i)
    BY <2>3, <2>4, <2>5 DEF B, x
  <2>7. start(i) \in Int /\ Size(list[i]) \in Int
    BY <1>6, <2>5 DEF x
  <2> HIDE DEF start
  <2>8. QED
    BY <2>6, <2>7
<1>8. ASSUME NEW i \in 1..Len(list), NEW j \in 1..Len(list), i < j
      PROVE  start(i + 1) <= start(j)
  <2> DEFINE A == Before(list, i + 1)
             B == Before(list, j)
  <2>1. A \in SUBSET B
    BY <1>8 DEF Before
  <2>2. IsFiniteSet(B) /\ \A v \in B : w[v] \in Int /\ w[v] >= 0
    BY <1>2, <1>5
  <2> HIDE DEF A, B
  <2>3. SumFunctionOnSet(w, A) <= SumFunctionOnSet(w, B)
    BY <2>1, <2>2, SumGrows
  <2>4. QED
    BY <2>3 DEF A, B
<1>9. start(1) = 0
  <2>1. Before(list, 1) = {}
    BY DEF Before
  <2>2. IsFiniteSet({}) /\ \A v \in {} : w[v] \in Int
    BY FS_EmptySet
  <2>3. SumFunctionOnSet(w, {}) = 0
    BY <2>2, SumEquation
  <2>4. QED
    BY <2>1, <2>3
<1> HIDE DEF start
<1>10. \A i \in 1..Len(list) : SegmentStart(side, list[i]) \in Nat
  BY <1>3, <1>6
<1>11. 1 <= Len(list) => SegmentStart(side, list[1]) = 0
  BY <1>3, <1>9
<1>12. \A i \in 1..Len(list) : i + 1 <= Len(list) =>
         SegmentStart(side, list[i + 1]) = SegmentStart(side, list[i]) + Size(list[i])
  BY <1>3, <1>7
<1>13. \A i, j \in 1..Len(list) : i < j =>
         SegmentStart(side, list[i]) + Size(list[i]) <= SegmentStart(side, list[j])
  BY <1>3, <1>7, <1>8
<1>14. QED
  BY <1>10, <1>11, <1>12, <1>13

\* Where a creditor's and a debtor's segment start, and how much of them the
\* loop has matched already.
CreditStart(u) == SegmentStart(CreditorSet, u)
DebtStart(u) == SegmentStart(DebtorSet, u)
Matched(u) == Size(u) - remaining[u]

\* The overlap of two segments, given where they start and end.
Shared(credit, credit_end, debt, debt_end) ==
  (IF credit_end <= debt_end THEN credit_end ELSE debt_end)
    - (IF credit <= debt THEN debt ELSE credit)

\* The reference's overlap of a debtor and a creditor, by their segments.
LEMMA OverlapIs ==
  ASSUME balances \in [Users -> Int], NEW c \in CreditorSet, NEW d \in DebtorSet,
         CreditStart(c) \in Nat, DebtStart(d) \in Nat
  PROVE  Overlap(d, c) = Shared(CreditStart(c), CreditStart(c) + Size(c),
                                DebtStart(d), DebtStart(d) + Size(d))
<1>1. /\ CreditorSet = {u \in Users : balances[u] > 0}
      /\ DebtorSet = {u \in Users : balances[u] < 0}
  BY DEF CreditorSet, DebtorSet
<1>2. balances[c] \in Int /\ balances[d] \in Int /\ balances[c] > 0 /\ balances[d] < 0
  BY DEF CreditorSet, DebtorSet
<1>3. Size(c) = balances[c] /\ Size(d) = -balances[d]
  BY <1>2 DEF Size, Magnitude
<1> DEFINE cs == CreditStart(c)
           ds == DebtStart(d)
<1>4. ds - balances[d] = ds + Size(d)
  BY <1>2, <1>3
<1>5. Overlap(d, c) = (IF cs + balances[c] <= ds - balances[d] THEN cs + balances[c]
                                                            ELSE ds - balances[d])
                        - (IF cs <= ds THEN ds ELSE cs)
  BY <1>1 DEF Overlap, CreditStart, DebtStart
<1>6. QED
  BY <1>3, <1>4, <1>5 DEF Shared

\* The reference plan depends on the balances only.
LEMMA ReferenceKept ==
  ASSUME balances' = balances
  PROVE  /\ CreditorSet' = CreditorSet /\ DebtorSet' = DebtorSet
         /\ \A u, v : RanksAbove(u, v)' = RanksAbove(u, v)
         /\ \A u : Size(u)' = Size(u)
         /\ \A u : CreditStart(u)' = CreditStart(u) /\ DebtStart(u)' = DebtStart(u)
         /\ \A c, d : Overlap(d, c)' = Overlap(d, c)
<1>1. CreditorSet' = CreditorSet /\ DebtorSet' = DebtorSet
  BY DEF CreditorSet, DebtorSet
<1>2. \A u, v : RanksAbove(u, v)' = RanksAbove(u, v)
  BY DEF RanksAbove, Magnitude
<1>3. \A u : Size(u)' = Size(u)
  BY DEF Size, Magnitude
<1>4. \A u : CreditStart(u)' = CreditStart(u) /\ DebtStart(u)' = DebtStart(u)
  BY DEF CreditStart, DebtStart, SegmentStart, RanksAbove, Magnitude, CreditorSet, DebtorSet
<1>5. \A c, d : Overlap(d, c)' = Overlap(d, c)
  BY DEF Overlap, SegmentStart, RanksAbove, Magnitude
<1>6. QED
  BY <1>1, <1>2, <1>3, <1>4, <1>5

\* The users behind a cursor's have not been matched.
Untouched(list, idx) == \A i \in 1..Len(list) : i > idx => remaining[list[i]] = Size(list[i])

\* The loop is at the same point of both lines, and the segment of one of the
\* two users at the cursors starts there.
Aligned(c, d) ==
  /\ CreditStart(c) + Matched(c) = DebtStart(d) + Matched(d)
  /\ Matched(c) = 0 \/ Matched(d) = 0

\* the pairs of a creditor and a debtor that the loop will not match any more
Passed(i, j) == i < creditor_idx \/ j < debtor_idx
OverlapOf(i, j) == Overlap(debtors[j], creditors[i])
EntryOf(i, j) == SettlementEntry(debtors[j], creditors[i], OverlapOf(i, j))

\* The plan has the reference's transfers of the passed pairs, each once.
PlanSoFar ==
  /\ \A k \in 1..Len(plan) : \E i \in 1..Len(creditors), j \in 1..Len(debtors) :
       Passed(i, j) /\ OverlapOf(i, j) > 0 /\ plan[k] = EntryOf(i, j)
  /\ \A i \in 1..Len(creditors), j \in 1..Len(debtors) :
       Passed(i, j) /\ OverlapOf(i, j) > 0 => \E k \in 1..Len(plan) : plan[k] = EntryOf(i, j)
  /\ \A k, l \in 1..Len(plan) : plan[k] = plan[l] => k = l

\* What relates the loop to the reference.
Follows ==
  /\ pc # "sort" => Ordered(creditors) /\ Ordered(debtors)
  /\ Untouched(creditors, creditor_idx) /\ Untouched(debtors, debtor_idx)
  /\ pc # "sort" /\ MoreToMatch => Aligned(creditors[creditor_idx], debtors[debtor_idx])
  /\ PlanSoFar

\* Where the segments of the two lists lie.
LEMMA Segments ==
  ASSUME TypeOK, Lists(creditors, CreditorSet), Lists(debtors, DebtorSet),
         Ordered(creditors), Ordered(debtors)
  PROVE  /\ \A i \in 1..Len(creditors) :
              /\ creditors[i] \in CreditorSet
              /\ CreditStart(creditors[i]) \in Nat /\ Size(creditors[i]) \in Nat
         /\ \A i \in 1..Len(debtors) :
              /\ debtors[i] \in DebtorSet
              /\ DebtStart(debtors[i]) \in Nat /\ Size(debtors[i]) \in Nat
         /\ 1 <= Len(creditors) => CreditStart(creditors[1]) = 0
         /\ 1 <= Len(debtors) => DebtStart(debtors[1]) = 0
         /\ \A i \in 1..Len(creditors) : i + 1 <= Len(creditors) =>
              CreditStart(creditors[i + 1]) = CreditStart(creditors[i]) + Size(creditors[i])
         /\ \A i \in 1..Len(debtors) : i + 1 <= Len(debtors) =>
              DebtStart(debtors[i + 1]) = DebtStart(debtors[i]) + Size(debtors[i])
         /\ \A i, j \in 1..Len(creditors) : i < j =>
              CreditStart(creditors[i]) + Size(creditors[i]) <= CreditStart(creditors[j])
         /\ \A i, j \in 1..Len(debtors) : i < j =>
              DebtStart(debtors[i]) + Size(debtors[i]) <= DebtStart(debtors[j])
<1>1. balances \in [Users -> Int] /\ CreditorSet \in SUBSET Users /\ DebtorSet \in SUBSET Users
  BY DEF TypeOK, CreditorSet, DebtorSet
<1>2. \A i \in 1..Len(creditors) : creditors[i] \in CreditorSet
  BY DEF Lists
<1>3. \A i \in 1..Len(debtors) : debtors[i] \in DebtorSet
  BY DEF Lists
<1>4. creditors \in Seq(CreditorSet) /\ debtors \in Seq(DebtorSet)
  <2>1. ASSUME NEW S, NEW S2, NEW list \in Seq(S), \A i \in 1..Len(list) : list[i] \in S2
        PROVE  list \in Seq(S2)
    BY <2>1
  <2>2. creditors \in Seq(Users) /\ debtors \in Seq(Users)
    BY DEF TypeOK
  <2>3. QED
    BY <1>2, <1>3, <2>1, <2>2
<1>5. \A u \in Users : Size(u) \in Nat
  BY <1>1 DEF Size, Magnitude
<1>6. /\ \A i \in 1..Len(creditors) : CreditStart(creditors[i]) \in Nat
      /\ 1 <= Len(creditors) => CreditStart(creditors[1]) = 0
      /\ \A i \in 1..Len(creditors) : i + 1 <= Len(creditors) =>
           CreditStart(creditors[i + 1]) = CreditStart(creditors[i]) + Size(creditors[i])
      /\ \A i, j \in 1..Len(creditors) : i < j =>
           CreditStart(creditors[i]) + Size(creditors[i]) <= CreditStart(creditors[j])
  BY <1>1, <1>4, SegmentsAbut DEF CreditStart
<1>7. /\ \A i \in 1..Len(debtors) : DebtStart(debtors[i]) \in Nat
      /\ 1 <= Len(debtors) => DebtStart(debtors[1]) = 0
      /\ \A i \in 1..Len(debtors) : i + 1 <= Len(debtors) =>
           DebtStart(debtors[i + 1]) = DebtStart(debtors[i]) + Size(debtors[i])
      /\ \A i, j \in 1..Len(debtors) : i < j =>
           DebtStart(debtors[i]) + Size(debtors[i]) <= DebtStart(debtors[j])
  BY <1>1, <1>4, SegmentsAbut DEF DebtStart
<1>8. /\ \A i \in 1..Len(creditors) : Size(creditors[i]) \in Nat
      /\ \A i \in 1..Len(debtors) : Size(debtors[i]) \in Nat
  BY <1>1, <1>2, <1>3, <1>5
<1>9. QED
  BY <1>2, <1>3, <1>6, <1>7, <1>8

\* Two segments that both cover the stretch of n cents at p, one of which
\* starts there and one of which ends there, share just that stretch.
LEMMA SharedStretch ==
  ASSUME NEW cs \in Nat, NEW ce \in Nat, NEW ds \in Nat, NEW de \in Nat, NEW p \in Nat,
         NEW n \in Nat, cs <= p, ds <= p, cs = p \/ ds = p,
         p + n <= ce, p + n <= de, p + n = ce \/ p + n = de
  PROVE  Shared(cs, ce, ds, de) = n
BY DEF Shared

\* Two segments one of which ends where the other starts, or before, share
\* nothing.
LEMMA SharedNothing ==
  ASSUME NEW cs \in Nat, NEW ce \in Nat, NEW ds \in Nat, NEW de \in Nat,
         cs <= ce, ds <= de, ce <= ds \/ de <= cs
  PROVE  ~(Shared(cs, ce, ds, de) > 0)
BY DEF Shared

\* What an iteration that follows the reference has to do with it: the point
\* of the two lines the loop is at, the amount, which is the overlap of the two
\* users, and the pairs that are passed with it, which do not overlap.
LEMMA MatchMeets ==
  ASSUME IInv, Accounted, Follows, Match,
         NEW c \in CreditorSet, NEW d \in DebtorSet, NEW amount \in Nat \ {0},
         c = creditors[creditor_idx], d = debtors[debtor_idx],
         amount <= remaining[c], amount <= remaining[d],
         amount = remaining[c] \/ amount = remaining[d]
  PROVE  /\ OverlapOf(creditor_idx, debtor_idx) = amount
         /\ \A j \in 1..Len(debtors) :
              j > debtor_idx /\ amount = remaining[c] => ~(OverlapOf(creditor_idx, j) > 0)
         /\ \A i \in 1..Len(creditors) :
              i > creditor_idx /\ amount = remaining[d] => ~(OverlapOf(i, debtor_idx) > 0)
<1>1. TypeOK /\ pc # "sort" /\ MoreToMatch
  BY DEF IInv, Match
<1>2. /\ Lists(creditors, CreditorSet) /\ Lists(debtors, DebtorSet)
      /\ Ordered(creditors) /\ Ordered(debtors)
  BY <1>1 DEF IInv, Follows
<1>3. creditor_idx \in 1..Len(creditors) /\ debtor_idx \in 1..Len(debtors)
  BY <1>1 DEF TypeOK, MoreToMatch
<1>4. balances \in [Users -> Int] /\ c \in Users /\ d \in Users
  BY <1>1 DEF TypeOK, CreditorSet, DebtorSet
<1> DEFINE cs(i) == CreditStart(creditors[i])
           ce(i) == cs(i) + Size(creditors[i])
           ds(j) == DebtStart(debtors[j])
           de(j) == ds(j) + Size(debtors[j])
           p == cs(creditor_idx) + Matched(c)
<1>5. /\ \A i \in 1..Len(creditors) : /\ creditors[i] \in CreditorSet
                                       /\ cs(i) \in Nat /\ ce(i) \in Nat /\ cs(i) <= ce(i)
      /\ \A j \in 1..Len(debtors) : /\ debtors[j] \in DebtorSet
                                     /\ ds(j) \in Nat /\ de(j) \in Nat /\ ds(j) <= de(j)
  BY <1>1, <1>2, Segments
<1>6. /\ \A i \in 1..Len(creditors) : i > creditor_idx => ce(creditor_idx) <= cs(i)
      /\ \A j \in 1..Len(debtors) : j > debtor_idx => de(debtor_idx) <= ds(j)
  <2>1. /\ \A i, k \in 1..Len(creditors) : i < k => ce(i) <= cs(k)
        /\ \A i, k \in 1..Len(debtors) : i < k => de(i) <= ds(k)
    BY <1>1, <1>2, Segments
  <2> HIDE DEF cs, ce, ds, de
  <2>2. QED
    BY <1>3, <2>1
<1>7. \A i \in 1..Len(creditors), j \in 1..Len(debtors) :
        OverlapOf(i, j) = Shared(cs(i), ce(i), ds(j), de(j))
  BY <1>4, <1>5, OverlapIs DEF OverlapOf
<1>8. /\ remaining[c] \in Nat /\ remaining[d] \in Nat /\ Size(c) \in Nat /\ Size(d) \in Nat
      /\ remaining[c] <= Size(c) /\ remaining[d] <= Size(d)
  <2>1. \A u \in Users : Size(u) \in Nat
    BY <1>4 DEF Size, Magnitude
  <2>2. \A u \in Users : remaining[u] <= Size(u)
    BY DEF Accounted, Size
  <2>3. remaining \in [Users -> Nat]
    BY <1>1 DEF TypeOK
  <2>4. QED
    BY <1>4, <2>1, <2>2, <2>3
<1>9. Aligned(c, d)
  BY <1>1 DEF Follows
<1>10. /\ p \in Nat /\ cs(creditor_idx) <= p /\ ds(debtor_idx) <= p
       /\ cs(creditor_idx) = p \/ ds(debtor_idx) = p
       /\ p + remaining[c] = ce(creditor_idx) /\ p + remaining[d] = de(debtor_idx)
  <2>1. cs(creditor_idx) \in Nat /\ ds(debtor_idx) \in Nat
    BY <1>3, <1>5
  <2>2. /\ ce(creditor_idx) = cs(creditor_idx) + Size(c)
        /\ de(debtor_idx) = ds(debtor_idx) + Size(d)
    OBVIOUS
  <2>3. /\ Matched(c) = Size(c) - remaining[c] /\ Matched(d) = Size(d) - remaining[d]
        /\ p = ds(debtor_idx) + Matched(d)
        /\ Matched(c) = 0 \/ Matched(d) = 0
    BY <1>9 DEF Aligned, Matched
  <2> HIDE DEF cs, ce, ds, de
  <2>4. QED
    BY <1>8, <2>1, <2>2, <2>3
<1> HIDE DEF cs, ce, ds, de, p
<1>11. OverlapOf(creditor_idx, debtor_idx) = amount
  <2>1. Shared(cs(creditor_idx), ce(creditor_idx), ds(debtor_idx), de(debtor_idx)) = amount
    <3>1. /\ p + amount <= ce(creditor_idx) /\ p + amount <= de(debtor_idx)
          /\ p + amount = ce(creditor_idx) \/ p + amount = de(debtor_idx)
      BY <1>8, <1>10
    <3>2. /\ cs(creditor_idx) \in Nat /\ ce(creditor_idx) \in Nat
          /\ ds(debtor_idx) \in Nat /\ de(debtor_idx) \in Nat
      BY <1>3, <1>5
    <3>3. QED
      BY <1>10, <3>1, <3>2, SharedStretch
  <2>2. QED
    BY <1>3, <1>7, <2>1
<1>12. ASSUME NEW j \in 1..Len(debtors), j > debtor_idx, amount = remaining[c]
       PROVE  ~(OverlapOf(creditor_idx, j) > 0)
  <2>1. /\ cs(creditor_idx) \in Nat /\ ce(creditor_idx) \in Nat /\ ds(j) \in Nat /\ de(j) \in Nat
        /\ cs(creditor_idx) <= ce(creditor_idx) /\ ds(j) <= de(j)
        /\ de(debtor_idx) \in Nat /\ de(debtor_idx) <= ds(j)
    BY <1>3, <1>5, <1>6, <1>12
  <2>2. ce(creditor_idx) <= ds(j)
    <3>1. remaining[c] <= remaining[d]
      BY <1>12
    <3>2. ce(creditor_idx) <= de(debtor_idx)
      BY <1>8, <1>10, <3>1
    <3>3. QED
      BY <1>3, <1>5, <2>1, <3>2
  <2>3. ~(Shared(cs(creditor_idx), ce(creditor_idx), ds(j), de(j)) > 0)
    BY <2>1, <2>2, SharedNothing
  <2>4. QED
    BY <1>3, <1>7, <2>3
<1>13. ASSUME NEW i \in 1..Len(creditors), i > creditor_idx, amount = remaining[d]
       PROVE  ~(OverlapOf(i, debtor_idx) > 0)
  <2>1. /\ cs(i) \in Nat /\ ce(i) \in Nat /\ ds(debtor_idx) \in Nat /\ de(debtor_idx) \in Nat
        /\ cs(i) <= ce(i) /\ ds(debtor_idx) <= de(debtor_idx)
        /\ ce(creditor_idx) \in Nat /\ ce(creditor_idx) <= cs(i)
    BY <1>3, <1>5, <1>6, <1>13
  <2>2. de(debtor_idx) <= cs(i)
    <3>1. remaining[d] <= remaining[c]
      BY <1>13
    <3>2. de(debtor_idx) <= ce(creditor_idx)
      BY <1>8, <1>10, <3>1
    <3>3. QED
      BY <1>3, <1>5, <2>1, <3>2
  <2>3. ~(Shared(cs(i), ce(i), ds(debtor_idx), de(debtor_idx)) > 0)
    BY <2>1, <2>2, SharedNothing
  <2>4. QED
    BY <1>3, <1>7, <2>3
<1>14. QED
  BY <1>11, <1>12, <1>13

\* An iteration leaves alone the users behind the cursors, and moves the loop
\* on by `amount` cents on both lines.
LEMMA MatchMovesOn ==
  ASSUME IInv, Accounted, Follows, Match,
         NEW c \in CreditorSet, NEW d \in DebtorSet, NEW amount \in Nat \ {0},
         c = creditors[creditor_idx], d = debtors[debtor_idx],
         amount <= remaining[c], amount <= remaining[d],
         amount = remaining[c] \/ amount = remaining[d],
         \A u \in Users : remaining'[u] = IF u \in {c, d} THEN remaining[u] - amount
                                                           ELSE remaining[u],
         creditor_idx' = IF amount = remaining[c] THEN creditor_idx + 1 ELSE creditor_idx,
         debtor_idx' = IF amount = remaining[d] THEN debtor_idx + 1 ELSE debtor_idx
  PROVE  /\ Untouched(creditors, creditor_idx)' /\ Untouched(debtors, debtor_idx)'
         /\ MoreToMatch' => Aligned(creditors[creditor_idx], debtors[debtor_idx])'
<1>1. TypeOK /\ pc = "match" /\ MoreToMatch /\ UNCHANGED << pc, balances, creditors, debtors >>
  BY DEF IInv, Match
<1>2. /\ Lists(creditors, CreditorSet) /\ Lists(debtors, DebtorSet)
      /\ Ordered(creditors) /\ Ordered(debtors)
  BY <1>1 DEF IInv, Follows
<1>3. creditor_idx \in 1..Len(creditors) /\ debtor_idx \in 1..Len(debtors)
  BY <1>1 DEF TypeOK, MoreToMatch
<1>4. /\ balances \in [Users -> Int] /\ remaining \in [Users -> Nat]
      /\ CreditorSet \in SUBSET Users /\ DebtorSet \in SUBSET Users
      /\ CreditorSet \cap DebtorSet = {}
  <2>1. balances \in [Users -> Int] /\ remaining \in [Users -> Nat]
    BY <1>1 DEF TypeOK
  <2>2. \A u \in Users : balances[u] \in Int
    BY <2>1
  <2>3. QED
    BY <2>1, <2>2 DEF CreditorSet, DebtorSet
<1>5. /\ \A i \in 1..Len(creditors) : creditors[i] \in CreditorSet
      /\ \A i \in 1..Len(debtors) : debtors[i] \in DebtorSet
      /\ \A i, j \in 1..Len(creditors) : creditors[i] = creditors[j] => i = j
      /\ \A i, j \in 1..Len(debtors) : debtors[i] = debtors[j] => i = j
  BY <1>2 DEF Lists
<1>6. /\ \A u : Size(u)' = Size(u)
      /\ \A u : CreditStart(u)' = CreditStart(u) /\ DebtStart(u)' = DebtStart(u)
  BY <1>1, ReferenceKept
<1>7. Untouched(creditors, creditor_idx) /\ Untouched(debtors, debtor_idx) /\ Aligned(c, d)
  BY <1>1 DEF Follows
<1>8. ASSUME NEW i \in 1..Len(creditors), i > creditor_idx
      PROVE  remaining'[creditors[i]] = Size(creditors[i])
  <2>1. creditors[i] \in Users /\ creditors[i] \notin {c, d}
    BY <1>3, <1>4, <1>5, <1>8
  <2>2. QED
    BY <1>7, <1>8, <2>1 DEF Untouched
<1>9. ASSUME NEW i \in 1..Len(debtors), i > debtor_idx
      PROVE  remaining'[debtors[i]] = Size(debtors[i])
  <2>1. debtors[i] \in Users /\ debtors[i] \notin {c, d}
    BY <1>3, <1>4, <1>5, <1>9
  <2>2. QED
    BY <1>7, <1>9, <2>1 DEF Untouched
<1>10. Untouched(creditors, creditor_idx)' /\ Untouched(debtors, debtor_idx)'
  <2>1. creditor_idx' >= creditor_idx /\ debtor_idx' >= debtor_idx
    BY <1>3
  <2>2. /\ \A i \in 1..Len(creditors) : i > creditor_idx' => i > creditor_idx
        /\ \A i \in 1..Len(debtors) : i > debtor_idx' => i > debtor_idx
    BY <1>3, <2>1
  <2>3. QED
    BY <1>1, <1>6, <1>8, <1>9, <2>2 DEF Untouched
<1>11. /\ remaining[c] \in Nat /\ remaining[d] \in Nat /\ Size(c) \in Nat /\ Size(d) \in Nat
       /\ CreditStart(c) \in Nat /\ DebtStart(d) \in Nat
  <2>1. Size(c) \in Nat /\ CreditStart(c) \in Nat
    BY <1>1, <1>2, <1>3, Segments
  <2>2. Size(d) \in Nat /\ DebtStart(d) \in Nat
    BY <1>1, <1>2, <1>3, Segments
  <2>3. QED
    BY <1>4, <2>1, <2>2
<1>12. remaining'[c] = remaining[c] - amount /\ remaining'[d] = remaining[d] - amount
  BY <1>4
<1>13. ASSUME MoreToMatch'
       PROVE  Aligned(creditors[creditor_idx], debtors[debtor_idx])'
  <2> DEFINE c2 == creditors[creditor_idx']
             d2 == debtors[debtor_idx']
             matched(u) == Size(u) - remaining'[u]
  <2>1. creditor_idx' <= Len(creditors) /\ debtor_idx' <= Len(debtors)
    BY <1>1, <1>13 DEF MoreToMatch
  <2>2. /\ CreditStart(c2) + matched(c2) = CreditStart(c) + Matched(c) + amount
        /\ amount = remaining[c] => matched(c2) = 0
    <3>1. CASE amount = remaining[c]
      <4>1. creditor_idx' = creditor_idx + 1 /\ creditor_idx' \in 1..Len(creditors)
        BY <1>3, <2>1, <3>1
      <4>2. CreditStart(c2) = CreditStart(c) + Size(c) /\ Size(c2) \in Nat
        <5>1. \A i \in 1..Len(creditors) : i + 1 <= Len(creditors) =>
                CreditStart(creditors[i + 1]) = CreditStart(creditors[i]) + Size(creditors[i])
          BY <1>1, <1>2, Segments
        <5>2. \A i \in 1..Len(creditors) : Size(creditors[i]) \in Nat
          BY <1>1, <1>2, Segments
        <5>3. QED
          BY <1>3, <2>1, <4>1, <5>1, <5>2
      <4>3. remaining'[c2] = Size(c2)
        BY <1>3, <1>8, <4>1
      <4>4. matched(c2) = 0
        BY <4>2, <4>3
      <4> HIDE DEF c2, matched
      <4>5. QED
        BY <1>11, <3>1, <4>2, <4>4 DEF Matched
    <3>2. CASE amount # remaining[c]
      <4>1. c2 = c
        BY <3>2
      <4>2. matched(c2) = Matched(c) + amount
        BY <1>11, <1>12, <4>1 DEF Matched
      <4>3. Matched(c) \in Int
        BY <1>11 DEF Matched
      <4> HIDE DEF c2, matched
      <4>4. QED
        BY <1>11, <3>2, <4>1, <4>2, <4>3
    <3>3. QED
      BY <3>1, <3>2
  <2>3. /\ DebtStart(d2) + matched(d2) = DebtStart(d) + Matched(d) + amount
        /\ amount = remaining[d] => matched(d2) = 0
    <3>1. CASE amount = remaining[d]
      <4>1. debtor_idx' = debtor_idx + 1 /\ debtor_idx' \in 1..Len(debtors)
        BY <1>3, <2>1, <3>1
      <4>2. DebtStart(d2) = DebtStart(d) + Size(d) /\ Size(d2) \in Nat
        <5>1. \A i \in 1..Len(debtors) : i + 1 <= Len(debtors) =>
                DebtStart(debtors[i + 1]) = DebtStart(debtors[i]) + Size(debtors[i])
          BY <1>1, <1>2, Segments
        <5>2. \A i \in 1..Len(debtors) : Size(debtors[i]) \in Nat
          BY <1>1, <1>2, Segments
        <5>3. QED
          BY <1>3, <2>1, <4>1, <5>1, <5>2
      <4>3. remaining'[d2] = Size(d2)
        BY <1>3, <1>9, <4>1
      <4>4. matched(d2) = 0
        BY <4>2, <4>3
      <4> HIDE DEF d2, matched
      <4>5. QED
        BY <1>11, <3>1, <4>2, <4>4 DEF Matched
    <3>2. CASE amount # remaining[d]
      <4>1. d2 = d
        BY <3>2
      <4>2. matched(d2) = Matched(d) + amount
        BY <1>11, <1>12, <4>1 DEF Matched
      <4>3. Matched(d) \in Int
        BY <1>11 DEF Matched
      <4> HIDE DEF d2, matched
      <4>4. QED
        BY <1>11, <3>2, <4>1, <4>2, <4>3
    <3>3. QED
      BY <3>1, <3>2
  <2>4. /\ CreditStart(c2) + matched(c2) = DebtStart(d2) + matched(d2)
        /\ matched(c2) = 0 \/ matched(d2) = 0
    <3> HIDE DEF c2, d2, matched
    <3>1. QED
      BY <1>7, <2>2, <2>3 DEF Aligned
  <2>5. QED
    BY <1>1, <1>6, <2>4 DEF Aligned, Matched
<1>14. QED
  BY <1>10, <1>13

\* An iteration appends the reference's transfer of the two users it matches,
\* which the plan did not have, and passes no other pair that overlaps.
LEMMA MatchKeepsPlan ==
  ASSUME IInv, Accounted, Follows, Match,
         NEW c \in CreditorSet, NEW d \in DebtorSet, NEW amount \in Nat \ {0},
         c = creditors[creditor_idx], d = debtors[debtor_idx],
         amount <= remaining[c], amount <= remaining[d],
         amount = remaining[c] \/ amount = remaining[d],
         plan' = Append(plan, SettlementEntry(d, c, amount)),
         creditor_idx' = IF amount = remaining[c] THEN creditor_idx + 1 ELSE creditor_idx,
         debtor_idx' = IF amount = remaining[d] THEN debtor_idx + 1 ELSE debtor_idx
  PROVE  PlanSoFar'
<1> DEFINE C == 1..Len(creditors)
           D == 1..Len(debtors)
           passed2(i, j) == i < creditor_idx' \/ j < debtor_idx'
           n == Len(plan)
<1>1. TypeOK /\ MoreToMatch /\ PlanSoFar /\ UNCHANGED << balances, creditors, debtors >>
  BY DEF IInv, Match, Follows
<1>2. /\ \A i, j \in C : creditors[i] = creditors[j] => i = j
      /\ \A i, j \in D : debtors[i] = debtors[j] => i = j
  BY DEF IInv, Match, Lists
<1>3. creditor_idx \in C /\ debtor_idx \in D
  BY <1>1 DEF TypeOK, MoreToMatch
<1>4. /\ OverlapOf(creditor_idx, debtor_idx) = amount
      /\ \A j \in D : j > debtor_idx /\ amount = remaining[c] => ~(OverlapOf(creditor_idx, j) > 0)
      /\ \A i \in C : i > creditor_idx /\ amount = remaining[d] => ~(OverlapOf(i, debtor_idx) > 0)
  BY MatchMeets
<1>5. /\ n \in Nat /\ Len(plan') = n + 1 /\ plan'[n + 1] = EntryOf(creditor_idx, debtor_idx)
      /\ \A k \in 1..n : plan'[k] = plan[k]
  <2>1. plan \in Seq(Entries)
    BY <1>1 DEF TypeOK
  <2>2. /\ n \in Nat /\ Len(plan') = n + 1 /\ plan'[n + 1] = SettlementEntry(d, c, amount)
        /\ \A k \in 1..n : plan'[k] = plan[k]
    BY <2>1
  <2>3. SettlementEntry(d, c, amount) = EntryOf(creditor_idx, debtor_idx)
    BY <1>4 DEF EntryOf
  <2>4. QED
    BY <2>2, <2>3
<1>6. \A i \in C, j \in D : Passed(i, j) => passed2(i, j)
  BY <1>3 DEF Passed
<1>7. ASSUME NEW i \in C, NEW j \in D, passed2(i, j), ~Passed(i, j), OverlapOf(i, j) > 0
      PROVE  i = creditor_idx /\ j = debtor_idx
  <2>1. ~(i < creditor_idx) /\ ~(j < debtor_idx)
    BY <1>7 DEF Passed
  <2>2. CASE i = creditor_idx /\ j # debtor_idx
    <3>1. j > debtor_idx
      BY <1>3, <2>1, <2>2
    <3>2. amount # remaining[c]
      BY <1>4, <1>7, <2>2, <3>1
    <3>3. creditor_idx' = creditor_idx /\ ~(j < debtor_idx')
      BY <1>3, <3>1, <3>2
    <3>4. QED
      BY <1>3, <1>7, <2>2, <3>3
  <2>3. CASE j = debtor_idx /\ i # creditor_idx
    <3>1. i > creditor_idx
      BY <1>3, <2>1, <2>3
    <3>2. amount # remaining[d]
      BY <1>4, <1>7, <2>3, <3>1
    <3>3. debtor_idx' = debtor_idx /\ ~(i < creditor_idx')
      BY <1>3, <3>1, <3>2
    <3>4. QED
      BY <1>3, <1>7, <2>3, <3>3
  <2>4. CASE i # creditor_idx /\ j # debtor_idx
    <3>1. ~(i < creditor_idx + 1) /\ ~(j < debtor_idx + 1)
      BY <1>3, <2>1, <2>4
    <3>2. QED
      BY <1>3, <1>7, <2>1, <3>1
  <2>5. QED
    BY <2>2, <2>3, <2>4
<1>8. passed2(creditor_idx, debtor_idx) /\ ~Passed(creditor_idx, debtor_idx)
  BY <1>3 DEF Passed
<1>9. \A i \in C, j \in D : EntryOf(i, j) = EntryOf(creditor_idx, debtor_idx) =>
        i = creditor_idx /\ j = debtor_idx
  BY <1>2, <1>3 DEF EntryOf, SettlementEntry
<1>10. \A i, j : OverlapOf(i, j)' = OverlapOf(i, j)
  BY <1>1, ReferenceKept DEF OverlapOf
<1>11. \A i, j : EntryOf(i, j)' = EntryOf(i, j)
  BY <1>1, <1>10 DEF EntryOf, SettlementEntry
<1> HIDE DEF n, C, D, passed2
<1>12. /\ \A k \in 1..n : \E i \in C, j \in D :
            Passed(i, j) /\ OverlapOf(i, j) > 0 /\ plan[k] = EntryOf(i, j)
       /\ \A i \in C, j \in D : Passed(i, j) /\ OverlapOf(i, j) > 0 =>
            \E k \in 1..n : plan[k] = EntryOf(i, j)
       /\ \A k, l \in 1..n : plan[k] = plan[l] => k = l
  BY <1>1 DEF PlanSoFar, n, C, D
<1>13. ASSUME NEW k \in 1..(n + 1)
       PROVE  \E i \in C, j \in D :
                passed2(i, j) /\ OverlapOf(i, j) > 0 /\ plan'[k] = EntryOf(i, j)
  <2>1. CASE k = n + 1
    BY <1>3, <1>4, <1>5, <1>8, <2>1
  <2>2. CASE k # n + 1
    <3>1. k \in 1..n
      BY <1>5, <2>2
    <3>2. QED
      BY <1>5, <1>6, <1>12, <3>1
  <2>3. QED
    BY <2>1, <2>2
<1>14. ASSUME NEW i \in C, NEW j \in D, passed2(i, j), OverlapOf(i, j) > 0
       PROVE  \E k \in 1..(n + 1) : plan'[k] = EntryOf(i, j)
  <2>1. CASE Passed(i, j)
    <3>1. PICK k \in 1..n : plan[k] = EntryOf(i, j)
      BY <1>12, <1>14, <2>1
    <3>2. k \in 1..(n + 1) /\ plan'[k] = EntryOf(i, j)
      BY <1>5, <3>1
    <3>3. QED
      BY <3>2
  <2>2. CASE ~Passed(i, j)
    <3>1. plan'[n + 1] = EntryOf(i, j) /\ n + 1 \in 1..(n + 1)
      BY <1>5, <1>7, <1>14, <2>2
    <3>2. QED
      BY <3>1
  <2>3. QED
    BY <2>1, <2>2
<1>15. \A k \in 1..n : plan[k] # EntryOf(creditor_idx, debtor_idx)
  BY <1>8, <1>9, <1>12
<1>16. ASSUME NEW k \in 1..(n + 1), NEW l \in 1..(n + 1), plan'[k] = plan'[l]
       PROVE  k = l
  <2>1. CASE k \in 1..n /\ l \in 1..n
    BY <1>5, <1>12, <1>16, <2>1
  <2>2. CASE k = n + 1 /\ l \in 1..n
    BY <1>5, <1>15, <1>16, <2>2
  <2>3. CASE k \in 1..n /\ l = n + 1
    BY <1>5, <1>15, <1>16, <2>3
  <2>4. k \in 1..n \/ k = n + 1
    BY <1>5
  <2>5. l \in 1..n \/ l = n + 1
    BY <1>5
  <2>6. QED
    BY <2>1, <2>2, <2>3, <2>4, <2>5
<1>17. QED
  <2>1. C = 1..Len(creditors') /\ D = 1..Len(debtors') /\ n + 1 = Len(plan')
    BY <1>1, <1>5 DEF C, D
  <2>2. \A i, j : passed2(i, j) <=> Passed(i, j)'
    BY DEF passed2, Passed
  <2>3. \A k \in 1..Len(plan') : \E i \in 1..Len(creditors'), j \in 1..Len(debtors') :
          Passed(i, j)' /\ OverlapOf(i, j)' > 0 /\ plan'[k] = EntryOf(i, j)'
    BY <1>10, <1>11, <1>13, <2>1, <2>2
  <2>4. \A i \in 1..Len(creditors'), j \in 1..Len(debtors') :
          Passed(i, j)' /\ OverlapOf(i, j)' > 0 =>
            \E k \in 1..Len(plan') : plan'[k] = EntryOf(i, j)'
    BY <1>10, <1>11, <1>14, <2>1, <2>2
  <2>5. \A k, l \in 1..Len(plan') : plan'[k] = plan'[l] => k = l
    BY <1>16, <2>1
  <2>6. QED
    BY <2>3, <2>4, <2>5 DEF PlanSoFar

\* Before the lists are sorted there is nothing to follow yet.
LEMMA InitFollows == Init => Follows
<1> SUFFICES ASSUME Init PROVE Follows
  OBVIOUS
<1>1. pc = "sort" /\ Len(creditors) = 0 /\ Len(debtors) = 0 /\ Len(plan) = 0
  BY DEF Init
<1>2. PlanSoFar /\ Untouched(creditors, creditor_idx) /\ Untouched(debtors, debtor_idx)
  BY <1>1 DEF PlanSoFar, Untouched
<1>3. QED
  BY <1>1, <1>2 DEF Follows

\* The sort puts the two lists in the order of the reference, and the loop
\* starts where both lines start.
LEMMA SortFollows == IInv /\ SortBalances => Follows'
<1> SUFFICES ASSUME IInv, SortBalances PROVE Follows'
  OBVIOUS
<1>1. /\ TypeOK /\ NotSortedYet
      /\ pc' = "match" /\ UNCHANGED << balances, remaining, creditor_idx, debtor_idx, plan >>
      /\ creditors' \in InOrder(CreditorSet) /\ debtors' \in InOrder(DebtorSet)
  BY DEF IInv, SortBalances
<1>2. balances \in [Users -> Int] /\ remaining \in [Users -> Nat]
  BY <1>1 DEF TypeOK
<1>3. CreditorSet \in SUBSET Users /\ DebtorSet \in SUBSET Users
  BY DEF CreditorSet, DebtorSet
<1>4. /\ creditors' \in Seq(CreditorSet) /\ Lists(creditors', CreditorSet)
      /\ debtors' \in Seq(DebtorSet) /\ Lists(debtors', DebtorSet)
  BY <1>1, <1>2, <1>3, SortedListIsComplete
<1>5. \A u \in Users : remaining[u] = Size(u)
  BY <1>1 DEF NotSortedYet, Size
<1>6. \A u, v \in Users : SortsBefore(u, v) => RanksAbove(u, v)
  BY <1>5 DEF SortsBefore, RanksAbove, Size
<1>7. /\ \A i \in 1..Len(creditors') : creditors'[i] \in CreditorSet
      /\ \A i \in 1..Len(debtors') : debtors'[i] \in DebtorSet
  BY <1>4 DEF Lists
<1>8. Ordered(creditors') /\ Ordered(debtors')
  <2>1. \A i, j \in 1..Len(creditors') : i < j => SortsBefore(creditors'[i], creditors'[j])
    BY <1>1, <1>4 DEF InOrder, Lists
  <2>2. \A i, j \in 1..Len(debtors') : i < j => SortsBefore(debtors'[i], debtors'[j])
    BY <1>1, <1>4 DEF InOrder, Lists
  <2>3. QED
    BY <1>3, <1>6, <1>7, <2>1, <2>2 DEF Ordered
<1>9. /\ \A u, v : RanksAbove(u, v)' = RanksAbove(u, v)
      /\ \A u : Size(u)' = Size(u)
      /\ \A u : CreditStart(u)' = CreditStart(u) /\ DebtStart(u)' = DebtStart(u)
  BY <1>1, ReferenceKept
<1>10. Ordered(creditors)' /\ Ordered(debtors)'
  BY <1>8, <1>9 DEF Ordered
<1>11. Untouched(creditors, creditor_idx)' /\ Untouched(debtors, debtor_idx)'
  <2>1. /\ \A i \in 1..Len(creditors') : remaining[creditors'[i]] = Size(creditors'[i])
        /\ \A i \in 1..Len(debtors') : remaining[debtors'[i]] = Size(debtors'[i])
    BY <1>3, <1>5, <1>7
  <2>2. QED
    BY <1>1, <1>9, <2>1 DEF Untouched
<1>12. ASSUME MoreToMatch'
       PROVE  Aligned(creditors[creditor_idx], debtors[debtor_idx])'
  <2>1. /\ creditor_idx' = 1 /\ debtor_idx' = 1
        /\ 1 <= Len(creditors') /\ 1 <= Len(debtors')
    BY <1>1, <1>12 DEF NotSortedYet, MoreToMatch
  <2>2. CreditStart(creditors'[1]) = 0
    BY <1>2, <1>3, <1>4, <1>8, <2>1, SegmentsAbut DEF CreditStart
  <2>3. DebtStart(debtors'[1]) = 0
    BY <1>2, <1>3, <1>4, <1>8, <2>1, SegmentsAbut DEF DebtStart
  <2>4. creditors'[1] \in Users /\ debtors'[1] \in Users
    BY <1>3, <1>4, <1>7, <2>1
  <2>5. \A u \in Users : Size(u) - remaining'[u] = 0
    <3>1. \A u \in Users : remaining'[u] = Size(u) /\ Size(u) \in Int
      BY <1>1, <1>2, <1>5
    <3>2. QED
      BY <3>1
  <2>6. QED
    BY <1>9, <2>1, <2>2, <2>3, <2>4, <2>5 DEF Aligned, Matched
<1>13. PlanSoFar'
  <2>1. Len(plan') = 0 /\ creditor_idx' = 1 /\ debtor_idx' = 1
    BY <1>1 DEF NotSortedYet
  <2>2. \A i \in 1..Len(creditors'), j \in 1..Len(debtors') : ~Passed(i, j)'
    BY <1>4, <2>1 DEF Passed
  <2>3. QED
    BY <2>1, <2>2 DEF PlanSoFar
<1>14. QED
  BY <1>10, <1>11, <1>12, <1>13 DEF Follows

\* Every step of the loop follows the reference.
LEMMA FollowsKept == IInv /\ Accounted /\ Follows /\ [Next]_vars => Follows'
<1> SUFFICES ASSUME IInv, Accounted, Follows, [Next]_vars PROVE Follows'
  OBVIOUS
<1>1. CASE Match
  <2>1. PICK c \in CreditorSet, d \in DebtorSet, amount \in Nat \ {0} :
           /\ c = creditors[creditor_idx] /\ d = debtors[debtor_idx]
           /\ amount <= remaining[c] /\ amount <= remaining[d]
           /\ amount = remaining[c] \/ amount = remaining[d]
           /\ plan' = Append(plan, SettlementEntry(d, c, amount))
           /\ \A u \in Users : remaining'[u] = IF u \in {c, d} THEN remaining[u] - amount
                                                               ELSE remaining[u]
           /\ creditor_idx' = IF amount = remaining[c] THEN creditor_idx + 1 ELSE creditor_idx
           /\ debtor_idx' = IF amount = remaining[d] THEN debtor_idx + 1 ELSE debtor_idx
    BY <1>1, MatchStep
  <2>2. /\ Untouched(creditors, creditor_idx)' /\ Untouched(debtors, debtor_idx)'
        /\ MoreToMatch' => Aligned(creditors[creditor_idx], debtors[debtor_idx])'
    BY <1>1, <2>1, MatchMovesOn
  <2>3. PlanSoFar'
    BY <1>1, <2>1, MatchKeepsPlan
  <2>4. /\ pc = "match" /\ balances' = balances
        /\ creditors' = creditors /\ debtors' = debtors
    BY <1>1 DEF Match
  <2>5. Ordered(creditors)' /\ Ordered(debtors)'
    BY <2>4, ReferenceKept DEF Follows, Ordered
  <2>6. QED
    BY <2>2, <2>3, <2>5 DEF Follows
<1>2. CASE SortBalances
  BY <1>2, SortFollows
<1>3. CASE Finish \/ Terminated \/ UNCHANGED vars
  <2>1. /\ pc' = "sort" => pc = "sort"
        /\ pc = "sort" => pc' = "sort"
        /\ UNCHANGED << balances, creditors, debtors, remaining, creditor_idx, debtor_idx, plan >>
    BY <1>3 DEF Finish, Terminated, vars
  <2>2. /\ \A u, v : RanksAbove(u, v)' = RanksAbove(u, v)
        /\ \A u : Size(u)' = Size(u)
        /\ \A u : CreditStart(u)' = CreditStart(u) /\ DebtStart(u)' = DebtStart(u)
        /\ \A x, y : Overlap(y, x)' = Overlap(y, x)
    BY <2>1, ReferenceKept
  <2>3. /\ Ordered(creditors)' = Ordered(creditors) /\ Ordered(debtors)' = Ordered(debtors)
    BY <2>1, <2>2 DEF Ordered
  <2>4. /\ Untouched(creditors, creditor_idx)' = Untouched(creditors, creditor_idx)
        /\ Untouched(debtors, debtor_idx)' = Untouched(debtors, debtor_idx)
    BY <2>1, <2>2 DEF Untouched
  <2>5. MoreToMatch' => MoreToMatch /\ (Aligned(creditors[creditor_idx], debtors[debtor_idx]) =>
                                         Aligned(creditors[creditor_idx], debtors[debtor_idx])')
    BY <2>1, <2>2 DEF MoreToMatch, Aligned, Matched
  <2>6. /\ \A i, j : OverlapOf(i, j)' = OverlapOf(i, j)
        /\ \A i, j : EntryOf(i, j)' = EntryOf(i, j)
        /\ \A i, j : Passed(i, j)' <=> Passed(i, j)
    BY <2>1, <2>2 DEF OverlapOf, EntryOf, SettlementEntry, Passed
  <2>7. PlanSoFar'
    BY <2>1, <2>6 DEF Follows, PlanSoFar
  <2>8. QED
    BY <2>1, <2>3, <2>4, <2>5, <2>7 DEF Follows
<1>4. QED
  BY <1>1, <1>2, <1>3 DEF Next

\* When the loop has ended, every pair is passed: the plan has the reference's
\* transfers and no others.
LEMMA DoneIsOverlapPlan == IInv /\ Follows => PlanIsOverlapPlan
<1> SUFFICES ASSUME IInv, Follows, pc = "done" PROVE PlanIsOverlapPlan
  BY DEF PlanIsOverlapPlan
<1>1. /\ TypeOK /\ ~MoreToMatch /\ PlanSoFar
      /\ Lists(creditors, CreditorSet) /\ Lists(debtors, DebtorSet)
  BY DEF IInv, Follows
<1>2. \A i \in 1..Len(creditors), j \in 1..Len(debtors) : Passed(i, j)
  <2>1. /\ creditor_idx \in Nat /\ debtor_idx \in Nat
        /\ Len(creditors) \in Nat /\ Len(debtors) \in Nat
    BY <1>1 DEF TypeOK
  <2>2. creditor_idx > Len(creditors) \/ debtor_idx > Len(debtors)
    BY <1>1, <2>1 DEF MoreToMatch
  <2>3. QED
    BY <2>1, <2>2 DEF Passed
<1>3. /\ \A i \in 1..Len(creditors) : creditors[i] \in CreditorSet
      /\ \A c \in CreditorSet : \E i \in 1..Len(creditors) : creditors[i] = c
      /\ \A j \in 1..Len(debtors) : debtors[j] \in DebtorSet
      /\ \A d \in DebtorSet : \E j \in 1..Len(debtors) : debtors[j] = d
  BY <1>1 DEF Lists
<1> DEFINE entry(d, c) == SettlementEntry(d, c, Overlap(d, c))
<1>4. \A e : e \in OverlapPlan <=>
        \E c \in CreditorSet, d \in DebtorSet : Overlap(d, c) > 0 /\ e = entry(d, c)
  BY DEF OverlapPlan, CreditorSet, DebtorSet, SettlementEntry
<1>5. DOMAIN plan = 1..Len(plan) /\ Len(plan) \in Nat
  BY <1>1 DEF TypeOK
<1>6. ASSUME NEW k \in 1..Len(plan) PROVE plan[k] \in OverlapPlan
  <2>1. PICK i \in 1..Len(creditors), j \in 1..Len(debtors) :
          OverlapOf(i, j) > 0 /\ plan[k] = EntryOf(i, j)
    BY <1>1 DEF PlanSoFar
  <2>2. Overlap(debtors[j], creditors[i]) > 0 /\ plan[k] = entry(debtors[j], creditors[i])
    BY <2>1 DEF OverlapOf, EntryOf
  <2> HIDE DEF entry
  <2>3. QED
    BY <1>3, <1>4, <2>2
<1>7. ASSUME NEW e \in OverlapPlan PROVE \E k \in 1..Len(plan) : plan[k] = e
  <2>1. PICK c \in CreditorSet, d \in DebtorSet : Overlap(d, c) > 0 /\ e = entry(d, c)
    BY <1>4
  <2>2. PICK i \in 1..Len(creditors), j \in 1..Len(debtors) : creditors[i] = c /\ debtors[j] = d
    BY <1>3
  <2>3. OverlapOf(i, j) > 0 /\ e = EntryOf(i, j)
    BY <2>1, <2>2 DEF OverlapOf, EntryOf
  <2>4. QED
    BY <1>1, <1>2, <2>3 DEF PlanSoFar
<1>8. \A k, l \in 1..Len(plan) : plan[k] = plan[l] => k = l
  BY <1>1 DEF PlanSoFar
<1>9. {plan[k] : k \in DOMAIN plan} = OverlapPlan
  BY <1>5, <1>6, <1>7
<1>10. Cardinality(OverlapPlan) = Len(plan)
  <2>1. plan \in [1..Len(plan) -> OverlapPlan]
    <3>1. plan = [k \in 1..Len(plan) |-> plan[k]]
      BY <1>1, <1>5 DEF TypeOK
    <3>2. QED
      BY <1>6, <3>1
  <2>2. plan \in Injection(1..Len(plan), OverlapPlan)
    BY <1>8, <2>1 DEF Injection, IsInjective
  <2>3. ExistsBijection(1..Len(plan), OverlapPlan)
    BY <1>7, <2>1, <2>2 DEF ExistsBijection, Bijection, Surjection
  <2>4. QED
    BY <1>5, <2>3, FS_CountingElements
<1>11. QED
  BY <1>9, <1>10 DEF PlanIsOverlapPlan

\* The loop returns the reference plan, which is stated with no loop and no
\* lists, each of its transfers once, whatever the balances are.
THEOREM ReturnsTheReference == Spec => []PlanIsOverlapPlan
BY DoneIsOverlapPlan, InitFollows, FollowsKept, InitAccounted, AccountKept, Invariant, PTL DEF Spec

-----------------------------------------------------------------------------
(* How far from minimal the plan can be *)

\* A list of transfers without a user gives the user nothing.
LEMMA NetOfStranger ==
  ASSUME NEW u, NEW list \in Seq(Entries),
         \A k \in 1..Len(list) : list[k].payer_id # u /\ list[k].payee_id # u
  PROVE  NetOf(u, list) = 0
<1> DEFINE S == 1..Len(list)
           pick == Largest(S)
<1>1. PICK g : NetsOver(g, u, list) /\ NetOf(u, list) = g[S]
  BY NetIsFold
<1>2. IsFiniteSet(S) /\ Picks(pick, S)
  <2>1. Len(list) \in Nat
    OBVIOUS
  <2>2. IsFiniteSet(S) /\ S \subseteq Int
    BY <2>1, FS_Interval
  <2>3. QED
    BY <2>2, MaxPicks
<1>3. NetFold(g, u, list, S)
  BY <1>1 DEF NetsOver, NetFold
<1>4. \A k \in S : \A net : NetAfter(u, net, list[k]) = net
  BY DEF NetAfter
<1> HIDE DEF S, pick
<1> DEFINE Good == {s \in SUBSET S : g[s] = 0}
<1>5. {} \in Good
  BY <1>3 DEF NetFold
<1>6. ASSUME NEW s \in SUBSET S, s # {}, s \ {pick[s]} \in Good PROVE s \in Good
  <2>1. pick[s] = Max(s) /\ Max(s) \in S
    BY <1>2, <1>6 DEF Picks, pick, Largest
  <2>2. g[s] = NetAfter(u, g[s \ {Max(s)}], list[Max(s)])
    BY <1>3, <1>6 DEF NetFold
  <2>3. g[s \ {Max(s)}] = 0
    BY <1>6, <2>1
  <2>4. QED
    BY <1>4, <2>1, <2>2, <2>3
<1> HIDE DEF Good
<1>7. SUBSET S \subseteq Good
  BY <1>2, <1>5, <1>6, InductionByPicking
<1>8. g[S] = 0
  BY <1>7 DEF Good
<1>9. QED
  BY <1>1, <1>8

\* A list of transfers has at least half as many transfers as users whom it
\* gives or takes something: each of them is the payer or the payee of one.
LEMMA TwoUsersATransfer ==
  ASSUME NEW list \in Seq(Entries), NEW U, \A u \in U : NetOf(u, list) # 0
  PROVE  IsFiniteSet(U) /\ Cardinality(U) <= 2 * Len(list)
<1> DEFINE n == Len(list)
           S == 1..n
           payer == [k \in S |-> list[k].payer_id]
           payee == [k \in S |-> list[k].payee_id]
           P == {payer[k] : k \in S}
           Q == {payee[k] : k \in S}
<1>1. n \in Nat /\ IsFiniteSet(S) /\ Cardinality(S) = n
  <2>1. n \in Nat
    OBVIOUS
  <2>2. QED
    BY <2>1, FS_Interval
<1>2. payer \in Surjection(S, P) /\ payee \in Surjection(S, Q)
  BY DEF Surjection
<1>3. U \subseteq P \cup Q
  <2>1. ASSUME NEW u \in U, u \notin P \cup Q PROVE FALSE
    <3>1. \A k \in 1..Len(list) : list[k].payer_id # u /\ list[k].payee_id # u
      BY <2>1
    <3>2. NetOf(u, list) = 0
      BY <3>1, NetOfStranger
    <3>3. QED
      BY <3>2
  <2>2. QED
    BY <2>1
<1> HIDE DEF n, S, payer, payee, P, Q
<1>4. /\ IsFiniteSet(P) /\ Cardinality(P) <= n
      /\ IsFiniteSet(Q) /\ Cardinality(Q) <= n
  BY <1>1, <1>2, FS_Surjection
<1>5. IsFiniteSet(P \cup Q) /\ IsFiniteSet(P \cap Q)
  BY <1>4, FS_Union, FS_Intersection
<1>6. Cardinality(P \cup Q) = Cardinality(P) + Cardinality(Q) - Cardinality(P \cap Q)
  BY <1>4, FS_Union
<1>7. IsFiniteSet(U) /\ Cardinality(U) <= Cardinality(P \cup Q)
  BY <1>3, <1>5, FS_Subset
<1>8. /\ Cardinality(U) \in Nat /\ Cardinality(P) \in Nat /\ Cardinality(Q) \in Nat
      /\ Cardinality(P \cap Q) \in Nat /\ Cardinality(P \cup Q) \in Nat
  BY <1>4, <1>5, <1>7, FS_CardinalityType
<1>9. Cardinality(U) <= 2 * n
  BY <1>1, <1>4, <1>6, <1>7, <1>8
<1>10. QED
  BY <1>7, <1>9 DEF n

\* The docstring's "minimal" is not true (PlanIsMinimal), but whatever list of
\* transfers would settle the balances, the plan has less than twice as many.
LessThanTwiceAnyOther ==
  \A list \in Seq(Entries) :
    (\A u \in Users : NetOf(u, list) = balances[u]) /\ plan # << >> => Len(plan) < 2 * Len(list)

\* Whatever the balances are, no list of transfers that settles them all is
\* half as long as the plan.
THEOREM AtMostTwiceMinimal == Spec => []LessThanTwiceAnyOther
<1>1. TypeOK /\ FewerTransfersThanUsers => LessThanTwiceAnyOther
  <2> SUFFICES ASSUME TypeOK, FewerTransfersThanUsers, NEW list \in Seq(Entries),
                      \A u \in Users : NetOf(u, list) = balances[u], plan # << >>
               PROVE  Len(plan) < 2 * Len(list)
    BY DEF LessThanTwiceAnyOther
  <2> DEFINE U == {u \in Users : balances[u] # 0}
  <2>1. Len(plan) < Cardinality(U)
    BY DEF FewerTransfersThanUsers
  <2>2. \A u \in U : NetOf(u, list) # 0
    OBVIOUS
  <2> HIDE DEF U
  <2>3. IsFiniteSet(U) /\ Cardinality(U) <= 2 * Len(list)
    BY <2>2, TwoUsersATransfer
  <2>4. Cardinality(U) \in Nat /\ Len(list) \in Nat /\ Len(plan) \in Nat
    BY <2>3, FS_CardinalityType DEF TypeOK
  <2>5. QED
    BY <2>1, <2>3, <2>4
<1>2. QED
  BY <1>1, TypeCorrect, BoundsThePlan, PTL

-----------------------------------------------------------------------------
(* That the loop ends *)

\* SortsBefore is a strict total order of the users.
LEMMA SortOrder ==
  ASSUME remaining \in [Users -> Nat]
  PROVE  /\ \A u \in Users : ~SortsBefore(u, u)
         /\ \A u, v \in Users : SortsBefore(u, v) => ~SortsBefore(v, u)
         /\ \A u, v \in Users : u = v \/ SortsBefore(u, v) \/ SortsBefore(v, u)
         /\ \A u, v, w \in Users : SortsBefore(u, v) /\ SortsBefore(v, w) => SortsBefore(u, w)
<1>1. \A u \in Users : u \in Nat /\ remaining[u] \in Nat
  BY UsersAssumption
<1>2. QED
  BY <1>1 DEF SortsBefore

\* Some user of every set of them comes last.
LEMMA SomebodyIsLast ==
  ASSUME remaining \in [Users -> Nat], NEW S \in SUBSET Users, S # {}
  PROVE  \E x \in S : \A y \in S \ {x} : SortsBefore(y, x)
<1> DEFINE last(s) == \E x \in s : \A y \in s \ {x} : SortsBefore(y, x)
           Good == {s \in SUBSET Users : s # {} => last(s)}
<1>1. ASSUME NEW s \in SUBSET Users, \A t \in SUBSET s : t # s => t \in Good PROVE s \in Good
  <2>1. ASSUME s # {} PROVE last(s)
    <3>1. PICK x \in s : TRUE
      BY <2>1
    <3>2. CASE s \ {x} = {}
      BY <3>1, <3>2
    <3>3. CASE s \ {x} # {}
      <4>1. s \ {x} \in Good
        BY <1>1, <3>1
      <4>2. PICK m \in s \ {x} : \A y \in (s \ {x}) \ {m} : SortsBefore(y, m)
        BY <3>3, <4>1
      <4>3. CASE SortsBefore(x, m)
        BY <4>2, <4>3
      <4>4. CASE SortsBefore(m, x)
        <5>1. ASSUME NEW y \in s \ {x} PROVE SortsBefore(y, x)
          BY <4>2, <4>4, SortOrder
        <5>2. QED
          BY <3>1, <5>1
      <4>5. QED
        BY <4>2, <4>3, <4>4, SortOrder
    <3>4. QED
      BY <3>2, <3>3
  <2>2. QED
    BY <2>1
<1> HIDE DEF Good, last
<1>2. IsFiniteSet(Users)
  BY UsersAssumption
<1>3. SUBSET Users \subseteq Good
  BY <1>1, <1>2, InductionOverSubsets
<1>4. QED
  BY <1>3 DEF Good, last

\* Every set of users can be sorted: the last of them comes after the others.
LEMMA SortExists ==
  ASSUME remaining \in [Users -> Nat], NEW S \in SUBSET Users
  PROVE  InOrder(S) # {}
<1> DEFINE Good == {s \in SUBSET Users : \E f : f \in InOrder(s)}
<1>1. IsFiniteSet(Users)
  BY UsersAssumption
<1>2. ASSUME NEW s \in SUBSET Users, \A t \in SUBSET s : t # s => t \in Good PROVE s \in Good
  <2>1. IsFiniteSet(s) /\ Cardinality(s) \in Nat
    BY <1>1, FS_Subset, FS_CardinalityType
  <2>2. CASE s = {}
    <3>1. Cardinality(s) = 0
      BY <2>2, FS_EmptySet
    <3>2. << >> \in InOrder(s)
      BY <2>2, <3>1 DEF InOrder
    <3>3. QED
      BY <3>2
  <2>3. CASE s # {}
    <3>1. PICK x \in s : \A y \in s \ {x} : SortsBefore(y, x)
      BY <2>3, SomebodyIsLast
    <3> DEFINE r == s \ {x}
               n == Cardinality(r)
    <3>2. n \in Nat /\ Cardinality(s) = n + 1
      <4>1. IsFiniteSet(r) /\ n = Cardinality(s) - 1
        BY <2>1, <3>1, FS_RemoveElement
      <4>2. n \in Nat
        BY <4>1, FS_CardinalityType
      <4> HIDE DEF n
      <4>3. QED
        BY <2>1, <4>1, <4>2
    <3>3. r \in Good
      BY <1>2, <3>1
    <3>4. PICK f : f \in InOrder(r)
      BY <3>3
    <3>5. f \in [1..n -> r] /\ \A i, j \in 1..n : i < j => SortsBefore(f[i], f[j])
      BY <3>4 DEF InOrder
    <3>6. r \subseteq s /\ x \in s /\ \A y \in r : SortsBefore(y, x)
      BY <3>1
    <3> HIDE DEF r, n
    <3> DEFINE g == [i \in 1..(n + 1) |-> IF i = n + 1 THEN x ELSE f[i]]
    <3>7. \A i \in 1..(n + 1) : i = n + 1 \/ i \in 1..n
      BY <3>2
    <3>8. g \in [1..(n + 1) -> s]
      BY <3>5, <3>6, <3>7
    <3>9. ASSUME NEW i \in 1..(n + 1), NEW j \in 1..(n + 1), i < j
          PROVE  SortsBefore(g[i], g[j])
      <4>1. i \in 1..n /\ g[i] = f[i] /\ f[i] \in r
        BY <3>2, <3>5, <3>9
      <4>2. CASE j = n + 1
        BY <3>6, <4>1, <4>2
      <4>3. CASE j # n + 1
        BY <3>5, <3>7, <3>9, <4>1, <4>3
      <4>4. QED
        BY <4>2, <4>3
    <3> HIDE DEF g
    <3>10. g \in InOrder(s)
      BY <3>2, <3>8, <3>9 DEF InOrder
    <3>11. QED
      BY <3>10
  <2>4. QED
    BY <2>2, <2>3
<1> HIDE DEF Good
<1>3. SUBSET Users \subseteq Good
  BY <1>1, <1>2, InductionOverSubsets
<1>4. QED
  BY <1>3 DEF Good

\* A set of users can be sorted in one way only: the first position at which
\* two sorted lists differed would have each of two users before the other.
LEMMA SortIsUnique ==
  ASSUME remaining \in [Users -> Nat], NEW S \in SUBSET Users,
         NEW s \in InOrder(S), NEW t \in InOrder(S)
  PROVE  s = t
<1> DEFINE n == Cardinality(S)
           Good == {m \in Nat : \A i \in 1..n : i <= m => s[i] = t[i]}
<1>1. n \in Nat
  <2>1. IsFiniteSet(S)
    BY UsersAssumption, FS_Subset
  <2>2. QED
    BY <2>1, FS_CardinalityType
<1>2. /\ s \in [1..n -> S] /\ t \in [1..n -> S]
      /\ \A i, j \in 1..n : i < j => SortsBefore(s[i], s[j]) /\ SortsBefore(t[i], t[j])
  BY DEF InOrder
<1>3. Lists(s, S) /\ Lists(t, S) /\ Len(s) = n /\ Len(t) = n
  <2>1. Lists(s, S) /\ Lists(t, S)
    BY SortedListIsComplete
  <2>2. QED
    BY <2>1 DEF Lists
<1>4. /\ \A u \in S : \E i \in 1..n : s[i] = u
      /\ \A u \in S : \E i \in 1..n : t[i] = u
      /\ \A i, j \in 1..n : s[i] = s[j] => i = j
      /\ \A i, j \in 1..n : t[i] = t[j] => i = j
  BY <1>3 DEF Lists
<1> HIDE DEF n
<1>5. 0 \in Good
  BY <1>1
<1>6. ASSUME NEW m \in Nat, m \in Good PROVE m + 1 \in Good
  <2>1. ASSUME m + 1 \in 1..n, s[m + 1] # t[m + 1] PROVE FALSE
    <3> DEFINE k == m + 1
    <3>1. s[k] \in S /\ t[k] \in S
      BY <1>2, <2>1
    <3>2. PICK j \in 1..n : t[j] = s[k]
      BY <1>4, <3>1
    <3>3. PICK l \in 1..n : s[l] = t[k]
      BY <1>4, <3>1
    <3>4. j > k
      <4>1. j # k
        BY <2>1, <3>2
      <4>2. ASSUME j < k PROVE FALSE
        <5>1. j <= m
          BY <4>2
        <5>2. s[j] = t[j]
          BY <1>6, <5>1
        <5>3. j = k
          BY <1>4, <2>1, <3>2, <5>2
        <5>4. QED
          BY <4>1, <5>3
      <4>3. QED
        BY <4>1, <4>2
    <3>5. l > k
      <4>1. l # k
        BY <2>1, <3>3
      <4>2. ASSUME l < k PROVE FALSE
        <5>1. l <= m
          BY <4>2
        <5>2. s[l] = t[l]
          BY <1>6, <5>1
        <5>3. l = k
          BY <1>4, <2>1, <3>3, <5>2
        <5>4. QED
          BY <4>1, <5>3
      <4>3. QED
        BY <4>1, <4>2
    <3>6. SortsBefore(t[k], s[k])
      BY <1>2, <2>1, <3>2, <3>4
    <3>7. SortsBefore(s[k], t[k])
      BY <1>2, <2>1, <3>3, <3>5
    <3>8. s[k] \in Users /\ t[k] \in Users
      BY <3>1
    <3>9. QED
      BY <3>6, <3>7, <3>8, SortOrder
  <2>2. \A i \in 1..n : i <= m + 1 => i <= m \/ i = m + 1
    OBVIOUS
  <2>3. QED
    BY <1>6, <2>1, <2>2
<1> HIDE DEF Good
<1>7. Nat \subseteq Good
  BY <1>5, <1>6, InductionOverNat
<1>8. \A i \in 1..n : s[i] = t[i]
  BY <1>1, <1>7 DEF Good
<1>9. s = [i \in 1..n |-> s[i]] /\ t = [i \in 1..n |-> t[i]]
  BY <1>2
<1>10. QED
  BY <1>8, <1>9, Zenon

\* the sort of any set of users has exactly one result
SortIsDefined == \A S \in SUBSET Users : \E s : InOrder(S) = {s}

\* Whatever the balances are, the sort of either side has one result, as that
\* of the code has: the step neither blocks nor chooses.
THEOREM SortIsAFunction == Spec => []SortIsDefined
<1>1. TypeOK => SortIsDefined
  <2> SUFFICES ASSUME TypeOK, NEW S \in SUBSET Users PROVE \E s : InOrder(S) = {s}
    BY DEF SortIsDefined
  <2>1. remaining \in [Users -> Nat]
    BY DEF TypeOK
  <2>2. PICK s : s \in InOrder(S)
    BY <2>1, SortExists
  <2>3. \A t \in InOrder(S) : t = s
    BY <2>1, <2>2, SortIsUnique
  <2>4. InOrder(S) = {s}
    BY <2>2, <2>3
  <2>5. QED
    BY <2>4
<1>2. QED
  BY <1>1, TypeCorrect, PTL

\* An upper bound of the steps that the loop still has to take: the sort, an
\* iteration for each user at or behind a cursor, and the end.
StepsLeft ==
  IF pc = "sort" THEN Cardinality(CreditorSet) + Cardinality(DebtorSet) + 2
  ELSE IF pc = "match"
    THEN (Len(creditors) + 1 - creditor_idx) + (Len(debtors) + 1 - debtor_idx) + 1
  ELSE 0

\* the bound is a number, which is 0 when the loop has ended and only then
StepsAreCounted == StepsLeft \in Nat /\ (StepsLeft = 0 <=> pc = "done")

\* Every step takes the loop nearer to its end: with the weak fairness of its
\* steps, none of which blocks (SortIsAFunction), that is why it ends.
THEOREM LoopWindsDown == Spec => []StepsAreCounted /\ [][StepsLeft' < StepsLeft]_vars
<1>1. IsFiniteSet(CreditorSet) /\ IsFiniteSet(DebtorSet)
  BY UsersAssumption, FS_Subset DEF CreditorSet, DebtorSet
<1>2. Cardinality(CreditorSet) \in Nat /\ Cardinality(DebtorSet) \in Nat
  BY <1>1, FS_CardinalityType
<1>3. IInv => StepsAreCounted
  <2> SUFFICES ASSUME IInv PROVE StepsAreCounted
    OBVIOUS
  <2>1. /\ pc \in {"sort", "match", "done"}
        /\ Len(creditors) \in Nat /\ Len(debtors) \in Nat
        /\ creditor_idx \in 1..(Len(creditors) + 1) /\ debtor_idx \in 1..(Len(debtors) + 1)
    BY DEF IInv, TypeOK
  <2>2. CASE pc = "sort"
    BY <1>2, <2>2 DEF StepsAreCounted, StepsLeft
  <2>3. CASE pc = "match"
    BY <2>1, <2>3 DEF StepsAreCounted, StepsLeft
  <2>4. CASE pc = "done"
    BY <2>4 DEF StepsAreCounted, StepsLeft
  <2>5. QED
    BY <2>1, <2>2, <2>3, <2>4
<1>4. IInv /\ IInv' /\ [Next]_vars => [StepsLeft' < StepsLeft]_vars
  <2> SUFFICES ASSUME IInv, IInv', Next, vars' # vars PROVE StepsLeft' < StepsLeft
    OBVIOUS
  <2>1. /\ Len(creditors) \in Nat /\ Len(debtors) \in Nat
        /\ creditor_idx \in 1..(Len(creditors) + 1) /\ debtor_idx \in 1..(Len(debtors) + 1)
    <3>1. TypeOK
      BY DEF IInv
    <3>2. QED
      BY <3>1 DEF TypeOK
  <2>2. CASE SortBalances
    <3>1. pc = "sort" /\ pc' = "match" /\ creditor_idx' = 1 /\ debtor_idx' = 1
      BY <2>2 DEF SortBalances, IInv, NotSortedYet
    <3>2. /\ CreditorSet' = CreditorSet /\ DebtorSet' = DebtorSet
      BY <2>2 DEF SortBalances, CreditorSet, DebtorSet
    <3>3. Len(creditors') = Cardinality(CreditorSet) /\ Len(debtors') = Cardinality(DebtorSet)
      BY <3>1, <3>2 DEF IInv, Lists
    <3>4. QED
      BY <1>2, <3>1, <3>3 DEF StepsLeft
  <2>3. CASE Match
    <3>1. /\ creditor_idx' \in {creditor_idx, creditor_idx + 1}
          /\ debtor_idx' \in {debtor_idx, debtor_idx + 1}
          /\ creditor_idx' = creditor_idx + 1 \/ debtor_idx' = debtor_idx + 1
      BY <2>3, MatchStep
    <3>2. pc = "match" /\ pc' = "match" /\ creditors' = creditors /\ debtors' = debtors
      BY <2>3 DEF Match
    <3>3. StepsLeft = (Len(creditors) + 1 - creditor_idx) + (Len(debtors) + 1 - debtor_idx) + 1
      BY <3>2 DEF StepsLeft
    <3>4. StepsLeft' = (Len(creditors) + 1 - creditor_idx') + (Len(debtors) + 1 - debtor_idx') + 1
      BY <3>2 DEF StepsLeft
    <3>5. QED
      BY <2>1, <3>1, <3>3, <3>4
  <2>4. CASE Finish
    <3>1. pc = "match" /\ pc' = "done"
      BY <2>4 DEF Finish
    <3>2. QED
      BY <2>1, <3>1 DEF StepsLeft
  <2>5. QED
    BY <2>2, <2>3, <2>4 DEF Next, Terminated
<1>5. QED
  BY <1>3, <1>4, Invariant, PTL DEF Spec
=============================================================================
