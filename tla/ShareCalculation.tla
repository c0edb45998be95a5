--------------------------- MODULE ShareCalculation ---------------------------
(***************************************************************************)
(* TransactionService._validate_transaction, run on a request before it is *)
(* stored, and _calculate_shares_for_transaction, run on what was stored   *)
(* whenever balances are computed (app/services/transaction.py).           *)
(*                                                                         *)
(* The two are a chain: the second relies on what the first has let pass.  *)
(* The participants are named 1..n in the order of their user ids, which   *)
(* is the order in which left-over cents are handed out.  `given` is the   *)
(* column of a share the split reads: share_amount, or share_percentage.   *)
(* Amounts and shares are signed: no schema or column constrains them.     *)
(*                                                                         *)
(* A percentage is a binary float.  Validation adds the floats up, in the  *)
(* order of the request and with a rounding at each addition (Plus); the   *)
(* calculation takes each of them for what it reads when printed           *)
(* (Decimal(str(...)), here Decimal) and is exact from there.  Nothing is  *)
(* assumed of either but that the one gives floats and the other numbers,  *)
(* so the two need not agree on what makes 100 percent.                    *)
(***************************************************************************)
EXTENDS Integers, Functions

CONSTANTS
  MaxShares,     \* bound: participants of a transaction
  Amounts,       \* amounts of a transaction, in cents
  Values,        \* what share_amount can be
  Percentages,   \* what share_percentage can be: finite floats
  Floats,        \* the binary floats, each named by a number; 0 is 0.0
  FloatHundred,  \* 100.0
  Plus(_, _),    \* the sum of two floats, rounded to a float
  Decimal(_),    \* Decimal(str(x)), in units of which Hundred make 100 percent
  Hundred,       \* 100 percent in these units
  DecimalLimit,  \* a cent more than a Decimal has digits for
  Orders(_),     \* bound: orders of n shares in a request, as against their user ids
  None           \* the column is null

ASSUME MaxSharesAssumption == MaxShares \in Nat
ASSUME AmountsAssumption   == Amounts \subseteq Int
ASSUME ValuesAssumption    == Values \subseteq Int /\ None \notin Int
ASSUME HundredAssumption   == Hundred \in Nat \ {0}
ASSUME FloatsAssumption ==
  /\ Floats \subseteq Int /\ 0 \in Floats /\ Percentages \subseteq Floats
  /\ \A x, y \in Floats : Plus(x, y) \in Floats
ASSUME DecimalAssumption == \A x \in Percentages : Decimal(x) \in Int
ASSUME OrdersAssumption  == \A n \in 0..MaxShares : Orders(n) \subseteq Bijection(1..n, 1..n)

VARIABLES
  pc,          \* the statement the two functions are at, or their outcome
  request,     \* the transaction: kind, split, amount, n shares, their order, what each was given
  i,           \* the loops' cursor
  total,       \* total_amount, total_percentage, total_shares or total
  shares,      \* the dict {user_id: cents}
  remainder,   \* cents still to hand out (> 0) or to take back (< 0)
  given_sums,  \* history: what total was as the validation added the columns up
  base_sums    \* history: sums of the first shares before cents are handed out

vars == << pc, request, i, total, shares, remainder, given_sums, base_sums >>

Kinds  == {"expense", "deposit", "refund"}
Splits == {"personal", "equal", "amount", "percentage"}
Totals == {"amount", "percentage"}   \* the splits that read a column

Column(split) == IF split = "amount" THEN Values ELSE Percentages
Nulls(n)      == [j \in 1..n |-> None]

Magnitude(x) == IF x < 0 THEN -x ELSE x
Sign(x)      == IF x < 0 THEN -1 ELSE 1

\* Duplicate participants are left out: the primary key of the share rows
\* refuses them.  What no split reads is left null.
Init ==
  /\ pc = "validate"
  /\ \E n \in 0..MaxShares, kind \in Kinds, split \in Splits, amount \in Amounts, own \in BOOLEAN :
       \E order \in Orders(n),
          given \in IF kind = "expense" /\ split \in Totals
                     THEN [1..n -> Column(split) \cup {None}] ELSE {Nulls(n)} :
         request = [kind |-> kind, split |-> split, amount |-> amount,
                    own_share |-> own, n |-> n, order |-> order, given |-> given]
  /\ i = 1
  /\ total = 0
  /\ shares = [j \in {} |-> 0]
  /\ remainder = 0
  /\ given_sums = [j \in {0} |-> 0]
  /\ base_sums = [j \in {0} |-> 0]

-----------------------------------------------------------------------------
(* _validate_transaction *)

\* a request is stored, rejected, or has a column to go through
Verdict ==
  IF request.kind # "expense" THEN (IF request.n = 0 THEN "stored" ELSE "rejected")
  ELSE IF request.n = 0 THEN "rejected"
  ELSE IF request.split = "personal"
         THEN (IF request.n = 1 /\ request.own_share THEN "stored" ELSE "rejected")
  ELSE IF request.split = "equal" THEN "stored" ELSE "check_shares"

Validate ==
  /\ pc = "validate"
  /\ pc' = Verdict
  /\ UNCHANGED << request, i, total, shares, remainder, given_sums, base_sums >>

\* += on cents, or on floats
Added(x, y) == IF request.split = "amount" THEN x + y ELSE Plus(x, y)

\* what the i-th share of the request has in the column
Asked(k) == request.given[request.order[k]]

\* one iteration over the shares: the column must not be null
CheckShare ==
  /\ pc = "check_shares" /\ i <= request.n
  /\ IF Asked(i) = None
       THEN pc' = "rejected" /\ UNCHANGED << i, total, given_sums >>
       ELSE /\ total' = Added(total, Asked(i))
            /\ given_sums' = [j \in 0..i |-> IF j = i THEN total' ELSE given_sums[j]]
            /\ i' = i + 1
            /\ UNCHANGED pc
  /\ UNCHANGED << request, shares, remainder, base_sums >>

\* what the column has to come to
Target == IF request.split = "amount" THEN request.amount ELSE FloatHundred

\* seeded fault: what is missing from the total is let pass
TotalAtMost == total <= Target
\* the amounts come to the transaction's, the floats to 100.0
TotalMatches == total = Target

CheckTotal ==
  /\ pc = "check_shares" /\ i > request.n
  /\ pc' = IF TotalMatches THEN "stored" ELSE "rejected"
  /\ UNCHANGED << request, i, total, shares, remainder, given_sums, base_sums >>

-----------------------------------------------------------------------------
(* _calculate_shares_for_transaction *)

\* Only an expense with share rows has shares; any other gets an empty dict.
StartCalculation ==
  /\ pc = "stored"
  /\ IF request.kind = "expense" /\ request.n > 0
       THEN pc' = "assign" /\ i' = 1 /\ total' = 0
       ELSE pc' = "calculated" /\ UNCHANGED << i, total >>
  /\ UNCHANGED << request, shares, remainder, given_sums, base_sums >>

\* num / den to the nearest integer, a tie to the even one
RoundHalfEven(num, den) ==
  LET q == num \div den
      r == num % den
  IN  IF 2 * r < den \/ (2 * r = den /\ q % 2 = 0) THEN q ELSE q + 1

\* the share of participant j before cents are handed out
BaseShare(j) ==
  CASE request.split = "personal"   -> request.amount
    [] request.split = "equal"      -> request.amount \div request.n
    [] request.split = "amount"     -> request.given[j]
    [] request.split = "percentage" ->
         RoundHalfEven(request.amount * Decimal(request.given[j]), Hundred)

Missing(j) == request.split \in Totals /\ request.given[j] = None
\* quantize refuses what has more digits than the context's precision
TooLong(j) == request.split = "percentage" /\ Magnitude(BaseShare(j)) >= DecimalLimit

\* one iteration over the shares; the sum that follows the loop is kept with it
Assign ==
  /\ pc = "assign" /\ i <= request.n
  /\ IF Missing(i) \/ TooLong(i)
       THEN /\ pc' = IF Missing(i) THEN "invalid" ELSE "decimal_error"
            /\ UNCHANGED << i, total, shares, base_sums >>
       ELSE /\ shares' = [j \in 1..i |-> IF j = i THEN BaseShare(i) ELSE shares[j]]
            /\ total' = total + BaseShare(i)
            /\ base_sums' = [j \in 0..i |-> IF j = i THEN total' ELSE base_sums[j]]
            /\ i' = i + 1
            /\ UNCHANGED pc
  /\ UNCHANGED << request, remainder, given_sums >>

\* seeded fault: cents are not handed out after an equal split of a negative amount
RemainderOfPositive ==
  CASE request.split = "personal" -> 0
    [] request.split = "equal"    -> IF request.amount < 0 THEN 0 ELSE request.amount % request.n
    [] OTHER                      -> request.amount - total
Remainder ==
  CASE request.split = "personal" -> 0
    [] request.split = "equal"    -> request.amount % request.n
    [] OTHER                      -> request.amount - total

Assigned ==
  /\ pc = "assign" /\ i > request.n
  /\ remainder' = Remainder
  /\ pc' = "distribute"
  /\ i' = 1
  /\ UNCHANGED << request, total, shares, given_sums, base_sums >>

\* seeded fault: all the left-over cents go to the first participant
FirstUser(k) == 1
\* the k-th participant by user id
SortedUser(k) == k

\* one iteration of the loop that hands out a cent, or takes one back
Distribute ==
  /\ pc = "distribute" /\ i <= Magnitude(remainder)
  /\ IF SortedUser(i) > request.n
       THEN pc' = "index_error" /\ UNCHANGED << i, shares >>
       ELSE /\ shares' = [shares EXCEPT ![SortedUser(i)] = @ + Sign(remainder)]
            /\ i' = i + 1
            /\ UNCHANGED pc
  /\ UNCHANGED << request, total, remainder, given_sums, base_sums >>

Distributed ==
  /\ pc = "distribute" /\ i > Magnitude(remainder)
  /\ pc' = "final_sum"
  /\ i' = 1
  /\ total' = 0
  /\ UNCHANGED << request, shares, remainder, given_sums, base_sums >>

\* the sum of the final validation
FinalSum ==
  /\ pc = "final_sum" /\ i <= request.n
  /\ total' = total + shares[i]
  /\ i' = i + 1
  /\ UNCHANGED << pc, request, shares, remainder, given_sums, base_sums >>

Answer ==
  /\ pc = "final_sum" /\ i > request.n
  /\ pc' = IF total = request.amount THEN "calculated" ELSE "internal_error"
  /\ UNCHANGED << request, i, total, shares, remainder, given_sums, base_sums >>

Outcomes ==
  {"rejected", "calculated", "invalid", "decimal_error", "index_error", "internal_error"}

Terminated == pc \in Outcomes /\ UNCHANGED vars

Step ==
  \/ Validate \/ CheckShare \/ CheckTotal
  \/ StartCalculation \/ Assign \/ Assigned
  \/ Distribute \/ Distributed \/ FinalSum \/ Answer

Next == Step \/ Terminated

Spec == Init /\ [][Next]_vars

-----------------------------------------------------------------------------
(* Properties *)

Labels == {"validate", "check_shares", "stored", "assign", "distribute", "final_sum"}

\* the percentages as the calculation reads them, and that they make 100 percent
Exact  == [j \in 1..request.n |-> Decimal(request.given[j])]
AddsUp == request.split = "percentage" => SumFunction(Exact) = Hundred

\* The loops' cursor never passes the last participant by more than one.  Unless
\* percentages are off 100 percent, no more cents are left to hand out or to take
\* back than there are participants.
TypeOK ==
  /\ pc \in Labels \cup Outcomes
  /\ request.kind \in Kinds /\ request.split \in Splits
  /\ request.amount \in Int /\ request.n \in Nat /\ request.own_share \in BOOLEAN
  /\ request.given \in [1..request.n -> Int \cup {None}]
  /\ i \in 1..(request.n + 1)
  /\ total \in Int
  /\ shares \in [DOMAIN shares -> Int]
  /\ remainder \in Int
  /\ remainder \notin (-request.n)..request.n => ~AddsUp

\* A request that validation lets pass makes the calculation fail, which takes
\* the balances and the settlement of the whole period with it, in two cases
\* only: its floats come to 100.0 and the same percentages, as they are printed,
\* do not come to 100, which can leave more cents over than there are
\* participants to index (index_error); or a share has more digits than a Decimal
\* (decimal_error).  No other request fails, no null column is met, and the
\* shares of no request miss the amount.
FailsOnlyOffHundred ==
  /\ pc \notin {"invalid", "internal_error"}
  /\ pc = "index_error" => ~AddsUp

\* An equal split gives any two participants the same share to the cent, and
\* the cents left over go to the lowest user ids.
EqualSplitIsEven ==
  (pc = "calculated" /\ request.kind = "expense" /\ request.split = "equal") =>
    \A j, k \in 1..request.n : j < k => shares[j] - shares[k] \in {0, 1}

\* An amount split is left as it was given: no cent is moved to another share.
AmountsAreKept ==
  (pc = "calculated" /\ request.kind = "expense" /\ request.split = "amount") =>
    shares = request.given

\* The share of a percentage split is within one and a half cents of the exact
\* one: half a cent of rounding, and at most one of the cents left over.  This
\* holds of percentages off 100 percent as well, when they can be calculated.
PercentagesAreClose ==
  (pc = "calculated" /\ request.kind = "expense" /\ request.split = "percentage") =>
    \A j \in 1..request.n :
      2 * Magnitude(Hundred * shares[j] - request.amount * Exact[j]) <= 3 * Hundred
=============================================================================
