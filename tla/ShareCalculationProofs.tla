------------------------ MODULE ShareCalculationProofs ------------------------
(***************************************************************************)
(* Theorems about ShareCalculation, for every amount, every number of      *)
(* participants, every column of values, every addition of floats and      *)
(* every way to print them.                                                *)
(*                                                                         *)
(* The argument: validation leaves a column without nulls whose running    *)
(* totals end in the amount or in 100.0 (Validated); of cents, and only of *)
(* cents, that is the sum, in whatever order they were added (ColumnSum).  *)
(* The shares before cents are handed out follow the sums of the amounts,  *)
(* or of the percentages as they are printed, closely enough (StaysClose:  *)
(* half a cent a participant) for the remainder to be at most one cent a   *)
(* participant when those come to the amount or to 100 percent (AddsUp).   *)
(* The hand-out then never runs past the last one, and whenever it does    *)
(* not it makes up the whole difference (Corrected).                       *)
(***************************************************************************)
EXTENDS ShareCalculation, FoldLemmas

(* Arithmetic *)

\* Division rounds down: the quotient and the remainder of an integer.
LEMMA DivMod ==
  ASSUME NEW num \in Int, NEW den \in Nat \ {0}
  PROVE  /\ num \div den \in Int
         /\ num % den \in 0..(den - 1)
         /\ num = den * (num \div den) + (num % den)
<1>1. num \div den \in Int
  OBVIOUS
<1>2. num % den \in 0..(den - 1)
  OBVIOUS
<1>3. num = den * (num \div den) + (num % den)
  OBVIOUS
<1>4. QED
  BY <1>1, <1>2, <1>3

\* what ROUND_HALF_EVEN returns is within half a unit of the quotient
LEMMA RoundingError ==
  ASSUME NEW num \in Int, NEW den \in Nat \ {0}
  PROVE  /\ RoundHalfEven(num, den) \in Int
         /\ 2 * Magnitude(den * RoundHalfEven(num, den) - num) <= den
<1> DEFINE q == num \div den
           r == num % den
<1>1. q \in Int /\ r \in 0..(den - 1) /\ num = den * q + r
  BY DivMod
<1>2. RoundHalfEven(num, den) = IF 2 * r < den \/ (2 * r = den /\ q % 2 = 0) THEN q ELSE q + 1
  BY DEF RoundHalfEven
<1> HIDE DEF q, r
<1>3. den * (q + 1) = den * q + den
  BY <1>1
<1>4. QED
  BY <1>1, <1>2, <1>3 DEF Magnitude

\* the error of a sum of rounded terms grows by half a unit a term
LEMMA ErrorsAddUp ==
  ASSUME NEW den \in Nat, NEW a \in Int, NEW m \in Nat,
         NEW b \in Int, NEW g \in Int, 2 * Magnitude(den * b - a * g) <= den * m,
         NEW x \in Int, NEW y \in Int, 2 * Magnitude(den * x - a * y) <= den
  PROVE  2 * Magnitude(den * (b + x) - a * (g + y)) <= den * (m + 1)
<1>1. /\ den * (b + x) = den * b + den * x
      /\ a * (g + y) = a * g + a * y
      /\ den * (m + 1) = den * m + den
  OBVIOUS
<1> DEFINE db == den * b
           dx == den * x
           ag == a * g
           ay == a * y
           dm == den * m
<1>2. db \in Int /\ dx \in Int /\ ag \in Int /\ ay \in Int /\ dm \in Int
  OBVIOUS
<1>3. 2 * Magnitude(db - ag) <= dm /\ 2 * Magnitude(dx - ay) <= den
  OBVIOUS
<1> HIDE DEF db, dx, ag, ay, dm
<1>4. 2 * Magnitude((db + dx) - (ag + ay)) <= dm + den
  BY <1>2, <1>3 DEF Magnitude
<1>5. QED
  BY <1>1, <1>4 DEF db, dx, ag, ay, dm

\* a sum that is close to the amount leaves few cents over
LEMMA FewCentsLeft ==
  ASSUME NEW den \in Nat \ {0}, NEW a \in Int, NEW b \in Int, NEW m \in Nat,
         2 * Magnitude(den * b - a * den) <= den * m
  PROVE  a - b \in (-m)..m
<1> DEFINE d == a - b
<1>1. d \in Int /\ den * b - a * den = -(den * d)
  OBVIOUS
<1> HIDE DEF d
<1>2. 2 * Magnitude(den * d) <= den * m
  BY <1>1 DEF Magnitude
<1>3. CASE d > m
  <2>1. den * d > den * m /\ den * m >= 0
    BY <1>1, <1>3
  <2>2. QED
    BY <1>1, <1>2, <2>1 DEF Magnitude
<1>4. CASE d < -m
  <2>1. den * (-d) > den * m /\ den * m >= 0 /\ den * (-d) = -(den * d)
    BY <1>1, <1>4
  <2>2. QED
    BY <1>1, <1>2, <2>1 DEF Magnitude
<1>5. QED
  BY <1>1, <1>3, <1>4 DEF d

-----------------------------------------------------------------------------
(* The inductive invariant *)

TypeInv ==
  /\ pc \in Labels \cup Outcomes
  /\ request \in [kind : Kinds, split : Splits, amount : Int, own_share : BOOLEAN, n : Nat,
                  order : {request.order}, given : {request.given}]
  /\ request.order \in Bijection(1..request.n, 1..request.n)
  /\ request.given \in [1..request.n -> Int \cup {None}]
  /\ request.split = "percentage" => request.given \in [1..request.n -> Percentages \cup {None}]
  /\ i \in 1..(request.n + 1)
  /\ total \in Int
  /\ remainder \in Int

\* what validation adds up: cents, or floats
Totalled == IF request.split = "amount" THEN Int ELSE Floats

\* the first m columns of the request are not null and given_sums are their running totals
GivenUpTo(m) ==
  /\ given_sums \in [0..m -> Totalled]
  /\ given_sums[0] = 0
  /\ \A k \in 1..m : Asked(k) # None /\ given_sums[k] = Added(given_sums[k - 1], Asked(k))

\* what validation has let pass
Validated ==
  /\ request.n >= 1
  /\ request.split = "personal" => request.n = 1
  /\ request.split \in Totals => GivenUpTo(request.n) /\ given_sums[request.n] = Target

\* the first m shares before cents are handed out, with their prefix sums
BaseUpTo(m) ==
  /\ base_sums \in [0..m -> Int]
  /\ base_sums[0] = 0
  /\ \A j \in 1..m : BaseShare(j) \in Int /\ base_sums[j] = base_sums[j - 1] + BaseShare(j)

\* how far the sum of the first m shares is from what they were asked to be
StaysClose(m) ==
  /\ request.split = "personal" => base_sums[m] = request.amount * m
  /\ request.split = "equal" => base_sums[m] = (request.amount \div request.n) * m
  /\ request.split = "amount" => base_sums[m] = SumFunctionOnSet(request.given, 1..m)
  /\ request.split = "percentage" =>
       2 * Magnitude(Hundred * base_sums[m] - request.amount * SumFunctionOnSet(Exact, 1..m))
         <= Hundred * m

\* the shares when the first m participants have had their cent
Corrected(m) ==
  /\ BaseUpTo(request.n)
  /\ remainder = request.amount - base_sums[request.n]
  /\ request.split = "equal" => remainder >= 0
  /\ request.split = "amount" => remainder = 0
  /\ shares \in [1..request.n -> Int]
  /\ \A j \in 1..request.n :
       shares[j] = BaseShare(j) + (IF j <= m THEN Sign(remainder) ELSE 0)

\* at most a cent for each participant is left over
FewLeft == remainder \in (-request.n)..request.n

Least(a, b) == IF a <= b THEN a ELSE b

IInv ==
  /\ TypeInv
  /\ pc = "validate" => i = 1 /\ total = 0 /\ given_sums = [j \in {0} |-> 0]
  /\ pc = "check_shares" => /\ request.n >= 1 /\ request.split \in Totals
                            /\ GivenUpTo(i - 1) /\ total = given_sums[i - 1]
  /\ pc \in {"validate", "check_shares", "stored", "rejected"} =>
       base_sums = [j \in {0} |-> 0] /\ shares = [j \in {} |-> 0] /\ remainder = 0
  /\ pc = "stored" /\ request.kind = "expense" => Validated
  /\ pc \in {"assign", "distribute", "final_sum"} => request.kind = "expense" /\ Validated
  /\ pc = "assign" => /\ BaseUpTo(i - 1) /\ StaysClose(i - 1) /\ total = base_sums[i - 1]
                      /\ shares = [j \in 1..(i - 1) |-> BaseShare(j)]
  /\ pc = "distribute" => i <= Magnitude(remainder) + 1 /\ Corrected(i - 1)
  /\ pc = "final_sum" => /\ Corrected(Magnitude(remainder)) /\ FewLeft
                         /\ total = base_sums[i - 1] + Sign(remainder) * Least(i - 1, Magnitude(remainder))
  /\ pc = "calculated" /\ request.kind # "expense" => shares = [j \in {} |-> 0]
  /\ pc = "calculated" /\ request.kind = "expense" =>
       Validated /\ Corrected(Magnitude(remainder)) /\ FewLeft
  /\ pc \in {"decimal_error", "index_error"} => shares \in [DOMAIN shares -> Int]
  /\ AddsUp => FewLeft
  /\ FailsOnlyOffHundred

-----------------------------------------------------------------------------
(* Sums *)

\* the sum of one more summand
LEMMA NextSum ==
  ASSUME NEW m \in Nat, NEW f, \A x \in 1..(m + 1) : f[x] \in Int
  PROVE  /\ SumFunctionOnSet(f, 1..m) \in Int
         /\ SumFunctionOnSet(f, 1..(m + 1)) = SumFunctionOnSet(f, 1..m) + f[m + 1]
<1>1. IsFiniteSet(1..m) /\ IsFiniteSet(1..(m + 1))
  <2>1. m + 1 \in Nat
    OBVIOUS
  <2>2. QED
    BY <2>1, FS_Interval
<1>2. (1..(m + 1)) \ {m + 1} = 1..m /\ m + 1 \in 1..(m + 1) /\ \A x \in 1..m : f[x] \in Int
  OBVIOUS
<1>3. SumFunctionOnSet(f, 1..m) \in Int
  BY <1>1, <1>2, SumType
<1>4. SumFunctionOnSet(f, 1..(m + 1)) = f[m + 1] + SumFunctionOnSet(f, (1..(m + 1)) \ {m + 1})
  BY <1>1, <1>2, SumTakeOut
<1>5. SumFunctionOnSet(f, 1..(m + 1)) = f[m + 1] + SumFunctionOnSet(f, 1..m)
  BY <1>2, <1>4, Zenon
<1>6. f[m + 1] \in Int
  BY <1>2
<1>7. QED
  BY <1>3, <1>5, <1>6

\* the sum of no summands
LEMMA NoSum ==
  ASSUME NEW f
  PROVE  SumFunctionOnSet(f, 1..0) = 0
<1>1. 1..0 = {}
  OBVIOUS
<1>2. IsFiniteSet({}) /\ \A x \in {} : f[x] \in Int
  BY FS_EmptySet
<1>3. SumFunctionOnSet(f, {}) = 0
  BY <1>2, SumEquation
<1>4. QED
  BY <1>1, <1>3, Zenon

\* The order of a request names each participant once.
LEMMA OrderNamesAll ==
  ASSUME TypeInv
  PROVE  /\ request.order \in [1..request.n -> 1..request.n]
         /\ \A j \in 1..request.n : \E k \in 1..request.n : request.order[k] = j
BY DEF TypeInv, Bijection, Injection, Surjection

\* What a share of the request has in the column.
LEMMA AskedType ==
  ASSUME TypeInv, NEW k \in 1..request.n
  PROVE  /\ Asked(k) \in Int \cup {None}
         /\ request.split = "percentage" => Asked(k) \in Percentages \cup {None}
<1>1. request.order[k] \in 1..request.n
  BY OrderNamesAll
<1>2. QED
  BY <1>1 DEF TypeInv, Asked

\* One more column keeps the total what it is a total of.
LEMMA AddedType ==
  ASSUME TypeInv, request.split \in Totals, NEW k \in 1..request.n, Asked(k) # None, NEW x \in Totalled
  PROVE  Added(x, Asked(k)) \in Totalled /\ Added(x, Asked(k)) \in Int
<1>1. /\ Asked(k) \in Int
      /\ request.split = "percentage" => Asked(k) \in Percentages
  BY AskedType
<1>2. CASE request.split = "amount"
  BY <1>1, <1>2 DEF Added, Totalled
<1>3. CASE request.split = "percentage"
  BY <1>1, <1>3, FloatsAssumption DEF Added, Totalled
<1>4. QED
  BY <1>2, <1>3 DEF Totals

\* The column that validation has been through has no null, and the total of
\* cents is their sum.
LEMMA ColumnSum ==
  ASSUME TypeInv, GivenUpTo(request.n)
  PROVE  /\ \A j \in 1..request.n : request.given[j] # None /\ request.given[j] \in Int
         /\ request.split = "amount" =>
              SumFunctionOnSet(request.given, 1..request.n) = given_sums[request.n]
<1> DEFINE n == request.n
<1>1. ASSUME NEW j \in 1..n PROVE request.given[j] # None /\ request.given[j] \in Int
  <2>1. PICK k \in 1..n : request.order[k] = j
    BY OrderNamesAll
  <2>2. Asked(k) # None
    BY DEF GivenUpTo
  <2>3. request.given[j] # None
    BY <2>1, <2>2 DEF Asked
  <2>4. request.given[j] \in Int \cup {None}
    BY DEF TypeInv
  <2>5. QED
    BY <2>3, <2>4
<1>2. ASSUME request.split = "amount"
      PROVE  SumFunctionOnSet(request.given, 1..n) = given_sums[n]
  <2> DEFINE asked == [k \in 1..n |-> request.given[request.order[k]]]
  <2>1. n \in Nat /\ request.order \in Bijection(1..n, 1..n)
    BY DEF TypeInv
  <2>2. ASSUME NEW k \in 1..n
        PROVE  asked[k] \in Int /\ given_sums[k] = given_sums[k - 1] + asked[k]
    <3>1. request.order[k] \in 1..n
      BY OrderNamesAll
    <3>2. asked[k] \in Int
      BY <1>1, <3>1
    <3>3. given_sums[k] = Added(given_sums[k - 1], Asked(k))
      BY DEF GivenUpTo
    <3>4. QED
      BY <1>2, <3>2, <3>3 DEF Added, Asked
  <2>3. PrefixSums(given_sums, asked, n)
    BY <2>2 DEF PrefixSums, GivenUpTo
  <2>4. QED
    BY <2>1, <2>3, SumInOrder
<1>3. QED
  BY <1>1, <1>2

\* The percentages as they are printed are numbers.
LEMMA ExactType ==
  ASSUME TypeInv, GivenUpTo(request.n), request.split = "percentage", NEW j \in 1..request.n
  PROVE  Exact[j] = Decimal(request.given[j]) /\ Exact[j] \in Int
<1>1. request.given[j] # None
  BY ColumnSum
<1>2. request.given[j] \in Percentages \cup {None}
  BY DEF TypeInv
<1>3. QED
  BY <1>1, <1>2, DecimalAssumption DEF Exact

\* What depends on the request alone stays when it does.
LEMMA RequestKept ==
  ASSUME request' = request
  PROVE  /\ AddsUp' <=> AddsUp
         /\ \A j : BaseShare(j)' = BaseShare(j)
         /\ given_sums' = given_sums => (Validated' <=> Validated)
<1>1. Exact' = Exact
  BY DEF Exact
<1>2. AddsUp' <=> AddsUp
  BY <1>1 DEF AddsUp
<1>3. \A j : BaseShare(j)' = BaseShare(j)
  BY DEF BaseShare
<1>4. given_sums' = given_sums => (Validated' <=> Validated)
  BY DEF Validated, GivenUpTo, Asked, Added, Totalled, Target
<1>5. QED
  BY <1>2, <1>3, <1>4

-----------------------------------------------------------------------------
(* Each step preserves it *)

\* A request as it arrives.
LEMMA InitInvariant == Init => IInv
<1> SUFFICES ASSUME Init PROVE IInv
  OBVIOUS
<1>1. PICK n \in 0..MaxShares, kind \in Kinds, split \in Splits, amount \in Amounts, own \in BOOLEAN :
        \E order \in Orders(n),
           given \in IF kind = "expense" /\ split \in Totals
                      THEN [1..n -> Column(split) \cup {None}] ELSE {Nulls(n)} :
          request = [kind |-> kind, split |-> split, amount |-> amount,
                     own_share |-> own, n |-> n, order |-> order, given |-> given]
  BY DEF Init
<1>2. PICK order \in Orders(n),
           given \in IF kind = "expense" /\ split \in Totals
                      THEN [1..n -> Column(split) \cup {None}] ELSE {Nulls(n)} :
        request = [kind |-> kind, split |-> split, amount |-> amount,
                   own_share |-> own, n |-> n, order |-> order, given |-> given]
  BY <1>1
<1>3. n \in Nat /\ amount \in Int /\ order \in Bijection(1..n, 1..n)
  BY MaxSharesAssumption, AmountsAssumption, OrdersAssumption
<1>4. /\ given \in [1..n -> Int \cup {None}]
      /\ split = "percentage" => given \in [1..n -> Percentages \cup {None}]
  <2>1. Nulls(n) \in [1..n -> Int \cup {None}] /\ Nulls(n) \in [1..n -> Percentages \cup {None}]
    BY DEF Nulls
  <2>2. CASE kind = "expense" /\ split \in Totals
    <3>1. given \in [1..n -> Column(split) \cup {None}]
      BY <2>2
    <3>2. Column(split) \subseteq Int /\ (split = "percentage" => Column(split) = Percentages)
      BY ValuesAssumption, FloatsAssumption DEF Column
    <3>3. given \in [1..n -> Int \cup {None}]
      BY <3>1, <3>2
    <3>4. QED
      BY <3>1, <3>2, <3>3
  <2>3. CASE ~(kind = "expense" /\ split \in Totals)
    BY <2>1, <2>3
  <2>4. QED
    BY <2>2, <2>3
<1>5. /\ pc = "validate" /\ i = 1 /\ total = 0 /\ remainder = 0
      /\ shares = [j \in {} |-> 0] /\ given_sums = [j \in {0} |-> 0] /\ base_sums = [j \in {0} |-> 0]
  BY DEF Init
<1>6. TypeInv
  BY <1>2, <1>3, <1>4, <1>5 DEF TypeInv, Labels
<1>7. FewLeft /\ FailsOnlyOffHundred
  BY <1>5, <1>6 DEF TypeInv, FewLeft, FailsOnlyOffHundred
<1>8. QED
  BY <1>5, <1>6, <1>7 DEF IInv

\* What stays of the invariant in a step that touches neither the shares nor the
\* cents that are left over.
LEMMA RestKept ==
  ASSUME IInv, request' = request, remainder' = remainder
  PROVE  (AddsUp => FewLeft)'
BY RequestKept DEF IInv, FewLeft

\* The checks that need no loop.
LEMMA ValidatePreserves == IInv /\ Validate => IInv'
<1> SUFFICES ASSUME IInv, Validate PROVE IInv'
  OBVIOUS
<1>1. /\ pc = "validate" /\ i = 1 /\ total = 0 /\ given_sums = [j \in {0} |-> 0]
      /\ pc' \in {"stored", "rejected", "check_shares"}
      /\ UNCHANGED << request, i, total, shares, remainder, given_sums, base_sums >>
      /\ base_sums = [j \in {0} |-> 0] /\ shares = [j \in {} |-> 0] /\ remainder = 0
  BY DEF Validate, Verdict, IInv
<1>2. TypeInv /\ request.n \in Nat
  BY DEF IInv, TypeInv
<1>3. TypeInv'
  BY <1>1, <1>2 DEF TypeInv, Labels, Outcomes
<1>4. pc' = "check_shares" => request.n >= 1 /\ request.split \in Totals
  BY <1>1, <1>2 DEF Validate, Verdict, IInv, TypeInv, Splits, Totals
<1>5. GivenUpTo(0) /\ total = given_sums[0]
  BY <1>1, FloatsAssumption DEF GivenUpTo, Totalled
<1>6. (GivenUpTo(i - 1) /\ total = given_sums[i - 1])'
  BY <1>1, <1>5 DEF GivenUpTo, Asked, Added, Totalled
<1>7. pc' = "stored" /\ request.kind = "expense" => Validated
  BY <1>1, <1>2 DEF Validate, Verdict, IInv, Validated, Totals
<1>8. (AddsUp => FewLeft)' /\ (Validated' <=> Validated)
  BY <1>1, RestKept, RequestKept
<1>9. QED
  BY <1>1, <1>3, <1>4, <1>6, <1>7, <1>8 DEF IInv, FailsOnlyOffHundred

\* The check of one share.
LEMMA CheckSharePreserves == IInv /\ CheckShare => IInv'
<1> SUFFICES ASSUME IInv, CheckShare PROVE IInv'
  OBVIOUS
<1>1. /\ pc = "check_shares" /\ i <= request.n
      /\ request.n >= 1 /\ request.split \in Totals /\ GivenUpTo(i - 1) /\ total = given_sums[i - 1]
      /\ UNCHANGED << request, shares, remainder, base_sums >>
      /\ base_sums = [j \in {0} |-> 0] /\ shares = [j \in {} |-> 0] /\ remainder = 0
  BY DEF CheckShare, IInv
<1>2. TypeInv /\ i \in Nat /\ i >= 1 /\ request.n \in Nat /\ total \in Int /\ i \in 1..request.n
  BY <1>1 DEF IInv, TypeInv
<1>3. (AddsUp => FewLeft)'
  BY <1>1, RestKept
<1>4. CASE Asked(i) = None
  <2>1. pc' = "rejected" /\ UNCHANGED << i, total, given_sums >>
    BY <1>4 DEF CheckShare
  <2>2. TypeInv'
    BY <1>1, <1>2, <2>1 DEF TypeInv, Outcomes
  <2>3. QED
    BY <1>1, <1>3, <2>1, <2>2 DEF IInv, FailsOnlyOffHundred
<1>5. CASE Asked(i) # None
  <2>1. /\ pc' = pc /\ i' = i + 1 /\ total' = Added(total, Asked(i))
        /\ given_sums' = [j \in 0..i |-> IF j = i THEN total' ELSE given_sums[j]]
    BY <1>5 DEF CheckShare
  <2>2. given_sums \in [0..(i - 1) -> Totalled] /\ total \in Totalled
    BY <1>1, <1>2 DEF GivenUpTo
  <2>3. total' \in Totalled /\ total' \in Int
    BY <1>1, <1>2, <1>5, <2>1, <2>2, AddedType
  <2>4. TypeInv'
    BY <1>1, <1>2, <2>1, <2>3 DEF TypeInv
  <2>5. PICK m \in Nat : m = i
    BY <1>2
  <2>6. (\A k : Asked(k)' = Asked(k)) /\ Totalled' = Totalled
    BY <1>1 DEF Asked, Totalled
  <2>7. \A x, y : Added(x, y)' = Added(x, y)
    BY <1>1 DEF Added
  <2>8. GivenUpTo(m)'
    <3>1. given_sums' \in [0..m -> Totalled] /\ given_sums'[0] = 0
      BY <1>1, <1>2, <2>1, <2>2, <2>3, <2>5 DEF GivenUpTo
    <3>2. ASSUME NEW k \in 1..m
          PROVE  Asked(k) # None /\ given_sums'[k] = Added(given_sums'[k - 1], Asked(k))
      <4>1. CASE k = i
        <5>1. given_sums'[k] = total' /\ given_sums'[k - 1] = total
          BY <1>1, <1>2, <2>1, <2>5, <4>1
        <5>2. QED
          BY <1>5, <2>1, <4>1, <5>1
      <4>2. CASE k # i
        <5>1. k \in 1..(i - 1) /\ k \in 0..i /\ k - 1 \in 0..i /\ k - 1 # i
          BY <1>2, <2>5, <4>2
        <5>2. given_sums'[k] = given_sums[k] /\ given_sums'[k - 1] = given_sums[k - 1]
          BY <2>1, <4>2, <5>1
        <5>3. Asked(k) # None /\ given_sums[k] = Added(given_sums[k - 1], Asked(k))
          BY <1>1, <5>1 DEF GivenUpTo
        <5>4. QED
          BY <5>2, <5>3
      <4>3. QED
        BY <4>1, <4>2
    <3>3. QED
      BY <2>6, <2>7, <3>1, <3>2 DEF GivenUpTo
  <2>9. i' - 1 = m /\ total' = given_sums'[m]
    BY <1>2, <2>1, <2>5
  <2>10. (GivenUpTo(i - 1) /\ total = given_sums[i - 1])'
    BY <2>8, <2>9
  <2>11. QED
    BY <1>1, <1>3, <2>1, <2>4, <2>10 DEF IInv, FailsOnlyOffHundred
<1>6. QED
  BY <1>4, <1>5

\* The check of the total.
LEMMA CheckTotalPreserves == IInv /\ CheckTotal => IInv'
<1> SUFFICES ASSUME IInv, CheckTotal PROVE IInv'
  OBVIOUS
<1>1. /\ pc = "check_shares" /\ i > request.n
      /\ request.n >= 1 /\ request.split \in Totals /\ GivenUpTo(i - 1) /\ total = given_sums[i - 1]
      /\ UNCHANGED << request, i, total, shares, remainder, given_sums, base_sums >>
      /\ base_sums = [j \in {0} |-> 0] /\ shares = [j \in {} |-> 0] /\ remainder = 0
      /\ pc' = IF TotalMatches THEN "stored" ELSE "rejected"
  BY DEF CheckTotal, IInv
<1>2. TypeInv /\ i - 1 = request.n
  BY <1>1 DEF IInv, TypeInv
<1>3. TypeInv'
  BY <1>1, <1>2 DEF TypeInv, Labels, Outcomes
<1>4. TotalMatches => Validated
  BY <1>1, <1>2 DEF TotalMatches, Validated, Totals
<1>5. (AddsUp => FewLeft)' /\ (Validated' <=> Validated)
  BY <1>1, RestKept, RequestKept
<1>6. QED
  BY <1>1, <1>3, <1>4, <1>5 DEF IInv, FailsOnlyOffHundred

\* The calculation starts with nothing assigned.
LEMMA StartPreserves == IInv /\ StartCalculation => IInv'
<1> SUFFICES ASSUME IInv, StartCalculation PROVE IInv'
  OBVIOUS
<1>1. /\ pc = "stored" /\ UNCHANGED << request, shares, remainder, given_sums, base_sums >>
      /\ base_sums = [j \in {0} |-> 0] /\ shares = [j \in {} |-> 0] /\ remainder = 0
      /\ TypeInv
  BY DEF StartCalculation, IInv
<1>2. (AddsUp => FewLeft)'
  BY <1>1, RestKept
<1>3. CASE request.kind # "expense"
  <2>1. pc' = "calculated" /\ UNCHANGED << i, total >>
    BY <1>3 DEF StartCalculation
  <2>2. TypeInv'
    BY <1>1, <2>1 DEF TypeInv, Outcomes
  <2>3. QED
    BY <1>1, <1>2, <1>3, <2>1, <2>2 DEF IInv, FailsOnlyOffHundred
<1>4. CASE request.kind = "expense"
  <2>1. pc' = "assign" /\ i' = 1 /\ total' = 0 /\ Validated
    <3>1. Validated /\ request.n \in Nat
      BY <1>1, <1>4 DEF IInv, TypeInv
    <3>2. request.n > 0
      BY <3>1 DEF Validated
    <3>3. QED
      BY <1>4, <3>1, <3>2 DEF StartCalculation
  <2>2. TypeInv'
    BY <1>1, <2>1 DEF TypeInv, Labels
  <2>3. Validated'
    BY <1>1, <2>1, RequestKept
  <2>4. (BaseUpTo(i - 1) /\ total = base_sums[i - 1] /\ shares = [j \in 1..(i - 1) |-> BaseShare(j)])'
    BY <1>1, <2>1 DEF BaseUpTo
  <2>5. StaysClose(i - 1)'
    <3>1. request.amount \in Int /\ request.n \in Nat \ {0} /\ request.amount \div request.n \in Int
      BY <1>1, <2>1, DivMod DEF Validated, TypeInv
    <3>2. base_sums[0] = 0
      BY <1>1
    <3>3. 2 * Magnitude(Hundred * 0 - request.amount * 0) <= Hundred * 0
      BY <3>1, HundredAssumption DEF Magnitude
    <3>4. SumFunctionOnSet(request.given, 1..0) = 0 /\ SumFunctionOnSet(Exact, 1..0) = 0
      BY NoSum
    <3>5. StaysClose(0)
      BY <3>1, <3>2, <3>3, <3>4 DEF StaysClose
    <3>6. i' - 1 = 0 /\ Exact' = Exact
      BY <1>1, <2>1 DEF Exact
    <3>7. QED
      BY <1>1, <3>5, <3>6 DEF StaysClose
  <2>6. QED
    BY <1>1, <1>2, <1>4, <2>1, <2>2, <2>3, <2>4, <2>5 DEF IInv, FailsOnlyOffHundred
<1>5. QED
  BY <1>3, <1>4

\* the next share keeps the sum as close as the ones before
LEMMA NextShare ==
  ASSUME IInv, Validated, NEW m \in Nat, m < request.n, StaysClose(m), base_sums[m] \in Int
  PROVE  /\ BaseShare(m + 1) \in Int
         /\ request.split = "personal" => base_sums[m] + BaseShare(m + 1) = request.amount * (m + 1)
         /\ request.split = "equal" =>
              base_sums[m] + BaseShare(m + 1) = (request.amount \div request.n) * (m + 1)
         /\ request.split = "amount" =>
              base_sums[m] + BaseShare(m + 1) = SumFunctionOnSet(request.given, 1..(m + 1))
         /\ request.split = "percentage" =>
              2 * Magnitude(Hundred * (base_sums[m] + BaseShare(m + 1))
                             - request.amount * SumFunctionOnSet(Exact, 1..(m + 1))) <= Hundred * (m + 1)
<1>1. /\ TypeInv /\ request.amount \in Int /\ request.n \in Nat \ {0} /\ request.split \in Splits
      /\ m + 1 \in 1..request.n /\ \A x \in 1..(m + 1) : x \in 1..request.n
  BY DEF IInv, TypeInv, Validated
<1>2. request.amount \div request.n \in Int
  BY <1>1, DivMod
<1>3. request.split \in Totals => GivenUpTo(request.n)
  BY DEF Validated
<1>4. CASE request.split = "personal"
  BY <1>1, <1>4 DEF BaseShare, StaysClose
<1>5. CASE request.split = "equal"
  <2>1. BaseShare(m + 1) = request.amount \div request.n
    BY <1>5 DEF BaseShare
  <2>2. QED
    BY <1>1, <1>2, <1>5, <2>1 DEF StaysClose
<1>6. CASE request.split = "amount"
  <2>1. \A x \in 1..(m + 1) : request.given[x] \in Int
    BY <1>1, <1>3, <1>6, ColumnSum DEF Totals
  <2>2. BaseShare(m + 1) = request.given[m + 1] /\ request.given[m + 1] \in Int
    BY <1>1, <1>6, <2>1 DEF BaseShare
  <2>3. SumFunctionOnSet(request.given, 1..(m + 1))
          = SumFunctionOnSet(request.given, 1..m) + request.given[m + 1]
    BY <2>1, NextSum
  <2>4. base_sums[m] = SumFunctionOnSet(request.given, 1..m)
    BY <1>6 DEF StaysClose
  <2>5. base_sums[m] + BaseShare(m + 1) = SumFunctionOnSet(request.given, 1..(m + 1))
    BY <2>2, <2>3, <2>4
  <2>6. QED
    BY <1>6, <2>2, <2>5
<1>7. CASE request.split = "percentage"
  <2> DEFINE e == Exact[m + 1]
             sum == SumFunctionOnSet(Exact, 1..m)
  <2>1. \A x \in 1..(m + 1) : Exact[x] \in Int /\ Exact[x] = Decimal(request.given[x])
    BY <1>1, <1>3, <1>7, ExactType DEF Totals
  <2>2. e \in Int /\ e = Decimal(request.given[m + 1])
    BY <1>1, <2>1
  <2>3. BaseShare(m + 1) = RoundHalfEven(request.amount * e, Hundred)
    BY <1>7, <2>2 DEF BaseShare
  <2>4. sum \in Int /\ SumFunctionOnSet(Exact, 1..(m + 1)) = sum + e
    BY <2>1, NextSum
  <2>5. 2 * Magnitude(Hundred * base_sums[m] - request.amount * sum) <= Hundred * m
    BY <1>7 DEF StaysClose
  <2> HIDE DEF e, sum
  <2>6. /\ BaseShare(m + 1) \in Int
        /\ 2 * Magnitude(Hundred * BaseShare(m + 1) - request.amount * e) <= Hundred
    <3>1. request.amount * e \in Int
      BY <1>1, <2>2
    <3>2. QED
      BY <2>3, <3>1, RoundingError, HundredAssumption
  <2>7. 2 * Magnitude(Hundred * (base_sums[m] + BaseShare(m + 1)) - request.amount * (sum + e))
          <= Hundred * (m + 1)
    BY <1>1, <2>2, <2>4, <2>5, <2>6, ErrorsAddUp, HundredAssumption
  <2>8. QED
    BY <1>7, <2>4, <2>6, <2>7
<1>8. QED
  BY <1>1, <1>4, <1>5, <1>6, <1>7 DEF Splits

\* One share is calculated, or has more digits than a Decimal.
LEMMA AssignPreserves == IInv /\ Assign => IInv'
<1> SUFFICES ASSUME IInv, Assign PROVE IInv'
  OBVIOUS
<1>1. /\ pc = "assign" /\ i <= request.n
      /\ request.kind = "expense" /\ Validated /\ BaseUpTo(i - 1) /\ StaysClose(i - 1)
      /\ total = base_sums[i - 1] /\ shares = [j \in 1..(i - 1) |-> BaseShare(j)]
      /\ UNCHANGED << request, remainder, given_sums >>
  BY DEF Assign, IInv
<1>2. TypeInv /\ i \in Nat /\ i >= 1 /\ i \in 1..request.n /\ request.n \in Nat /\ total \in Int
  BY <1>1 DEF IInv, TypeInv
<1>3. ~Missing(i)
  BY <1>1, <1>2, ColumnSum DEF Missing, Validated
<1>4. Validated' /\ (\A j : BaseShare(j)' = BaseShare(j)) /\ (AddsUp => FewLeft)'
  BY <1>1, RequestKept, RestKept
<1>5. CASE TooLong(i)
  <2>1. pc' = "decimal_error" /\ UNCHANGED << i, total, shares, base_sums >>
    BY <1>3, <1>5 DEF Assign
  <2>2. TypeInv'
    BY <1>1, <1>2, <2>1 DEF TypeInv, Outcomes
  <2>3. shares' \in [DOMAIN shares' -> Int]
    BY <1>1, <2>1 DEF BaseUpTo
  <2>4. QED
    BY <1>1, <1>4, <2>1, <2>2, <2>3 DEF IInv, FailsOnlyOffHundred
<1>6. CASE ~TooLong(i)
  <2>1. /\ pc' = pc /\ i' = i + 1 /\ total' = total + BaseShare(i)
        /\ shares' = [j \in 1..i |-> IF j = i THEN BaseShare(i) ELSE shares[j]]
        /\ base_sums' = [j \in 0..i |-> IF j = i THEN total' ELSE base_sums[j]]
    BY <1>3, <1>6 DEF Assign
  <2>2. PICK m \in Nat : m + 1 = i
    <3>1. i - 1 \in Nat /\ (i - 1) + 1 = i
      BY <1>2
    <3>2. QED
      BY <3>1
  <2>3. /\ i - 1 = m /\ m < request.n /\ BaseUpTo(m) /\ StaysClose(m)
        /\ base_sums[m] \in Int /\ total = base_sums[m]
    BY <1>1, <1>2, <2>2
  <2>4. BaseShare(i) \in Int
    BY <1>1, <2>2, <2>3, NextShare
  <2>5. TypeInv'
    BY <1>1, <1>2, <2>1, <2>4 DEF TypeInv
  <2>6. BaseUpTo(m + 1)'
    <3>1. base_sums' \in [0..(m + 1) -> Int] /\ base_sums'[0] = 0
      BY <1>2, <2>1, <2>2, <2>3, <2>4 DEF BaseUpTo
    <3>2. ASSUME NEW j \in 1..(m + 1)
          PROVE  BaseShare(j) \in Int /\ base_sums'[j] = base_sums'[j - 1] + BaseShare(j)
      <4>1. CASE j = m + 1
        BY <1>2, <2>1, <2>2, <2>3, <2>4, <4>1 DEF BaseUpTo
      <4>2. CASE j # m + 1
        BY <1>2, <2>1, <2>2, <2>3, <4>2 DEF BaseUpTo
      <4>3. QED
        BY <4>1, <4>2
    <3>3. QED
      BY <1>4, <3>1, <3>2 DEF BaseUpTo
  <2>7. base_sums'[m + 1] = base_sums[m] + BaseShare(m + 1)
    BY <1>2, <2>1, <2>2, <2>3
  <2>8. StaysClose(m + 1)'
    <3>1. Exact' = Exact
      BY <1>1 DEF Exact
    <3>2. QED
      BY <1>1, <2>3, <2>7, <3>1, NextShare DEF StaysClose
  <2>9. shares' = [j \in 1..(m + 1) |-> BaseShare(j)]
    BY <1>1, <1>2, <2>1, <2>2
  <2>10. i' - 1 = m + 1 /\ total' = base_sums'[m + 1]
    BY <1>2, <2>1, <2>2
  <2>11. (BaseUpTo(i - 1) /\ StaysClose(i - 1) /\ total = base_sums[i - 1]
            /\ shares = [j \in 1..(i - 1) |-> BaseShare(j)])'
    BY <1>4, <2>6, <2>8, <2>9, <2>10
  <2>12. QED
    BY <1>1, <1>4, <2>1, <2>5, <2>11 DEF IInv, FailsOnlyOffHundred
<1>7. QED
  BY <1>5, <1>6

\* the cents left over: their number and their sign
LEMMA LeftOver ==
  ASSUME IInv, Validated, BaseUpTo(request.n), StaysClose(request.n), total = base_sums[request.n]
  PROVE  /\ Remainder = request.amount - base_sums[request.n]
         /\ Remainder \in Int
         /\ AddsUp => Remainder \in (-request.n)..request.n
         /\ request.split = "equal" => Remainder >= 0
         /\ request.split = "amount" => Remainder = 0
<1>1. request.amount \in Int /\ request.n \in Nat \ {0} /\ request.split \in Splits
      /\ base_sums[request.n] \in Int
  BY DEF IInv, TypeInv, Validated, BaseUpTo
<1>2. CASE request.split = "personal"
  BY <1>1, <1>2 DEF Remainder, StaysClose, Validated
<1>3. CASE request.split = "equal"
  <2>1. Remainder = request.amount % request.n
    BY <1>3 DEF Remainder
  <2>2. /\ request.amount \div request.n \in Int
        /\ request.amount % request.n \in 0..(request.n - 1)
        /\ request.amount = request.n * (request.amount \div request.n) + (request.amount % request.n)
    BY <1>1, DivMod
  <2>3. base_sums[request.n] = request.n * (request.amount \div request.n)
    BY <1>1, <1>3, <2>2 DEF StaysClose
  <2>4. Remainder = request.amount - base_sums[request.n] /\ Remainder \in 0..(request.n - 1)
    <3> DEFINE d == request.n * (request.amount \div request.n)
               r == request.amount % request.n
    <3>1. request.amount = d + r /\ base_sums[request.n] = d /\ Remainder = r /\ r \in 0..(request.n - 1)
      BY <2>1, <2>2, <2>3
    <3> HIDE DEF d, r
    <3>2. QED
      BY <1>1, <3>1
  <2>5. QED
    BY <1>1, <1>3, <2>4
<1>4. CASE request.split = "amount"
  <2>1. base_sums[request.n] = SumFunctionOnSet(request.given, 1..request.n)
    BY <1>4 DEF StaysClose
  <2>2. GivenUpTo(request.n) /\ given_sums[request.n] = request.amount
    BY <1>4 DEF Validated, Totals, Target
  <2>3. SumFunctionOnSet(request.given, 1..request.n) = request.amount
    BY <1>4, <2>2, ColumnSum DEF IInv
  <2>4. QED
    BY <1>1, <1>4, <2>1, <2>3 DEF Remainder
<1>5. CASE request.split = "percentage"
  <2>1. Remainder = request.amount - base_sums[request.n]
    BY <1>5 DEF Remainder
  <2>2. AddsUp => SumFunctionOnSet(Exact, 1..request.n) = Hundred
    BY <1>5 DEF AddsUp, SumFunction, Exact
  <2>3. AddsUp => 2 * Magnitude(Hundred * base_sums[request.n] - request.amount * Hundred) <= Hundred * request.n
    BY <1>5, <2>2 DEF StaysClose
  <2>4. AddsUp => Remainder \in (-request.n)..request.n
    BY <1>1, <2>1, <2>3, FewCentsLeft, HundredAssumption
  <2>5. QED
    BY <1>1, <1>5, <2>1, <2>4
<1>6. QED
  BY <1>1, <1>2, <1>3, <1>4, <1>5 DEF Splits

\* What is left over after the last share.
LEMMA AssignedPreserves == IInv /\ Assigned => IInv'
<1> SUFFICES ASSUME IInv, Assigned PROVE IInv'
  OBVIOUS
<1>1. /\ pc = "assign" /\ i > request.n /\ pc' = "distribute" /\ i' = 1 /\ remainder' = Remainder
      /\ request.kind = "expense" /\ Validated /\ BaseUpTo(i - 1) /\ StaysClose(i - 1)
      /\ total = base_sums[i - 1] /\ shares = [j \in 1..(i - 1) |-> BaseShare(j)]
      /\ UNCHANGED << request, total, shares, given_sums, base_sums >>
  BY DEF Assigned, IInv
<1>2. TypeInv /\ i - 1 = request.n /\ request.n \in Nat
  BY <1>1 DEF IInv, TypeInv
<1>3. /\ Remainder = request.amount - base_sums[request.n]
      /\ Remainder \in Int
      /\ AddsUp => Remainder \in (-request.n)..request.n
      /\ request.split = "equal" => Remainder >= 0
      /\ request.split = "amount" => Remainder = 0
  BY <1>1, <1>2, LeftOver
<1>4. TypeInv'
  BY <1>1, <1>2, <1>3 DEF TypeInv, Labels
<1>5. Validated' /\ (\A j : BaseShare(j)' = BaseShare(j)) /\ (AddsUp' <=> AddsUp)
  BY <1>1, RequestKept
<1>6. shares \in [1..request.n -> Int] /\ \A j \in 1..request.n : shares[j] = BaseShare(j) /\ BaseShare(j) \in Int
  BY <1>1, <1>2 DEF BaseUpTo
<1>7. Corrected(0)'
  <2>1. BaseUpTo(request.n)'
    BY <1>1, <1>2, <1>5 DEF BaseUpTo
  <2>2. ASSUME NEW j \in 1..request.n
        PROVE  shares[j] = BaseShare(j) + (IF j <= 0 THEN Sign(remainder') ELSE 0)
    BY <1>6
  <2>3. QED
    BY <1>1, <1>3, <1>5, <1>6, <2>1, <2>2 DEF Corrected
<1>8. (i <= Magnitude(remainder) + 1 /\ Corrected(i - 1))'
  BY <1>1, <1>2, <1>3, <1>7 DEF Magnitude
<1>9. (AddsUp => FewLeft)'
  BY <1>1, <1>3, <1>5 DEF FewLeft
<1>10. QED
  BY <1>1, <1>4, <1>5, <1>8, <1>9 DEF IInv, FailsOnlyOffHundred

\* One of the cents that are left over, or one that there is no participant for.
LEMMA DistributePreserves == IInv /\ Distribute => IInv'
<1> SUFFICES ASSUME IInv, Distribute PROVE IInv'
  OBVIOUS
<1>1. /\ pc = "distribute" /\ i <= Magnitude(remainder)
      /\ request.kind = "expense" /\ Validated /\ Corrected(i - 1)
      /\ UNCHANGED << request, total, remainder, given_sums, base_sums >>
  BY DEF Distribute, IInv
<1>2. TypeInv /\ i \in Nat \ {0} /\ request.n \in Nat /\ remainder \in Int
  BY DEF IInv, TypeInv
<1>3. Validated' /\ (\A j : BaseShare(j)' = BaseShare(j)) /\ (AddsUp => FewLeft)' /\ (AddsUp' <=> AddsUp)
  BY <1>1, RequestKept, RestKept
<1>4. CASE ~(i <= request.n)
  <2>1. pc' = "index_error" /\ UNCHANGED << i, shares >>
    BY <1>2, <1>4 DEF Distribute, SortedUser
  <2>2. TypeInv'
    BY <1>1, <1>2, <2>1 DEF TypeInv, Outcomes
  <2>3. ~FewLeft
    BY <1>1, <1>2, <1>4 DEF FewLeft, Magnitude
  <2>4. ~AddsUp
    BY <2>3 DEF IInv
  <2>5. shares' \in [DOMAIN shares' -> Int]
    BY <1>1, <2>1 DEF Corrected
  <2>6. QED
    BY <1>1, <1>3, <2>1, <2>2, <2>4, <2>5 DEF IInv, FailsOnlyOffHundred
<1>5. CASE i <= request.n
  <2>1. pc' = pc /\ i' = i + 1 /\ shares' = [shares EXCEPT ![i] = @ + Sign(remainder)]
    BY <1>2, <1>5 DEF Distribute, SortedUser
  <2>2. TypeInv'
    BY <1>1, <1>2, <1>5, <2>1 DEF TypeInv
  <2>3. PICK m \in Nat : m = i
    BY <1>2
  <2>4. Corrected(m)'
    <3>1. shares \in [1..request.n -> Int] /\ Sign(remainder) \in Int
      BY <1>1 DEF Corrected, Sign
    <3>2. shares' \in [1..request.n -> Int]
      <4>1. i \in 1..request.n
        BY <1>2, <1>5
      <4>2. shares[i] + Sign(remainder) \in Int
        BY <3>1, <4>1
      <4>3. QED
        BY <2>1, <3>1, <4>2
    <3>3. ASSUME NEW j \in 1..request.n
          PROVE  shares'[j] = BaseShare(j) + (IF j <= m THEN Sign(remainder) ELSE 0)
      <4>1. shares[j] = BaseShare(j) + (IF j <= i - 1 THEN Sign(remainder) ELSE 0) /\ BaseShare(j) \in Int
        BY <1>1 DEF Corrected, BaseUpTo
      <4>2. CASE j = i
        BY <1>2, <2>1, <2>3, <3>1, <4>1, <4>2
      <4>3. CASE j # i
        BY <1>2, <2>1, <2>3, <3>1, <4>1, <4>3
      <4>4. QED
        BY <4>2, <4>3
    <3>4. BaseUpTo(request.n)'
      BY <1>1, <1>3 DEF Corrected, BaseUpTo
    <3>5. QED
      BY <1>1, <1>3, <3>2, <3>3, <3>4 DEF Corrected
  <2>5. (i <= Magnitude(remainder) + 1 /\ Corrected(i - 1))'
    <3>1. i' - 1 = m /\ i' <= Magnitude(remainder) + 1
      BY <1>1, <1>2, <2>1, <2>3 DEF Magnitude
    <3>2. QED
      BY <1>1, <2>4, <3>1
  <2>6. QED
    BY <1>1, <1>3, <2>1, <2>2, <2>5 DEF IInv, FailsOnlyOffHundred
<1>6. QED
  BY <1>4, <1>5

\* All of them are handed out.
LEMMA DistributedPreserves == IInv /\ Distributed => IInv'
<1> SUFFICES ASSUME IInv, Distributed PROVE IInv'
  OBVIOUS
<1>1. /\ pc = "distribute" /\ i > Magnitude(remainder) /\ i <= Magnitude(remainder) + 1
      /\ pc' = "final_sum" /\ i' = 1 /\ total' = 0
      /\ request.kind = "expense" /\ Validated /\ Corrected(i - 1)
      /\ UNCHANGED << request, shares, remainder, given_sums, base_sums >>
  BY DEF Distributed, IInv
<1>2. TypeInv /\ i \in 1..(request.n + 1) /\ request.n \in Nat /\ remainder \in Int
  BY DEF IInv, TypeInv
<1>3. i - 1 = Magnitude(remainder)
  BY <1>1, <1>2 DEF Magnitude
<1>4. TypeInv'
  BY <1>1, <1>2 DEF TypeInv, Labels
<1>5. Validated' /\ (\A j : BaseShare(j)' = BaseShare(j)) /\ (AddsUp => FewLeft)'
  BY <1>1, RequestKept, RestKept
<1>6. Corrected(Magnitude(remainder))'
  BY <1>1, <1>3, <1>5 DEF Corrected, BaseUpTo
<1>7. total' = base_sums'[i' - 1] + Sign(remainder') * Least(i' - 1, Magnitude(remainder'))
  BY <1>1, <1>2 DEF Corrected, BaseUpTo, Sign, Least, Magnitude
<1>8. FewLeft'
  BY <1>1, <1>2, <1>3 DEF FewLeft, Magnitude
<1>9. QED
  BY <1>1, <1>4, <1>5, <1>6, <1>7, <1>8 DEF IInv, FailsOnlyOffHundred

\* The final check of the sum.
LEMMA FinalSumPreserves == IInv /\ FinalSum => IInv'
<1> SUFFICES ASSUME IInv, FinalSum PROVE IInv'
  OBVIOUS
<1>1. /\ pc = "final_sum" /\ i <= request.n /\ pc' = pc /\ i' = i + 1 /\ total' = total + shares[i]
      /\ request.kind = "expense" /\ Validated /\ Corrected(Magnitude(remainder))
      /\ total = base_sums[i - 1] + Sign(remainder) * Least(i - 1, Magnitude(remainder))
      /\ UNCHANGED << request, shares, remainder, given_sums, base_sums >>
  BY DEF FinalSum, IInv
<1>2. /\ TypeInv /\ FewLeft /\ i \in Nat \ {0} /\ request.n \in Nat /\ total \in Int
      /\ remainder \in (-request.n)..request.n
  BY <1>1 DEF IInv, TypeInv, FewLeft
<1>3. /\ BaseShare(i) \in Int /\ base_sums[i] = base_sums[i - 1] + BaseShare(i)
      /\ base_sums[i - 1] \in Int
      /\ shares[i] = BaseShare(i) + (IF i <= Magnitude(remainder) THEN Sign(remainder) ELSE 0)
  <2>1. i \in 1..request.n /\ i - 1 \in 0..request.n
    BY <1>1, <1>2
  <2>2. QED
    BY <1>1, <2>1 DEF Corrected, BaseUpTo
<1>4. total' \in Int
  BY <1>1, <1>2, <1>3 DEF Sign
<1>5. TypeInv'
  BY <1>1, <1>2, <1>4 DEF TypeInv
<1>6. Validated' /\ (\A j : BaseShare(j)' = BaseShare(j)) /\ (AddsUp => FewLeft)' /\ FewLeft'
  BY <1>1, <1>2, RequestKept, RestKept DEF FewLeft
<1>7. Corrected(Magnitude(remainder))'
  BY <1>1, <1>6 DEF Corrected, BaseUpTo
<1>8. total' = base_sums[i] + Sign(remainder) * Least(i, Magnitude(remainder))
  <2>1. Magnitude(remainder) \in Nat /\ Sign(remainder) \in {-1, 1}
    BY <1>2 DEF Magnitude, Sign
  <2>2. CASE i <= Magnitude(remainder)
    <3>1. Least(i - 1, Magnitude(remainder)) = i - 1 /\ Least(i, Magnitude(remainder)) = i
      BY <1>2, <2>1, <2>2 DEF Least
    <3>2. Sign(remainder) * (i - 1) + Sign(remainder) = Sign(remainder) * i
      BY <1>2, <2>1
    <3>3. Sign(remainder) * (i - 1) \in Int /\ Sign(remainder) * i \in Int
      BY <1>2, <2>1
    <3>4. total' = (base_sums[i - 1] + Sign(remainder) * (i - 1)) + (BaseShare(i) + Sign(remainder))
      BY <1>1, <1>3, <2>2, <3>1
    <3>5. QED
      BY <1>3, <2>1, <3>1, <3>2, <3>3, <3>4
  <2>3. CASE ~(i <= Magnitude(remainder))
    <3>1. /\ Least(i - 1, Magnitude(remainder)) = Magnitude(remainder)
          /\ Least(i, Magnitude(remainder)) = Magnitude(remainder)
      BY <1>2, <2>1, <2>3 DEF Least
    <3>2. Sign(remainder) * Magnitude(remainder) \in Int
      BY <2>1
    <3>3. QED
      BY <1>1, <1>3, <2>3, <3>1, <3>2
  <2>4. QED
    BY <2>2, <2>3
<1>9. total' = base_sums'[i' - 1] + Sign(remainder') * Least(i' - 1, Magnitude(remainder'))
  BY <1>1, <1>2, <1>8
<1>10. QED
  BY <1>1, <1>5, <1>6, <1>7, <1>9 DEF IInv, FailsOnlyOffHundred

\* The answer to the request.
LEMMA AnswerPreserves == IInv /\ Answer => IInv'
<1> SUFFICES ASSUME IInv, Answer PROVE IInv'
  OBVIOUS
<1>1. /\ pc = "final_sum" /\ i > request.n
      /\ request.kind = "expense" /\ Validated /\ Corrected(Magnitude(remainder))
      /\ total = base_sums[i - 1] + Sign(remainder) * Least(i - 1, Magnitude(remainder))
      /\ UNCHANGED << request, i, total, shares, remainder, given_sums, base_sums >>
  BY DEF Answer, IInv
<1>2. /\ TypeInv /\ FewLeft /\ i - 1 = request.n /\ request.n \in Nat
      /\ remainder \in (-request.n)..request.n /\ request.amount \in Int
  BY <1>1 DEF IInv, TypeInv, FewLeft
<1>3. base_sums[request.n] \in Int /\ remainder = request.amount - base_sums[request.n]
  BY <1>1, <1>2 DEF Corrected, BaseUpTo
<1>4. Least(request.n, Magnitude(remainder)) = Magnitude(remainder)
  BY <1>2 DEF Least, Magnitude
<1>5. Sign(remainder) * Magnitude(remainder) = remainder
  BY <1>2 DEF Sign, Magnitude
<1>6. total = request.amount
  BY <1>1, <1>2, <1>3, <1>4, <1>5
<1>7. pc' = "calculated"
  BY <1>6 DEF Answer
<1>8. TypeInv'
  BY <1>1, <1>2, <1>7 DEF TypeInv, Outcomes
<1>9. Validated' /\ (\A j : BaseShare(j)' = BaseShare(j)) /\ (AddsUp => FewLeft)' /\ FewLeft'
  BY <1>1, <1>2, RequestKept, RestKept DEF FewLeft
<1>10. Corrected(Magnitude(remainder))'
  BY <1>1, <1>9 DEF Corrected, BaseUpTo
<1>11. QED
  BY <1>1, <1>7, <1>8, <1>9, <1>10 DEF IInv, FailsOnlyOffHundred

\* Every step of the calculation.
LEMMA NextPreserves == IInv /\ [Next]_vars => IInv'
<1> SUFFICES ASSUME IInv, [Next]_vars PROVE IInv'
  OBVIOUS
<1>1. CASE Step
  BY <1>1, ValidatePreserves, CheckSharePreserves, CheckTotalPreserves, StartPreserves, AssignPreserves,
     AssignedPreserves, DistributePreserves, DistributedPreserves, FinalSumPreserves, AnswerPreserves
  DEF Step
<1>2. CASE UNCHANGED vars
  <2>1. UNCHANGED << pc, request, i, total, shares, remainder, given_sums, base_sums >>
    BY <1>2 DEF vars
  <2>2. TypeInv' <=> TypeInv
    BY <2>1 DEF TypeInv
  <2>3. (\A j : BaseShare(j)' = BaseShare(j)) /\ (Validated' <=> Validated) /\ (AddsUp' <=> AddsUp)
    BY <2>1, RequestKept
  <2>4. \A m : GivenUpTo(m)' <=> GivenUpTo(m)
    BY <2>1 DEF GivenUpTo, Asked, Added, Totalled
  <2>5. \A m : BaseUpTo(m)' <=> BaseUpTo(m)
    BY <2>1, <2>3 DEF BaseUpTo
  <2>6. \A m : StaysClose(m)' <=> StaysClose(m)
    BY <2>1 DEF StaysClose, Exact
  <2>7. \A m : Corrected(m)' <=> Corrected(m)
    BY <2>1, <2>3, <2>5 DEF Corrected
  <2>8. (FewLeft' <=> FewLeft) /\ (FailsOnlyOffHundred' <=> FailsOnlyOffHundred)
    BY <2>1, <2>3 DEF FewLeft, FailsOnlyOffHundred
  <2>9. pc = "assign" => (shares = [j \in 1..(i - 1) |-> BaseShare(j)])'
    BY <2>1, <2>3 DEF IInv
  <2>10. QED
    BY <2>1, <2>2, <2>3, <2>4, <2>5, <2>6, <2>7, <2>8, <2>9 DEF IInv
<1>3. QED
  BY <1>1, <1>2 DEF Next, Terminated

\* Every reachable state satisfies the inductive invariant.
THEOREM Invariant == Spec => []IInv
<1>1. QED
  BY InitInvariant, NextPreserves, PTL DEF Spec

-----------------------------------------------------------------------------
(* What follows from it *)

\* The types, for every request: the loops' cursor stays within the participants
\* and the first index past them, and unless percentages are off 100 percent the
\* cents left over are at most one a participant.
THEOREM TypeCorrect == Spec => []TypeOK
<1>1. IInv => TypeOK
  <2> SUFFICES ASSUME IInv PROVE TypeOK
    OBVIOUS
  <2>1. TypeInv
    BY DEF IInv
  <2>2. shares \in [DOMAIN shares -> Int]
    <3>1. CASE pc \in {"validate", "check_shares", "stored", "rejected"}
      BY <3>1 DEF IInv
    <3>2. CASE pc = "assign"
      <4>1. shares = [j \in 1..(i - 1) |-> BaseShare(j)] /\ BaseUpTo(i - 1)
        BY <3>2 DEF IInv
      <4>2. QED
        BY <4>1 DEF BaseUpTo
    <3>3. CASE pc \in {"distribute", "final_sum"}
      BY <3>3 DEF IInv, Corrected
    <3>4. CASE pc = "calculated"
      BY <3>4 DEF IInv, Corrected
    <3>5. CASE pc \in {"decimal_error", "index_error"}
      BY <3>5 DEF IInv
    <3>6. pc \in Labels \cup Outcomes /\ pc \notin {"invalid", "internal_error"}
      BY DEF IInv, TypeInv, FailsOnlyOffHundred
    <3>7. QED
      BY <3>1, <3>2, <3>3, <3>4, <3>5, <3>6 DEF Labels, Outcomes
  <2>3. remainder \notin (-request.n)..request.n => ~AddsUp
    BY DEF IInv, FewLeft
  <2>4. QED
    BY <2>1, <2>2, <2>3 DEF TypeInv, TypeOK
<1>2. QED
  BY <1>1, Invariant, PTL

\* For every amount, every column and every arithmetic of floats: of what
\* validation lets pass, the calculation fails on percentages alone, and on those
\* only when their exact sum is not 100 percent or a share has more digits than a
\* Decimal.  Amounts, equal shares and exact percentages can always be calculated.
THEOREM CalculationFailsOnlyOffHundred == Spec => []FailsOnlyOffHundred
<1>1. IInv => FailsOnlyOffHundred
  BY DEF IInv
<1>2. QED
  BY <1>1, Invariant, PTL

\* Two shares of an equal split differ by at most a cent, the larger one first.
THEOREM EqualIsEven == Spec => []EqualSplitIsEven
<1>1. IInv => EqualSplitIsEven
  <2> SUFFICES ASSUME IInv, pc = "calculated", request.kind = "expense", request.split = "equal",
                      NEW j \in 1..request.n, NEW k \in 1..request.n, j < k
               PROVE  shares[j] - shares[k] \in {0, 1}
    BY DEF EqualSplitIsEven
  <2>1. Corrected(Magnitude(remainder)) /\ remainder \in Int /\ request.n \in Nat
    BY DEF IInv, TypeInv
  <2>2. remainder >= 0 /\ BaseShare(j) = BaseShare(k) /\ BaseShare(k) \in Int
    BY <2>1 DEF Corrected, BaseShare, BaseUpTo
  <2>3. Sign(remainder) = 1
    BY <2>1, <2>2 DEF Sign
  <2>4. /\ shares[j] = BaseShare(j) + (IF j <= Magnitude(remainder) THEN 1 ELSE 0)
        /\ shares[k] = BaseShare(k) + (IF k <= Magnitude(remainder) THEN 1 ELSE 0)
    BY <2>1, <2>3 DEF Corrected
  <2>5. Magnitude(remainder) \in Nat
    BY <2>1 DEF Magnitude
  <2>6. QED
    BY <2>1, <2>2, <2>4, <2>5
<1>2. QED
  BY <1>1, Invariant, PTL

\* An amount split comes out as it was given.
THEOREM AmountSplitIsKept == Spec => []AmountsAreKept
<1>1. IInv => AmountsAreKept
  <2> SUFFICES ASSUME IInv, pc = "calculated", request.kind = "expense", request.split = "amount"
               PROVE  shares = request.given
    BY DEF AmountsAreKept
  <2>1. Corrected(Magnitude(remainder)) /\ remainder = 0
    BY DEF IInv, Corrected
  <2>2. ASSUME NEW j \in 1..request.n PROVE shares[j] = request.given[j]
    <3>1. BaseShare(j) = request.given[j] /\ BaseShare(j) \in Int
      BY <2>1 DEF Corrected, BaseUpTo, BaseShare
    <3>2. ~(j <= Magnitude(remainder))
      BY <2>1 DEF Magnitude
    <3>3. QED
      BY <2>1, <3>1, <3>2 DEF Corrected
  <2>3. shares \in [1..request.n -> Int] /\ request.given \in [1..request.n -> Int \cup {None}]
    BY <2>1 DEF Corrected, IInv, TypeInv
  <2>4. /\ shares = [j \in 1..request.n |-> shares[j]]
        /\ request.given = [j \in 1..request.n |-> request.given[j]]
    BY <2>3
  <2>5. [j \in 1..request.n |-> shares[j]] = [j \in 1..request.n |-> request.given[j]]
    BY <2>2
  <2>6. QED
    BY <2>4, <2>5
<1>2. QED
  BY <1>1, Invariant, PTL

\* A share of a percentage split is within one and a half cents of the exact
\* one, for every amount and every list of percentages.
THEOREM PercentagesStayClose == Spec => []PercentagesAreClose
<1>1. IInv => PercentagesAreClose
  <2> SUFFICES ASSUME IInv, pc = "calculated", request.kind = "expense",
                      request.split = "percentage", NEW j \in 1..request.n
               PROVE  2 * Magnitude(Hundred * shares[j] - request.amount * Exact[j]) <= 3 * Hundred
    BY DEF PercentagesAreClose
  <2>1. TypeInv /\ Corrected(Magnitude(remainder)) /\ Validated /\ request.amount \in Int
    BY DEF IInv, TypeInv
  <2> DEFINE e == Exact[j]
  <2>2. e \in Int /\ e = Decimal(request.given[j])
    BY <2>1, ExactType DEF Validated, Totals
  <2> HIDE DEF e
  <2>3. request.amount * e \in Int
    BY <2>1, <2>2
  <2>4. /\ BaseShare(j) \in Int
        /\ 2 * Magnitude(Hundred * BaseShare(j) - request.amount * e) <= Hundred
    BY <2>2, <2>3, RoundingError, HundredAssumption DEF BaseShare
  <2>5. PICK cent \in {-1, 0, 1} : shares[j] = BaseShare(j) + cent
    BY <2>1 DEF Corrected, Sign
  <2>6. Hundred * shares[j] = Hundred * BaseShare(j) + Hundred * cent
    BY <2>4, <2>5, HundredAssumption
  <2>7. Hundred * cent \in {-Hundred, 0, Hundred} /\ Hundred * BaseShare(j) \in Int
    BY <2>4, HundredAssumption
  <2>8. 2 * Magnitude(Hundred * shares[j] - request.amount * e) <= 3 * Hundred
    BY <2>3, <2>4, <2>6, <2>7, HundredAssumption DEF Magnitude
  <2>9. QED
    BY <2>8 DEF e
<1>2. QED
  BY <1>1, Invariant, PTL

-----------------------------------------------------------------------------
(* The sums, with no loop *)

\* the shares of an expense make up its amount
SharesMakeUpTheAmount ==
  pc = "calculated" /\ request.kind = "expense" => SumFunction(shares) = request.amount

\* The shares of every expense that validation lets pass add up to the amount
\* to the cent, however it is split and whatever was rounded.
THEOREM SharesAddUp == Spec => []SharesMakeUpTheAmount
<1>1. IInv => SharesMakeUpTheAmount
  <2> SUFFICES ASSUME IInv, pc = "calculated", request.kind = "expense"
               PROVE  SumFunction(shares) = request.amount
    BY DEF SharesMakeUpTheAmount
  <2> DEFINE n == request.n
             left == Magnitude(remainder)
             p == [j \in 0..n |-> base_sums[j] + Sign(remainder) * Least(j, left)]
  <2>1. Corrected(left)
    BY DEF IInv
  <2>2. n \in Nat /\ remainder \in (-n)..n /\ request.amount \in Int
    BY DEF IInv, TypeInv, FewLeft
  <2>3. left \in Nat /\ left <= n /\ Sign(remainder) \in {-1, 1}
    BY <2>2 DEF Magnitude, Sign
  <2>4. Sign(remainder) * left = remainder
    BY <2>2 DEF Magnitude, Sign
  <2>5. /\ base_sums \in [0..n -> Int] /\ base_sums[0] = 0
        /\ \A j \in 1..n : BaseShare(j) \in Int /\ base_sums[j] = base_sums[j - 1] + BaseShare(j)
        /\ remainder = request.amount - base_sums[n]
        /\ shares \in [1..n -> Int]
        /\ \A j \in 1..n : shares[j] = BaseShare(j) + (IF j <= left THEN Sign(remainder) ELSE 0)
    BY <2>1 DEF Corrected, BaseUpTo
  <2> HIDE DEF n, left
  <2>6. p[0] = 0
    BY <2>2, <2>3, <2>5 DEF Least
  <2>7. ASSUME NEW j \in 1..n PROVE shares[j] \in Int /\ p[j] = p[j - 1] + shares[j]
    <3>1. /\ j - 1 \in 0..n /\ j \in 0..n
          /\ base_sums[j - 1] \in Int /\ BaseShare(j) \in Int
          /\ base_sums[j] = base_sums[j - 1] + BaseShare(j)
          /\ shares[j] \in Int
          /\ shares[j] = BaseShare(j) + (IF j <= left THEN Sign(remainder) ELSE 0)
      BY <2>2, <2>5
    <3>2. Sign(remainder) * Least(j, left)
            = Sign(remainder) * Least(j - 1, left) + (IF j <= left THEN Sign(remainder) ELSE 0)
      <4>1. CASE j <= left
        <5>1. Least(j, left) = (j - 1) + 1 /\ Least(j - 1, left) = j - 1
          BY <2>3, <4>1 DEF Least
        <5>2. QED
          BY <2>3, <4>1, <5>1
      <4>2. CASE ~(j <= left)
        <5>1. Least(j, left) = left /\ Least(j - 1, left) = left
          BY <2>3, <4>2 DEF Least
        <5>2. QED
          BY <2>3, <4>2, <5>1
      <4>3. QED
        BY <4>1, <4>2
    <3>3. Least(j - 1, left) \in Int /\ Sign(remainder) * Least(j - 1, left) \in Int
      BY <2>3, <3>1 DEF Least
    <3>4. QED
      BY <2>3, <3>1, <3>2, <3>3
  <2>8. SumFunctionOnSet(shares, 1..n) = p[n]
    <3>1. PrefixSums(p, shares, n)
      <4> HIDE DEF p
      <4>1. QED
        BY <2>6, <2>7 DEF PrefixSums
    <3> HIDE DEF p
    <3>2. QED
      BY <2>2, <3>1, SumByPrefixes
  <2>9. p[n] = request.amount
    <3>1. p[n] = base_sums[n] + Sign(remainder) * Least(n, left)
      BY <2>2
    <3>2. Least(n, left) = left
      BY <2>2, <2>3 DEF Least
    <3>3. base_sums[n] \in Int
      BY <2>2, <2>5
    <3>4. QED
      BY <2>2, <2>4, <2>5, <3>1, <3>2, <3>3
  <2>10. DOMAIN shares = 1..n
    BY <2>5
  <2>11. QED
    BY <2>8, <2>9, <2>10 DEF SumFunction
<1>2. QED
  BY <1>1, Invariant, PTL

\* the floats of the request, added up in its order, come to 100.0
FloatsMakeHundred ==
  \E s \in [0..request.n -> Floats] :
    /\ s[0] = 0
    /\ \A k \in 1..request.n : s[k] = Plus(s[k - 1], Asked(k))
    /\ s[request.n] = FloatHundred

\* What _validate_transaction is there to accept, with no loop: an expense has
\* shares, its own share alone when it is personal, and when the split reads a
\* column one without nulls, of amounts whose sum is the transaction's or of
\* floats that come to 100.0 as floats; anything else has no shares.
WellFormed ==
  IF request.kind # "expense" THEN request.n = 0
  ELSE /\ request.n >= 1
       /\ request.split = "personal" => request.n = 1 /\ request.own_share
       /\ request.split \in Totals => \A j \in 1..request.n : request.given[j] # None
       /\ request.split = "amount" => SumFunction(request.given) = request.amount
       /\ request.split = "percentage" => FloatsMakeHundred

\* A request is rejected when it is not well-formed, and only then.
RejectsTheRest ==
  /\ pc = "rejected" => ~WellFormed
  /\ pc \notin {"validate", "check_shares", "rejected"} => WellFormed

\* It is inductive with the loop over the column being for expenses only.
Decided == RejectsTheRest /\ (pc = "check_shares" => request.kind = "expense")

\* There is one way to add floats up in the order of the request: the loop's.
LEMMA OneTotal ==
  ASSUME TypeInv, GivenUpTo(request.n), request.split = "percentage"
  PROVE  FloatsMakeHundred <=> given_sums[request.n] = FloatHundred
<1> DEFINE n == request.n
<1>1. n \in Nat
  BY DEF TypeInv
<1>2. /\ given_sums \in [0..n -> Floats] /\ given_sums[0] = 0
      /\ \A k \in 1..n : given_sums[k] = Plus(given_sums[k - 1], Asked(k))
  BY DEF GivenUpTo, Totalled, Added
<1>3. ASSUME given_sums[n] = FloatHundred PROVE FloatsMakeHundred
  BY <1>2, <1>3 DEF FloatsMakeHundred
<1>4. ASSUME FloatsMakeHundred PROVE given_sums[n] = FloatHundred
  <2>1. PICK s \in [0..n -> Floats] :
          /\ s[0] = 0
          /\ \A k \in 1..n : s[k] = Plus(s[k - 1], Asked(k))
          /\ s[n] = FloatHundred
    BY <1>4 DEF FloatsMakeHundred
  <2> DEFINE Good == {m \in Nat : m <= n => s[m] = given_sums[m]}
  <2>2. 0 \in Good
    BY <1>2, <2>1
  <2>3. ASSUME NEW m \in Nat, m \in Good PROVE m + 1 \in Good
    <3>1. SUFFICES ASSUME m + 1 <= n PROVE s[m + 1] = given_sums[m + 1]
      OBVIOUS
    <3>2. m + 1 \in 1..n /\ (m + 1) - 1 = m /\ m <= n
      BY <1>1, <3>1
    <3>3. s[m] = given_sums[m]
      BY <2>3, <3>2
    <3>4. s[m + 1] = Plus(s[m], Asked(m + 1)) /\ given_sums[m + 1] = Plus(given_sums[m], Asked(m + 1))
      BY <1>2, <2>1, <3>2
    <3>5. QED
      BY <3>3, <3>4
  <2> HIDE DEF Good
  <2>4. Nat \subseteq Good
    BY <2>2, <2>3, InductionOverNat
  <2>5. QED
    BY <1>1, <2>1, <2>4 DEF Good
<1>5. QED
  BY <1>3, <1>4

\* Each step keeps it: a request is accepted or rejected only where the code
\* has found out all that WellFormed asks for, or something that contradicts it.
LEMMA DecidedPreserved == IInv /\ Decided /\ [Next]_vars => Decided'
<1> SUFFICES ASSUME IInv, Decided, [Next]_vars PROVE Decided'
  OBVIOUS
<1>1. request' = request
  BY DEF Next, Step, Terminated, vars, Validate, CheckShare, CheckTotal, StartCalculation, Assign,
         Assigned, Distribute, Distributed, FinalSum, Answer
<1>2. WellFormed' = WellFormed
  BY <1>1 DEF WellFormed, FloatsMakeHundred, Asked
<1>3. TypeInv
  BY DEF IInv
<1>4. CASE Validate
  <2>1. pc' = Verdict
    BY <1>4 DEF Validate
  <2>2. Verdict \in {"rejected", "stored", "check_shares"}
    BY DEF Verdict
  <2>3. request.n \in Nat /\ request.kind \in Kinds /\ request.split \in Splits
    BY <1>3 DEF TypeInv
  <2>4. Verdict = "rejected" => ~WellFormed
    BY <2>3 DEF Verdict, WellFormed
  <2>5. Verdict = "stored" => WellFormed
    BY <2>3 DEF Verdict, WellFormed, Splits, Totals
  <2>6. Verdict = "check_shares" => request.kind = "expense"
    BY DEF Verdict
  <2>7. QED
    BY <1>1, <1>2, <2>1, <2>2, <2>4, <2>5, <2>6 DEF Decided, RejectsTheRest
<1>5. CASE CheckShare
  <2>1. pc = "check_shares" /\ i \in 1..request.n /\ request.split \in Totals /\ request.n >= 1
    BY <1>3, <1>5 DEF CheckShare, IInv, TypeInv
  <2>2. CASE Asked(i) = None
    <3>0. \E j \in 1..request.n : request.given[j] = None
      BY <1>3, <2>1, <2>2, OrderNamesAll DEF Asked
    <3>1. pc' = "rejected"
      BY <1>5, <2>2 DEF CheckShare
    <3>2. ASSUME request.kind # "expense" PROVE ~WellFormed
      BY <2>1, <3>2 DEF WellFormed
    <3>3. ASSUME request.kind = "expense" PROVE ~WellFormed
      BY <2>1, <3>0, <3>3 DEF WellFormed
    <3>4. QED
      BY <1>2, <3>1, <3>2, <3>3 DEF Decided, RejectsTheRest
  <2>3. CASE Asked(i) # None
    <3>1. pc' = "check_shares"
      BY <1>5, <2>1, <2>3 DEF CheckShare
    <3>2. QED
      BY <1>1, <2>1, <3>1 DEF Decided, RejectsTheRest
  <2>4. QED
    BY <2>2, <2>3
<1>6. CASE CheckTotal
  <2>1. /\ pc = "check_shares" /\ i = request.n + 1 /\ request.n \in Nat /\ request.n >= 1
        /\ request.split \in Totals /\ GivenUpTo(i - 1) /\ total = given_sums[i - 1]
    BY <1>3, <1>6 DEF CheckTotal, IInv, TypeInv
  <2>2. i - 1 = request.n
    BY <2>1
  <2>3. \A j \in 1..request.n : request.given[j] # None
    BY <1>3, <2>1, <2>2, ColumnSum
  <2>4. ASSUME request.split = "amount" PROVE TotalMatches <=> WellFormed
    <3>1. SumFunctionOnSet(request.given, 1..request.n) = total
      BY <1>3, <2>1, <2>2, <2>4, ColumnSum
    <3>2. DOMAIN request.given = 1..request.n
      BY <1>3 DEF TypeInv
    <3>3. SumFunction(request.given) = total
      BY <3>1, <3>2 DEF SumFunction
    <3>4. QED
      BY <2>1, <2>3, <2>4, <3>3 DEF WellFormed, TotalMatches, Target, Decided, Totals
  <2>5. ASSUME request.split = "percentage" PROVE TotalMatches <=> WellFormed
    <3>1. FloatsMakeHundred <=> total = FloatHundred
      BY <1>3, <2>1, <2>2, <2>5, OneTotal
    <3>2. QED
      BY <2>1, <2>3, <2>5, <3>1 DEF WellFormed, TotalMatches, Target, Decided, Totals
  <2>6. TotalMatches <=> WellFormed
    BY <2>1, <2>4, <2>5 DEF Totals
  <2>7. pc' = IF TotalMatches THEN "stored" ELSE "rejected"
    BY <1>6 DEF CheckTotal
  <2>8. QED
    BY <1>2, <2>6, <2>7 DEF Decided, RejectsTheRest
<1>7. CASE \/ StartCalculation \/ Assign \/ Assigned \/ Distribute \/ Distributed
           \/ FinalSum \/ Answer
  <2>1. /\ pc \in {"stored", "assign", "distribute", "final_sum"}
        /\ pc' \notin {"validate", "check_shares", "rejected"}
    BY <1>7 DEF StartCalculation, Assign, Assigned, Distribute, Distributed, FinalSum, Answer
  <2>2. QED
    BY <1>2, <2>1 DEF Decided, RejectsTheRest
<1>8. CASE UNCHANGED vars
  BY <1>1, <1>2, <1>8 DEF Decided, RejectsTheRest, vars
<1>9. QED
  BY <1>4, <1>5, <1>6, <1>7, <1>8 DEF Next, Step, Terminated

\* Whatever the columns hold, validation rejects exactly the requests that are
\* not well-formed: no null and no missing cent is let pass, and no amounts that
\* add up are refused.  Of percentages it is the floats' sum, with the rounding of
\* each addition, that decides: what is let pass need not add up to 100 percent,
\* and what does add up can be refused.
THEOREM ValidationIsExact == Spec => []RejectsTheRest
<1>1. Init => Decided
  BY DEF Init, Decided, RejectsTheRest
<1>2. Decided => RejectsTheRest
  BY DEF Decided
<1>3. QED
  BY <1>1, <1>2, DecidedPreserved, Invariant, PTL DEF Spec

=============================================================================
