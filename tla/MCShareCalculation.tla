-------------------------- MODULE MCShareCalculation --------------------------
(***************************************************************************)
(* An instance of ShareCalculation for TLC.                                *)
(*                                                                         *)
(* Its floats have three binary digits: 0 to 7 times a power of two, each  *)
(* named by its value, with 16 for 100.0.  They show what doubles do at    *)
(* larger sizes: a sum is rounded to even at a tie, a large addend makes a *)
(* small one vanish, and the text of a float is not always its value: in   *)
(* thirds of its unit, 3 reads a little less and 5 a little more.          *)
(***************************************************************************)
EXTENDS ShareCalculation

\* Amounts that leave cents over in every way four or five shares can, of both
\* signs, and amounts of shares that are zero, negative or none.
MCAmounts == {-3, 0, 2, 5, 7}
MCValues  == {-1, 0, 2, 3, 5}

MCFloats == {m * 2 ^ e : m \in -7..7, e \in 0..7}

\* Percentages that make 100.0 exactly ({8, 8}), by rounding ({3, 3, 3, 8} in one
\* order and not in the other) and by absorption ({128, 16, -128, 16}).
MCPercentages == {-128, 3, 5, 8, 16, 128}

\* The nearest float, and the largest one where a sum is larger still; the sums
\* of five percentages are not.
MCPlus(x, y) ==
  LET sum  == x + y
      unit == CHOOSE u \in {2 ^ e : e \in 0..7} :
                Magnitude(sum) < 8 * u /\ (u = 1 \/ 4 * u <= Magnitude(sum))
  IN  IF Magnitude(sum) > 896 THEN Sign(sum) * 896 ELSE unit * RoundHalfEven(sum, unit)

MCDecimal(x) == CASE x = 3 -> 8 [] x = 5 -> 16 [] OTHER -> 3 * x

\* the shares in the order of the user ids, and in the opposite order
MCOrders(n) == { [j \in 1..n |-> j], [j \in 1..n |-> n + 1 - j] }
=============================================================================
