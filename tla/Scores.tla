------------------------------- MODULE Scores -------------------------------
(***************************************************************************)
(* src/novetest/localization/sbfl: how suspicious a place in the code is,  *)
(* from four counts. A score is an exact fraction <<numerator, positive    *)
(* denominator>>; ochiai is squared, which keeps its order.                *)
(***************************************************************************)
EXTENDS Integers

Formulas == {"ochiai", "op2", "dstar2", "tarantula"}

Less(a, b) == a[1] * b[2] < b[1] * a[2]
Same(a, b) == a[1] * b[2] = b[1] * a[2]
Positive(a) == a[1] > 0
Zero == <<0, 1>>
Plus(a, b) == <<a[1] * b[2] + b[1] * a[2], a[2] * b[2]>>
MaxScore(S) == CHOOSE a \in S : \A b \in S : ~Less(a, b)

(* Failed and passed tests that hit a place (ef, ep), and all that failed  *)
(* and passed.                                                             *)
Counts(ef, ep, failed, passed) ==
  [ef |-> ef, ep |-> ep, nf |-> failed - ef, np |-> passed - ep]

(* A division that has nothing to divide by gives 0.                       *)
Over(a, b) == IF b > 0 THEN <<a, b>> ELSE Zero

Ochiai(c) == Over(c.ef * c.ef, (c.ef + c.nf) * (c.ef + c.ep))

\* Mutant: the failing tests that hit a place are divided, too.
Op2Mean(c) == <<c.ef - c.ep, c.ep + c.np + 1>>

Op2(c) == <<c.ef * (c.ep + c.np + 1) - c.ep, c.ep + c.np + 1>>

Tarantula(c) ==
  LET fail == Over(c.ef, c.ef + c.nf)
      pass == Over(c.ep, c.ep + c.np)
  IN  Over(fail[1] * pass[2], fail[1] * pass[2] + pass[1] * fail[2])

DStarQuotient(c) == Over(c.ef * c.ef, c.ep + c.nf)

DStarUnbounded(c) == c.ep + c.nf = 0 /\ c.ef > 0

(* Nothing but failing tests, and all of them: above every other score.    *)
DStar(counts, l) ==
  LET ceiling == MaxScore({DStarQuotient(counts[k]) : k \in DOMAIN counts})
      c == counts[l]
  IN  IF DStarUnbounded(c) THEN Plus(ceiling, <<c.ef * c.ef, 1>>) ELSE DStarQuotient(c)

(* _compute_all_formula_scores: of the places in a function of counts.     *)
Score(formula, counts, l) ==
  CASE formula = "ochiai" -> Ochiai(counts[l])
    [] formula = "op2" -> Op2(counts[l])
    [] formula = "dstar2" -> DStar(counts, l)
    [] formula = "tarantula" -> Tarantula(counts[l])
=============================================================================
