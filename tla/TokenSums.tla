------------------------------ MODULE TokenSums ------------------------------
(***************************************************************************)
(* The total of a function to natural numbers, counted as the number of    *)
(* units it hands out: no recursion, so that facts about totals can be     *)
(* proved for every finite domain (SplErc20_proofs).                       *)
(***************************************************************************)
EXTENDS Integers, FiniteSets

\* One pair per unit: <<x, 1>>, ..., <<x, f[x]>> for each x.
Units(f) == UNION { {x} \X (1 .. f[x]) : x \in DOMAIN f }

Total(f) == Cardinality(Units(f))
=============================================================================
