--------------------------------- MODULE Sums ----------------------------------
(* The sum of a function into the naturals, as the number of units in it.  *)
EXTENDS Integers, FiniteSets

Units(f) == UNION {{x} \X (1 .. f[x]) : x \in DOMAIN f}
Sum(f) == Cardinality(Units(f))
================================================================================
