------------------------------ MODULE Counting ------------------------------
(* Sums over finite sets, as the number of units there are to count: what a *)
(* SUM() of a query, or a reduce() over its rows, returns.  A count can be  *)
(* reasoned about with what is known of Cardinality, a fold cannot.         *)
EXTENDS Naturals, FiniteSets

\* The units of the values of f, each with the place it is found at.
Units(f) == UNION {{x} \X (1..f[x]) : x \in DOMAIN f}

\* The sum of the values of f, a function from a finite set to the naturals.
Sum(f) == Cardinality(Units(f))
=============================================================================
