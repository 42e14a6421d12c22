------------------------------- MODULE Totals -------------------------------
(***************************************************************************)
(* The total of a column over the rows of a table whose ids are 1..n.      *)
(* The recursion is a recursive function so that modules with theorems can *)
(* use it; TotalsProofs has the facts the proofs cite.                     *)
(***************************************************************************)
EXTENDS Integers

SumTo(x, n) == LET s[i \in 0..n] == IF i = 0 THEN 0 ELSE s[i - 1] + x[i]
               IN  s[n]
=============================================================================
