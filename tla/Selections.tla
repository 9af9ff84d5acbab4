------------------------------ MODULE Selections ------------------------------
(***************************************************************************)
(* Some members of a sequence in the order they have there: SelectSeq, in  *)
(* a form to prove about, which counts positions instead of recursing.     *)
(***************************************************************************)
EXTENDS Naturals, FiniteSets

UpTo(keep, i) == {j \in keep : j <= i}
Nth(keep, n) == CHOOSE i \in keep : Cardinality(UpTo(keep, i)) = n

(* What f has at the numbers keep, from the least to the greatest.         *)
Picked(f, keep) == [n \in 1..Cardinality(keep) |-> f[Nth(keep, n)]]
=============================================================================
