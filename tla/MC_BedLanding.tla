--------------------------- MODULE MC_BedLanding ---------------------------
(* BedLanding for TLC: a recording of one part, then one of two.           *)
EXTENDS BedLanding

OneThenTwo == <<1, 2>>

(* The host lands when there is something to land or to take back, and two *)
(* requests wait at most.                                                  *)
SmallBeds ==
  /\ land.at = "waived" /\ land.for = Host => row # NoRow \/ waived # {}
  /\ Cardinality(reqs) <= 2
=============================================================================
