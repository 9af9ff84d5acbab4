---------------------------- MODULE MC_MergedSave ----------------------------
(* MergedSave for TLC: the labels of a pipeline run, and a cut of the last *)
(* revisions.                                                              *)
EXTENDS MergedSave, TLC

CONSTANTS a, b, v, w

MergeSymmetry == {p @@ q : p \in Permutations(Items), q \in Permutations(Values)}

(* Cuts the last revisions short: the last is put in place by a save of a  *)
(* job that changed nothing, and a job that did saves once before it.      *)
LateSaves ==
  /\ file.rev = MaxRev => job.at = "landed" /\ work = 0
  /\ file.rev = MaxRev - 1 => job.at = "landed" \/ work = 0

RunLabels == {[when |-> "before", what |-> "run"], [when |-> "after", what |-> "run"]}
=============================================================================
