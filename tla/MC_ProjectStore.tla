-------------------------- MODULE MC_ProjectStore --------------------------
(* ProjectStore for TLC: workspaces are interchangeable, and project       *)
(* states are, which the store only compares.                              *)
EXTENDS ProjectStore, TLC

CONSTANTS w1, w2, s1, s2

StoreSymmetry == {p @@ q : p \in Permutations(Ws), q \in Permutations(States)}

(* Once the last entry id is used, only mutations, undo, redo and jumps    *)
(* are followed any further.                                               *)
FewKindsLate ==
  nextId > MaxId => index # Damaged /\ (call # Idle => call.kind \in {"mutate", "move"})
=============================================================================
