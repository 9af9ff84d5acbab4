-------------------------- MODULE MC_RecordSession --------------------------
(* RecordSession for TLC: two guests through one link, interchangeable as  *)
(* are the sockets.                                                        *)
EXTENDS RecordSession, TLC

CONSTANTS g1, g2

OneLink == [g \in {g1, g2} |-> "link"]

RecordSymmetry == {p @@ q : p \in Permutations(Guests), q \in Permutations(Conns)}

(* The room is kept small: a third busy socket, a second take and a        *)
(* restart come one of them at a time.                                     *)
Crowded == Cardinality({c \in Conns : socks[c] # Idle}) > 2

SmallRoom ==
  /\ Len(takes) > 1 => restarts = 0 /\ ~Crowded
  /\ restarts > 0 => ~Crowded
=============================================================================
