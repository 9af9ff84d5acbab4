--------------------------- MODULE MC_DocumentFeed ---------------------------
(* DocumentFeed for TLC: names for up to two sockets, interchangeable.      *)
EXTENDS DocumentFeed, TLC

CONSTANTS k1, k2

SocketSymmetry == Permutations(Sockets)

(* A fault and a lost connection together are followed up to one save.     *)
FewTroubles == faults # {} /\ drops > 0 => file <= 1
=============================================================================
