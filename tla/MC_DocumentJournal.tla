------------------------- MODULE MC_DocumentJournal -------------------------
(* DocumentJournal for TLC: what two clients may send, retries included.   *)
EXTENDS DocumentJournal, TLC

CONSTANTS a, b, e1, e2, i1, i2, i3, i4

Sent(client, seq, id, edit) ==
  [client |-> client, client_seq |-> seq, id |-> id, edit |-> edit]

(* One edit by a, which an older client retries under a new command_id,    *)
(* and one by b, numbered by the server.                                   *)
TwoEdits == {Sent(a, 1, i1, e1), Sent(a, 1, i2, e1), Sent(b, NoSeq, i3, e2)}

(* An edit by a, its retry under a new command_id, and a's client_seq again *)
(* for another edit.                                                        *)
WithReuse == {Sent(a, 1, i1, e1), Sent(a, 1, i2, e1), Sent(a, 1, i4, e2)}

ServerSymmetry == Permutations(Servers)
=============================================================================
