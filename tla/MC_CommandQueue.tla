-------------------------- MODULE MC_CommandQueue --------------------------
(* CommandQueue for TLC: a host and a guest, each with Web Locks or        *)
(* without; two edits, or an edit and an undo.                             *)
EXTENDS CommandQueue

CONSTANTS t1, e1, e2, u1

AllSides == [guest : BOOLEAN, locks : BOOLEAN] \ {[guest |-> TRUE, locks |-> FALSE]}

Begun(c) == op[c].at # "idle"

(* Edits and tabs are interchangeable: e1 comes first, from t1.            *)
FewSenders ==
  /\ Begun(e2) => Begun(e1) /\ ~Begun(u1)
  /\ op[e1].tab \in {Nobody, t1}

(* Both tabs drain at once beside one send, or when the sends have ended.  *)
DrainsMeetLate ==
  \/ \E t \in Tabs : drain[t].at = "idle"
  \/ ~Begun(e2)
  \/ \A c \in Commands : op[c].at \in {"idle", "done"}

SmallQueue == FewSenders /\ DrainsMeetLate
=============================================================================
