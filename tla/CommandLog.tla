----------------------------- MODULE CommandLog -----------------------------
(***************************************************************************)
(* What the document plane promises its clients: one log that every intent *)
(* to edit enters at most once and never leaves, whatever is retried,      *)
(* raised or killed.  docs/session-sync.md calls it the document journal.  *)
(***************************************************************************)
EXTENDS Sequences

CONSTANT Intents    \* what clients may ask for, however often they ask

VARIABLE log        \* the intents taken, oldest first

Taken == {log[i] : i \in DOMAIN log}

Init == log = << >>

Take(intent) ==
  /\ intent \notin Taken
  /\ log' = Append(log, intent)

Next == \E intent \in Intents : Take(intent)

Spec == Init /\ [][Next]_log
=============================================================================
