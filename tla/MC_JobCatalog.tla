--------------------------- MODULE MC_JobCatalog ---------------------------
(* JobCatalog for TLC: names for up to two callers and two agent tools.    *)
EXTENDS JobCatalog

CONSTANTS c1, c2, w1, w2

(* Slot jobs and agent jobs share the archive and the lookup alone. In one *)
(* behaviour either callers ask for jobs or tools open wraps; every other  *)
(* step follows from one of these.                                         *)
AskAlone(c, kind, waits) ==
  (\A w \in Wraps : wrap[w].stage = "new") /\ Ask(c, kind, waits)

OpenAlone(w) ==
  slot = None /\ (\A c \in Callers : caller[c] = Idle) /\ Open(w)

ApartNext ==
  \/ \E c \in Callers, kind \in SlotKinds, waits \in BOOLEAN : AskAlone(c, kind, waits)
  \/ Cancel \/ Workers
  \/ \E c \in Callers : Spawning(c)
  \/ \E w \in Wraps : OpenAlone(w) \/ (\E how \in TerminalStatuses : Close(w, how))
                      \/ \E t \in Threads : Reporting(w, t)

ApartSpec ==
  Init /\ [][ApartNext]_vars /\ \A c \in Callers : WF_vars(Spawning(c))
=============================================================================
