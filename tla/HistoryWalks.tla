---------------------------- MODULE HistoryWalks ----------------------------
(***************************************************************************)
(* The two loops of the history code as they are written, step by step:    *)
(* ProjectStore._trim_history's walk over the oldest entries and           *)
(* ProjectHistory.undo_origin's walk back over preview renders.  History   *)
(* states their results without a loop, which is what the other modules    *)
(* use.  A loop is a recursive function here: it can be proved about.      *)
(***************************************************************************)
EXTENDS History

Lesser(a, b) == IF a < b THEN a ELSE b

(* One turn of the trim: over one entry, or over the pair of an edit.      *)
(* start is the code's index, from 0: the number of entries to go so far.  *)
NextStart(es, start) ==
  LET paired == /\ es[start + 1].when = "before"
                /\ start + 1 < Len(es)
                /\ es[start + 2].when = "after"
                /\ es[start + 2].what = es[start + 1].what
  IN  start + (IF paired THEN 2 ELSE 1)

(* while start < max_remove: break when the turn would pass max_remove     *)
TrimFrom(es, maxRemove) ==
  LET from[start \in Nat] ==
        IF start >= maxRemove \/ NextStart(es, start) > maxRemove THEN start
        ELSE from[NextStart(es, start)]
  IN  from

TrimWalk(h) ==
  IF Len(h.entries) <= Limit THEN 0
  ELSE TrimFrom(h.entries, Lesser(Len(h.entries) - Limit, h.cursor - 1))[0]

(* while 0 < i < len(entries) and entries[i] is a preview: i -= 1.  Here i *)
(* counts from 1, as cursors do.                                           *)
OriginFrom(es) ==
  LET at[i \in Nat] == IF 1 < i /\ i <= Len(es) /\ IsPreview(es[i]) THEN at[i - 1] ELSE i
  IN  at

OriginWalk(h) == OriginFrom(h.entries)[h.cursor]

-----------------------------------------------------------------------------
(* The loops do on h what History says of them.  The walk of _trim_history *)
(* removes as many entries as the limit and the cursor allow, one fewer    *)
(* where that would split an edit's before/after pair, and what is left    *)
(* still fits: the cursor stays on its entry, no redo entry is gone, a     *)
(* second trim finds nothing more.  The walk of undo_origin stops at the   *)
(* one entry IsUndoOrigin names, and can_undo, undo_origin() > 0 in the    *)
(* code, is CanUndo.                                                       *)
LoopsAgree(h) ==
  LET t == Trimmed(h)
  IN  /\ TrimCount(h) = TrimWalk(h)
      /\ HasCurrent(t) /\ Current(t) = Current(h)
      /\ Len(t.entries) - t.cursor = Len(h.entries) - h.cursor
      /\ TrimCount(t) = 0
      /\ \A i \in 1..h.cursor : IsUndoOrigin(h, i) <=> i = OriginWalk(h)
      /\ CanUndo(h) <=> OriginWalk(h) > 1
=============================================================================
