------------------------------ MODULE History ------------------------------
(***************************************************************************)
(* The undo/redo stack of one project (models/history.py) and the pure     *)
(* steps HistoryManager and ProjectStore take on it.                       *)
(*                                                                         *)
(* An entry names its snapshot file by its id.  Its label is abstracted to *)
(* when the entry was taken ("before" or "after" a mutation, or a "mark"   *)
(* recorded by hand) and what it was taken for.  Only the "after" entry of *)
(* a mutation carries an operation (history/session.py records "before"    *)
(* without one), so a preview render is an "after" entry of Preview.       *)
(*                                                                         *)
(* Cursors are 1-based here: 0 is the code's -1, "no entry yet".           *)
(***************************************************************************)
EXTENDS Naturals, Sequences

CONSTANTS Limit,      \* HISTORY_ENTRY_LIMIT
          Preview     \* the operation "render_preview"

Whens == {"before", "after", "mark"}

EmptyHist == [cursor |-> 0, entries |-> << >>]

EntryIds(h) == {h.entries[i].id : i \in DOMAIN h.entries}

IsEmpty(h) == h.cursor = 0 /\ h.entries = << >>

HasCurrent(h) == h.cursor \in DOMAIN h.entries

Current(h) == h.entries[h.cursor]

IsPreview(e) == e.when = "after" /\ e.what = Preview

-----------------------------------------------------------------------------
(* Where an undo steps back from: the cursor, past the preview renders the *)
(* cursor sits on, but never past the first entry.                         *)
IsUndoOrigin(h, i) ==
  /\ i \in 1..h.cursor
  /\ i = 1 \/ ~IsPreview(h.entries[i])
  /\ \A j \in (i+1)..h.cursor : IsPreview(h.entries[j])

(* Mutant: previews count as something to undo.                            *)
CanUndoCounting(h) == h.cursor > 1

CanUndo(h) == \E i \in 2..h.cursor : ~IsPreview(h.entries[i])

CanRedo(h) == h.cursor > 0 /\ h.cursor < Len(h.entries)

IsHead(h, id) == HasCurrent(h) /\ Current(h).id = id

(* Only preview renders were recorded after entry id, and the cursor is at *)
(* the tip.                                                                *)
BehindRenderOnly(h, id) ==
  /\ ~IsHead(h, id)
  /\ h.cursor = Len(h.entries)
  /\ \E k \in DOMAIN h.entries :
        /\ h.entries[k].id = id
        /\ \A j \in (k+1)..Len(h.entries) : IsPreview(h.entries[j])

-----------------------------------------------------------------------------
(* Mutant: the redo branch stays below the new entry.                      *)
RecordedKeepingRedo(h, e) ==
  [cursor |-> Len(h.entries) + 1, entries |-> Append(h.entries, e)]

(* Record an entry: the redo branch goes, the new entry is the head.       *)
Recorded(h, e) ==
  LET kept == IF h.cursor < Len(h.entries) THEN SubSeq(h.entries, 1, h.cursor)
                                           ELSE h.entries
  IN  [cursor |-> Len(kept) + 1, entries |-> Append(kept, e)]

MovedTo(h, i) == [h EXCEPT !.cursor = i]

-----------------------------------------------------------------------------
(* Entries s and s+1 are the two halves of one edit.                       *)
SplitsPair(es, s) ==
  /\ s \in 1..(Len(es) - 1)
  /\ es[s].when = "before"
  /\ es[s+1].when = "after"
  /\ es[s].what = es[s+1].what

(* Mutants: a trim that splits an edit, a trim that passes the cursor.     *)
TrimCountSplitting(h) ==
  IF Len(h.entries) > Limit /\ h.cursor > 1
  THEN IF Len(h.entries) - Limit < h.cursor - 1 THEN Len(h.entries) - Limit ELSE h.cursor - 1
  ELSE 0

TrimCountPastCursor(h) ==
  IF Len(h.entries) <= Limit THEN 0
  ELSE IF Len(h.entries) - Limit < h.cursor THEN Len(h.entries) - Limit ELSE h.cursor

(* How many of the oldest entries a commit trims.  The code walks forward  *)
(* one entry or one pair at a time while it stays within maxRemove; pairs  *)
(* never overlap, so the walk ends at maxRemove or, when that would split  *)
(* a pair, one entry earlier.  (HistoryWalks compares the two.)           *)
TrimCount(h) ==
  LET excess == IF Len(h.entries) > Limit THEN Len(h.entries) - Limit ELSE 0
      below  == IF h.cursor > 0 THEN h.cursor - 1 ELSE 0
      most   == IF excess < below THEN excess ELSE below
  IN  IF SplitsPair(h.entries, most) THEN most - 1 ELSE most

Trimmed(h) ==
  LET n == TrimCount(h)
  IN  IF n = 0 THEN h
      ELSE [cursor |-> h.cursor - n,
            entries |-> SubSeq(h.entries, n + 1, Len(h.entries))]

PrunedIds(h) == {h.entries[i].id : i \in 1..TrimCount(h)}
=============================================================================
