--------------------------- MODULE ThreeWayMerge ---------------------------
(***************************************************************************)
(* project/merge.py: the three-way merge of two projects that were changed *)
(* from one base.                                                          *)
(*                                                                         *)
(* A project is a list of objects with an identity (its tracks, clips,     *)
(* markers, history entries) and each object one value: a sequence of      *)
(* records with an id.  A dict merges as such a list does, key by key,     *)
(* except that its order means nothing; a list without identities, or a    *)
(* plain value, is the value of one object.                                *)
(***************************************************************************)
EXTENDS History, SequencesExt, Selections

Absent == [absent |-> TRUE]

IdsOf(list) == {list[i].id : i \in DOMAIN list}

ItemOf(list, id) ==
  IF id \in IdsOf(list) THEN CHOOSE x \in ToSet(list) : x.id = id ELSE Absent

OrderOf(list) == [i \in DOMAIN list |-> list[i].id]

-----------------------------------------------------------------------------
(* _merge on one value *)
OnlyOneChanged(b, o, t) == o = t \/ t = b \/ o = b

Clashes(b, o, t) == ~OnlyOneChanged(b, o, t)

Chosen(b, o, t) == IF t # b /\ o = b THEN t ELSE o

-----------------------------------------------------------------------------
(* _merge_keyed_lists *)
Kept(order, ids) == Picked(order, {n \in DOMAIN order : order[n] \in ids})

KeptOrder(b, o) == Kept(OrderOf(o), IdsOf(b)) = Kept(OrderOf(b), IdsOf(o))

Placed(first, second) ==
  OrderOf(first) \o Kept(OrderOf(second), IdsOf(second) \ IdsOf(first))

(* theirs' order, unless ours reordered; what is only in the other is last *)
MergedOrder(b, o, t) == IF KeptOrder(b, o) THEN Placed(t, o) ELSE Placed(o, t)

ChosenItem(b, o, t, i) == Chosen(ItemOf(b, i), ItemOf(o, i), ItemOf(t, i))

(* what neither side, or only one, took out                                *)
Staying(b, o, t) == {i \in IdsOf(o) \cup IdsOf(t) : ChosenItem(b, o, t, i) # Absent}

MergedLists(b, o, t) ==
  LET order == Kept(MergedOrder(b, o, t), Staying(b, o, t))
  IN  [n \in DOMAIN order |-> ChosenItem(b, o, t, order[n])]

(* Mutant: a list both sides changed is taken from one of them.            *)
MergedListOurs(b, o, t) == IF t # b /\ o = b THEN t ELSE o

MergedList(b, o, t) ==
  IF OnlyOneChanged(b, o, t) THEN Chosen(b, o, t) ELSE MergedLists(b, o, t)

ListClashes(b, o, t) ==
  /\ ~OnlyOneChanged(b, o, t)
  /\ \E i \in IdsOf(o) \cup IdsOf(t) :
       Clashes(ItemOf(b, i), ItemOf(o, i), ItemOf(t, i))

-----------------------------------------------------------------------------
(* _merge_history *)
NoEntry == 0

CursorId(h) == IF HasCurrent(h) THEN Current(h).id ELSE NoEntry

Added(base, side) == ~(EntryIds(side) \subseteq EntryIds(base))

(* Mutant: nobody checks whether a side undid past the base.               *)
DescendsAlways(base, side) == TRUE

(* The side still holds the base's current entry, at or below its cursor.  *)
DescendsFromBase(base, side) ==
  HasCurrent(base) =>
    \E i \in DOMAIN side.entries : side.entries[i].id = CursorId(base) /\ i <= side.cursor

LineageClash(base, ours, theirs) ==
  \/ Added(base, ours) /\ ~DescendsFromBase(base, theirs)
  \/ Added(base, theirs) /\ ~DescendsFromBase(base, ours)

(* The entries the base has stay where they are; new ones follow by        *)
(* created_at, which is the order in which ids are handed out.             *)
OldFirst(list, old) ==
  Picked(list, {n \in DOMAIN list : list[n].id \in old})
  \o Picked([i \in IdsOf(list) |-> ItemOf(list, i)], IdsOf(list) \ old)

MergedEntries(base, ours, theirs) ==
  OldFirst(MergedList(base.entries, ours.entries, theirs.entries), EntryIds(base))

(* Either side added an entry: the newest is current.  Otherwise the       *)
(* cursor follows the side that moved it.                                  *)
MergedHist(base, ours, theirs) ==
  LET es     == MergedEntries(base, ours, theirs)
      new    == {i \in DOMAIN es : es[i].id \notin EntryIds(base)}
      target == Chosen(CursorId(base), CursorId(ours), CursorId(theirs))
      at     == {i \in DOMAIN es : es[i].id = target}
  IN  [entries |-> es,
       cursor  |-> IF new = {} /\ at # {} THEN CHOOSE i \in at : TRUE ELSE Len(es)]

HistClash(base, ours, theirs) ==
  \/ LineageClash(base, ours, theirs)
  \/ /\ EntryIds(ours) \cup EntryIds(theirs) \subseteq EntryIds(base)
     /\ Clashes(CursorId(base), CursorId(ours), CursorId(theirs))

-----------------------------------------------------------------------------
(* merge_project_data: what is merged, and whether both changed one value  *)
Merged(base, ours, theirs) ==
  [data |-> MergedList(base.data, ours.data, theirs.data),
   hist |-> MergedHist(base.hist, ours.hist, theirs.hist)]

Conflict(base, ours, theirs) ==
  \/ ListClashes(base.data, ours.data, theirs.data)
  \/ ListClashes(base.hist.entries, ours.hist.entries, theirs.hist.entries)
  \/ HistClash(base.hist, ours.hist, theirs.hist)
=============================================================================
