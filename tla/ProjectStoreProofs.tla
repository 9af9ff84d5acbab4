------------------------- MODULE ProjectStoreProofs -------------------------
(***************************************************************************)
(* What is proved of ProjectStore, for any workspaces, states and bounds:  *)
(*  - it is type-correct (with the facts on recording and trimming the     *)
(*    rest needs);                                                         *)
(*  - a project saved with its history never loses an entry's snapshot: no *)
(*    commit, trim, rollback or crash leaves an entry of the saved history *)
(*    or of the index on disk without a whole snapshot file;               *)
(*  - what a commit may do to the saved project: it builds on what is      *)
(*    saved, its current entry snapshots what it saves, one Undo takes an  *)
(*    edit back, and a call that failed before it landed leaves nothing.   *)
(*                                                                         *)
(* From the second part on, only with ~Legacy: an empty saved history may  *)
(* adopt an index that a concurrent call rolls back (README,               *)
(* store_open_race).  Most of the third part also needs ~ReuseAfterError:  *)
(* a workspace kept after a move raised holds an unsaved state at the      *)
(* saved revision.                                                         *)
(***************************************************************************)
EXTENDS ProjectStore, TLAPS

-----------------------------------------------------------------------------
(* What recording and trimming do to a history.                            *)
Distinct(h) ==
  \A i, j \in DOMAIN h.entries : h.entries[i].id = h.entries[j].id => i = j

LEMMA EntryIdsTyped == \A h \in Hists : EntryIds(h) \subseteq Ids
<1> SUFFICES ASSUME NEW h \in Hists, NEW i \in DOMAIN h.entries
             PROVE  h.entries[i].id \in Ids
  BY DEF EntryIds
<1>1. h.entries \in Seq(Entries)
  BY DEF Hists
<1>2. h.entries[i] \in Entries
  BY <1>1
<1> QED BY <1>2 DEF Entries

LEMMA RecordedHist ==
  ASSUME NEW h \in Hists, NEW e \in Entries
  PROVE  /\ Recorded(h, e) \in Hists
         /\ Recorded(h, e).entries # << >>
         /\ EntryIds(Recorded(h, e)) \subseteq EntryIds(h) \cup {e.id}
         /\ (Distinct(h) /\ e.id \notin EntryIds(h)) => Distinct(Recorded(h, e))
<1> DEFINE kept == IF h.cursor < Len(h.entries) THEN SubSeq(h.entries, 1, h.cursor)
                                                ELSE h.entries
           r == Append(kept, e)
<1>1. h.cursor \in Nat /\ h.entries \in Seq(Entries)
  BY DEF Hists
<1>2. /\ kept \in Seq(Entries) /\ Len(kept) <= Len(h.entries)
      /\ \A i \in 1..Len(kept) : kept[i] = h.entries[i]
  <2>1. CASE h.cursor < Len(h.entries)
    BY <1>1, <2>1
  <2>2. CASE ~(h.cursor < Len(h.entries))
    BY <1>1, <2>2
  <2> QED BY <2>1, <2>2
<1>3. Recorded(h, e) = [cursor |-> Len(kept) + 1, entries |-> r]
  BY DEF Recorded
<1> HIDE DEF kept
<1>4. /\ r \in Seq(Entries) /\ Len(r) = Len(kept) + 1 /\ r[Len(kept) + 1] = e
      /\ \A i \in 1..Len(kept) : r[i] = h.entries[i]
  BY <1>2
<1> HIDE DEF r
<1>5. DOMAIN r = 1..(Len(kept) + 1) /\ DOMAIN h.entries = 1..Len(h.entries)
  BY <1>1, <1>4
<1>6. Recorded(h, e) \in Hists
  BY <1>2, <1>3, <1>4 DEF Hists
<1>7. Recorded(h, e).entries = r /\ r # << >>
  BY <1>2, <1>3, <1>4
<1>8. EntryIds(Recorded(h, e)) \subseteq EntryIds(h) \cup {e.id}
  <2> SUFFICES ASSUME NEW i \in DOMAIN r PROVE r[i].id \in EntryIds(h) \cup {e.id}
    BY <1>7 DEF EntryIds
  <2>1. CASE i = Len(kept) + 1
    BY <1>4, <2>1
  <2>2. CASE i \in 1..Len(kept)
    BY <1>1, <1>2, <1>4, <1>5, <2>2 DEF EntryIds
  <2> QED BY <1>2, <1>5, <2>1, <2>2
<1>9. ASSUME Distinct(h), e.id \notin EntryIds(h) PROVE Distinct(Recorded(h, e))
  <2>1. \A i \in 1..Len(kept) : i \in DOMAIN h.entries /\ r[i].id = h.entries[i].id
                                /\ r[i].id # e.id
    BY <1>1, <1>2, <1>4, <1>5, <1>9 DEF EntryIds
  <2> QED BY <1>2, <1>4, <1>5, <1>7, <1>9, <2>1 DEF Distinct
<1> QED BY <1>6, <1>7, <1>8, <1>9

LEMMA TrimCountBound ==
  ASSUME NEW h \in Hists
  PROVE  /\ TrimCount(h) \in 0..Len(h.entries) /\ TrimCount(h) <= h.cursor
         /\ h.entries # << >> => TrimCount(h) < Len(h.entries)
<1>1. h.cursor \in Nat /\ h.entries \in Seq(Entries) /\ Len(h.entries) \in Nat
      /\ Limit \in Nat \ {0}
  BY BoundsAssumption DEF Hists
<1>2. h.entries # << >> => Len(h.entries) > 0
  BY <1>1
<1> DEFINE excess == IF Len(h.entries) > Limit THEN Len(h.entries) - Limit ELSE 0
           below  == IF h.cursor > 0 THEN h.cursor - 1 ELSE 0
           most   == IF excess < below THEN excess ELSE below
<1>3. /\ most \in Nat /\ most <= Len(h.entries) /\ most <= h.cursor
      /\ h.entries # << >> => most < Len(h.entries)
  BY <1>1, <1>2
<1>4. TrimCount(h) = IF SplitsPair(h.entries, most) THEN most - 1 ELSE most
  BY DEF TrimCount
<1>5. SplitsPair(h.entries, most) => most >= 1
  BY <1>1 DEF SplitsPair
<1> HIDE DEF most
<1> QED BY <1>1, <1>3, <1>4, <1>5

LEMMA TrimmedHist ==
  ASSUME NEW h \in Hists
  PROVE  /\ Trimmed(h) \in Hists
         /\ h.entries # << >> => Trimmed(h).entries # << >>
         /\ EntryIds(Trimmed(h)) \subseteq EntryIds(h)
         /\ PrunedIds(h) \subseteq Ids
         /\ Distinct(h) => /\ Distinct(Trimmed(h))
                           /\ EntryIds(Trimmed(h)) \cap PrunedIds(h) = {}
<1> DEFINE n == TrimCount(h)
           t == Trimmed(h).entries
<1>1. h.cursor \in Nat /\ h.entries \in Seq(Entries) /\ Len(h.entries) \in Nat
      /\ DOMAIN h.entries = 1..Len(h.entries)
  BY DEF Hists
<1>2. n \in 0..Len(h.entries) /\ n <= h.cursor /\ (h.entries # << >> => n < Len(h.entries))
  BY TrimCountBound
<1> HIDE DEF n
<1>3. /\ Trimmed(h) \in Hists
      /\ Len(t) = Len(h.entries) - n /\ DOMAIN t = 1..(Len(h.entries) - n)
      /\ \A i \in 1..(Len(h.entries) - n) : t[i] = h.entries[i + n]
  <2>1. CASE n = 0
    BY <1>1, <2>1 DEF Trimmed, n, Hists
  <2>2. CASE n # 0
    <3>1. Trimmed(h) = [cursor |-> h.cursor - n,
                        entries |-> SubSeq(h.entries, n + 1, Len(h.entries))]
      BY <2>2 DEF Trimmed, n
    <3>2. h.cursor - n \in Nat
      BY <1>1, <1>2
    <3>3. /\ SubSeq(h.entries, n + 1, Len(h.entries)) \in Seq(Entries)
          /\ Len(SubSeq(h.entries, n + 1, Len(h.entries))) = Len(h.entries) - n
          /\ \A i \in 1..(Len(h.entries) - n) :
               SubSeq(h.entries, n + 1, Len(h.entries))[i] = h.entries[i + n]
      BY <1>1, <1>2
    <3> QED BY <1>1, <3>1, <3>2, <3>3 DEF Hists
  <2> QED BY <2>1, <2>2
<1> HIDE DEF t
<1>4. h.entries # << >> => t # << >>
  BY <1>1, <1>2, <1>3
<1>5. EntryIds(Trimmed(h)) = {t[i].id : i \in DOMAIN t}
  BY DEF EntryIds, t
<1>6. \A i \in DOMAIN t : i + n \in DOMAIN h.entries /\ i + n \notin 1..n
                         /\ t[i].id = h.entries[i + n].id
  BY <1>1, <1>2, <1>3
<1>7. EntryIds(Trimmed(h)) \subseteq EntryIds(h)
  BY <1>5, <1>6 DEF EntryIds
<1>8. PrunedIds(h) = {h.entries[i].id : i \in 1..n} /\ 1..n \subseteq DOMAIN h.entries
  BY <1>1, <1>2 DEF PrunedIds, n
<1>9. PrunedIds(h) \subseteq Ids
  <2> SUFFICES ASSUME NEW i \in 1..n PROVE h.entries[i].id \in Ids
    BY <1>8
  <2>1. i \in DOMAIN h.entries
    BY <1>8
  <2>2. h.entries[i].id \in EntryIds(h)
    BY <2>1 DEF EntryIds
  <2> QED BY <2>2, EntryIdsTyped
<1>10. ASSUME Distinct(h) PROVE Distinct(Trimmed(h)) /\ EntryIds(Trimmed(h)) \cap PrunedIds(h) = {}
  <2>1. Distinct(Trimmed(h))
    <3> SUFFICES ASSUME NEW i \in DOMAIN t, NEW j \in DOMAIN t, t[i].id = t[j].id
                 PROVE  i = j
      BY DEF Distinct, t
    <3>1. h.entries[i + n].id = h.entries[j + n].id
      BY <1>6
    <3>2. i + n = j + n
      BY <3>1, <1>6, <1>10 DEF Distinct
    <3>3. i \in Nat /\ j \in Nat /\ n \in Nat
      BY <1>1, <1>2, <1>3
    <3> QED BY <3>2, <3>3
  <2>2. EntryIds(Trimmed(h)) \cap PrunedIds(h) = {}
    BY <1>5, <1>6, <1>8, <1>10 DEF Distinct
  <2> QED BY <2>1, <2>2
<1> QED BY <1>3, <1>4, <1>7, <1>9, <1>10 DEF t

-----------------------------------------------------------------------------
(* Type correctness, one lemma per group of actions.                       *)
Labels == Writing \cup {"indexMove", "rollback", "deleteOwn", "landed",
                        "unknown", "restored", "kept", "rollbackFailed"}

LEMMA Running ==
  ASSUME TypeOK, call # Idle
  PROVE  /\ call \in Calls /\ call.ws \in Ws /\ call.proj \in Projects
         /\ call.proj.state \in States /\ call.proj.hist \in Hists
         /\ call.pre \in States /\ call.cpHist \in Hists
         /\ call.cpIndex \in Hists \cup {NoIndex} /\ call.pruned \subseteq Ids
BY DEF TypeOK, Calls, Projects

LEMMA LabelRuns == \A l \in Labels : call.at = l => call # Idle
BY DEF Labels, Idle, Writing, Recording

LEMMA AdoptTyped ==
  ASSUME TypeOK, NEW p \in Projects
  PROVE  /\ p.state \in States /\ p.hist \in Hists
         /\ AdoptHist(p.state, p.hist) \in Hists
         /\ Loaded(p) \in Projects
BY DEF TypeOK, Projects, AdoptHist, Adopts, Loaded

LEMMA MemTyped ==
  ASSUME TypeOK, NEW w \in Ws, mem[w].open
  PROVE  mem[w].state \in States /\ mem[w].hist \in Hists /\ mem[w].sig \in Nat
<1>1. mem[w] \in {Closed} \cup [open : {TRUE}, state : States, hist : Hists, sig : Nat]
  BY DEF TypeOK, Memories
<1>2. mem[w] # Closed
  BY DEF Closed
<1> QED BY <1>1, <1>2

LEMMA BaseTyped ==
  ASSUME TypeOK, NEW w \in Ws, mem[w].open
  PROVE  Base(w) \in Projects
<1>1. Saved \in Projects
  BY DEF TypeOK, Saved, Projects
<1>2. Loaded(Saved) \in Projects
  BY <1>1, AdoptTyped
<1>3. InMemory(w) \in Projects
  BY MemTyped DEF InMemory, Projects
<1> QED BY <1>2, <1>3 DEF Base

LEMMA NewCallTyped ==
  ASSUME TypeOK, NEW w \in Ws, NEW kind \in AllKinds, NEW what \in Whats,
         NEW at \in Labels, NEW p \in Projects, NEW h \in Hists
  PROVE  NewCall(w, kind, what, at, p, h) \in Calls
<1>1. [p EXCEPT !.hist = h] \in Projects /\ p.state \in States
  BY DEF Projects
<1>2. CheckpointIndex(h) \in Hists \cup {NoIndex}
  BY DEF TypeOK, CheckpointIndex
<1> QED BY <1>1, <1>2 DEF NewCall, Calls, Labels, Unknown

LEMMA OpenTyped ==
  ASSUME NEW p \in Projects, NEW sig \in Nat
  PROVE  Open(p, sig) \in Memories
BY DEF Open, Projects, Memories

LEMMA MemSet ==
  ASSUME TypeOK, NEW w \in Ws, NEW m \in Memories, mem' = [mem EXCEPT ![w] = m]
  PROVE  mem' \in [Ws -> Memories]
BY DEF TypeOK

LEMMA MovedTyped ==
  ASSUME NEW h \in Hists, NEW i \in Nat
  PROVE  MovedTo(h, i) \in Hists /\ MovedTo(h, i).entries = h.entries
BY DEF MovedTo, Hists

LEMMA OpensTyped ==
  ASSUME TypeOK, NEW w \in Ws, Opens(w)
  PROVE  TypeOK'
<1>1. CASE OpenStat(w)
  BY <1>1 DEF TypeOK, OpenStat, Readings
<1>2. CASE OpenRead(w)
  <2>1. opening[w].rev \in Nat
    BY <1>2 DEF TypeOK, OpenRead, NotOpening, Readings
  <2>2. Saved \in Projects
    BY DEF TypeOK, Saved, Projects
  <2> QED BY <1>2, <2>1, <2>2 DEF TypeOK, OpenRead, Readings
<1>3. CASE OpenAdopt(w)
  <2>1. opening[w].proj \in Projects
    BY <1>3 DEF TypeOK, OpenAdopt, NotOpening, Readings
  <2>2. Loaded(opening[w].proj) \in Projects
    BY <2>1, AdoptTyped
  <2>3. (IF file.rev = opening[w].rev THEN file.rev ELSE Unknown) \in Nat
    BY DEF TypeOK, Unknown
  <2> DEFINE o == Open(Loaded(opening[w].proj), IF file.rev = opening[w].rev THEN file.rev ELSE Unknown)
  <2>4. o \in Memories
    BY <2>2, <2>3, OpenTyped
  <2>5. mem' = [mem EXCEPT ![w] = o]
    BY <1>3 DEF OpenAdopt
  <2> HIDE DEF o
  <2>6. mem' \in [Ws -> Memories]
    BY <2>4, <2>5, MemSet
  <2>7. opening' \in [Ws -> Readings]
    BY <1>3 DEF OpenAdopt, TypeOK, Readings
  <2> QED BY <1>3, <2>6, <2>7 DEF TypeOK, OpenAdopt
<1>4. CASE OpenRaises(w)
  BY <1>4 DEF TypeOK, OpenRaises, Readings
<1> QED BY <1>1, <1>2, <1>3, <1>4 DEF Opens

LEMMA BeginsTyped ==
  ASSUME TypeOK, NEW w \in Ws, Begins(w)
  PROVE  TypeOK'
<1> DEFINE p == Base(w)
           h == AdoptHist(p.state, p.hist)
<1>0. mem[w].open => p \in Projects /\ p.state \in States /\ p.hist \in Hists /\ h \in Hists
  BY BaseTyped, AdoptTyped
<1> HIDE DEF p
<1>1. ASSUME NEW what \in Edits \cup {Preview}, BeginMutate(w, what) PROVE TypeOK'
  <2>1. mem[w].open /\ what \in Whats
    BY <1>1 DEF BeginMutate, CanEnter, Whats
  <2>2. call' \in Calls
    BY <1>0, <1>1, <2>1, NewCallTyped DEF BeginMutate, p, AllKinds, Labels, Writing, Recording
  <2>3. index' \in Hists \cup {NoIndex, Damaged}
    BY <1>0, <1>1, <2>1 DEF BeginMutate, p, TypeOK
  <2> QED BY <1>1, <2>2, <2>3 DEF BeginMutate, TypeOK
<1>2. ASSUME NEW force \in BOOLEAN, BeginRecord(w, force) PROVE TypeOK'
  <2>1. mem[w].open /\ "initial" \in Whats
    BY <1>2 DEF BeginRecord, CanEnter, Whats
  <2> DEFINE n == NewCall(w, "record", "initial", "recordAfter", p, h)
  <2>2. n \in Calls
    BY <1>0, <2>1, NewCallTyped DEF AllKinds, Labels, Writing, Recording
  <2>3. call' = [n EXCEPT !.force = force]
    BY <1>2 DEF BeginRecord, p
  <2> HIDE DEF n
  <2>4. call' \in Calls
    BY <2>2, <2>3 DEF Calls
  <2>5. index' \in Hists \cup {NoIndex, Damaged}
    BY <1>0, <1>2, <2>1 DEF BeginRecord, p, TypeOK
  <2> QED BY <1>2, <2>4, <2>5 DEF BeginRecord, TypeOK
<1>3. ASSUME NEW s \in States, BeginFree(w, s) PROVE TypeOK'
  <2>1. mem[w].open /\ "initial" \in Whats
    BY <1>3 DEF BeginFree, CanEnter, Whats
  <2> DEFINE n == NewCall(w, "free", "initial", "commit", p, p.hist)
  <2>2. n \in Calls
    BY <1>0, <2>1, NewCallTyped DEF AllKinds, Labels, Writing, Recording
  <2>3. call' = [n EXCEPT !.proj.state = s]
    BY <1>3 DEF BeginFree, p
  <2> HIDE DEF n
  <2>4. call' \in Calls
    <3>1. n.proj \in Projects
      BY <2>2 DEF Calls
    <3>2. [n.proj EXCEPT !.state = s] \in Projects
      BY <3>1 DEF Projects
    <3>3. call' = [n EXCEPT !.proj = [n.proj EXCEPT !.state = s]]
      BY <2>3
    <3> QED BY <2>2, <3>2, <3>3 DEF Calls
  <2> QED BY <1>3, <2>4 DEF BeginFree, TypeOK
<1>4. ASSUME NEW i \in Nat, mem[w].open, BeginMove(w, p, h, i) PROVE call' \in Calls
  <2> DEFINE n == NewCall(w, "move", "initial", "indexMove", p, h)
             q == [state |-> snaps[h.entries[i].id], hist |-> MovedTo(h, i)]
  <2>1. n \in Calls
    BY <1>0, <1>4, NewCallTyped DEF AllKinds, Labels, Whats
  <2>2. call' = [n EXCEPT !.proj = q]
    BY <1>4 DEF BeginMove
  <2>3. q \in Projects
    BY <1>0, <1>4, MovedTyped DEF BeginMove, Readable, Projects
  <2> HIDE DEF n, q
  <2> QED BY <2>1, <2>2, <2>3 DEF Calls
<1>5. MoveHist(w) = h
  BY DEF MoveHist, p
<1>6. \A i : BeginMove(w, p, h, i) /\ mem[w].open => i \in Nat
  BY <1>0 DEF BeginMove, Hists
<1>7. CanMove(w) => mem[w].open
  BY DEF CanMove, CanEnter
<1>8. ASSUME NEW e \in Ids \cup {0}, Undo(w, e) PROVE TypeOK'
  <2>1. PICK i : BeginMove(w, p, h, i)
    BY <1>5, <1>8 DEF Undo, p
  <2>2. mem[w].open
    BY <1>7, <1>8 DEF Undo
  <2>3. call' \in Calls
    BY <1>4, <1>6, <2>1, <2>2
  <2> QED BY <1>8, <2>3 DEF Undo, TypeOK
<1>9. ASSUME NEW e \in Ids \cup {0}, Redo(w, e) PROVE TypeOK'
  <2>1. PICK i : BeginMove(w, p, h, i)
    BY <1>5, <1>9 DEF Redo, p
  <2>2. mem[w].open
    BY <1>7, <1>9 DEF Redo
  <2>3. call' \in Calls
    BY <1>4, <1>6, <2>1, <2>2
  <2> QED BY <1>9, <2>3 DEF Redo, TypeOK
<1>10. ASSUME NEW i \in Ids, Goto(w, i) PROVE TypeOK'
  <2>1. BeginMove(w, p, h, i)
    BY <1>5, <1>10 DEF Goto, p
  <2>2. mem[w].open
    BY <1>7, <1>10 DEF Goto
  <2>3. call' \in Calls
    BY <1>4, <1>6, <2>1, <2>2
  <2> QED BY <1>10, <2>3 DEF Goto, TypeOK
<1>11. ASSUME RefuseUndo(w) PROVE TypeOK'
  <2> DEFINE q == [state |-> p.state, hist |-> MovedTo(h, 1)]
             o == AfterMoveError(q, file.rev)
  <2>1. mem[w].open
    BY <1>7, <1>11 DEF RefuseUndo
  <2>2. q \in Projects
    BY <1>0, <2>1, MovedTyped DEF Projects
  <2>3. file.rev \in Nat
    BY DEF TypeOK
  <2>4. mem' = [mem EXCEPT ![w] = o]
    BY <1>5, <1>11 DEF RefuseUndo, p
  <2> HIDE DEF q
  <2>5. o \in Memories
    BY <2>2, <2>3, OpenTyped DEF AfterMoveError, Memories
  <2> HIDE DEF o
  <2>6. mem' \in [Ws -> Memories]
    BY <2>4, <2>5, MemSet
  <2> QED BY <1>11, <2>6 DEF RefuseUndo, TypeOK
<1> HIDE DEF h
<1> QED BY <1>1, <1>2, <1>3, <1>8, <1>9, <1>10, <1>11 DEF Begins

LEMMA RecordEntryTyped ==
  ASSUME TypeOK, call # Idle, NEW when \in Whens, NEW onSame \in Labels, NEW onNew \in Labels,
         RecordEntry(when, onSame, onNew)
  PROVE  TypeOK'
<1> DEFINE e == [id |-> nextId, when |-> when, what |-> call.what]
<1>1. call \in Calls /\ call.proj \in Projects /\ call.proj.hist \in Hists
  BY Running
<1>2. CASE /\ call' = [call EXCEPT !.at = onSame]
           /\ UNCHANGED <<snaps, nextId>>
  <2>1. call' \in Calls
    BY <1>1, <1>2 DEF Calls, Labels
  <2> QED BY <1>2, <2>1 DEF RecordEntry, TypeOK
<1>3. CASE /\ nextId \in Ids
           /\ snaps' = [snaps EXCEPT ![nextId] = call.proj.state]
           /\ nextId' = nextId + 1
           /\ call' = [call EXCEPT !.at = onNew, !.proj.hist = Recorded(call.proj.hist, e)]
  <2>1. e \in Entries
    BY <1>1, <1>3 DEF Entries, Calls
  <2>2. Recorded(call.proj.hist, e) \in Hists
    BY <1>1, <2>1, RecordedHist
  <2> DEFINE q == [call.proj EXCEPT !.hist = Recorded(call.proj.hist, e)]
  <2>3. q \in Projects
    BY <1>1, <2>2 DEF Projects
  <2>4. call' = [call EXCEPT !.at = onNew, !.proj = q]
    BY <1>3
  <2> HIDE DEF q, e
  <2>5. call' \in Calls
    BY <1>1, <2>3, <2>4 DEF Calls, Labels
  <2>6. snaps' \in [Ids -> States \cup {NoSnap, Torn}]
    BY <1>1, <1>3 DEF TypeOK, Projects
  <2>7. nextId' \in Nat \ {0}
    BY <1>3 DEF TypeOK
  <2> QED BY <2>5, <2>6, <2>7 DEF RecordEntry, TypeOK
<1> QED BY <1>2, <1>3 DEF RecordEntry

LEMMA WriteIndexTyped ==
  ASSUME TypeOK, call # Idle, NEW next \in Labels, WriteIndex(next)
  PROVE  TypeOK'
<1>1. call \in Calls /\ call.proj.hist \in Hists
  BY Running
<1>2. call' \in Calls
  BY <1>1 DEF WriteIndex, Calls, Labels
<1> QED BY <1>1, <1>2 DEF WriteIndex, TypeOK

LEMMA StepsTyped ==
  ASSUME TypeOK, Steps
  PROVE  TypeOK'
<1> USE DEF At
<1>0. /\ {"recordBefore", "indexBefore", "mutate", "recordAfter", "indexAfter", "indexMove",
          "commit", "sync", "save", "prune", "mirror"} \subseteq Labels
      /\ Whens = {"before", "after", "mark"}
  BY DEF Labels, Writing, Recording, Whens
<1>1. CASE RecordBefore
  BY <1>0, <1>1, LabelRuns, RecordEntryTyped DEF RecordBefore
<1>2. CASE IndexBefore
  BY <1>0, <1>2, LabelRuns, WriteIndexTyped DEF IndexBefore
<1>3. ASSUME NEW s \in States, Mutate(s) PROVE TypeOK'
  <2>1. call # Idle
    BY <1>0, <1>3, LabelRuns DEF Mutate
  <2>2. call \in Calls /\ call.proj \in Projects /\ call.proj.hist \in Hists
    BY <2>1, Running
  <2> DEFINE q == [call.proj EXCEPT !.state = s]
  <2>3. q \in Projects
    BY <2>2 DEF Projects
  <2>4. call' = [call EXCEPT !.at = "recordAfter", !.proj = q, !.own = {call.proj.hist}]
    BY <1>3 DEF Mutate
  <2> HIDE DEF q
  <2>5. call' \in Calls
    BY <1>0, <2>2, <2>3, <2>4 DEF Calls, Labels
  <2> QED BY <1>3, <2>5 DEF Mutate, TypeOK
<1>4. CASE RecordAfter
  <2> DEFINE when == IF call.kind = "record" THEN "mark" ELSE "after"
  <2>1. when \in Whens /\ RecordEntry(when, "commit", "indexAfter")
    BY <1>0, <1>4 DEF RecordAfter
  <2> HIDE DEF when
  <2> QED BY <1>0, <1>4, <2>1, LabelRuns, RecordEntryTyped DEF RecordAfter
<1>5. CASE IndexAfter
  BY <1>0, <1>5, LabelRuns, WriteIndexTyped DEF IndexAfter
<1>6. CASE IndexMove
  BY <1>0, <1>6, LabelRuns, WriteIndexTyped DEF IndexMove
<1>7. CASE StartCommit
  <2>1. call # Idle
    BY <1>0, <1>7, LabelRuns DEF StartCommit
  <2>2. call \in Calls /\ call.proj \in Projects
    BY <2>1, Running
  <2> DEFINE h == AdoptHist(call.proj.state, call.proj.hist)
             q == [call.proj EXCEPT !.hist = Trimmed(h)]
  <2>3. h \in Hists
    BY <2>2, AdoptTyped
  <2>4. call' = [call EXCEPT !.at = "sync", !.revBefore = file.rev,
                             !.proj = q, !.pruned = PrunedIds(h)]
    BY <1>7 DEF StartCommit
  <2> HIDE DEF h
  <2>5. Trimmed(h) \in Hists /\ PrunedIds(h) \subseteq Ids
    BY <2>3, TrimmedHist
  <2>6. q \in Projects
    BY <2>2, <2>5 DEF Projects
  <2>7. file.rev \in Nat
    BY DEF TypeOK
  <2> HIDE DEF q
  <2>8. call' \in Calls
    BY <1>0, <2>2, <2>4, <2>5, <2>6, <2>7 DEF Calls, Labels
  <2> QED BY <1>7, <2>8 DEF StartCommit, TypeOK
<1>8. CASE SyncIndex
  <2>1. call \in Calls /\ call.proj.hist \in Hists
    BY <1>0, <1>8, LabelRuns, Running DEF SyncIndex
  <2>2. call' \in Calls
    BY <1>0, <1>8, <2>1 DEF SyncIndex, Calls, Labels
  <2> QED BY <1>8, <2>1, <2>2 DEF SyncIndex, TypeOK
<1>9. CASE SaveFile
  <2>1. call \in Calls /\ call.proj.hist \in Hists /\ call.proj.state \in States
    BY <1>0, <1>9, LabelRuns, Running DEF SaveFile
  <2>2. call' \in Calls
    BY <1>0, <1>9, <2>1 DEF SaveFile, Calls, Labels
  <2>3. file' \in [state : States, hist : Hists, rev : Nat \ {0}]
    BY <1>9, <2>1 DEF SaveFile, TypeOK
  <2> QED BY <1>9, <2>2, <2>3 DEF SaveFile, TypeOK
<1>10. CASE PruneSnapshots
  <2>1. call \in Calls
    BY <1>0, <1>10, LabelRuns, Running DEF PruneSnapshots
  <2>2. call' \in Calls
    BY <1>0, <1>10, <2>1 DEF PruneSnapshots, Calls, Labels
  <2>3. snaps' \in [Ids -> States \cup {NoSnap, Torn}]
    BY <1>10 DEF PruneSnapshots, TypeOK
  <2> QED BY <1>10, <2>2, <2>3 DEF PruneSnapshots, TypeOK
<1>11. CASE MirrorCache
  <2>1. call.proj \in Projects /\ call.ws \in Ws /\ file.rev \in Nat
    BY <1>0, <1>11, LabelRuns, Running DEF MirrorCache, TypeOK
  <2> DEFINE o == Open(call.proj, file.rev)
  <2>2. o \in Memories /\ mem' = [mem EXCEPT ![call.ws] = o]
    BY <1>11, <2>1, OpenTyped DEF MirrorCache
  <2> HIDE DEF o
  <2>3. mem' \in [Ws -> Memories]
    BY <2>1, <2>2, MemSet
  <2> QED BY <1>11, <2>3 DEF MirrorCache, TypeOK
<1> QED BY <1>1, <1>2, <1>3, <1>4, <1>5, <1>6, <1>7, <1>8, <1>9, <1>10, <1>11 DEF Steps

LEMMA LeavesTornTyped ==
  ASSUME TypeOK, LeavesTorn
  PROVE  /\ snaps' \in [Ids -> States \cup {NoSnap, Torn}]
         /\ nextId' \in Nat \ {0}
BY DEF TypeOK, LeavesTorn

LEMMA OutcomeTyped ==
  ASSUME TypeOK, call # Idle, NEW label \in Labels, Outcome(label),
         index' \in Hists \cup {NoIndex, Damaged}
  PROVE  TypeOK'
<1>1. call \in Calls
  BY Running
<1>2. call' \in Calls
  BY <1>1 DEF Outcome, Calls, Labels
<1> QED BY <1>2 DEF Outcome, TypeOK

LEMMA AfterMoveErrorTyped ==
  ASSUME NEW p \in Projects, NEW sig \in Nat
  PROVE  AfterMoveError(p, sig) \in Memories
BY OpenTyped DEF AfterMoveError, Memories

LEMMA FailuresTyped ==
  ASSUME TypeOK, Failures
  PROVE  TypeOK'
<1> USE DEF At
<1>0. {"indexMove", "rollback", "deleteOwn", "landed", "unknown", "restored", "kept",
       "rollbackFailed"} \cup Writing \subseteq Labels
  BY DEF Labels
<1>1. CASE Raise
  <2>1. call \in Calls
    BY <1>0, <1>1, LabelRuns, Running DEF Raise
  <2>2. call' \in Calls
    BY <1>0, <1>1, <2>1 DEF Raise, Calls, Labels
  <2> QED BY <1>1, <2>2, LeavesTornTyped DEF Raise, TypeOK
<1>2. CASE RaiseInSave
  <2>1. call.proj \in Projects /\ call.ws \in Ws /\ Unknown \in Nat
    BY <1>0, <1>2, LabelRuns, Running DEF RaiseInSave, Unknown
  <2> DEFINE o == IF call.kind = "move" THEN AfterMoveError(call.proj, Unknown)
                                        ELSE Open(call.proj, Unknown)
  <2>2. o \in Memories
    BY <2>1, OpenTyped, AfterMoveErrorTyped
  <2>3. mem' = [mem EXCEPT ![call.ws] = o]
    BY <1>2 DEF RaiseInSave
  <2> HIDE DEF o
  <2>4. mem' \in [Ws -> Memories]
    BY <2>1, <2>2, <2>3, MemSet
  <2> QED BY <1>2, <2>4 DEF RaiseInSave, TypeOK
<1>3. CASE RaiseInMove
  <2>1. call.proj \in Projects /\ call.ws \in Ws /\ file.rev \in Nat
    BY <1>0, <1>3, LabelRuns, Running DEF RaiseInMove, TypeOK
  <2>2. AfterMoveError(call.proj, file.rev) \in Memories
    BY <2>1, AfterMoveErrorTyped
  <2>3. mem' \in [Ws -> Memories]
    BY <1>3, <2>1, <2>2, MemSet DEF RaiseInMove
  <2> QED BY <1>3, <2>3 DEF RaiseInMove, TypeOK
<1>4. CASE RollbackLanded
  BY <1>0, <1>4, LabelRuns, OutcomeTyped DEF RollbackLanded, TypeOK
<1>5. CASE RollbackUnknown
  BY <1>0, <1>5, LabelRuns, OutcomeTyped DEF RollbackUnknown, TypeOK
<1>6. CASE RollbackIndex
  <2>1. call # Idle
    BY <1>0, <1>6, LabelRuns DEF RollbackIndex
  <2>2. index' \in Hists \cup {NoIndex, Damaged}
    BY <1>6, <2>1, Running DEF RollbackIndex
  <2> QED BY <1>0, <1>6, <2>1, <2>2, OutcomeTyped DEF RollbackIndex
<1>7. CASE RollbackDelete
  <2>1. call \in Calls
    BY <1>0, <1>7, LabelRuns, Running DEF RollbackDelete
  <2>2. call' \in Calls
    BY <1>0, <1>7, <2>1 DEF RollbackDelete, Calls, Labels
  <2>3. snaps' \in [Ids -> States \cup {NoSnap, Torn}]
    BY <1>7 DEF RollbackDelete, TypeOK
  <2> QED BY <1>7, <2>2, <2>3 DEF RollbackDelete, TypeOK
<1>8. CASE RollbackKept
  BY <1>0, <1>8, LabelRuns, OutcomeTyped DEF RollbackKept, TypeOK
<1>9. CASE RollbackRaises
  BY <1>0, <1>9, LabelRuns, OutcomeTyped DEF RollbackRaises, TypeOK
<1>10. CASE Settle
  <2>1. call # Idle
    BY <1>0, <1>10, LabelRuns DEF Settle
  <2>2. /\ call.proj \in Projects /\ call.ws \in Ws /\ call.pre \in States
        /\ call.cpHist \in Hists /\ Unknown \in Nat
    BY <2>1, Running DEF Unknown
  <2>3. HistoryOnDisk \in Hists
    BY <2>2 DEF HistoryOnDisk, TypeOK
  <2> DEFINE q == CASE call.at = "landed" -> call.proj
                    [] call.at \in {"unknown", "restored"} ->
                         [state |-> call.pre, hist |-> call.cpHist]
                    [] OTHER -> [state |-> call.pre, hist |-> HistoryOnDisk]
  <2>4. q \in Projects
    BY <2>2, <2>3 DEF Projects
  <2>5. mem' = [mem EXCEPT ![call.ws] = Open(q, Unknown)]
    BY <1>10 DEF Settle
  <2> HIDE DEF q
  <2>6. mem' \in [Ws -> Memories]
    BY <2>2, <2>4, <2>5, OpenTyped, MemSet
  <2> QED BY <1>10, <2>6 DEF Settle, TypeOK
<1> QED BY <1>1, <1>2, <1>3, <1>4, <1>5, <1>6, <1>7, <1>8, <1>9, <1>10 DEF Failures

LEMMA CrashTyped ==
  ASSUME TypeOK, NEW w \in Ws, Crash(w)
  PROVE  TypeOK'
<1>1. mem' \in [Ws -> Memories]
  BY DEF Crash, TypeOK, Memories
<1>2. opening' \in [Ws -> Readings]
  BY DEF Crash, TypeOK, Readings
<1>3. /\ snaps' \in [Ids -> States \cup {NoSnap, Torn}]
      /\ nextId' \in Nat \ {0}
      /\ call' \in {Idle} \cup Calls
  BY LeavesTornTyped DEF Crash, TypeOK
<1> QED BY <1>1, <1>2, <1>3 DEF Crash, TypeOK

LEMMA InitTyped == Init => TypeOK
<1> SUFFICES ASSUME Init PROVE TypeOK
  OBVIOUS
<1>1. mem \in [Ws -> Memories] /\ opening \in [Ws -> Readings] /\ call \in {Idle} \cup Calls
  BY DEF Init, Memories, Readings
<1>2. EmptyHist \in Hists
  BY DEF EmptyHist, Hists
<1>3. PICK s \in States :
       \/ /\ file  = [state |-> s, hist |-> InitialHist, rev |-> 1]
          /\ index = InitialHist
          /\ snaps = [id \in Ids |-> IF id = 1 THEN s ELSE NoSnap]
          /\ nextId = 2
       \/ /\ file  = [state |-> s, hist |-> EmptyHist, rev |-> 1]
          /\ index \in {NoIndex, EmptyHist}
          /\ snaps = [id \in Ids |-> NoSnap]
          /\ nextId = 1
  BY DEF Init
<1>4. InitialHist \in Hists
  <2>1. [id |-> 1, when |-> "mark", what |-> "initial"] \in Entries
    BY BoundsAssumption DEF Entries, Ids, Whens, Whats
  <2> QED BY <2>1 DEF InitialHist, Hists
<1> QED BY <1>1, <1>2, <1>3, <1>4 DEF TypeOK

(* Every variable keeps its type, whatever the workspaces, the states, the *)
(* bounds and the kinds of call: the histories a commit publishes are real *)
(* histories, and a call's fields always mean what the rollback reads.     *)
THEOREM TypeCorrect == Spec => []TypeOK
<1>1. TypeOK /\ [Next]_vars => TypeOK'
  <2> SUFFICES ASSUME TypeOK, [Next]_vars PROVE TypeOK'
    OBVIOUS
  <2>1. CASE DamageIndex
    BY <2>1 DEF DamageIndex, TypeOK
  <2>2. CASE UNCHANGED vars
    BY <2>2 DEF vars, TypeOK
  <2> QED BY <2>1, <2>2, OpensTyped, BeginsTyped, CrashTyped, StepsTyped, FailuresTyped DEF Next
<1> QED BY <1>1, InitTyped, PTL DEF Spec

-----------------------------------------------------------------------------
(* The inductive invariant behind NoDanglingEntry.  A project saved with   *)
(* its history never adopts an index, so what a commit publishes was read  *)
(* from the saved history and grown by snapshots the call itself wrote.    *)
Whole(h) == \A id \in EntryIds(h) : Readable(id)
Sound(h) == h.entries # << >> /\ Distinct(h) /\ Whole(h)

(* ids not yet generated have no snapshot file *)
Fresh == \A id \in Ids : id >= nextId => snaps[id] = NoSnap

SavedSound   == Sound(file.hist)
IndexWhole   == \A id \in Listed : Readable(id)

(* a workspace, or a read, at the saved revision has the saved entries *)
MemCurrent ==
  \A w \in Ws : mem[w].open =>
    /\ mem[w].sig <= file.rev
    /\ mem[w].sig = file.rev => mem[w].hist.entries = file.hist.entries
ReadCurrent ==
  \A w \in Ws :
    /\ opening[w].at \in {"stat", "read"} => opening[w].rev <= file.rev
    /\ (opening[w].at = "read" /\ opening[w].rev = file.rev)
         => opening[w].proj.hist = file.hist

BeforeCommit == Recording \cup {"indexBefore", "mutate", "indexAfter", "indexMove", "commit"}

(* where the call stands with respect to the saved file *)
CallPhase ==
  /\ call.at \in BeforeCommit => call.revBefore = Unknown
  /\ call.at \in {"sync", "save"} => call.revBefore = file.rev
  /\ call.at \in {"prune", "mirror"} =>
       Landed /\ index = call.proj.hist /\ file.hist = call.proj.hist
  /\ call.at = "save" => index = call.proj.hist
  /\ call.at = "deleteOwn" => ~Landed /\ index = call.cpIndex

(* what the call would publish, and what it would prune *)
CallHistory ==
  /\ call.at \in BeforeCommit \cup {"sync", "save"} => Sound(call.proj.hist)
  /\ call.at = "indexMove" => call.proj.hist.entries = file.hist.entries
  /\ call.at \in {"sync", "save", "prune"} =>
       EntryIds(call.proj.hist) \cap call.pruned = {}

(* what a rollback would put back, and what it would delete *)
CallCheckpoint ==
  (call # Idle /\ ~Landed) =>
    /\ call.cpHist.entries = file.hist.entries
    /\ call.cpIndex # NoIndex =>
         Whole(call.cpIndex) /\ OwnIds \cap EntryIds(call.cpIndex) = {}

IInv ==
  /\ TypeOK /\ Fresh /\ SavedSound /\ IndexWhole /\ MemCurrent /\ ReadCurrent
  /\ CallPhase /\ CallHistory /\ CallCheckpoint

-----------------------------------------------------------------------------
(* What Sound and Whole depend on.                                         *)
LEMMA SameEntries ==
  ASSUME NEW g, NEW h, g.entries = h.entries
  PROVE  EntryIds(g) = EntryIds(h) /\ (Sound(g) <=> Sound(h))
BY DEF EntryIds, Sound, Distinct, Whole

LEMMA SoundFilled ==
  ASSUME NEW h, Sound(h), NEW s
  PROVE  ~IsEmpty(h) /\ AdoptHist(s, h) = h /\ ~IndexRaises(h)
BY DEF Sound, IsEmpty, AdoptHist, Adopts, IndexRaises

LEMMA FreshUnnamed ==
  ASSUME Fresh, TypeOK, NEW h, Whole(h)
  PROVE  nextId \in Ids => nextId \notin EntryIds(h)
<1> SUFFICES ASSUME nextId \in Ids, nextId \in EntryIds(h) PROVE FALSE
  OBVIOUS
<1>1. nextId >= nextId
  BY DEF TypeOK
<1>2. snaps[nextId] = NoSnap
  BY <1>1 DEF Fresh
<1> QED BY <1>2, AbsentAssumption DEF Whole, Readable

(* The parts of the invariant that only the disk and memory enter.         *)
LEMMA DiskKept ==
  ASSUME IInv, UNCHANGED <<file, snaps, mem, opening, nextId>>
  PROVE  /\ Fresh' /\ SavedSound' /\ MemCurrent' /\ ReadCurrent'
         /\ index' = index => IndexWhole'
<1>1. Fresh' /\ MemCurrent' /\ ReadCurrent'
  BY DEF IInv, Fresh, MemCurrent, ReadCurrent
<1>2. SavedSound'
  BY DEF IInv, SavedSound, Sound, Distinct, Whole, Readable, EntryIds
<1>3. index' = index => IndexWhole'
  BY DEF IInv, IndexWhole, Listed, Readable, EntryIds
<1> QED BY <1>1, <1>2, <1>3

(* The call is over: what is left is the workspace's memory.               *)
LEMMA CallOver ==
  ASSUME IInv, TypeOK', UNCHANGED <<file, index, snaps, opening, nextId>>, call' = Idle,
         NEW w \in Ws, NEW m \in Memories, mem' = [mem EXCEPT ![w] = m],
         m.open => /\ m.sig <= file.rev
                   /\ m.sig = file.rev => m.hist.entries = file.hist.entries
  PROVE  IInv'
<1>1. Fresh' /\ ReadCurrent'
  BY DEF IInv, Fresh, ReadCurrent
<1>2. SavedSound' /\ IndexWhole'
  BY DEF IInv, SavedSound, IndexWhole, Listed, Sound, Distinct, Whole, Readable, EntryIds
<1>3. \A v \in Ws : mem'[v] = m \/ mem'[v] = mem[v]
  BY DEF IInv, TypeOK
<1>4. MemCurrent'
  BY <1>3 DEF IInv, MemCurrent
<1>5. CallPhase' /\ CallHistory' /\ CallCheckpoint'
  BY DEF CallPhase, CallHistory, CallCheckpoint, Idle, BeforeCommit, Recording
<1> QED BY <1>1, <1>2, <1>4, <1>5 DEF IInv

(* A call enters on the saved entries, with nothing of its own yet.        *)
LEMMA EnterBase ==
  ASSUME IInv, NEW w \in Ws, mem[w].open
  PROVE  /\ Base(w) \in Projects /\ Base(w).hist \in Hists
         /\ Base(w).hist.entries = file.hist.entries
         /\ Sound(Base(w).hist)
         /\ \A s : AdoptHist(s, Base(w).hist) = Base(w).hist
         /\ ~IndexRaises(Base(w).hist)
<1>1. Base(w) \in Projects /\ Base(w).hist \in Hists
  BY BaseTyped DEF IInv, Projects
<1>2. Base(w).hist.entries = file.hist.entries
  <2>1. CASE mem[w].sig = file.rev
    BY <2>1 DEF IInv, MemCurrent, Base, InMemory
  <2>2. CASE mem[w].sig # file.rev
    BY <2>2, SoundFilled DEF IInv, SavedSound, Base, Loaded, Saved
  <2> QED BY <2>1, <2>2
<1>3. Sound(Base(w).hist)
  BY <1>2, SameEntries DEF IInv, SavedSound
<1> QED BY <1>1, <1>2, <1>3, SoundFilled

LEMMA CallStarts ==
  ASSUME IInv, TypeOK', UNCHANGED <<file, index, snaps, mem, opening, nextId>>,
         NEW h, Sound(h), h.entries = file.hist.entries,
         call'.at \in BeforeCommit, call'.revBefore = Unknown,
         call'.proj.hist.entries = h.entries,
         call'.cpHist = h, call'.cpIndex = CheckpointIndex(h)
  PROVE  IInv'
<1>1. Fresh' /\ SavedSound' /\ MemCurrent' /\ ReadCurrent' /\ IndexWhole'
  BY DiskKept
<1>2. call'.at \notin {"idle", "sync", "save", "prune", "mirror", "deleteOwn"}
  BY DEF BeforeCommit, Recording
<1>3. CallPhase'
  BY <1>2 DEF CallPhase
<1>4. Sound(call.proj.hist)'
  BY DEF Sound, Distinct, Whole, Readable, EntryIds
<1>5. CallHistory'
  BY <1>2, <1>4 DEF CallHistory
<1>6. OwnIds' = {}
  BY DEF OwnIds, EntryIds
<1>7. CheckpointIndex(h) # NoIndex => Whole(CheckpointIndex(h))
  BY DEF IInv, CheckpointIndex, Sound, IndexWhole, Listed, Whole
<1>8. (call.cpIndex # NoIndex => Whole(call.cpIndex))'
  BY <1>7 DEF Whole, Readable, EntryIds
<1>9. CallCheckpoint'
  BY <1>6, <1>8 DEF CallCheckpoint
<1> QED BY <1>1, <1>3, <1>5, <1>9 DEF IInv

-----------------------------------------------------------------------------
(* Every action keeps the invariant.                                       *)
LEMMA CallUntouched ==
  ASSUME IInv, UNCHANGED <<file, index, snaps, call, nextId>>
  PROVE  /\ Fresh' /\ SavedSound' /\ IndexWhole'
         /\ CallPhase' /\ CallHistory' /\ CallCheckpoint'
<1>1. Fresh' /\ SavedSound' /\ IndexWhole'
  BY DEF IInv, Fresh, SavedSound, IndexWhole, Listed, Sound, Distinct, Whole, Readable, EntryIds
<1>2. CallPhase'
  <2>1. Landed' = Landed
    BY DEF Landed, CommitStarted
  <2> QED BY <2>1 DEF IInv, CallPhase
<1>3. CallHistory'
  BY DEF IInv, CallHistory, Sound, Distinct, Whole, Readable, EntryIds
<1>4. CallCheckpoint'
  <2>1. Landed' = Landed /\ OwnIds' = OwnIds
    BY DEF Landed, CommitStarted, OwnIds, EntryIds
  <2>2. Whole(call.cpIndex)' = Whole(call.cpIndex) /\ EntryIds(call.cpIndex)' = EntryIds(call.cpIndex)
    BY DEF Whole, Readable, EntryIds
  <2> QED BY <2>1, <2>2 DEF IInv, CallCheckpoint
<1> QED BY <1>1, <1>2, <1>3, <1>4

LEMMA OpensKeep ==
  ASSUME IInv, TypeOK', NEW w \in Ws, Opens(w)
  PROVE  IInv'
<1>0. file.rev \in Nat \ {0} /\ opening \in [Ws -> Readings] /\ mem \in [Ws -> Memories]
  BY DEF IInv, TypeOK
<1>1. UNCHANGED <<file, index, snaps, call, nextId>>
  BY DEF Opens, OpenStat, OpenRead, OpenAdopt, OpenRaises
<1>2. ReadCurrent'
  <2>1. ASSUME NEW v \in Ws PROVE \/ opening'[v] = opening[v]
                                  \/ opening'[v] = NotOpening
                                  \/ opening'[v] = [at |-> "stat", rev |-> file.rev]
                                  \/ /\ opening[v].at = "stat"
                                     /\ opening'[v] = [at |-> "read", rev |-> opening[v].rev,
                                                       proj |-> Saved]
    BY <1>0 DEF Opens, OpenStat, OpenRead, OpenAdopt, OpenRaises
  <2> SUFFICES ASSUME NEW v \in Ws
               PROVE  /\ opening'[v].at \in {"stat", "read"} => opening'[v].rev <= file.rev
                      /\ (opening'[v].at = "read" /\ opening'[v].rev = file.rev)
                           => opening'[v].proj.hist = file.hist
    BY <1>1 DEF ReadCurrent
  <2>2. CASE opening'[v] = opening[v]
    BY <2>2 DEF IInv, ReadCurrent
  <2>3. CASE opening'[v] = NotOpening
    BY <2>3 DEF NotOpening
  <2>4. CASE opening'[v] = [at |-> "stat", rev |-> file.rev]
    BY <1>0, <2>4
  <2>5. CASE /\ opening[v].at = "stat"
             /\ opening'[v] = [at |-> "read", rev |-> opening[v].rev, proj |-> Saved]
    BY <2>5 DEF IInv, ReadCurrent, Saved
  <2> QED BY <2>1, <2>2, <2>3, <2>4, <2>5
<1>3. MemCurrent'
  <2>1. CASE UNCHANGED mem
    BY <1>1, <2>1 DEF IInv, MemCurrent
  <2>2. CASE OpenAdopt(w)
    <3> DEFINE q == opening[w].proj
               sig == IF file.rev = opening[w].rev THEN file.rev ELSE Unknown
    <3>1. \A v \in Ws : mem'[v] = mem[v] \/ mem'[v] = Open(Loaded(q), sig)
      BY <1>0, <2>2 DEF OpenAdopt
    <3>2. sig <= file.rev
      BY <1>0 DEF Unknown
    <3>3. sig = file.rev => Loaded(q).hist.entries = file.hist.entries
      <4>1. SUFFICES ASSUME sig = file.rev PROVE Loaded(q).hist = file.hist
        OBVIOUS
      <4>2. file.rev = opening[w].rev
        BY <1>0, <4>1 DEF Unknown
      <4>3. q.hist = file.hist
        BY <2>2, <4>2 DEF IInv, ReadCurrent, OpenAdopt
      <4> QED BY <4>3, SoundFilled DEF IInv, SavedSound, Loaded
    <3> HIDE DEF q, sig
    <3> QED BY <1>1, <3>1, <3>2, <3>3 DEF IInv, MemCurrent, Open
  <2> QED BY <2>1, <2>2 DEF Opens, OpenStat, OpenRead, OpenRaises
<1> QED BY <1>1, <1>2, <1>3, CallUntouched DEF IInv

LEMMA BeginsKeep ==
  ASSUME IInv, TypeOK', NEW w \in Ws, Begins(w)
  PROVE  IInv'
<1> DEFINE p == Base(w)
           h == p.hist
<1>1. CanEnter(w) => mem[w].open
  BY DEF CanEnter
<1>2. ASSUME mem[w].open
      PROVE  /\ p \in Projects /\ h \in Hists /\ h.entries = file.hist.entries /\ Sound(h)
             /\ (\A s : AdoptHist(s, h) = h) /\ ~IndexRaises(h)
  BY <1>2, EnterBase
<1> HIDE DEF p
<1>3. {"recordBefore", "recordAfter", "indexMove", "commit"} \subseteq BeforeCommit
  BY DEF BeforeCommit, Recording
<1>4. ASSUME NEW what \in Edits \cup {Preview}, BeginMutate(w, what) PROVE IInv'
  <2>1. mem[w].open
    BY <1>1, <1>4 DEF BeginMutate
  <2>2. call' = NewCall(w, "mutate", what, "recordBefore", p, h) /\ index' = index
    BY <1>2, <1>4, <2>1 DEF BeginMutate, p
  <2>3. UNCHANGED <<file, snaps, mem, opening, nextId>>
    BY <1>4 DEF BeginMutate
  <2>4. /\ call'.at \in BeforeCommit /\ call'.revBefore = Unknown /\ call'.proj.hist = h
        /\ call'.cpHist = h /\ call'.cpIndex = CheckpointIndex(h)
    BY <1>2, <1>3, <2>1, <2>2 DEF NewCall, Projects
  <2> HIDE DEF h
  <2> QED BY <1>2, <2>1, <2>2, <2>3, <2>4, CallStarts
<1>5. ASSUME NEW force \in BOOLEAN, BeginRecord(w, force) PROVE IInv'
  <2>1. mem[w].open
    BY <1>1, <1>5 DEF BeginRecord
  <2>2. /\ call' = [NewCall(w, "record", "initial", "recordAfter", p, h) EXCEPT !.force = force]
        /\ index' = index
    BY <1>2, <1>5, <2>1 DEF BeginRecord, p
  <2>3. UNCHANGED <<file, snaps, mem, opening, nextId>>
    BY <1>5 DEF BeginRecord
  <2>4. /\ call'.at \in BeforeCommit /\ call'.revBefore = Unknown /\ call'.proj.hist = h
        /\ call'.cpHist = h /\ call'.cpIndex = CheckpointIndex(h)
    BY <1>2, <1>3, <2>1, <2>2 DEF NewCall, Projects
  <2> HIDE DEF h
  <2> QED BY <1>2, <2>1, <2>2, <2>3, <2>4, CallStarts
<1>6. ASSUME NEW s \in States, BeginFree(w, s) PROVE IInv'
  <2>1. mem[w].open
    BY <1>1, <1>6 DEF BeginFree
  <2>2. call' = [NewCall(w, "free", "initial", "commit", p, h) EXCEPT !.proj.state = s]
    BY <1>6 DEF BeginFree, p
  <2>3. UNCHANGED <<file, index, snaps, mem, opening, nextId>>
    BY <1>6 DEF BeginFree
  <2>4. /\ call'.at \in BeforeCommit /\ call'.revBefore = Unknown /\ call'.proj.hist = h
        /\ call'.cpHist = h /\ call'.cpIndex = CheckpointIndex(h)
    BY <1>2, <1>3, <2>1, <2>2 DEF NewCall, Projects
  <2> HIDE DEF h
  <2> QED BY <1>2, <2>1, <2>3, <2>4, CallStarts
<1>7. MoveHist(w) = h \/ ~mem[w].open
  BY <1>2 DEF MoveHist, p
<1>8. ASSUME NEW i, CanMove(w), BeginMove(w, p, h, i),
             UNCHANGED <<file, index, snaps, mem, opening, nextId>>
      PROVE  IInv'
  <2>1. mem[w].open
    BY <1>1, <1>8 DEF CanMove
  <2>2. i \in Nat
    BY <1>2, <1>8, <2>1 DEF BeginMove, Hists
  <2>3. MovedTo(h, i).entries = h.entries
    BY <1>2, <2>1, <2>2, MovedTyped
  <2>4. /\ call'.at \in BeforeCommit /\ call'.revBefore = Unknown
        /\ call'.proj.hist = MovedTo(h, i)
        /\ call'.cpHist = h /\ call'.cpIndex = CheckpointIndex(h)
    BY <1>3, <1>8 DEF BeginMove, NewCall
  <2> HIDE DEF h
  <2> QED BY <1>2, <1>8, <2>1, <2>3, <2>4, CallStarts
<1>9. CanMove(w) => mem[w].open
  BY <1>1 DEF CanMove
<1>10. ASSUME NEW e \in Ids \cup {0}, Undo(w, e) PROVE IInv'
  BY <1>7, <1>8, <1>9, <1>10 DEF Undo, p
<1>11. ASSUME NEW e \in Ids \cup {0}, Redo(w, e) PROVE IInv'
  BY <1>7, <1>8, <1>9, <1>11 DEF Redo, p
<1>12. ASSUME NEW i \in Ids, Goto(w, i) PROVE IInv'
  BY <1>7, <1>8, <1>9, <1>12 DEF Goto, p
<1>13. ASSUME RefuseUndo(w) PROVE IInv'
  <2> DEFINE q == [state |-> p.state, hist |-> MovedTo(h, 1)]
             m == AfterMoveError(q, file.rev)
  <2>1. mem[w].open
    BY <1>9, <1>13 DEF RefuseUndo
  <2>2. q \in Projects /\ q.hist.entries = file.hist.entries
    BY <1>2, <2>1, MovedTyped DEF Projects
  <2>3. file.rev \in Nat
    BY DEF IInv, TypeOK
  <2>4. mem' = [mem EXCEPT ![w] = m]
    BY <1>7, <1>13, <2>1 DEF RefuseUndo, p
  <2>5. UNCHANGED <<file, index, snaps, opening, call, nextId>>
    BY <1>13 DEF RefuseUndo
  <2>6. m \in Memories
    BY <2>2, <2>3, AfterMoveErrorTyped
  <2>7. m.open => m.sig = file.rev /\ m.hist.entries = file.hist.entries
    BY <2>2 DEF AfterMoveError, Open, Closed
  <2>8. call' = Idle
    BY <1>13 DEF RefuseUndo, CanMove, CanEnter
  <2> HIDE DEF m
  <2>9. m.open => /\ m.sig <= file.rev
                  /\ m.sig = file.rev => m.hist.entries = file.hist.entries
    BY <2>3, <2>7
  <2> QED BY <2>4, <2>5, <2>6, <2>8, <2>9, CallOver
<1> QED BY <1>4, <1>5, <1>6, <1>10, <1>11, <1>12, <1>13 DEF Begins

LEMMA RecordEntryKeeps ==
  ASSUME IInv, TypeOK', call.at \in Recording, NEW when,
         NEW onSame \in {"mutate", "commit"}, NEW onNew \in {"indexBefore", "indexAfter"},
         RecordEntry(when, onSame, onNew)
  PROVE  IInv'
<1> DEFINE h == call.proj.hist
           e == [id |-> nextId, when |-> when, what |-> call.what]
<1>0. /\ call # Idle /\ call.at \in BeforeCommit /\ call.at # "indexMove"
      /\ {onSame, onNew} \subseteq BeforeCommit \ {"indexMove"}
      /\ call.at \notin {"sync", "save", "prune", "mirror", "deleteOwn"}
  BY DEF BeforeCommit, Recording, Idle
<1>1. call \in Calls /\ h \in Hists /\ call.cpIndex \in Hists \cup {NoIndex}
      /\ call.proj \in Projects
  BY <1>0, Running DEF IInv
<1>2. call.revBefore = Unknown /\ Sound(h) /\ ~Landed
  BY <1>0 DEF IInv, CallPhase, CallHistory, Landed, CommitStarted, BeforeCommit
<1>3. /\ call.cpHist.entries = file.hist.entries
      /\ call.cpIndex # NoIndex =>
           Whole(call.cpIndex) /\ OwnIds \cap EntryIds(call.cpIndex) = {}
  BY <1>0, <1>2 DEF IInv, CallCheckpoint
<1>4. UNCHANGED <<file, index, mem, opening>>
  BY DEF RecordEntry
<1>5. CASE /\ call' = [call EXCEPT !.at = onSame]
           /\ UNCHANGED <<snaps, nextId>>
  <2>1. Fresh' /\ SavedSound' /\ MemCurrent' /\ ReadCurrent' /\ IndexWhole'
    BY <1>4, <1>5, DiskKept
  <2>2. /\ call'.at = onSame /\ call'.revBefore = Unknown /\ call'.proj = call.proj
        /\ call'.cpHist = call.cpHist /\ call'.cpIndex = call.cpIndex
    BY <1>1, <1>2, <1>5 DEF Calls
  <2>3. CallPhase'
    BY <1>0, <2>2 DEF CallPhase
  <2>4. Sound(call.proj.hist)'
    BY <1>2, <1>5, <2>2 DEF Sound, Distinct, Whole, Readable, EntryIds
  <2>5. CallHistory'
    BY <2>2, <2>4 DEF CallHistory
  <2>6. (OwnIds = OwnIds') /\ EntryIds(call.cpIndex)' = EntryIds(call.cpIndex)
        /\ Whole(call.cpIndex)' = Whole(call.cpIndex)
    BY <1>5, <2>2 DEF OwnIds, EntryIds, Whole, Readable
  <2>7. CallCheckpoint'
    BY <1>3, <1>4, <2>2, <2>6 DEF CallCheckpoint
  <2> QED BY <2>1, <2>3, <2>5, <2>7 DEF IInv
<1>6. CASE /\ nextId \in Ids
           /\ snaps' = [snaps EXCEPT ![nextId] = call.proj.state]
           /\ nextId' = nextId + 1
           /\ call' = [call EXCEPT !.at = onNew, !.proj.hist = Recorded(h, e)]
  <2> HIDE DEF e
  <2>1. /\ snaps'[nextId] \in States
        /\ \A id \in Ids \ {nextId} : snaps'[id] = snaps[id]
    BY <1>1, <1>6 DEF IInv, TypeOK, Projects
  <2>2. Fresh'
    <3>1. \A id \in Ids : id >= nextId + 1 => id >= nextId /\ id # nextId
      BY DEF IInv, TypeOK, Ids
    <3> QED BY <1>6, <2>1, <3>1 DEF IInv, Fresh
  <2>3. \A g \in Hists : Whole(g) => \A id \in EntryIds(g) : snaps'[id] \in States
    <3> SUFFICES ASSUME NEW g \in Hists, Whole(g), NEW id \in EntryIds(g)
                 PROVE  snaps'[id] \in States
      OBVIOUS
    <3>1. nextId \notin EntryIds(g)
      BY <1>6, FreshUnnamed DEF IInv
    <3>2. id \in Ids \ {nextId} /\ snaps[id] \in States
      BY <3>1, EntryIdsTyped DEF Whole, Readable
    <3> QED BY <2>1, <3>2
  <2>4. SavedSound'
    <3>1. file.hist \in Hists
      BY DEF IInv, TypeOK
    <3>2. \A id \in EntryIds(file.hist) : snaps'[id] \in States
      BY <2>3, <3>1 DEF IInv, SavedSound, Sound
    <3> QED BY <1>4, <3>2 DEF IInv, SavedSound, Sound, Distinct, Whole, Readable, EntryIds
  <2>5. IndexWhole'
    <3>1. index \notin {NoIndex, Damaged} => index \in Hists /\ Whole(index)
      BY DEF IInv, TypeOK, IndexWhole, Listed, Whole
    <3>2. \A id \in Listed : snaps'[id] \in States
      BY <2>3, <3>1 DEF Listed
    <3> QED BY <1>4, <3>2 DEF IndexWhole, Listed, Readable, EntryIds
  <2>6. MemCurrent' /\ ReadCurrent'
    BY <1>4 DEF IInv, MemCurrent, ReadCurrent
  <2>7. /\ call'.at = onNew /\ call'.revBefore = Unknown
        /\ call'.proj.hist = Recorded(h, e)
        /\ call'.cpHist = call.cpHist /\ call'.cpIndex = call.cpIndex
    BY <1>1, <1>2, <1>6 DEF Calls, Projects
  <2>8. CallPhase'
    BY <1>0, <2>7 DEF CallPhase
  <2>9. nextId \notin EntryIds(h) /\ (call.cpIndex # NoIndex => nextId \notin EntryIds(call.cpIndex))
    BY <1>2, <1>3, <1>6, FreshUnnamed DEF IInv, Sound
  <2>10. /\ Recorded(h, e) \in Hists /\ Recorded(h, e).entries # << >>
         /\ EntryIds(Recorded(h, e)) \subseteq EntryIds(h) \cup {nextId}
         /\ Distinct(Recorded(h, e))
    <3>1. Recorded(h, e) \in Hists
      <4>1. call' # Idle
        BY <1>0, <2>7 DEF BeforeCommit, Recording, Idle
      <4>2. call' \in Calls
        BY <4>1 DEF TypeOK
      <4> QED BY <2>7, <4>2 DEF Calls, Projects
    <3>2. e.id = nextId
      BY DEF e
    <3>3. e \in Entries
      <4>1. Recorded(h, e).entries \in Seq(Entries)
        BY <3>1 DEF Hists
      <4>2. Recorded(h, e).entries[Len(Recorded(h, e).entries)] = e
            /\ Len(Recorded(h, e).entries) \in DOMAIN Recorded(h, e).entries
        <5> DEFINE kept == IF h.cursor < Len(h.entries) THEN SubSeq(h.entries, 1, h.cursor)
                                                        ELSE h.entries
        <5>1. h.cursor \in Nat /\ h.entries \in Seq(Entries)
          BY <1>1 DEF Hists
        <5>2. kept \in Seq(Entries)
          BY <5>1
        <5>3. Recorded(h, e).entries = Append(kept, e)
          BY DEF Recorded
        <5> HIDE DEF kept
        <5>4. kept \in Seq(Entries \cup {e})
          BY <5>2
        <5> QED BY <5>3, <5>4
      <4> QED BY <4>1, <4>2
    <3> QED BY <1>1, <1>2, <2>9, <3>2, <3>3, RecordedHist DEF Sound
  <2>11. Sound(call.proj.hist)'
    <3>1. \A id \in EntryIds(Recorded(h, e)) : snaps'[id] \in States
      BY <1>1, <1>2, <2>1, <2>3, <2>10 DEF Sound
    <3> QED BY <2>7, <2>10, <3>1 DEF Sound, Distinct, Whole, Readable, EntryIds
  <2>12. CallHistory'
    BY <2>7, <2>11 DEF CallHistory
  <2>13. OwnIds' \subseteq OwnIds \cup {nextId}
    <3>1. OwnIds' = EntryIds(Recorded(h, e)) \ EntryIds(call.cpHist)
      BY <2>7 DEF OwnIds, EntryIds
    <3> QED BY <2>10, <3>1 DEF OwnIds
  <2>14. call.cpIndex # NoIndex => \A id \in EntryIds(call.cpIndex) : snaps'[id] \in States
    BY <1>1, <1>3, <2>3
  <2>15. (Whole(call.cpIndex) <=> \A id \in EntryIds(call.cpIndex) : Readable(id))'
    BY DEF Whole
  <2>16. EntryIds(call.cpIndex)' = EntryIds(call.cpIndex)
    BY <2>7 DEF EntryIds
  <2>17. CallCheckpoint'
    <3>1. call.cpIndex # NoIndex => /\ Whole(call.cpIndex)'
                                    /\ OwnIds' \cap EntryIds(call.cpIndex) = {}
      BY <1>3, <2>9, <2>13, <2>14, <2>15, <2>16 DEF Readable
    <3>2. call'.cpHist.entries = file'.hist.entries
      BY <1>3, <1>4, <2>7
    <3> QED BY <2>7, <2>16, <3>1, <3>2 DEF CallCheckpoint
  <2> QED BY <2>2, <2>4, <2>5, <2>6, <2>8, <2>12, <2>17 DEF IInv
<1> QED BY <1>5, <1>6 DEF RecordEntry

(* A step that moves the call on, and may write the index, but records     *)
(* nothing.                                                                *)
LEMMA CallMovesOn ==
  ASSUME IInv, TypeOK', call # Idle, UNCHANGED <<file, snaps, mem, opening, nextId>>,
         call'.proj.hist = call.proj.hist, call'.cpHist = call.cpHist,
         call'.cpIndex = call.cpIndex, call'.revBefore = call.revBefore
  PROVE  /\ Fresh' /\ SavedSound' /\ MemCurrent' /\ ReadCurrent' /\ CallCheckpoint'
         /\ Landed' = Landed
         /\ Sound(call.proj.hist)' <=> Sound(call.proj.hist)
         /\ index' = index => IndexWhole'
         /\ (Sound(call.proj.hist) /\ index' = call.proj.hist) => IndexWhole'
<1>1. Fresh' /\ SavedSound' /\ MemCurrent' /\ ReadCurrent' /\ (index' = index => IndexWhole')
  BY DiskKept
<1>2. Landed' = Landed /\ OwnIds' = OwnIds
  BY DEF Landed, CommitStarted, OwnIds, EntryIds
<1>3. Whole(call.cpIndex)' = Whole(call.cpIndex) /\ EntryIds(call.cpIndex)' = EntryIds(call.cpIndex)
  BY DEF Whole, Readable, EntryIds
<1>4. CallCheckpoint'
  BY <1>2, <1>3 DEF IInv, CallCheckpoint
<1>5. Sound(call.proj.hist)' <=> Sound(call.proj.hist)
  BY DEF Sound, Distinct, Whole, Readable, EntryIds
<1>6. (Sound(call.proj.hist) /\ index' = call.proj.hist) => IndexWhole'
  BY DEF Sound, Whole, IndexWhole, Listed, Readable, EntryIds
<1> QED BY <1>1, <1>2, <1>4, <1>5, <1>6

LEMMA WriteIndexKeeps ==
  ASSUME IInv, TypeOK', call.at \in {"indexBefore", "indexAfter", "indexMove"},
         NEW next \in {"mutate", "commit"}, WriteIndex(next)
  PROVE  IInv'
<1>0. /\ call # Idle /\ call.at \in BeforeCommit /\ next \in BeforeCommit
      /\ next # "indexMove"
      /\ next \notin {"sync", "save", "prune", "mirror", "deleteOwn"}
  BY DEF BeforeCommit, Recording, Idle
<1>1. call \in Calls
  BY <1>0, Running DEF IInv
<1>2. call.revBefore = Unknown /\ Sound(call.proj.hist)
  BY <1>0 DEF IInv, CallPhase, CallHistory
<1>3. /\ call'.at = next /\ call'.revBefore = call.revBefore /\ call'.proj = call.proj
      /\ call'.cpHist = call.cpHist /\ call'.cpIndex = call.cpIndex
      /\ index' = call.proj.hist /\ UNCHANGED <<file, snaps, mem, opening, nextId>>
  BY <1>1 DEF WriteIndex, Calls
<1>4. /\ Fresh' /\ SavedSound' /\ MemCurrent' /\ ReadCurrent' /\ CallCheckpoint'
      /\ IndexWhole' /\ Sound(call.proj.hist)'
  BY <1>0, <1>2, <1>3, CallMovesOn
<1>5. CallPhase'
  BY <1>0, <1>2, <1>3 DEF CallPhase
<1>6. CallHistory'
  BY <1>0, <1>3, <1>4 DEF CallHistory
<1> QED BY <1>4, <1>5, <1>6 DEF IInv

LEMMA MutateKeeps ==
  ASSUME IInv, TypeOK', NEW s \in States, Mutate(s)
  PROVE  IInv'
<1>0. /\ call # Idle /\ call.at = "mutate" /\ call.at \in BeforeCommit
      /\ "recordAfter" \in BeforeCommit
  BY DEF Mutate, At, BeforeCommit, Recording, Idle
<1>1. call \in Calls /\ call.proj \in Projects
  BY <1>0, Running DEF IInv
<1>2. call.revBefore = Unknown /\ Sound(call.proj.hist)
  BY <1>0 DEF IInv, CallPhase, CallHistory
<1>3. /\ call'.at = "recordAfter" /\ call'.revBefore = call.revBefore
      /\ call'.proj.hist = call.proj.hist
      /\ call'.cpHist = call.cpHist /\ call'.cpIndex = call.cpIndex
      /\ UNCHANGED <<file, index, snaps, mem, opening, nextId>>
  BY <1>1 DEF Mutate, Calls, Projects
<1>4. /\ Fresh' /\ SavedSound' /\ MemCurrent' /\ ReadCurrent' /\ CallCheckpoint'
      /\ IndexWhole' /\ Sound(call.proj.hist)'
  BY <1>0, <1>2, <1>3, CallMovesOn
<1>5. CallPhase'
  BY <1>2, <1>3 DEF CallPhase
<1>6. CallHistory'
  BY <1>3, <1>4 DEF CallHistory
<1> QED BY <1>4, <1>5, <1>6 DEF IInv

(* The commit trims the oldest entries of a sound history: what is left is *)
(* sound, and nothing of it will be pruned.                                *)
LEMMA StartCommitKeeps ==
  ASSUME IInv, TypeOK', StartCommit
  PROVE  IInv'
<1> DEFINE h == call.proj.hist
<1>0. call # Idle /\ call.at = "commit" /\ call.at \in BeforeCommit
  BY DEF StartCommit, At, BeforeCommit, Recording, Idle
<1>1. call \in Calls /\ call.proj \in Projects /\ h \in Hists
  BY <1>0, Running DEF IInv
<1>2. Sound(h) /\ ~Landed
  BY <1>0 DEF IInv, CallPhase, CallHistory, Landed, CommitStarted
<1>3. AdoptHist(call.proj.state, h) = h
  BY <1>2, SoundFilled
<1>4. /\ call'.at = "sync" /\ call'.revBefore = file.rev
      /\ call'.proj.hist = Trimmed(h) /\ call'.pruned = PrunedIds(h)
      /\ call'.cpHist = call.cpHist /\ call'.cpIndex = call.cpIndex
      /\ UNCHANGED <<file, index, snaps, mem, opening, nextId>>
  BY <1>1, <1>3 DEF StartCommit, Calls, Projects
<1>5. Fresh' /\ SavedSound' /\ MemCurrent' /\ ReadCurrent' /\ IndexWhole'
  BY <1>4, DiskKept
<1>6. CallPhase'
  BY <1>4 DEF CallPhase, BeforeCommit, Recording
<1>7. /\ Trimmed(h).entries # << >> /\ Distinct(Trimmed(h))
      /\ EntryIds(Trimmed(h)) \subseteq EntryIds(h)
      /\ EntryIds(Trimmed(h)) \cap PrunedIds(h) = {}
  BY <1>1, <1>2, TrimmedHist DEF Sound
<1>8. Sound(Trimmed(h))
  BY <1>2, <1>7 DEF Sound, Whole
<1>9. Sound(call.proj.hist)'
  BY <1>4, <1>8 DEF Sound, Distinct, Whole, Readable, EntryIds
<1>10. EntryIds(call.proj.hist)' = EntryIds(Trimmed(h))
  BY <1>4 DEF EntryIds
<1>11. CallHistory'
  BY <1>4, <1>7, <1>9, <1>10 DEF CallHistory
<1>12. OwnIds' \subseteq OwnIds
  <2>1. OwnIds' = EntryIds(Trimmed(h)) \ EntryIds(call.cpHist)
    BY <1>4 DEF OwnIds, EntryIds
  <2> QED BY <1>7, <2>1 DEF OwnIds
<1>13. Whole(call.cpIndex)' = Whole(call.cpIndex) /\ EntryIds(call.cpIndex)' = EntryIds(call.cpIndex)
  BY <1>4 DEF Whole, Readable, EntryIds
<1>14. CallCheckpoint'
  BY <1>0, <1>2, <1>4, <1>12, <1>13 DEF IInv, CallCheckpoint
<1> QED BY <1>5, <1>6, <1>11, <1>14 DEF IInv

LEMMA SyncIndexKeeps ==
  ASSUME IInv, TypeOK', SyncIndex
  PROVE  IInv'
<1>0. call # Idle /\ call.at = "sync"
  BY DEF SyncIndex, At, Idle
<1>1. call \in Calls
  BY <1>0, Running DEF IInv
<1>2. call.revBefore = file.rev /\ Sound(call.proj.hist)
      /\ EntryIds(call.proj.hist) \cap call.pruned = {}
  BY <1>0 DEF IInv, CallPhase, CallHistory
<1>3. /\ call'.at = "save" /\ call'.revBefore = call.revBefore /\ call'.proj = call.proj
      /\ call'.cpHist = call.cpHist /\ call'.cpIndex = call.cpIndex
      /\ call'.pruned = call.pruned
      /\ index' = call.proj.hist /\ UNCHANGED <<file, snaps, mem, opening, nextId>>
  BY <1>1 DEF SyncIndex, Calls
<1>4. /\ Fresh' /\ SavedSound' /\ MemCurrent' /\ ReadCurrent' /\ CallCheckpoint'
      /\ IndexWhole' /\ Sound(call.proj.hist)'
  BY <1>0, <1>2, <1>3, CallMovesOn
<1>5. CallPhase'
  BY <1>2, <1>3 DEF CallPhase, BeforeCommit, Recording
<1>6. (EntryIds(call.proj.hist) \cap call.pruned)' = {}
  BY <1>2, <1>3 DEF EntryIds
<1>7. CallHistory'
  BY <1>3, <1>4, <1>6 DEF CallHistory
<1> QED BY <1>4, <1>5, <1>7 DEF IInv

(* The project file now holds the index's own history.                     *)
LEMMA SaveFileKeeps ==
  ASSUME IInv, TypeOK', SaveFile
  PROVE  IInv'
<1>0. call # Idle /\ call.at = "save"
  BY DEF SaveFile, At, Idle
<1>1. call \in Calls /\ file.rev \in Nat \ {0}
  BY <1>0, Running DEF IInv, TypeOK
<1>2. call.revBefore = file.rev /\ index = call.proj.hist /\ Sound(call.proj.hist)
      /\ EntryIds(call.proj.hist) \cap call.pruned = {}
  BY <1>0 DEF IInv, CallPhase, CallHistory
<1>3. /\ call'.at = "prune" /\ call'.revBefore = call.revBefore /\ call'.proj = call.proj
      /\ call'.pruned = call.pruned
      /\ UNCHANGED <<index, snaps, mem, opening, nextId>>
      /\ file'.hist = call.proj.hist /\ file'.rev = file.rev + 1
  BY <1>1 DEF SaveFile, Calls
<1>4. Landed'
  BY <1>1, <1>2, <1>3 DEF Landed, CommitStarted, Unknown
<1>5. Fresh'
  BY <1>3 DEF IInv, Fresh
<1>6. SavedSound'
  BY <1>2, <1>3 DEF SavedSound, Sound, Distinct, Whole, Readable, EntryIds
<1>7. IndexWhole'
  BY <1>3 DEF IInv, IndexWhole, Listed, Readable, EntryIds
<1>8. MemCurrent'
  <2> SUFFICES ASSUME NEW w \in Ws, mem[w].open PROVE mem[w].sig <= file.rev + 1 /\ mem[w].sig # file.rev + 1
    BY <1>3 DEF MemCurrent
  <2>1. mem[w].sig \in Nat /\ mem[w].sig <= file.rev
    BY MemTyped DEF IInv, MemCurrent
  <2> QED BY <1>1, <2>1
<1>9. ReadCurrent'
  <2> SUFFICES ASSUME NEW w \in Ws, opening[w].at \in {"stat", "read"}
               PROVE  opening[w].rev <= file.rev + 1 /\ opening[w].rev # file.rev + 1
    BY <1>3 DEF ReadCurrent
  <2>1. opening[w].rev \in Nat
    BY DEF IInv, TypeOK, Readings, NotOpening
  <2>2. opening[w].rev <= file.rev
    BY DEF IInv, ReadCurrent
  <2> QED BY <1>1, <2>1, <2>2
<1>10. CallPhase'
  BY <1>2, <1>3, <1>4 DEF CallPhase, BeforeCommit, Recording
<1>11. (EntryIds(call.proj.hist) \cap call.pruned)' = {}
  BY <1>2, <1>3 DEF EntryIds
<1>12. CallHistory'
  BY <1>3, <1>11 DEF CallHistory, BeforeCommit, Recording
<1>13. CallCheckpoint'
  BY <1>4 DEF CallCheckpoint
<1> QED BY <1>5, <1>6, <1>7, <1>8, <1>9, <1>10, <1>12, <1>13 DEF IInv

(* Pruning takes only the snapshots of trimmed entries, after the commit.  *)
LEMMA PruneKeeps ==
  ASSUME IInv, TypeOK', PruneSnapshots
  PROVE  IInv'
<1>0. call # Idle /\ call.at = "prune"
  BY DEF PruneSnapshots, At, Idle
<1>1. call \in Calls /\ file.hist \in Hists
  BY <1>0, Running DEF IInv, TypeOK
<1>2. Landed /\ index = file.hist /\ file.hist = call.proj.hist
      /\ EntryIds(file.hist) \cap call.pruned = {}
  BY <1>0 DEF IInv, CallPhase, CallHistory
<1>3. /\ call'.at = "mirror" /\ call'.revBefore = call.revBefore /\ call'.proj = call.proj
      /\ UNCHANGED <<file, index, mem, opening, nextId>>
  BY <1>1 DEF PruneSnapshots, Calls
<1>4. \A id \in Ids : snaps'[id] = IF id \in call.pruned THEN NoSnap ELSE snaps[id]
  BY DEF PruneSnapshots
<1>5. Fresh'
  BY <1>3, <1>4 DEF IInv, Fresh
<1>6. \A id \in EntryIds(file.hist) : snaps'[id] \in States
  BY <1>1, <1>2, <1>4, EntryIdsTyped DEF IInv, SavedSound, Sound, Whole, Readable
<1>7. SavedSound'
  BY <1>3, <1>6 DEF IInv, SavedSound, Sound, Distinct, Whole, Readable, EntryIds
<1>8. IndexWhole'
  BY <1>2, <1>3, <1>6 DEF IndexWhole, Listed, Readable, EntryIds
<1>9. MemCurrent' /\ ReadCurrent'
  BY <1>3 DEF IInv, MemCurrent, ReadCurrent
<1>10. Landed'
  BY <1>2, <1>3 DEF Landed, CommitStarted
<1>11. CallPhase' /\ CallHistory' /\ CallCheckpoint'
  BY <1>2, <1>3, <1>10 DEF CallPhase, CallHistory, CallCheckpoint, BeforeCommit, Recording
<1> QED BY <1>5, <1>7, <1>8, <1>9, <1>11 DEF IInv

LEMMA StepsKeep ==
  ASSUME IInv, TypeOK', Steps
  PROVE  IInv'
<1>1. CASE RecordBefore
  BY <1>1, RecordEntryKeeps DEF RecordBefore, At, Recording
<1>2. CASE IndexBefore
  BY <1>2, WriteIndexKeeps DEF IndexBefore, At
<1>3. CASE RecordAfter
  BY <1>3, RecordEntryKeeps DEF RecordAfter, At, Recording
<1>4. CASE IndexAfter
  BY <1>4, WriteIndexKeeps DEF IndexAfter, At
<1>5. CASE IndexMove
  BY <1>5, WriteIndexKeeps DEF IndexMove, At
<1>6. CASE MirrorCache
  <2>0. call # Idle /\ call.at = "mirror"
    BY <1>6 DEF MirrorCache, At, Idle
  <2>1. call.proj \in Projects /\ call.ws \in Ws /\ file.rev \in Nat /\ file.hist = call.proj.hist
    BY <2>0, Running DEF IInv, TypeOK, CallPhase
  <2> DEFINE m == Open(call.proj, file.rev)
  <2>2. m \in Memories /\ mem' = [mem EXCEPT ![call.ws] = m] /\ call' = Idle
        /\ UNCHANGED <<file, index, snaps, opening, nextId>>
    BY <1>6, <2>1, OpenTyped DEF MirrorCache
  <2>3. m.sig = file.rev /\ m.hist = file.hist
    BY <2>1 DEF Open
  <2> HIDE DEF m
  <2>4. m.sig <= file.rev /\ m.hist.entries = file.hist.entries
    BY <2>1, <2>3
  <2> QED BY <2>1, <2>2, <2>4, CallOver
<1> QED BY <1>1, <1>2, <1>3, <1>4, <1>5, <1>6, MutateKeeps, StartCommitKeeps, SyncIndexKeeps,
           SaveFileKeeps, PruneKeeps DEF Steps

(* A torn snapshot stays behind under an id no entry names.                *)
LEMMA TornKeeps ==
  ASSUME IInv, LeavesTorn, UNCHANGED file, UNCHANGED index
  PROVE  /\ Fresh' /\ SavedSound' /\ IndexWhole'
         /\ \A h \in Hists : Whole(h) => \A id \in EntryIds(h) : snaps'[id] \in States
<1>1. CASE UNCHANGED <<snaps, nextId>>
  <2>1. Fresh' /\ SavedSound' /\ IndexWhole'
    BY <1>1 DEF IInv, Fresh, SavedSound, IndexWhole, Listed, Sound, Distinct, Whole, Readable,
                EntryIds
  <2> QED BY <1>1, <2>1 DEF Whole, Readable
<1>2. CASE nextId \in Ids /\ snaps' = [snaps EXCEPT ![nextId] = Torn] /\ nextId' = nextId + 1
  <2>1. \A id \in Ids \ {nextId} : snaps'[id] = snaps[id]
    BY <1>2 DEF IInv, TypeOK
  <2>2. Fresh'
    <3>1. \A id \in Ids : id >= nextId + 1 => id >= nextId /\ id # nextId
      BY DEF IInv, TypeOK, Ids
    <3> QED BY <1>2, <2>1, <3>1 DEF IInv, Fresh
  <2>3. \A g \in Hists : Whole(g) => \A id \in EntryIds(g) : snaps'[id] \in States
    <3> SUFFICES ASSUME NEW g \in Hists, Whole(g), NEW id \in EntryIds(g)
                 PROVE  snaps'[id] \in States
      OBVIOUS
    <3>1. nextId \notin EntryIds(g)
      BY <1>2, FreshUnnamed DEF IInv
    <3>2. id \in Ids \ {nextId} /\ snaps[id] \in States
      BY <3>1, EntryIdsTyped DEF Whole, Readable
    <3> QED BY <2>1, <3>2
  <2>4. SavedSound'
    <3>1. file.hist \in Hists
      BY DEF IInv, TypeOK
    <3>2. \A id \in EntryIds(file.hist) : snaps'[id] \in States
      BY <2>3, <3>1 DEF IInv, SavedSound, Sound
    <3> QED BY <3>2 DEF IInv, SavedSound, Sound, Distinct, Whole, Readable, EntryIds
  <2>5. IndexWhole'
    <3>1. index \notin {NoIndex, Damaged} => index \in Hists /\ Whole(index)
      BY DEF IInv, TypeOK, IndexWhole, Listed, Whole
    <3>2. \A id \in Listed : snaps'[id] \in States
      BY <2>3, <3>1 DEF Listed
    <3> QED BY <3>2 DEF IndexWhole, Listed, Readable, EntryIds
  <2> QED BY <2>2, <2>3, <2>4, <2>5
<1> QED BY <1>1, <1>2 DEF LeavesTorn

LEMMA RaiseKeeps ==
  ASSUME IInv, TypeOK', Raise
  PROVE  IInv'
<1>0. call # Idle
  BY DEF Raise, Writing, Recording, Idle
<1>1. call \in Calls /\ call.cpIndex \in Hists \cup {NoIndex}
  BY <1>0, Running DEF IInv
<1>2. /\ call'.at = "rollback" /\ call'.revBefore = call.revBefore /\ call'.proj = call.proj
      /\ call'.cpHist = call.cpHist /\ call'.cpIndex = call.cpIndex
      /\ UNCHANGED <<file, index, mem, opening>>
  BY <1>1 DEF Raise, Calls
<1>3. /\ Fresh' /\ SavedSound' /\ IndexWhole'
      /\ \A h \in Hists : Whole(h) => \A id \in EntryIds(h) : snaps'[id] \in States
  BY <1>2, TornKeeps DEF Raise
<1>4. MemCurrent' /\ ReadCurrent'
  BY <1>2 DEF IInv, MemCurrent, ReadCurrent
<1>5. CallPhase' /\ CallHistory'
  BY <1>2 DEF CallPhase, CallHistory, BeforeCommit, Recording
<1>6. Landed' = Landed /\ OwnIds' = OwnIds /\ EntryIds(call.cpIndex)' = EntryIds(call.cpIndex)
  BY <1>2 DEF Landed, CommitStarted, OwnIds, EntryIds
<1>7. (call.cpIndex # NoIndex /\ Whole(call.cpIndex)) => Whole(call.cpIndex)'
  <2>1. (call.cpIndex # NoIndex /\ Whole(call.cpIndex)) =>
          \A id \in EntryIds(call.cpIndex) : snaps'[id] \in States
    BY <1>1, <1>3
  <2> QED BY <1>2, <2>1 DEF Whole, Readable, EntryIds
<1>8. CallCheckpoint'
  BY <1>0, <1>2, <1>6, <1>7 DEF IInv, CallCheckpoint
<1> QED BY <1>3, <1>4, <1>5, <1>8 DEF IInv

(* The rollback gives its verdict and goes on.                             *)
LEMMA OutcomeKeeps ==
  ASSUME IInv, TypeOK', call # Idle, UNCHANGED index,
         NEW label \in {"landed", "unknown", "kept", "rollbackFailed"}, Outcome(label)
  PROVE  IInv'
<1>1. call \in Calls
  BY Running DEF IInv
<1>2. /\ call'.at = label /\ call'.revBefore = call.revBefore /\ call'.proj = call.proj
      /\ call'.cpHist = call.cpHist /\ call'.cpIndex = call.cpIndex
      /\ UNCHANGED <<file, snaps, mem, opening, nextId>>
  BY <1>1 DEF Outcome, Calls
<1>3. Fresh' /\ SavedSound' /\ MemCurrent' /\ ReadCurrent' /\ CallCheckpoint' /\ IndexWhole'
  BY <1>2, CallMovesOn
<1>4. CallPhase' /\ CallHistory'
  BY <1>2 DEF CallPhase, CallHistory, BeforeCommit, Recording
<1> QED BY <1>3, <1>4 DEF IInv

LEMMA RollbackIndexKeeps ==
  ASSUME IInv, TypeOK', RollbackIndex
  PROVE  IInv'
<1>0. call # Idle /\ ~Landed
  BY DEF RollbackIndex, At, Idle
<1>1. call \in Calls
  BY <1>0, Running DEF IInv
<1>2. /\ call'.at = "deleteOwn" /\ call'.revBefore = call.revBefore /\ call'.proj = call.proj
      /\ call'.cpHist = call.cpHist /\ call'.cpIndex = call.cpIndex
      /\ index' = call.cpIndex /\ UNCHANGED <<file, snaps, mem, opening, nextId>>
  BY <1>1 DEF RollbackIndex, Outcome, Calls
<1>3. Fresh' /\ SavedSound' /\ MemCurrent' /\ ReadCurrent' /\ CallCheckpoint' /\ Landed' = Landed
  BY <1>0, <1>2, CallMovesOn
<1>4. CallPhase'
  BY <1>0, <1>2, <1>3 DEF CallPhase, BeforeCommit, Recording
<1>5. CallHistory'
  BY <1>2 DEF CallHistory, BeforeCommit, Recording
<1>6. call.cpIndex # NoIndex => Whole(call.cpIndex)
  BY <1>0 DEF IInv, CallCheckpoint
<1>7. IndexWhole'
  BY <1>2, <1>6 DEF IndexWhole, Listed, Whole, Readable, EntryIds
<1> QED BY <1>3, <1>4, <1>5, <1>7 DEF IInv

(* What the rollback deletes, neither the saved history nor the index it   *)
(* put back names.                                                         *)
LEMMA RollbackDeleteKeeps ==
  ASSUME IInv, TypeOK', RollbackDelete
  PROVE  IInv'
<1>0. call # Idle /\ call.at = "deleteOwn"
  BY DEF RollbackDelete, At, Idle
<1>1. call \in Calls /\ file.hist \in Hists /\ call.cpIndex \in Hists \cup {NoIndex}
  BY <1>0, Running DEF IInv, TypeOK
<1>2. /\ ~Landed /\ index = call.cpIndex /\ call.cpHist.entries = file.hist.entries
      /\ call.cpIndex # NoIndex =>
           Whole(call.cpIndex) /\ OwnIds \cap EntryIds(call.cpIndex) = {}
  BY <1>0 DEF IInv, CallPhase, CallCheckpoint
<1>3. /\ call'.at = "restored" /\ call'.revBefore = call.revBefore /\ call'.proj = call.proj
      /\ call'.cpHist = call.cpHist /\ call'.cpIndex = call.cpIndex
      /\ UNCHANGED <<file, index, mem, opening, nextId>>
  BY <1>1 DEF RollbackDelete, Calls
<1>4. \A id \in Ids : snaps'[id] = IF id \in OwnIds THEN NoSnap ELSE snaps[id]
  BY DEF RollbackDelete
<1>5. EntryIds(file.hist) = EntryIds(call.cpHist)
  BY <1>2 DEF EntryIds
<1>6. \A id \in EntryIds(file.hist) : snaps'[id] \in States
  BY <1>1, <1>4, <1>5, EntryIdsTyped DEF IInv, SavedSound, Sound, Whole, Readable, OwnIds
<1>7. call.cpIndex # NoIndex => \A id \in EntryIds(call.cpIndex) : snaps'[id] \in States
  <2> SUFFICES ASSUME call.cpIndex # NoIndex, NEW id \in EntryIds(call.cpIndex)
               PROVE  snaps'[id] \in States
    OBVIOUS
  <2>1. id \in Ids /\ id \notin OwnIds /\ snaps[id] \in States
    BY <1>1, <1>2, EntryIdsTyped DEF Whole, Readable
  <2> QED BY <1>4, <2>1
<1>8. Fresh'
  BY <1>3, <1>4 DEF IInv, Fresh
<1>9. SavedSound'
  BY <1>3, <1>6 DEF IInv, SavedSound, Sound, Distinct, Whole, Readable, EntryIds
<1>10. IndexWhole'
  BY <1>2, <1>3, <1>7 DEF IndexWhole, Listed, Readable, EntryIds
<1>11. MemCurrent' /\ ReadCurrent'
  BY <1>3 DEF IInv, MemCurrent, ReadCurrent
<1>12. CallPhase' /\ CallHistory'
  BY <1>3 DEF CallPhase, CallHistory, BeforeCommit, Recording
<1>13. OwnIds' = OwnIds /\ EntryIds(call.cpIndex)' = EntryIds(call.cpIndex)
  BY <1>3 DEF OwnIds, EntryIds
<1>14. call.cpIndex # NoIndex => Whole(call.cpIndex)'
  BY <1>3, <1>7 DEF Whole, Readable, EntryIds
<1>15. CallCheckpoint'
  BY <1>2, <1>3, <1>13, <1>14 DEF CallCheckpoint
<1> QED BY <1>8, <1>9, <1>10, <1>11, <1>12, <1>15 DEF IInv

LEMMA FailuresKeep ==
  ASSUME IInv, TypeOK', Failures
  PROVE  IInv'
<1>0. file.rev \in Nat \ {0} /\ Unknown \in Nat /\ Unknown < file.rev
  BY DEF IInv, TypeOK, Unknown
<1>1. CASE RaiseInSave
  <2>1. call # Idle /\ call.proj \in Projects /\ call.ws \in Ws
    BY <1>1, Running DEF RaiseInSave, Writing, Recording, Idle, IInv
  <2> DEFINE m == IF call.kind = "move" THEN AfterMoveError(call.proj, Unknown)
                                        ELSE Open(call.proj, Unknown)
  <2>2. m \in Memories /\ (m.open => m.sig = Unknown)
    BY <1>0, <2>1, OpenTyped, AfterMoveErrorTyped DEF AfterMoveError, Open, Closed
  <2>3. mem' = [mem EXCEPT ![call.ws] = m] /\ call' = Idle
        /\ UNCHANGED <<file, index, snaps, opening, nextId>>
    BY <1>1 DEF RaiseInSave
  <2> HIDE DEF m
  <2>4. m.open => m.sig <= file.rev /\ m.sig # file.rev
    BY <1>0, <2>2
  <2> QED BY <2>1, <2>2, <2>3, <2>4, CallOver
<1>2. CASE RaiseInMove
  <2>1. call # Idle /\ call.at = "indexMove" /\ call.proj \in Projects /\ call.ws \in Ws
    BY <1>2, Running DEF RaiseInMove, At, Idle, IInv
  <2> DEFINE m == AfterMoveError(call.proj, file.rev)
  <2>2. call.proj.hist.entries = file.hist.entries
    BY <2>1 DEF IInv, CallHistory
  <2>3. m \in Memories /\ (m.open => m.sig = file.rev /\ m.hist.entries = file.hist.entries)
    BY <1>0, <2>1, <2>2, AfterMoveErrorTyped DEF AfterMoveError, Open, Closed
  <2>4. mem' = [mem EXCEPT ![call.ws] = m] /\ call' = Idle
        /\ UNCHANGED <<file, index, snaps, opening, nextId>>
    BY <1>2 DEF RaiseInMove
  <2> HIDE DEF m
  <2>5. m.open => m.sig <= file.rev /\ m.hist.entries = file.hist.entries
    BY <1>0, <2>3
  <2> QED BY <2>1, <2>3, <2>4, <2>5, CallOver
<1>3. CASE Settle
  <2>1. call # Idle
    BY <1>3 DEF Settle, Idle
  <2>2. call.ws \in Ws
    BY <2>1, Running DEF IInv
  <2>3. PICK q : mem' = [mem EXCEPT ![call.ws] = Open(q, Unknown)]
    BY <1>3 DEF Settle
  <2>4. mem'[call.ws] = Open(q, Unknown) /\ mem'[call.ws] \in Memories
    BY <2>2, <2>3 DEF IInv, TypeOK
  <2> DEFINE m == Open(q, Unknown)
  <2>5. m \in Memories /\ m.sig = Unknown
    BY <2>4 DEF Open
  <2>6. mem' = [mem EXCEPT ![call.ws] = m] /\ call' = Idle
        /\ UNCHANGED <<file, index, snaps, opening, nextId>>
    BY <1>3, <2>3 DEF Settle
  <2> HIDE DEF m
  <2>7. m.sig <= file.rev /\ m.sig # file.rev
    BY <1>0, <2>5
  <2> QED BY <2>2, <2>5, <2>6, <2>7, CallOver
<1>4. CASE RollbackLanded
  BY <1>4, OutcomeKeeps DEF RollbackLanded, At, Idle
<1>5. CASE RollbackUnknown
  BY <1>5, OutcomeKeeps DEF RollbackUnknown, At, Idle
<1>6. CASE RollbackKept
  BY <1>6, OutcomeKeeps DEF RollbackKept, At, Idle
<1>7. CASE RollbackRaises
  BY <1>7, OutcomeKeeps DEF RollbackRaises, At, Idle
<1> QED BY <1>1, <1>2, <1>3, <1>4, <1>5, <1>6, <1>7, RaiseKeeps, RollbackIndexKeeps,
           RollbackDeleteKeeps DEF Failures

LEMMA CrashKeeps ==
  ASSUME IInv, TypeOK', NEW w \in Ws, Crash(w)
  PROVE  IInv'
<1>1. UNCHANGED file /\ UNCHANGED index
  BY DEF Crash
<1>2. /\ \A v \in Ws : mem'[v] = mem[v] \/ mem'[v] = Closed
      /\ \A v \in Ws : opening'[v] = opening[v] \/ opening'[v] = NotOpening
  BY DEF Crash, IInv, TypeOK
<1>3. MemCurrent'
  BY <1>1, <1>2 DEF IInv, MemCurrent, Closed
<1>4. ReadCurrent'
  BY <1>1, <1>2 DEF IInv, ReadCurrent, NotOpening
<1>5. CASE call' = Idle /\ LeavesTorn
  <2>1. Fresh' /\ SavedSound' /\ IndexWhole'
    BY <1>1, <1>5, TornKeeps
  <2>2. CallPhase' /\ CallHistory' /\ CallCheckpoint'
    BY <1>5 DEF CallPhase, CallHistory, CallCheckpoint, Idle, BeforeCommit, Recording
  <2> QED BY <1>3, <1>4, <2>1, <2>2 DEF IInv
<1>6. CASE UNCHANGED <<call, snaps, nextId>>
  BY <1>1, <1>3, <1>4, <1>6, CallUntouched DEF IInv
<1> QED BY <1>5, <1>6 DEF Crash

LEMMA DamageKeeps ==
  ASSUME IInv, TypeOK', DamageIndex
  PROVE  IInv'
<1>1. Fresh' /\ SavedSound' /\ MemCurrent' /\ ReadCurrent'
  BY DiskKept DEF DamageIndex
<1>2. IndexWhole'
  BY DEF DamageIndex, IndexWhole, Listed
<1>3. CallPhase' /\ CallHistory' /\ CallCheckpoint'
  BY DEF DamageIndex, CallPhase, CallHistory, CallCheckpoint, Idle, BeforeCommit, Recording
<1> QED BY <1>1, <1>2, <1>3 DEF IInv

LEMMA InitSound ==
  ASSUME Init, ~Legacy
  PROVE  IInv
<1>1. TypeOK
  BY InitTyped
<1>2. PICK s \in States :
        /\ file  = [state |-> s, hist |-> InitialHist, rev |-> 1]
        /\ index = InitialHist
        /\ snaps = [id \in Ids |-> IF id = 1 THEN s ELSE NoSnap]
        /\ nextId = 2
  BY DEF Init
<1>3. InitialHist.entries # << >> /\ Distinct(InitialHist) /\ EntryIds(InitialHist) = {1}
  BY DEF InitialHist, Distinct, EntryIds
<1>4. snaps[1] \in States
  BY <1>2, BoundsAssumption DEF Ids
<1>5. SavedSound /\ IndexWhole
  BY <1>2, <1>3, <1>4 DEF SavedSound, IndexWhole, Listed, Sound, Whole, Readable
<1>6. Fresh
  BY <1>2 DEF Fresh, Ids
<1>7. MemCurrent /\ ReadCurrent
  BY DEF Init, MemCurrent, ReadCurrent, Closed, NotOpening
<1>8. CallPhase /\ CallHistory /\ CallCheckpoint
  BY DEF Init, CallPhase, CallHistory, CallCheckpoint, Idle, BeforeCommit, Recording
<1> QED BY <1>1, <1>5, <1>6, <1>7, <1>8 DEF IInv

-----------------------------------------------------------------------------
LEMMA IInvNext == IInv /\ TypeOK' /\ [Next]_vars => IInv'
<1> SUFFICES ASSUME IInv, TypeOK', [Next]_vars PROVE IInv'
  OBVIOUS
<1>1. CASE UNCHANGED vars
  <2>1. Fresh' /\ SavedSound' /\ IndexWhole' /\ CallPhase' /\ CallHistory' /\ CallCheckpoint'
    BY <1>1, CallUntouched DEF vars
  <2>2. MemCurrent' /\ ReadCurrent'
    BY <1>1 DEF vars, IInv, MemCurrent, ReadCurrent
  <2> QED BY <1>1, <2>1, <2>2 DEF IInv
<1> QED BY <1>1, OpensKeep, BeginsKeep, CrashKeeps, StepsKeep, FailuresKeep, DamageKeeps DEF Next

LEMMA IInvAlways == ASSUME ~Legacy PROVE Spec => []IInv
<1>1. Init => IInv
  BY InitSound
<1> QED BY <1>1, IInvNext, TypeCorrect, PTL DEF Spec

(* A project saved with its history never has, in the saved history or in  *)
(* the index on disk, an entry without a whole snapshot: whatever the      *)
(* workspaces, the limit, the kinds of call, the failures and the crashes, *)
(* an undo, redo or goto after a restart finds its snapshot.               *)
THEOREM SavedHistoryKept == ASSUME ~Legacy PROVE Spec => []NoDanglingEntry
<1>1. IInv => NoDanglingEntry
  BY DEF IInv, SavedSound, Sound, Whole, IndexWhole, NoDanglingEntry
<1> QED BY <1>1, IInvAlways, PTL

-----------------------------------------------------------------------------
(* History h is g after record(before), and after the whole of a recording *)
(* call: the last two entries of a mutation are the two halves of one edit *)
GrownBefore(h, g, what) ==
  \/ h = g
  \/ \E b \in Entries : b.when = "before" /\ b.what = what /\ h = Recorded(g, b)

Grown(h, g) ==
  \/ h = g
  \/ \E e \in Entries : h = Recorded(g, e)
  \/ \E b, a \in Entries :
       /\ b.when = "before" /\ a.when = "after" /\ b.what = a.what
       /\ h = Recorded(Recorded(g, b), a)

FileCursor == HasCurrent(file.hist)

(* memory, or a read, at the saved revision is the saved project *)
MemExact ==
  \A w \in Ws : mem[w].open /\ mem[w].sig = file.rev =>
    /\ HasCurrent(mem[w].hist)
    /\ ~ReuseAfterError => mem[w].state = file.state /\ mem[w].hist = file.hist

ReadExact ==
  \A w \in Ws : opening[w].at = "read" /\ opening[w].rev = file.rev => opening[w].proj = Saved

CallKind ==
  /\ call.at \in {"recordBefore", "indexBefore", "mutate"} => call.kind = "mutate"
  /\ call.at \in {"recordAfter", "indexAfter"} => RollsBack
  /\ call.at = "indexMove" => call.kind = "move"

(* until it lands, a call's checkpoint is the saved project *)
CallExact ==
  (call # Idle /\ ~Landed /\ ~ReuseAfterError) => call.pre = file.state /\ call.cpHist = file.hist

(* the history the call holds, by how far it is *)
CallGrown ==
  ~ReuseAfterError =>
    /\ call.at = "recordBefore" \/ (call.at = "recordAfter" /\ call.kind = "record") =>
         call.proj.hist = file.hist
    /\ call.at \in {"indexBefore", "mutate", "recordAfter"} /\ call.kind = "mutate" =>
         GrownBefore(call.proj.hist, file.hist, call.what)
    /\ call.at \in {"indexAfter", "commit"} /\ RollsBack => Grown(call.proj.hist, file.hist)
    /\ call.at \in {"indexMove", "commit"} /\ ~RollsBack =>
         call.proj.hist.entries = file.hist.entries
    /\ call.at \in {"sync", "save"} => BuildsOn(Kept, call.proj.hist.entries)

(* its current entry, and the snapshot of it once the call is made *)
CallCurrent ==
  /\ call.at \in BeforeCommit \cup {"sync", "save"} => HasCurrent(call.proj.hist)
  /\ call.at \in {"indexAfter", "indexMove", "commit", "sync", "save"} /\ call.kind # "free" =>
       snaps[Current(call.proj.hist).id] = call.proj.state

(* one Undo of h applies s *)
UndoReaches(h, s) ==
  /\ h.cursor >= 2 /\ h.cursor = Len(h.entries)
  /\ ~IsPreview(h.entries[h.cursor])
  /\ snaps[h.entries[h.cursor - 1].id] = s

(* record(before) snapshots, or finds snapshotted, the state before the    *)
(* edit, under the entry the edit's own is recorded on *)
CallReverts ==
  /\ call.at \in {"recordBefore", "indexBefore", "mutate"} => call.proj.state = call.pre
  /\ call.at \in {"indexBefore", "mutate", "recordAfter"} /\ call.kind = "mutate" =>
       snaps[Current(call.proj.hist).id] = call.pre
  /\ (/\ call.at \in {"indexAfter", "commit", "sync", "save"}
      /\ call.kind = "mutate" /\ call.what # Preview /\ call.proj.state # call.pre
      /\ Limit >= 2) =>
       UndoReaches(call.proj.hist, call.pre)

CallSaved ==
  call.at \in {"prune", "mirror"} => file.state = call.proj.state

RestoredClean ==
  call.at = "restored" =>
    /\ index = call.cpIndex /\ ~Landed
    /\ \A id \in OwnIds : snaps[id] = NoSnap

CallParts ==
  /\ CallKind /\ CallExact /\ CallGrown /\ CallCurrent /\ CallReverts
  /\ CallSaved /\ RestoredClean

CommitInv == IInv /\ FileCursor /\ MemExact /\ ReadExact /\ CallParts

-----------------------------------------------------------------------------
(* Recording and trimming, entry by entry.                                 *)
LEMMA RecordedEntries ==
  ASSUME NEW h \in Hists, NEW e \in Entries
  PROVE  /\ HasCurrent(Recorded(h, e)) /\ Current(Recorded(h, e)) = e
         /\ Recorded(h, e).cursor = Len(Recorded(h, e).entries)
         /\ HasCurrent(h) =>
              /\ Recorded(h, e).cursor = h.cursor + 1
              /\ \A i \in 1..h.cursor : Recorded(h, e).entries[i] = h.entries[i]
<1> DEFINE kept == IF h.cursor < Len(h.entries) THEN SubSeq(h.entries, 1, h.cursor)
                                                ELSE h.entries
           r == Append(kept, e)
<1>1. h.cursor \in Nat /\ h.entries \in Seq(Entries) /\ DOMAIN h.entries = 1..Len(h.entries)
  BY DEF Hists
<1>2. /\ kept \in Seq(Entries) /\ Len(kept) \in Nat
      /\ HasCurrent(h) => Len(kept) = h.cursor
      /\ HasCurrent(h) => \A i \in 1..h.cursor : kept[i] = h.entries[i]
  <2>1. CASE h.cursor < Len(h.entries)
    BY <1>1, <2>1
  <2>2. CASE ~(h.cursor < Len(h.entries))
    BY <1>1, <2>2 DEF HasCurrent
  <2> QED BY <2>1, <2>2
<1>3. Recorded(h, e) = [cursor |-> Len(kept) + 1, entries |-> r]
  BY DEF Recorded
<1> HIDE DEF kept
<1>4. /\ r \in Seq(Entries) /\ Len(r) = Len(kept) + 1 /\ r[Len(kept) + 1] = e
      /\ \A i \in 1..Len(kept) : r[i] = kept[i]
  BY <1>2
<1> HIDE DEF r
<1>5. DOMAIN r = 1..(Len(kept) + 1)
  BY <1>4
<1> QED BY <1>2, <1>3, <1>4, <1>5 DEF HasCurrent, Current

LEMMA TrimmedEntries ==
  ASSUME NEW h \in Hists, HasCurrent(h)
  PROVE  /\ TrimCount(h) \in Nat /\ TrimCount(h) < h.cursor
         /\ TrimCount(h) > 0 => TrimCount(h) <= Len(h.entries) - Limit
         /\ ~SplitsPair(h.entries, TrimCount(h))
         /\ Trimmed(h).cursor = h.cursor - TrimCount(h)
         /\ Trimmed(h).entries \in Seq(Entries)
         /\ Len(Trimmed(h).entries) = Len(h.entries) - TrimCount(h)
         /\ \A i \in 1..(Len(h.entries) - TrimCount(h)) :
              Trimmed(h).entries[i] = h.entries[i + TrimCount(h)]
         /\ HasCurrent(Trimmed(h)) /\ Current(Trimmed(h)) = Current(h)
<1> DEFINE n == TrimCount(h)
<1>1. /\ h.cursor \in Nat /\ h.entries \in Seq(Entries) /\ Len(h.entries) \in Nat
      /\ DOMAIN h.entries = 1..Len(h.entries) /\ h.cursor >= 1 /\ h.cursor <= Len(h.entries)
      /\ Limit \in Nat \ {0}
  BY BoundsAssumption DEF Hists, HasCurrent
<1>2. /\ n \in Nat /\ n < h.cursor /\ (n > 0 => n <= Len(h.entries) - Limit)
      /\ ~SplitsPair(h.entries, n)
  <2> DEFINE excess == IF Len(h.entries) > Limit THEN Len(h.entries) - Limit ELSE 0
             below  == IF h.cursor > 0 THEN h.cursor - 1 ELSE 0
             most   == IF excess < below THEN excess ELSE below
  <2>1. most \in Nat /\ most < h.cursor /\ (most > 0 => most <= Len(h.entries) - Limit)
    BY <1>1
  <2>2. n = IF SplitsPair(h.entries, most) THEN most - 1 ELSE most
    BY DEF TrimCount
  <2> HIDE DEF most, n
  <2>3. CASE SplitsPair(h.entries, most)
    <3>1. most >= 1 /\ h.entries[most].when = "before"
      BY <2>1, <2>3 DEF SplitsPair
    <3>2. n = most - 1 /\ n + 1 = most
      BY <2>1, <2>2, <2>3
    <3>3. ~SplitsPair(h.entries, n)
      BY <3>1, <3>2 DEF SplitsPair
    <3> QED BY <1>1, <2>1, <3>1, <3>2, <3>3
  <2>4. CASE ~SplitsPair(h.entries, most)
    BY <2>1, <2>2, <2>4
  <2> QED BY <2>3, <2>4
<1> HIDE DEF n
<1>3. /\ Trimmed(h).cursor = h.cursor - n
      /\ Trimmed(h).entries \in Seq(Entries)
      /\ Len(Trimmed(h).entries) = Len(h.entries) - n
      /\ \A i \in 1..(Len(h.entries) - n) : Trimmed(h).entries[i] = h.entries[i + n]
  <2>1. CASE n = 0
    BY <1>1, <2>1 DEF Trimmed, n
  <2>2. CASE n # 0
    <3>1. Trimmed(h) = [cursor |-> h.cursor - n,
                        entries |-> SubSeq(h.entries, n + 1, Len(h.entries))]
      BY <2>2 DEF Trimmed, n
    <3> QED BY <1>1, <1>2, <3>1
  <2> QED BY <2>1, <2>2
<1>4. DOMAIN Trimmed(h).entries = 1..(Len(h.entries) - n) /\ (h.cursor - n) + n = h.cursor
      /\ h.cursor - n \in 1..(Len(h.entries) - n)
  <2>1. DOMAIN Trimmed(h).entries = 1..Len(Trimmed(h).entries)
    BY <1>3
  <2>2. (h.cursor - n) + n = h.cursor /\ h.cursor - n \in 1..(Len(h.entries) - n)
    BY <1>1, <1>2
  <2> QED BY <1>3, <2>1, <2>2
<1>5. HasCurrent(Trimmed(h)) /\ Current(Trimmed(h)) = Current(h)
  BY <1>3, <1>4 DEF HasCurrent, Current
<1> QED BY <1>2, <1>3, <1>5 DEF n

(* A trim that stays within the entries old, which h begins with, keeps    *)
(* all of them but its oldest.                                             *)
LEMMA TrimKeeps ==
  ASSUME NEW h \in Hists, HasCurrent(h), Distinct(h),
         NEW old \in Seq(Entries), Len(old) <= Len(h.entries),
         \A i \in 1..Len(old) : old[i] = h.entries[i],
         TrimCount(h) <= Len(old)
  PROVE  BuildsOn(old, Trimmed(h).entries)
<1> DEFINE n == TrimCount(h)
           new == Trimmed(h).entries
<1>1. /\ n \in Nat /\ (n > 0 => n <= Len(h.entries) - Limit) /\ ~SplitsPair(h.entries, n)
      /\ new \in Seq(Entries) /\ Len(new) = Len(h.entries) - n
      /\ \A i \in 1..(Len(h.entries) - n) : new[i] = h.entries[i + n]
  BY TrimmedEntries
<1>2. /\ Len(old) \in Nat /\ Len(h.entries) \in Nat /\ Limit \in Nat
      /\ DOMAIN h.entries = 1..Len(h.entries) /\ n <= Len(old)
  BY BoundsAssumption DEF Hists
<1> HIDE DEF n, new
<1>3. DOMAIN new = 1..(Len(h.entries) - n)
  BY <1>1, <1>2
<1>4. \A i \in (n+1)..Len(old) : new[i - n] = old[i]
  <2> SUFFICES ASSUME NEW i \in (n+1)..Len(old) PROVE new[i - n] = old[i]
    OBVIOUS
  <2>1. i \in 1..Len(old) /\ i - n \in 1..(Len(h.entries) - n) /\ (i - n) + n = i
    BY <1>1, <1>2
  <2>2. new[i - n] = h.entries[(i - n) + n]
    BY <1>1, <2>1
  <2> QED BY <2>1, <2>2
<1>5. \A i \in 1..n : \A j \in DOMAIN new : new[j].id # old[i].id
  <2> SUFFICES ASSUME NEW i \in 1..n, NEW j \in DOMAIN new, new[j].id = old[i].id PROVE FALSE
    OBVIOUS
  <2>1. i \in 1..Len(old) /\ i \in DOMAIN h.entries /\ j + n \in DOMAIN h.entries
        /\ i # j + n /\ j \in 1..(Len(h.entries) - n)
    BY <1>1, <1>2, <1>3
  <2>2. new[j] = h.entries[j + n] /\ old[i] = h.entries[i]
    BY <1>1, <2>1
  <2> QED BY <2>1, <2>2 DEF Distinct
<1>6. Len(new) >= Len(old) - n
  BY <1>1, <1>2
<1>7. n > 0 => Len(new) >= Limit /\ ~SplitsPair(old, n)
  <2> SUFFICES ASSUME n > 0 PROVE Len(new) >= Limit /\ ~SplitsPair(old, n)
    OBVIOUS
  <2>1. Len(new) >= Limit
    BY <1>1, <1>2
  <2>2. ASSUME SplitsPair(old, n) PROVE FALSE
    <3>1. n \in 1..(Len(old) - 1) /\ n \in 1..Len(old) /\ n + 1 \in 1..Len(old)
          /\ n \in 1..(Len(h.entries) - 1)
      BY <1>1, <1>2, <2>2 DEF SplitsPair
    <3>2. old[n] = h.entries[n] /\ old[n + 1] = h.entries[n + 1]
      BY <3>1
    <3> QED BY <1>1, <2>2, <3>1, <3>2 DEF SplitsPair
  <2> QED BY <2>1, <2>2
<1>8. KeepsAllBut(n, old, new)
  BY <1>4, <1>5, <1>6 DEF KeepsAllBut
<1>9. n \in 0..Len(old)
  BY <1>1, <1>2
<1> QED BY <1>7, <1>8, <1>9 DEF BuildsOn, new

(* A call that records trims no more than the entries up to the saved      *)
(* cursor: beyond them are its own two at most, which are one edit.        *)
LEMMA GrownTrims ==
  ASSUME NEW h \in Hists, NEW g \in Hists, HasCurrent(g), Distinct(h), Grown(h, g)
  PROVE  /\ HasCurrent(h)
         /\ BuildsOn(SubSeq(g.entries, 1, g.cursor), Trimmed(h).entries)
<1> DEFINE old == SubSeq(g.entries, 1, g.cursor)
<1>1. /\ g.cursor \in Nat /\ g.entries \in Seq(Entries) /\ Len(g.entries) \in Nat
      /\ g.cursor >= 1 /\ g.cursor <= Len(g.entries)
  BY DEF Hists, HasCurrent
<1>2. /\ old \in Seq(Entries) /\ Len(old) = g.cursor
      /\ \A i \in 1..g.cursor : old[i] = g.entries[i]
  BY <1>1
<1>3. /\ h.cursor \in Nat /\ h.entries \in Seq(Entries) /\ Len(h.entries) \in Nat
      /\ DOMAIN h.entries = 1..Len(h.entries)
  BY DEF Hists
<1>4. /\ HasCurrent(h) /\ g.cursor <= Len(h.entries) /\ TrimCount(h) <= g.cursor
      /\ \A i \in 1..g.cursor : h.entries[i] = g.entries[i]
  <2>1. CASE h = g
    BY <1>1, <2>1, TrimmedEntries
  <2>2. ASSUME NEW e \in Entries, h = Recorded(g, e) PROVE <1>4
    <3>1. /\ HasCurrent(h) /\ h.cursor = g.cursor + 1 /\ h.cursor = Len(h.entries)
          /\ \A i \in 1..g.cursor : h.entries[i] = g.entries[i]
      BY <2>2, RecordedEntries
    <3>2. TrimCount(h) \in Nat /\ TrimCount(h) < h.cursor
      BY <3>1, TrimmedEntries
    <3> QED BY <1>1, <3>1, <3>2
  <2>3. ASSUME NEW b \in Entries, NEW a \in Entries,
               b.when = "before", a.when = "after", b.what = a.what,
               h = Recorded(Recorded(g, b), a)
        PROVE  <1>4
    <3> DEFINE k == Recorded(g, b)
    <3>1. k \in Hists /\ HasCurrent(k) /\ k.cursor = g.cursor + 1 /\ k.entries[k.cursor] = b
          /\ \A i \in 1..g.cursor : k.entries[i] = g.entries[i]
      BY RecordedEntries, RecordedHist DEF Current
    <3> HIDE DEF k
    <3>2. /\ HasCurrent(h) /\ h.cursor = k.cursor + 1 /\ h.cursor = Len(h.entries)
          /\ h.entries[h.cursor] = a
          /\ \A i \in 1..k.cursor : h.entries[i] = k.entries[i]
      BY <2>3, <3>1, RecordedEntries DEF k, Current
    <3>0. /\ 1..g.cursor \subseteq 1..k.cursor /\ g.cursor + 1 \in 1..k.cursor
          /\ g.cursor + 1 = k.cursor /\ g.cursor + 2 = h.cursor
      BY <1>1, <3>1, <3>2
    <3>3. \A i \in 1..g.cursor : h.entries[i] = g.entries[i]
      BY <3>0, <3>1, <3>2
    <3>4. h.entries[g.cursor + 1] = b /\ h.entries[g.cursor + 2] = a
      BY <3>0, <3>1, <3>2
    <3>5. TrimCount(h) \in Nat /\ TrimCount(h) < g.cursor + 2 /\ ~SplitsPair(h.entries, TrimCount(h))
          /\ Len(h.entries) = g.cursor + 2
      BY <3>0, <3>2, TrimmedEntries
    <3>6. SplitsPair(h.entries, g.cursor + 1)
      <4>1. g.cursor + 1 \in 1..(Len(h.entries) - 1) /\ (g.cursor + 1) + 1 = g.cursor + 2
        BY <1>1, <3>0, <3>5
      <4> QED BY <2>3, <3>4, <4>1 DEF SplitsPair
    <3>7. TrimCount(h) # g.cursor + 1
      BY <3>5, <3>6
    <3> QED BY <1>1, <3>2, <3>3, <3>5, <3>7
  <2> QED BY <2>1, <2>2, <2>3 DEF Grown
<1> HIDE DEF old
<1>5. BuildsOn(old, Trimmed(h).entries)
  BY <1>1, <1>2, <1>4, TrimKeeps
<1> QED BY <1>4, <1>5 DEF old

-----------------------------------------------------------------------------
(* Steps that leave most of the invariant alone.                           *)
LEMMA StoreStill ==
  ASSUME CommitInv, UNCHANGED <<file, mem, opening>>
  PROVE  FileCursor' /\ MemExact' /\ ReadExact'
BY DEF CommitInv, FileCursor, MemExact, ReadExact, Saved

LEMMA NoCall ==
  ASSUME call' = Idle
  PROVE  CallParts'
BY DEF CallParts, CallKind, CallExact, CallGrown, CallCurrent, CallReverts, CallSaved,
       RestoredClean, Idle, BeforeCommit, Recording

LEMMA CallStill ==
  ASSUME CommitInv, UNCHANGED <<file, index, snaps, call>>
  PROVE  CallParts'
<1>1. RollsBack' = RollsBack /\ Kept' = Kept /\ Landed' = Landed
  BY DEF RollsBack, Kept, Landed, CommitStarted
<1>2. OwnIds' = OwnIds
  BY DEF OwnIds, EntryIds
<1> QED BY <1>1, <1>2 DEF CommitInv, CallParts, CallKind, CallExact, CallGrown, CallCurrent,
             CallReverts, CallSaved, RestoredClean, UndoReaches

(* The call is over, or there was none: a workspace's memory changed.      *)
LEMMA MemorySet ==
  ASSUME CommitInv, IInv', UNCHANGED <<file, opening>>, call' = Idle,
         NEW w \in Ws, NEW m, mem' = [mem EXCEPT ![w] = m],
         m.open /\ m.sig = file.rev =>
           /\ HasCurrent(m.hist)
           /\ ~ReuseAfterError => m.state = file.state /\ m.hist = file.hist
  PROVE  CommitInv'
<1>1. \A v \in Ws : mem'[v] = m \/ mem'[v] = mem[v]
  BY DEF CommitInv, IInv, TypeOK
<1>2. MemExact'
  BY <1>1 DEF CommitInv, MemExact
<1>3. FileCursor' /\ ReadExact'
  BY DEF CommitInv, FileCursor, ReadExact, Saved
<1> QED BY <1>2, <1>3, NoCall DEF CommitInv

(* The call has left its course, or has been saved.                        *)
LEMMA CallElsewhere ==
  ASSUME CommitInv, IInv', call # Idle, UNCHANGED <<file, mem, opening>>,
         call'.pre = call.pre, call'.cpHist = call.cpHist, call'.revBefore = call.revBefore,
         call'.proj = call.proj,
         \/ call'.at \in {"rollback", "deleteOwn", "landed", "unknown", "kept", "rollbackFailed"}
         \/ call.at = "prune" /\ call'.at = "mirror"
  PROVE  CommitInv'
<1>1. Landed' = Landed
  BY DEF Landed, CommitStarted
<1>2. CallExact' /\ CallSaved'
  BY <1>1 DEF CommitInv, CallParts, CallExact, CallSaved
<1>3. CallKind' /\ CallGrown' /\ CallCurrent' /\ CallReverts' /\ RestoredClean'
  BY DEF CallKind, CallGrown, CallCurrent, CallReverts, RestoredClean, BeforeCommit, Recording
<1> QED BY <1>2, <1>3, StoreStill DEF CommitInv, CallParts

-----------------------------------------------------------------------------
(* Opening.                                                                *)
LEMMA OpensExact ==
  ASSUME CommitInv, IInv', NEW w \in Ws, Opens(w)
  PROVE  CommitInv'
<1>0. /\ file.rev \in Nat \ {0} /\ opening \in [Ws -> Readings] /\ mem \in [Ws -> Memories]
      /\ IInv
  BY DEF CommitInv, IInv, TypeOK
<1>1. UNCHANGED <<file, index, snaps, call, nextId>>
  BY DEF Opens, OpenStat, OpenRead, OpenAdopt, OpenRaises
<1>2. CallParts'
  BY <1>1, CallStill
<1>3. FileCursor'
  BY <1>1 DEF CommitInv, FileCursor
<1>4. ReadExact'
  <2>1. ASSUME NEW v \in Ws PROVE \/ opening'[v] = opening[v]
                                  \/ opening'[v] = NotOpening
                                  \/ opening'[v].at = "stat"
                                  \/ opening'[v].proj = Saved
    BY <1>0 DEF Opens, OpenStat, OpenRead, OpenAdopt, OpenRaises
  <2> QED BY <1>1, <2>1 DEF CommitInv, ReadExact, NotOpening, Saved
<1>5. MemExact'
  <2>1. CASE UNCHANGED mem
    BY <1>1, <2>1 DEF CommitInv, MemExact
  <2>2. CASE OpenAdopt(w)
    <3> DEFINE q == opening[w].proj
               sig == IF file.rev = opening[w].rev THEN file.rev ELSE Unknown
    <3>1. \A v \in Ws : mem'[v] = mem[v] \/ mem'[v] = Open(Loaded(q), sig)
      BY <1>0, <2>2 DEF OpenAdopt
    <3>2. sig = file.rev => Loaded(q).state = file.state /\ Loaded(q).hist = file.hist
      <4>1. SUFFICES ASSUME sig = file.rev
                     PROVE  Loaded(q).state = file.state /\ Loaded(q).hist = file.hist
        OBVIOUS
      <4>2. file.rev = opening[w].rev
        BY <1>0, <4>1 DEF Unknown
      <4>3. q = Saved
        BY <2>2, <4>2 DEF CommitInv, ReadExact, OpenAdopt
      <4> QED BY <1>0, <4>3, SoundFilled DEF IInv, SavedSound, Loaded, Saved
    <3>3. HasCurrent(file.hist)
      BY DEF CommitInv, FileCursor
    <3> HIDE DEF q, sig
    <3> QED BY <1>1, <3>1, <3>2, <3>3 DEF CommitInv, MemExact, Open
  <2> QED BY <2>1, <2>2 DEF Opens, OpenStat, OpenRead, OpenRaises
<1> QED BY <1>2, <1>3, <1>4, <1>5 DEF CommitInv

-----------------------------------------------------------------------------
(* A call begins on the saved project.                                     *)
LEMMA EnterExact ==
  ASSUME CommitInv, NEW w \in Ws, mem[w].open
  PROVE  /\ HasCurrent(Base(w).hist)
         /\ ~ReuseAfterError => Base(w).state = file.state /\ Base(w).hist = file.hist
<1>1. CASE mem[w].sig = file.rev
  BY <1>1 DEF CommitInv, MemExact, Base, InMemory
<1>2. CASE mem[w].sig # file.rev
  BY <1>2, SoundFilled DEF CommitInv, IInv, SavedSound, FileCursor, Base, Loaded, Saved
<1> QED BY <1>1, <1>2

LEMMA CallBegins ==
  ASSUME CommitInv, IInv', UNCHANGED <<file, snaps, mem, opening>>,
         NEW s, NEW h, ~ReuseAfterError => s = file.state /\ h = file.hist,
         call'.pre = s, call'.cpHist = h,
         call'.proj.hist.entries = h.entries, HasCurrent(call.proj.hist)',
         \/ /\ call'.at = "recordBefore" /\ call'.kind = "mutate"
            /\ call'.proj.state = s /\ call'.proj.hist = h
         \/ call'.at = "recordAfter" /\ call'.kind = "record" /\ call'.proj.hist = h
         \/ call'.at = "commit" /\ call'.kind = "free"
         \/ /\ call'.at = "indexMove" /\ call'.kind = "move"
            /\ (snaps[Current(call.proj.hist).id] = call.proj.state)'
  PROVE  CommitInv'
<1>1. CallKind'
  BY DEF CallKind, RollsBack
<1>2. CallExact'
  BY DEF CallExact
<1>3. CallGrown'
  BY DEF CallGrown, RollsBack
<1>4. CallCurrent'
  BY DEF CallCurrent
<1>5. CallReverts' /\ CallSaved' /\ RestoredClean'
  BY DEF CallReverts, CallSaved, RestoredClean
<1> QED BY <1>1, <1>2, <1>3, <1>4, <1>5, StoreStill DEF CommitInv, CallParts

LEMMA BeginsExact ==
  ASSUME CommitInv, IInv', NEW w \in Ws, Begins(w)
  PROVE  CommitInv'
<1> DEFINE p == Base(w)
           h == p.hist
<1>0. IInv
  BY DEF CommitInv
<1>1. ASSUME mem[w].open
      PROVE  /\ p \in Projects /\ h \in Hists /\ h.entries # << >>
             /\ (\A s : AdoptHist(s, h) = h) /\ ~IndexRaises(h)
             /\ HasCurrent(h) /\ (~ReuseAfterError => p.state = file.state /\ h = file.hist)
  BY <1>0, <1>1, EnterBase, EnterExact DEF Sound
<1> HIDE DEF p
<1>2. CanEnter(w) => mem[w].open
  BY DEF CanEnter
<1>3. CanMove(w) => mem[w].open
  BY <1>2 DEF CanMove
<1>4. ASSUME NEW what \in Edits \cup {Preview}, BeginMutate(w, what) PROVE CommitInv'
  <2>1. mem[w].open
    BY <1>2, <1>4 DEF BeginMutate
  <2>2. call' = NewCall(w, "mutate", what, "recordBefore", p, h)
    BY <1>1, <1>4, <2>1 DEF BeginMutate, p
  <2>3. UNCHANGED <<file, snaps, mem, opening>>
    BY <1>4 DEF BeginMutate
  <2>4. /\ call'.at = "recordBefore" /\ call'.kind = "mutate" /\ call'.pre = p.state
        /\ call'.cpHist = h /\ call'.proj.hist = h /\ call'.proj.state = p.state
    BY <1>1, <2>1, <2>2 DEF NewCall, Projects
  <2> HIDE DEF h
  <2>5. HasCurrent(call.proj.hist)'
    BY <1>1, <2>1, <2>4 DEF HasCurrent
  <2> QED BY <1>1, <2>1, <2>3, <2>4, <2>5, CallBegins
<1>5. ASSUME NEW force \in BOOLEAN, BeginRecord(w, force) PROVE CommitInv'
  <2>1. mem[w].open
    BY <1>2, <1>5 DEF BeginRecord
  <2>2. call' = [NewCall(w, "record", "initial", "recordAfter", p, h) EXCEPT !.force = force]
    BY <1>1, <1>5, <2>1 DEF BeginRecord, p
  <2>3. UNCHANGED <<file, snaps, mem, opening>>
    BY <1>5 DEF BeginRecord
  <2>4. /\ call'.at = "recordAfter" /\ call'.kind = "record" /\ call'.pre = p.state
        /\ call'.cpHist = h /\ call'.proj.hist = h
    BY <1>1, <2>1, <2>2 DEF NewCall, Projects
  <2> HIDE DEF h
  <2>5. HasCurrent(call.proj.hist)'
    BY <1>1, <2>1, <2>4 DEF HasCurrent
  <2> QED BY <1>1, <2>1, <2>3, <2>4, <2>5, CallBegins
<1>6. ASSUME NEW s \in States, BeginFree(w, s) PROVE CommitInv'
  <2>1. mem[w].open
    BY <1>2, <1>6 DEF BeginFree
  <2>2. call' = [NewCall(w, "free", "initial", "commit", p, h) EXCEPT !.proj.state = s]
    BY <1>6 DEF BeginFree, p
  <2>3. UNCHANGED <<file, snaps, mem, opening>>
    BY <1>6 DEF BeginFree
  <2>4. /\ call'.at = "commit" /\ call'.kind = "free" /\ call'.pre = p.state
        /\ call'.cpHist = h /\ call'.proj.hist = h
    BY <1>1, <2>1, <2>2 DEF NewCall, Projects
  <2> HIDE DEF h
  <2>5. HasCurrent(call.proj.hist)'
    BY <1>1, <2>1, <2>4 DEF HasCurrent
  <2> QED BY <1>1, <2>1, <2>3, <2>4, <2>5, CallBegins
<1>7. MoveHist(w) = h \/ ~mem[w].open
  BY <1>1 DEF MoveHist, p
<1>8. ASSUME NEW i, CanMove(w), BeginMove(w, p, h, i),
             UNCHANGED <<file, index, snaps, mem, opening, nextId>>
      PROVE  CommitInv'
  <2>1. mem[w].open
    BY <1>3, <1>8
  <2>2. i \in Nat /\ i \in DOMAIN h.entries
    BY <1>1, <1>8, <2>1 DEF BeginMove, Hists
  <2>3. MovedTo(h, i) \in Hists /\ MovedTo(h, i).entries = h.entries /\ MovedTo(h, i).cursor = i
    BY <1>1, <2>1, <2>2, MovedTyped DEF MovedTo, Hists
  <2>4. /\ call'.at = "indexMove" /\ call'.kind = "move" /\ call'.pre = p.state
        /\ call'.cpHist = h /\ call'.proj.hist = MovedTo(h, i)
        /\ call'.proj.state = snaps[h.entries[i].id]
    BY <1>8 DEF BeginMove, NewCall
  <2> HIDE DEF h
  <2>5. HasCurrent(call.proj.hist)' /\ (snaps[Current(call.proj.hist).id] = call.proj.state)'
    BY <1>8, <2>2, <2>3, <2>4 DEF HasCurrent, Current
  <2> QED BY <1>1, <1>8, <2>1, <2>3, <2>4, <2>5, CallBegins
<1>9. ASSUME NEW e \in Ids \cup {0}, Undo(w, e) PROVE CommitInv'
  BY <1>3, <1>7, <1>8, <1>9 DEF Undo, p, CanMove
<1>10. ASSUME NEW e \in Ids \cup {0}, Redo(w, e) PROVE CommitInv'
  BY <1>3, <1>7, <1>8, <1>10 DEF Redo, p, CanMove
<1>11. ASSUME NEW i \in Ids, Goto(w, i) PROVE CommitInv'
  BY <1>3, <1>7, <1>8, <1>11 DEF Goto, p, CanMove
<1>12. ASSUME RefuseUndo(w) PROVE CommitInv'
  <2> DEFINE q == [state |-> p.state, hist |-> MovedTo(h, 1)]
             m == AfterMoveError(q, file.rev)
  <2>1. mem[w].open
    BY <1>3, <1>12 DEF RefuseUndo
  <2>2. MovedTo(h, 1) \in Hists /\ MovedTo(h, 1).entries = h.entries /\ MovedTo(h, 1).cursor = 1
    BY <1>1, <2>1, MovedTyped DEF MovedTo, Hists
  <2>3. HasCurrent(MovedTo(h, 1))
    <3>1. 1 \in DOMAIN h.entries
      BY <1>1, <2>1 DEF HasCurrent, Hists
    <3> QED BY <2>2, <3>1 DEF HasCurrent
  <2>4. mem' = [mem EXCEPT ![w] = m] /\ UNCHANGED <<file, opening>> /\ call' = Idle
    BY <1>7, <1>12, <2>1 DEF RefuseUndo, CanMove, CanEnter, p
  <2>5. m.open => ReuseAfterError /\ m.hist = MovedTo(h, 1)
    BY DEF AfterMoveError, Open, Closed
  <2> HIDE DEF m, q
  <2> QED BY <2>3, <2>4, <2>5, MemorySet
<1> HIDE DEF h
<1> QED BY <1>4, <1>5, <1>6, <1>9, <1>10, <1>11, <1>12 DEF Begins

-----------------------------------------------------------------------------
(* Recording.  What h holds was there before the new snapshot was written. *)
LEMMA EntryRecorded ==
  ASSUME IInv, call # Idle, call.at \in Recording, HasCurrent(call.proj.hist), nextId \in Ids,
         snaps' = [snaps EXCEPT ![nextId] = call.proj.state],
         NEW e, e = [id |-> nextId, when |-> e.when, what |-> call.what], e.when \in Whens
  PROVE  LET h == call.proj.hist
             r == Recorded(h, e)
         IN  /\ h \in Hists /\ e \in Entries
             /\ HasCurrent(r) /\ r.cursor = h.cursor + 1 /\ r.cursor = Len(r.entries)
             /\ r.cursor >= 2 /\ r.cursor - 1 = h.cursor
             /\ r.entries[r.cursor] = e /\ r.entries[h.cursor] = Current(h)
             /\ snaps'[e.id] = call.proj.state
             /\ snaps'[Current(h).id] = snaps[Current(h).id]
<1> DEFINE h == call.proj.hist
           r == Recorded(h, e)
<1>1. call \in Calls /\ h \in Hists /\ call.proj.state \in States
  BY Running DEF IInv
<1>2. e \in Entries
  BY <1>1 DEF Entries, Calls
<1>3. /\ HasCurrent(r) /\ r.cursor = h.cursor + 1 /\ r.cursor = Len(r.entries)
      /\ r.entries[r.cursor] = e /\ \A i \in 1..h.cursor : r.entries[i] = h.entries[i]
  BY <1>1, <1>2, RecordedEntries DEF Current
<1>4. h.cursor \in Nat /\ h.cursor >= 1 /\ h.cursor \in 1..h.cursor /\ h.cursor \in DOMAIN h.entries
  BY <1>1 DEF Hists, HasCurrent
<1>5. r.entries[h.cursor] = Current(h)
  BY <1>3, <1>4 DEF Current
<1>6. Whole(h)
  BY DEF IInv, CallHistory, BeforeCommit, Sound
<1>7. Current(h).id \in EntryIds(h)
  BY <1>4 DEF EntryIds, Current
<1>8. Current(h).id # nextId /\ Current(h).id \in Ids
  BY <1>1, <1>6, <1>7, FreshUnnamed, EntryIdsTyped DEF IInv
<1>9. snaps'[e.id] = call.proj.state /\ snaps'[Current(h).id] = snaps[Current(h).id]
  BY <1>8 DEF IInv, TypeOK
<1> HIDE DEF r, h
<1>10. r.cursor >= 2 /\ r.cursor - 1 = h.cursor
  BY <1>3, <1>4
<1> QED BY <1>1, <1>2, <1>3, <1>5, <1>9, <1>10 DEF r, h

LEMMA RecordBeforeExact ==
  ASSUME CommitInv, IInv', RecordBefore
  PROVE  CommitInv'
<1> DEFINE h == call.proj.hist
           e == [id |-> nextId, when |-> "before", what |-> call.what]
           r == Recorded(h, e)
<1>0. call # Idle /\ call.at = "recordBefore" /\ call.at \in Recording /\ IInv
  BY DEF RecordBefore, At, Idle, CommitInv, Recording
<1>1. call \in Calls /\ call.proj \in Projects /\ h \in Hists
  BY <1>0, Running DEF IInv
<1>2. /\ call.kind = "mutate" /\ HasCurrent(h) /\ call.proj.state = call.pre
      /\ ~ReuseAfterError => h = file.hist
      /\ (~Landed /\ ~ReuseAfterError) => call.pre = file.state /\ call.cpHist = file.hist
  BY <1>0 DEF CommitInv, CallParts, CallKind, CallExact, CallGrown, CallCurrent, CallReverts,
              BeforeCommit
<1>3. FileCursor' /\ MemExact' /\ ReadExact'
  BY StoreStill DEF RecordBefore, RecordEntry
<1>4. UNCHANGED file
  BY DEF RecordBefore, RecordEntry
<1>5. CASE /\ snaps[Current(h).id] = call.proj.state /\ UNCHANGED snaps
           /\ call' = [call EXCEPT !.at = "mutate"]
  <2>1. /\ call'.at = "mutate" /\ call'.kind = call.kind /\ call'.proj = call.proj
        /\ call'.pre = call.pre /\ call'.cpHist = call.cpHist
        /\ call'.revBefore = call.revBefore
    BY <1>1, <1>5 DEF Calls
  <2>2. Landed' = Landed
    BY <1>4, <2>1 DEF Landed, CommitStarted
  <2>3. CallKind' /\ CallExact' /\ CallSaved' /\ RestoredClean'
    BY <1>2, <1>4, <2>1, <2>2 DEF CallKind, CallExact, CallSaved, RestoredClean
  <2>4. CallGrown' /\ CallCurrent' /\ CallReverts'
    BY <1>2, <1>4, <1>5, <2>1 DEF CallGrown, GrownBefore, CallCurrent, CallReverts, RollsBack
  <2> QED BY <1>3, <2>3, <2>4 DEF CommitInv, CallParts
<1>6. CASE /\ nextId \in Ids /\ snaps' = [snaps EXCEPT ![nextId] = call.proj.state]
           /\ call' = [call EXCEPT !.at = "indexBefore", !.proj.hist = r]
  <2>1. /\ call'.at = "indexBefore" /\ call'.kind = call.kind /\ call'.proj.hist = r
        /\ call'.proj.state = call.proj.state /\ call'.what = call.what
        /\ call'.pre = call.pre /\ call'.cpHist = call.cpHist
        /\ call'.revBefore = call.revBefore
    BY <1>1, <1>6 DEF Calls, Projects
  <2>2. e.when = "before" /\ e.when \in Whens /\ e.what = call.what
        /\ e = [id |-> nextId, when |-> e.when, what |-> call.what]
    BY DEF Whens
  <2> HIDE DEF e
  <2>3. /\ e \in Entries /\ HasCurrent(r) /\ Current(r) = e /\ snaps'[e.id] = call.proj.state
    BY <1>0, <1>2, <1>6, <2>2, EntryRecorded DEF Current
  <2>4. ~ReuseAfterError => GrownBefore(r, file.hist, call.what)
    BY <1>2, <2>2, <2>3 DEF GrownBefore
  <2> HIDE DEF r
  <2>5. Landed' = Landed
    BY <1>4, <2>1 DEF Landed, CommitStarted
  <2>6. CallKind' /\ CallExact' /\ CallSaved' /\ RestoredClean'
    BY <1>2, <1>4, <2>1, <2>5 DEF CallKind, CallExact, CallSaved, RestoredClean
  <2>7. CallGrown'
    BY <1>2, <1>4, <2>1, <2>4 DEF CallGrown, RollsBack
  <2>8. CallCurrent' /\ CallReverts'
    BY <1>2, <2>1, <2>3 DEF CallCurrent, CallReverts
  <2> QED BY <1>3, <2>6, <2>7, <2>8 DEF CommitInv, CallParts
<1> QED BY <1>5, <1>6 DEF RecordBefore, RecordEntry

LEMMA RecordAfterExact ==
  ASSUME CommitInv, IInv', RecordAfter
  PROVE  CommitInv'
<1> DEFINE h == call.proj.hist
           when == IF call.kind = "record" THEN "mark" ELSE "after"
           e == [id |-> nextId, when |-> when, what |-> call.what]
           r == Recorded(h, e)
<1>0. call # Idle /\ call.at = "recordAfter" /\ call.at \in Recording /\ IInv
  BY DEF RecordAfter, At, Idle, CommitInv, Recording
<1>1. call \in Calls /\ call.proj \in Projects /\ h \in Hists
  BY <1>0, Running DEF IInv
<1>2. /\ RollsBack /\ HasCurrent(h)
      /\ call.kind = "mutate" => snaps[Current(h).id] = call.pre
      /\ ~ReuseAfterError => /\ call.kind = "record" => h = file.hist
                             /\ call.kind = "mutate" => GrownBefore(h, file.hist, call.what)
      /\ (~Landed /\ ~ReuseAfterError) => call.pre = file.state /\ call.cpHist = file.hist
  BY <1>0 DEF CommitInv, CallParts, CallKind, CallExact, CallGrown, CallCurrent, CallReverts,
              BeforeCommit, Recording
<1>3. FileCursor' /\ MemExact' /\ ReadExact'
  BY StoreStill DEF RecordAfter, RecordEntry
<1>4. UNCHANGED file
  BY DEF RecordAfter, RecordEntry
<1>5. CASE /\ snaps[Current(h).id] = call.proj.state /\ UNCHANGED snaps
           /\ call' = [call EXCEPT !.at = "commit"]
  <2>1. /\ call'.at = "commit" /\ call'.kind = call.kind /\ call'.proj = call.proj
        /\ call'.pre = call.pre /\ call'.cpHist = call.cpHist
        /\ call'.revBefore = call.revBefore
    BY <1>1, <1>5 DEF Calls
  <2>2. Landed' = Landed /\ RollsBack'
    BY <1>2, <1>4, <2>1 DEF Landed, CommitStarted, RollsBack
  <2>3. CallKind' /\ CallExact' /\ CallSaved' /\ RestoredClean'
    BY <1>2, <1>4, <2>1, <2>2 DEF CallKind, CallExact, CallSaved, RestoredClean
  <2>4. ~ReuseAfterError => Grown(h, file.hist)
    BY <1>2 DEF RollsBack, GrownBefore, Grown
  <2>5. CallGrown'
    BY <1>4, <2>1, <2>2, <2>4 DEF CallGrown
  <2>6. CallCurrent' /\ CallReverts'
    BY <1>2, <1>5, <2>1 DEF CallCurrent, CallReverts
  <2> QED BY <1>3, <2>3, <2>5, <2>6 DEF CommitInv, CallParts
<1>6. CASE /\ nextId \in Ids /\ snaps' = [snaps EXCEPT ![nextId] = call.proj.state]
           /\ call' = [call EXCEPT !.at = "indexAfter", !.proj.hist = r]
  <2>1. /\ call'.at = "indexAfter" /\ call'.kind = call.kind /\ call'.proj.hist = r
        /\ call'.proj.state = call.proj.state /\ call'.what = call.what
        /\ call'.pre = call.pre /\ call'.cpHist = call.cpHist
        /\ call'.revBefore = call.revBefore
    BY <1>1, <1>6 DEF Calls, Projects
  <2>2. e.when \in Whens /\ e.what = call.what /\ (call.kind = "mutate" => e.when = "after")
        /\ e = [id |-> nextId, when |-> e.when, what |-> call.what]
    BY DEF Whens
  <2> HIDE DEF e
  <2>3. /\ e \in Entries /\ HasCurrent(r) /\ Current(r) = e /\ snaps'[e.id] = call.proj.state
        /\ r.cursor >= 2 /\ r.cursor = Len(r.entries) /\ r.entries[r.cursor] = e
        /\ snaps'[r.entries[r.cursor - 1].id] = snaps[Current(h).id]
    <3>1. /\ e \in Entries /\ HasCurrent(r) /\ snaps'[e.id] = call.proj.state
          /\ r.cursor >= 2 /\ r.cursor = Len(r.entries) /\ r.entries[r.cursor] = e
          /\ r.cursor - 1 = h.cursor /\ r.entries[h.cursor] = Current(h)
          /\ snaps'[Current(h).id] = snaps[Current(h).id]
      BY <1>0, <1>2, <1>6, <2>2, EntryRecorded
    <3>2. Current(r) = e
      BY <3>1 DEF Current
    <3> HIDE DEF r, h
    <3> QED BY <3>1, <3>2
  <2>4. ~ReuseAfterError => Grown(r, file.hist)
    <3> SUFFICES ASSUME ~ReuseAfterError PROVE Grown(r, file.hist)
      OBVIOUS
    <3>1. CASE h = file.hist
      BY <2>3, <3>1 DEF Grown
    <3>2. CASE call.kind = "mutate" /\ h # file.hist
      <4>1. PICK b \in Entries : b.when = "before" /\ b.what = call.what /\ h = Recorded(file.hist, b)
        BY <1>2, <3>2 DEF GrownBefore
      <4> QED BY <2>2, <2>3, <3>2, <4>1 DEF Grown
    <3> QED BY <1>2, <3>1, <3>2 DEF RollsBack
  <2> HIDE DEF r
  <2>5. Landed' = Landed /\ RollsBack'
    BY <1>2, <1>4, <2>1 DEF Landed, CommitStarted, RollsBack
  <2>6. CallKind' /\ CallExact' /\ CallSaved' /\ RestoredClean'
    BY <1>2, <1>4, <2>1, <2>5 DEF CallKind, CallExact, CallSaved, RestoredClean
  <2>7. CallGrown'
    BY <1>4, <2>1, <2>4, <2>5 DEF CallGrown
  <2>8. CallCurrent'
    BY <2>1, <2>3 DEF CallCurrent
  <2>9. (call.kind = "mutate" /\ call.what # Preview) => UndoReaches(call.proj.hist, call.pre)'
    BY <1>2, <2>1, <2>2, <2>3 DEF UndoReaches, IsPreview
  <2>10. CallReverts'
    BY <2>1, <2>9 DEF CallReverts
  <2> QED BY <1>3, <2>6, <2>7, <2>8, <2>10 DEF CommitInv, CallParts
<1> QED BY <1>5, <1>6 DEF RecordAfter, RecordEntry

-----------------------------------------------------------------------------
(* The call moves on with the project it holds.                            *)
LEMMA MovesOnExact ==
  ASSUME CommitInv, IInv', call # Idle, UNCHANGED <<file, snaps, mem, opening>>,
         NEW next, call' = [call EXCEPT !.at = next],
         \/ call.at = "indexBefore" /\ next = "mutate"
         \/ call.at \in {"indexAfter", "indexMove"} /\ next = "commit"
         \/ call.at = "sync" /\ next = "save"
  PROVE  CommitInv'
<1>1. call \in Calls
  BY Running DEF CommitInv, IInv
<1>2. /\ call'.at = next /\ call'.kind = call.kind /\ call'.what = call.what
      /\ call'.proj = call.proj /\ call'.pre = call.pre /\ call'.cpHist = call.cpHist
      /\ call'.revBefore = call.revBefore
  BY <1>1 DEF Calls
<1>3. Landed' = Landed /\ RollsBack' = RollsBack /\ Kept' = Kept
  BY <1>2 DEF Landed, CommitStarted, RollsBack, Kept
<1>4. CallKind /\ CallExact /\ CallGrown /\ CallCurrent /\ CallReverts
  BY DEF CommitInv, CallParts
<1>5. CallKind' /\ CallExact' /\ CallSaved' /\ RestoredClean'
  BY <1>2, <1>3, <1>4 DEF CallKind, CallExact, CallSaved, RestoredClean
<1>6. CallGrown'
  BY <1>2, <1>3, <1>4 DEF CallGrown, CallKind, RollsBack
<1>7. CallCurrent'
  BY <1>2, <1>4 DEF CallCurrent, BeforeCommit, Recording
<1>8. CallReverts'
  BY <1>2, <1>4 DEF CallReverts, CallKind, UndoReaches
<1> QED BY <1>5, <1>6, <1>7, <1>8, StoreStill DEF CommitInv, CallParts

LEMMA MutateExact ==
  ASSUME CommitInv, IInv', NEW s \in States, Mutate(s)
  PROVE  CommitInv'
<1>0. call # Idle /\ call.at = "mutate"
  BY DEF Mutate, At, Idle
<1>1. call \in Calls /\ call.proj \in Projects
  BY <1>0, Running DEF CommitInv, IInv
<1>2. /\ call'.at = "recordAfter" /\ call'.kind = call.kind /\ call'.what = call.what
      /\ call'.proj.hist = call.proj.hist /\ call'.pre = call.pre
      /\ call'.cpHist = call.cpHist /\ call'.revBefore = call.revBefore
      /\ UNCHANGED <<file, index, snaps, mem, opening, nextId>>
  BY <1>1 DEF Mutate, Calls, Projects
<1>3. call.kind = "mutate" /\ Landed' = Landed
  BY <1>0, <1>2 DEF CommitInv, CallParts, CallKind, Landed, CommitStarted
<1>4. CallExact /\ CallGrown /\ CallCurrent /\ CallReverts
  BY DEF CommitInv, CallParts
<1>5. CallKind' /\ CallExact' /\ CallSaved' /\ RestoredClean'
  BY <1>0, <1>2, <1>3, <1>4 DEF CallKind, RollsBack, CallExact, CallSaved, RestoredClean
<1>6. CallGrown'
  BY <1>0, <1>2, <1>3, <1>4 DEF CallGrown, RollsBack
<1>7. CallCurrent' /\ CallReverts'
  BY <1>0, <1>2, <1>3, <1>4 DEF CallCurrent, CallReverts, BeforeCommit, Recording
<1> QED BY <1>2, <1>5, <1>6, <1>7, StoreStill DEF CommitInv, CallParts

(* A trim spares the last edit, both its entries.                          *)
LEMMA TrimUndoReaches ==
  ASSUME NEW h \in Hists, HasCurrent(h), Limit >= 2, NEW s, UndoReaches(h, s)
  PROVE  UndoReaches(Trimmed(h), s)
<1> DEFINE n == TrimCount(h)
           c == h.cursor
           t == Trimmed(h)
<1>1. /\ n \in Nat /\ (n > 0 => n <= Len(h.entries) - Limit)
      /\ t.cursor = c - n /\ t.entries \in Seq(Entries)
      /\ Len(t.entries) = Len(h.entries) - n
      /\ \A i \in 1..(Len(h.entries) - n) : t.entries[i] = h.entries[i + n]
  BY TrimmedEntries
<1>2. c \in Nat /\ c >= 2 /\ c = Len(h.entries) /\ Limit \in Nat
  BY BoundsAssumption DEF Hists, UndoReaches
<1>3. ~IsPreview(h.entries[c]) /\ snaps[h.entries[c - 1].id] = s
  BY DEF UndoReaches
<1> HIDE DEF n, c, t
<1>4. c - n \in 1..(c - n) /\ (c - n) - 1 \in 1..(c - n) /\ c - n >= 2
      /\ (c - n) + n = c /\ ((c - n) - 1) + n = c - 1
  BY <1>1, <1>2
<1>5. t.entries[c - n] = h.entries[c] /\ t.entries[(c - n) - 1] = h.entries[c - 1]
  BY <1>1, <1>2, <1>4
<1>6. t.cursor >= 2 /\ t.cursor = Len(t.entries)
  BY <1>1, <1>2, <1>4
<1>7. ~IsPreview(t.entries[t.cursor]) /\ snaps[t.entries[t.cursor - 1].id] = s
  BY <1>1, <1>3, <1>5
<1> QED BY <1>6, <1>7 DEF UndoReaches, t

LEMMA StartCommitExact ==
  ASSUME CommitInv, IInv', StartCommit
  PROVE  CommitInv'
<1> DEFINE h == call.proj.hist
           t == Trimmed(h)
<1>0. call # Idle /\ call.at = "commit" /\ call.at \in BeforeCommit
  BY DEF StartCommit, At, Idle, BeforeCommit
<1>1. call \in Calls /\ call.proj \in Projects /\ h \in Hists /\ file.hist \in Hists
  BY <1>0, Running DEF CommitInv, IInv, TypeOK
<1>2. Sound(h) /\ ~Landed
  BY <1>0 DEF CommitInv, IInv, CallPhase, CallHistory, Landed, CommitStarted
<1>3. AdoptHist(call.proj.state, h) = h
  BY <1>2, SoundFilled
<1>4. /\ call'.at = "sync" /\ call'.kind = call.kind /\ call'.what = call.what
      /\ call'.proj.hist = t /\ call'.proj.state = call.proj.state /\ call'.pre = call.pre
      /\ call'.cpHist = call.cpHist /\ call'.revBefore = file.rev
      /\ UNCHANGED <<file, index, snaps, mem, opening, nextId>>
  BY <1>1, <1>3 DEF StartCommit, Calls, Projects
<1>5. /\ CallExact /\ CallGrown /\ CallCurrent /\ CallReverts /\ HasCurrent(file.hist)
  BY DEF CommitInv, CallParts, FileCursor
<1>6. HasCurrent(h) /\ HasCurrent(t) /\ Current(t) = Current(h)
  BY <1>0, <1>1, <1>5, TrimmedEntries DEF CallCurrent
<1>7. RollsBack' = RollsBack /\ Kept' = Kept
  BY <1>4 DEF RollsBack, Kept
<1>8. ~ReuseAfterError => BuildsOn(Kept, t.entries)
  <2> SUFFICES ASSUME ~ReuseAfterError PROVE BuildsOn(Kept, t.entries)
    OBVIOUS
  <2>1. CASE RollsBack
    <3>1. Grown(h, file.hist)
      BY <1>0, <1>5, <2>1 DEF CallGrown
    <3> QED BY <1>1, <1>2, <1>5, <2>1, <3>1, GrownTrims DEF Kept, Sound
  <2>2. CASE ~RollsBack
    <3>1. h.entries = file.hist.entries
      BY <1>0, <1>5, <2>2 DEF CallGrown
    <3>2. /\ TrimCount(h) \in Nat /\ TrimCount(h) < h.cursor /\ h.cursor <= Len(h.entries)
          /\ h.cursor \in Nat /\ Len(h.entries) \in Nat
      BY <1>1, <1>6, TrimmedEntries DEF HasCurrent, Hists
    <3>3. h.entries \in Seq(Entries)
      BY <1>1 DEF Hists
    <3>4. TrimCount(h) <= Len(h.entries)
      BY <3>2
    <3>5. BuildsOn(h.entries, t.entries)
      <4> DEFINE old == h.entries
      <4>1. old \in Seq(Entries) /\ Len(old) <= Len(h.entries) /\ TrimCount(h) <= Len(old)
        BY <3>2, <3>3, <3>4
      <4>2. \A i \in 1..Len(old) : old[i] = h.entries[i]
        OBVIOUS
      <4>3. h \in Hists /\ HasCurrent(h) /\ Distinct(h)
        BY <1>1, <1>2, <1>6 DEF Sound
      <4> HIDE DEF old, h
      <4>4. BuildsOn(old, t.entries)
        BY <4>1, <4>2, <4>3, TrimKeeps
      <4> QED BY <4>4 DEF old
    <3> QED BY <2>2, <3>1, <3>5 DEF Kept
  <2> QED BY <2>1, <2>2
<1>9. ASSUME Limit >= 2, UndoReaches(h, call.pre) PROVE UndoReaches(t, call.pre)
  BY <1>1, <1>6, <1>9, TrimUndoReaches
<1> HIDE DEF h, t
<1>10. CallKind' /\ CallSaved' /\ RestoredClean'
  BY <1>4 DEF CallKind, CallSaved, RestoredClean
<1>11. CallExact'
  BY <1>0, <1>2, <1>4, <1>5 DEF CallExact
<1>12. BuildsOn(Kept, call.proj.hist.entries)' <=> BuildsOn(Kept, t.entries)
  BY <1>4, <1>7
<1>13. CallGrown'
  BY <1>4, <1>8, <1>12 DEF CallGrown
<1>14. CallCurrent'
  BY <1>0, <1>4, <1>5, <1>6 DEF CallCurrent, h
<1>15. UndoReaches(call.proj.hist, call.pre)' <=> UndoReaches(t, call.pre)
  BY <1>4 DEF UndoReaches
<1>16. CallReverts'
  BY <1>0, <1>4, <1>5, <1>9, <1>15 DEF CallReverts, h
<1> QED BY <1>4, <1>10, <1>11, <1>13, <1>14, <1>16, StoreStill DEF CommitInv, CallParts

LEMMA SaveFileExact ==
  ASSUME CommitInv, IInv', SaveFile
  PROVE  CommitInv'
<1>0. call # Idle /\ call.at = "save"
  BY DEF SaveFile, At, Idle
<1>1. call \in Calls /\ file.rev \in Nat \ {0} /\ IInv
  BY <1>0, Running DEF CommitInv, IInv, TypeOK
<1>2. call.revBefore = file.rev /\ HasCurrent(call.proj.hist)
  BY <1>0, <1>1 DEF CommitInv, IInv, CallPhase, CallParts, CallCurrent
<1>3. /\ call'.at = "prune" /\ call'.revBefore = call.revBefore /\ call'.proj = call.proj
      /\ UNCHANGED <<index, snaps, mem, opening, nextId>>
      /\ file'.hist = call.proj.hist /\ file'.state = call.proj.state
      /\ file'.rev = file.rev + 1
  BY <1>1 DEF SaveFile, Calls
<1>4. Landed'
  BY <1>1, <1>2, <1>3 DEF Landed, CommitStarted, Unknown
<1>5. FileCursor'
  BY <1>2, <1>3 DEF FileCursor, HasCurrent
<1>6. MemExact'
  <2> SUFFICES ASSUME NEW w \in Ws, mem[w].open PROVE mem[w].sig # file.rev + 1
    BY <1>3 DEF MemExact
  <2>1. mem[w].sig \in Nat /\ mem[w].sig <= file.rev
    BY <1>1, MemTyped DEF IInv, MemCurrent
  <2> QED BY <1>1, <2>1
<1>7. ReadExact'
  <2> SUFFICES ASSUME NEW w \in Ws, opening[w].at = "read" PROVE opening[w].rev # file.rev + 1
    BY <1>3 DEF ReadExact
  <2>1. opening[w].rev \in Nat
    BY <1>1 DEF IInv, TypeOK, Readings, NotOpening
  <2>2. opening[w].rev <= file.rev
    BY <1>1 DEF IInv, ReadCurrent
  <2> QED BY <1>1, <2>1, <2>2
<1>8. CallKind' /\ CallGrown' /\ CallCurrent' /\ CallReverts' /\ RestoredClean'
  BY <1>3 DEF CallKind, CallGrown, CallCurrent, CallReverts, RestoredClean, BeforeCommit,
              Recording
<1>9. CallExact' /\ CallSaved'
  BY <1>3, <1>4 DEF CallExact, CallSaved
<1> QED BY <1>5, <1>6, <1>7, <1>8, <1>9 DEF CommitInv, CallParts

LEMMA PruneExact ==
  ASSUME CommitInv, IInv', PruneSnapshots
  PROVE  CommitInv'
<1>0. call # Idle /\ call.at = "prune"
  BY DEF PruneSnapshots, At, Idle
<1>1. call \in Calls
  BY <1>0, Running DEF CommitInv, IInv
<1>2. /\ call'.at = "mirror" /\ call'.pre = call.pre /\ call'.cpHist = call.cpHist
      /\ call'.revBefore = call.revBefore /\ call'.proj = call.proj
      /\ UNCHANGED <<file, mem, opening>>
  BY <1>1 DEF PruneSnapshots, Calls
<1> QED BY <1>0, <1>2, CallElsewhere

LEMMA MirrorExact ==
  ASSUME CommitInv, IInv', MirrorCache
  PROVE  CommitInv'
<1> DEFINE m == Open(call.proj, file.rev)
<1>0. call # Idle /\ call.at = "mirror"
  BY DEF MirrorCache, At, Idle
<1>1. call.ws \in Ws
  BY <1>0, Running DEF CommitInv, IInv
<1>2. file.hist = call.proj.hist /\ file.state = call.proj.state /\ HasCurrent(file.hist)
  BY <1>0 DEF CommitInv, IInv, CallPhase, CallParts, CallSaved, FileCursor
<1>3. mem' = [mem EXCEPT ![call.ws] = m] /\ call' = Idle /\ UNCHANGED <<file, opening>>
  BY DEF MirrorCache
<1>4. HasCurrent(m.hist) /\ m.state = file.state /\ m.hist = file.hist
  BY <1>2 DEF Open
<1> HIDE DEF m
<1> QED BY <1>1, <1>3, <1>4, MemorySet

LEMMA StepsExact ==
  ASSUME CommitInv, IInv', Steps
  PROVE  CommitInv'
<1>1. CASE IndexBefore
  <2>1. /\ call # Idle /\ call.at = "indexBefore" /\ UNCHANGED <<file, snaps, mem, opening>>
        /\ call' = [call EXCEPT !.at = "mutate"]
    BY <1>1 DEF IndexBefore, WriteIndex, At, Idle
  <2> QED BY <2>1, MovesOnExact
<1>2. CASE IndexAfter \/ IndexMove
  <2>1. /\ call # Idle /\ call.at \in {"indexAfter", "indexMove"}
        /\ UNCHANGED <<file, snaps, mem, opening>> /\ call' = [call EXCEPT !.at = "commit"]
    BY <1>2 DEF IndexAfter, IndexMove, WriteIndex, At, Idle
  <2> QED BY <2>1, MovesOnExact
<1>3. CASE SyncIndex
  <2>1. /\ call # Idle /\ call.at = "sync" /\ UNCHANGED <<file, snaps, mem, opening>>
        /\ call' = [call EXCEPT !.at = "save"]
    BY <1>3 DEF SyncIndex, At, Idle
  <2> QED BY <2>1, MovesOnExact
<1> QED BY <1>1, <1>2, <1>3, RecordBeforeExact, RecordAfterExact, MutateExact, StartCommitExact,
           SaveFileExact, PruneExact, MirrorExact DEF Steps

-----------------------------------------------------------------------------
(* Failures and rollback.                                                  *)
LEMMA RaiseExact ==
  ASSUME CommitInv, IInv', Raise
  PROVE  CommitInv'
<1>0. call # Idle
  BY DEF Raise, Writing, Recording, Idle
<1>1. call \in Calls
  BY <1>0, Running DEF CommitInv, IInv
<1>2. /\ call'.at = "rollback" /\ call'.pre = call.pre /\ call'.cpHist = call.cpHist
      /\ call'.revBefore = call.revBefore /\ call'.proj = call.proj
      /\ UNCHANGED <<file, mem, opening>>
  BY <1>1 DEF Raise, Calls
<1> QED BY <1>0, <1>2, CallElsewhere

LEMMA OutcomeExact ==
  ASSUME CommitInv, IInv', call # Idle,
         NEW label \in {"deleteOwn", "landed", "unknown", "kept", "rollbackFailed"},
         Outcome(label)
  PROVE  CommitInv'
<1>1. call \in Calls
  BY Running DEF CommitInv, IInv
<1>2. /\ call'.at = label /\ call'.pre = call.pre /\ call'.cpHist = call.cpHist
      /\ call'.revBefore = call.revBefore /\ call'.proj = call.proj
      /\ UNCHANGED <<file, mem, opening>>
  BY <1>1 DEF Outcome, Calls
<1> QED BY <1>2, CallElsewhere

LEMMA RollbackDeleteExact ==
  ASSUME CommitInv, IInv', RollbackDelete
  PROVE  CommitInv'
<1>0. call # Idle /\ call.at = "deleteOwn"
  BY DEF RollbackDelete, At, Idle
<1>1. call \in Calls /\ call.proj.hist \in Hists
  BY <1>0, Running DEF CommitInv, IInv
<1>2. /\ call'.at = "restored" /\ call'.revBefore = call.revBefore /\ call'.proj = call.proj
      /\ call'.cpHist = call.cpHist /\ call'.cpIndex = call.cpIndex /\ call'.pre = call.pre
      /\ UNCHANGED <<file, index, mem, opening, nextId>>
  BY <1>1 DEF RollbackDelete, Calls
<1>3. ~Landed /\ index = call.cpIndex
  BY <1>0 DEF CommitInv, IInv, CallPhase
<1>4. Landed' = Landed /\ OwnIds' = OwnIds
  BY <1>2 DEF Landed, CommitStarted, OwnIds, EntryIds
<1>5. \A id \in OwnIds : snaps'[id] = NoSnap
  <2>1. OwnIds \subseteq Ids
    BY <1>1, EntryIdsTyped DEF OwnIds
  <2> QED BY <2>1 DEF RollbackDelete
<1>6. RestoredClean'
  BY <1>2, <1>3, <1>4, <1>5 DEF RestoredClean
<1>7. CallExact'
  BY <1>0, <1>2, <1>4 DEF CommitInv, CallParts, CallExact
<1>8. CallKind' /\ CallGrown' /\ CallCurrent' /\ CallReverts' /\ CallSaved'
  BY <1>2 DEF CallKind, CallGrown, CallCurrent, CallReverts, CallSaved, BeforeCommit, Recording
<1> QED BY <1>2, <1>6, <1>7, <1>8, StoreStill DEF CommitInv, CallParts

(* A failed save forgets the revision; a failed move leaves the workspace  *)
(* at it only if it is used again.                                         *)
LEMMA RaisesExact ==
  ASSUME CommitInv, IInv', RaiseInSave \/ RaiseInMove \/ Settle
  PROVE  CommitInv'
<1>0. file.rev # Unknown
  BY DEF CommitInv, IInv, TypeOK, Unknown
<1>1. call # Idle
  BY DEF RaiseInSave, RaiseInMove, Settle, Writing, Recording, At, Idle
<1>2. call.ws \in Ws
  BY <1>1, Running DEF CommitInv, IInv
<1>3. call' = Idle /\ UNCHANGED <<file, opening>>
  BY DEF RaiseInSave, RaiseInMove, Settle
<1>4. CASE RaiseInSave
  <2> DEFINE m == IF call.kind = "move" THEN AfterMoveError(call.proj, Unknown)
                                        ELSE Open(call.proj, Unknown)
  <2>1. mem' = [mem EXCEPT ![call.ws] = m]
    BY <1>4 DEF RaiseInSave
  <2>2. m.open => m.sig # file.rev
    BY <1>0 DEF AfterMoveError, Open, Closed
  <2> HIDE DEF m
  <2> QED BY <1>2, <1>3, <2>1, <2>2, MemorySet
<1>5. CASE RaiseInMove
  <2> DEFINE m == AfterMoveError(call.proj, file.rev)
  <2>1. mem' = [mem EXCEPT ![call.ws] = m] /\ call.at \in BeforeCommit
    BY <1>5 DEF RaiseInMove, At, BeforeCommit
  <2>2. m.open => ReuseAfterError /\ m.hist = call.proj.hist
    BY DEF AfterMoveError, Open, Closed
  <2>3. HasCurrent(call.proj.hist)
    BY <2>1 DEF CommitInv, CallParts, CallCurrent
  <2> HIDE DEF m
  <2> QED BY <1>2, <1>3, <2>1, <2>2, <2>3, MemorySet
<1>6. CASE Settle
  <2>1. PICK q : mem' = [mem EXCEPT ![call.ws] = Open(q, Unknown)]
    BY <1>6 DEF Settle
  <2> DEFINE m == Open(q, Unknown)
  <2>2. mem' = [mem EXCEPT ![call.ws] = m] /\ m.sig # file.rev
    BY <1>0, <2>1 DEF Open
  <2> HIDE DEF m
  <2> QED BY <1>2, <1>3, <2>2, MemorySet
<1> QED BY <1>4, <1>5, <1>6

LEMMA FailuresExact ==
  ASSUME CommitInv, IInv', Failures
  PROVE  CommitInv'
<1>1. CASE \/ RollbackLanded \/ RollbackUnknown \/ RollbackIndex \/ RollbackKept
           \/ RollbackRaises
  <2>1. call # Idle
    BY <1>1 DEF RollbackLanded, RollbackUnknown, RollbackIndex, RollbackKept, RollbackRaises,
                At, Idle
  <2>2. \E label \in {"deleteOwn", "landed", "unknown", "kept", "rollbackFailed"} :
          Outcome(label)
    BY <1>1 DEF RollbackLanded, RollbackUnknown, RollbackIndex, RollbackKept, RollbackRaises
  <2> QED BY <2>1, <2>2, OutcomeExact
<1> QED BY <1>1, RaiseExact, RollbackDeleteExact, RaisesExact DEF Failures

LEMMA CrashExact ==
  ASSUME CommitInv, IInv', NEW w \in Ws, Crash(w)
  PROVE  CommitInv'
<1>1. UNCHANGED <<file, index>>
  BY DEF Crash
<1>2. /\ \A v \in Ws : mem'[v] = mem[v] \/ mem'[v] = Closed
      /\ \A v \in Ws : opening'[v] = opening[v] \/ opening'[v] = NotOpening
  BY DEF Crash, CommitInv, IInv, TypeOK
<1>3. FileCursor' /\ MemExact' /\ ReadExact'
  BY <1>1, <1>2 DEF CommitInv, FileCursor, MemExact, ReadExact, Saved, Closed, NotOpening
<1>4. CASE call' = Idle
  BY <1>3, <1>4, NoCall DEF CommitInv
<1>5. CASE UNCHANGED <<call, snaps, nextId>>
  BY <1>1, <1>3, <1>5, CallStill DEF CommitInv
<1> QED BY <1>4, <1>5 DEF Crash

LEMMA InitExact ==
  ASSUME Init, ~Legacy
  PROVE  CommitInv
<1>1. IInv
  BY InitSound
<1>2. file.hist = InitialHist
  BY DEF Init
<1>3. FileCursor
  BY <1>2 DEF FileCursor, HasCurrent, InitialHist
<1>4. MemExact /\ ReadExact
  BY DEF Init, MemExact, ReadExact, Closed, NotOpening
<1>5. CallParts
  BY DEF Init, CallParts, CallKind, CallExact, CallGrown, CallCurrent, CallReverts, CallSaved,
         RestoredClean, Idle, BeforeCommit, Recording
<1> QED BY <1>1, <1>3, <1>4, <1>5 DEF CommitInv

LEMMA CommitInvNext == CommitInv /\ IInv' /\ [Next]_vars => CommitInv'
<1> SUFFICES ASSUME CommitInv, IInv', [Next]_vars PROVE CommitInv'
  OBVIOUS
<1>1. CASE UNCHANGED vars
  BY <1>1, StoreStill, CallStill DEF vars, CommitInv
<1>2. CASE DamageIndex
  <2>1. call' = Idle /\ UNCHANGED <<file, mem, opening>>
    BY <1>2 DEF DamageIndex
  <2> QED BY <2>1, StoreStill, NoCall DEF CommitInv
<1> QED BY <1>1, <1>2, OpensExact, BeginsExact, CrashExact, StepsExact, FailuresExact DEF Next

LEMMA CommitInvAlways == ASSUME ~Legacy PROVE Spec => []CommitInv
<1>1. Init => CommitInv
  BY InitExact
<1> QED BY <1>1, CommitInvNext, IInvAlways, PTL DEF Spec

-----------------------------------------------------------------------------
(* Only the replacement of episode.sharecut changes what is saved.         *)
LEMMA OnlySaves == Next /\ file' # file => SaveFile
BY DEF Next, Opens, OpenStat, OpenRead, OpenAdopt, OpenRaises, Begins, BeginMutate, BeginRecord,
       BeginFree, Undo, Redo, Goto, RefuseUndo, Crash, Steps, RecordBefore, RecordAfter,
       RecordEntry, IndexBefore, IndexAfter, IndexMove, WriteIndex, Mutate, StartCommit,
       SyncIndex, PruneSnapshots, MirrorCache, Failures, Raise, RaiseInSave, RaiseInMove,
       RollbackLanded, RollbackUnknown, RollbackIndex, RollbackKept, RollbackRaises, Outcome,
       RollbackDelete, Settle, DamageIndex

LEMMA WhatSaves ==
  ASSUME CommitInv, [Next]_vars, file' # file
  PROVE  /\ call # Idle /\ call.at = "save" /\ ~Landed
         /\ file'.state = call.proj.state /\ file'.hist = call.proj.hist
<1>1. SaveFile
  BY OnlySaves DEF vars
<1>2. call # Idle /\ call.at = "save"
  BY <1>1 DEF SaveFile, At, Idle
<1>3. call.revBefore = file.rev
  BY <1>2 DEF CommitInv, IInv, CallPhase
<1> QED BY <1>1, <1>2, <1>3 DEF SaveFile, Landed

(* A commit saves the saved project, changed by the call alone: what       *)
(* another workspace committed since the call's workspace last read the    *)
(* project is never overwritten, and a trim takes the oldest entries, past *)
(* the limit only, and no half of an edit without the other.  A workspace  *)
(* kept after a failed move may save what it holds (README, store_reuse).  *)
THEOREM CommitsBuildOnSaved ==
  ASSUME ~Legacy, ~ReuseAfterError PROVE Spec => CommitBuildsOnSaved
<1>1. CommitInv /\ [Next]_vars =>
        (file' # file => call.pre = file.state /\ BuildsOn(Kept, file'.hist.entries))
  BY WhatSaves DEF CommitInv, CallParts, CallExact, CallGrown
<1> QED BY <1>1, CommitInvAlways, PTL DEF Spec, CommitBuildsOnSaved

(* A commit that records or moves saves the state its current entry        *)
(* snapshots, for every limit, however its entries were deduplicated.      *)
THEOREM CursorSnapshotsSaved == ASSUME ~Legacy PROVE Spec => CursorHoldsSavedState
<1>1. CommitInv /\ [Next]_vars =>
        ((file' # file /\ call.kind # "free") => Matches(file'.state, file'.hist))
  <2> SUFFICES ASSUME CommitInv, [Next]_vars, file' # file, call.kind # "free"
               PROVE  Matches(call.proj.state, call.proj.hist)
    BY WhatSaves
  <2>1. call # Idle /\ call.at = "save"
    BY WhatSaves
  <2>2. HasCurrent(call.proj.hist) /\ snaps[Current(call.proj.hist).id] = call.proj.state
    BY <2>1 DEF CommitInv, CallParts, CallCurrent
  <2>3. call.proj.state \in States
    BY <2>1, Running DEF CommitInv, IInv
  <2> QED BY <2>2, <2>3 DEF Matches, Readable
<1> QED BY <1>1, CommitInvAlways, PTL DEF Spec, CursorHoldsSavedState

(* One Undo after an edit lands applies the snapshot of the state saved    *)
(* before it.  A limit of one entry would trim that snapshot away; the     *)
(* code's is 400.                                                          *)
THEOREM UndoReverts ==
  ASSUME ~Legacy, ~ReuseAfterError, Limit >= 2 PROVE Spec => OneUndoRevertsEdit
<1>1. CommitInv /\ [Next]_vars =>
        ((/\ file' # file /\ call.kind = "mutate" /\ call.what # Preview
          /\ file'.state # file.state) =>
           /\ CanUndo(file'.hist)
           /\ \A i \in 2..file'.hist.cursor :
                IsUndoOrigin(file'.hist, i) =>
                  snaps[file'.hist.entries[i-1].id] = file.state)
  <2> SUFFICES ASSUME CommitInv, [Next]_vars, file' # file, call.kind = "mutate",
                      call.what # Preview, file'.state # file.state
               PROVE  /\ CanUndo(file'.hist)
                      /\ \A i \in 2..file'.hist.cursor :
                           IsUndoOrigin(file'.hist, i) =>
                             snaps[file'.hist.entries[i-1].id] = file.state
    OBVIOUS
  <2> DEFINE h == call.proj.hist
  <2>1. /\ call # Idle /\ call.at = "save" /\ ~Landed
        /\ file'.state = call.proj.state /\ file'.hist = h
    BY WhatSaves
  <2>2. call.pre = file.state
    BY <2>1 DEF CommitInv, CallParts, CallExact
  <2>3. UndoReaches(h, file.state)
    BY <2>1, <2>2 DEF CommitInv, CallParts, CallReverts
  <2>4. h.cursor \in Nat
    BY <2>1, Running DEF CommitInv, IInv, Hists
  <2> HIDE DEF h
  <2>5. CanUndo(h)
    BY <2>3, <2>4 DEF CanUndo, UndoReaches
  <2>6. ASSUME NEW i \in 2..h.cursor, IsUndoOrigin(h, i) PROVE i = h.cursor
    BY <2>3, <2>4, <2>6 DEF IsUndoOrigin, UndoReaches
  <2> QED BY <2>1, <2>3, <2>5, <2>6 DEF UndoReaches
<1> QED BY <1>1, CommitInvAlways, PTL DEF Spec, OneUndoRevertsEdit

(* A mutation or record that failed before its commit landed, and was      *)
(* rolled back, leaves the index and the saved project as they were, every *)
(* entry it found readable, and no snapshot of its own entries.            *)
THEOREM FailedCallLeavesNothing ==
  ASSUME ~Legacy, ~ReuseAfterError PROVE Spec => []FailureLeavesNothing
<1>1. CommitInv => FailureLeavesNothing
  <2> SUFFICES ASSUME CommitInv, call.at = "restored"
               PROVE  /\ index = call.cpIndex /\ file.state = call.pre
                      /\ \A id \in EntryIds(call.cpHist) : Readable(id)
                      /\ \A id \in OwnIds : snaps[id] = NoSnap
    BY DEF FailureLeavesNothing
  <2>1. /\ call # Idle /\ ~Landed /\ index = call.cpIndex
        /\ \A id \in OwnIds : snaps[id] = NoSnap
    BY DEF CommitInv, CallParts, RestoredClean, Idle
  <2>2. call.pre = file.state /\ call.cpHist = file.hist
    BY <2>1 DEF CommitInv, CallParts, CallExact
  <2>3. \A id \in EntryIds(file.hist) : Readable(id)
    BY DEF CommitInv, IInv, SavedSound, Sound, Whole
  <2> QED BY <2>1, <2>2, <2>3
<1> QED BY <1>1, CommitInvAlways, PTL
=============================================================================
