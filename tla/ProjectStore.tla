---------------------------- MODULE ProjectStore ----------------------------
(***************************************************************************)
(* How a workspace commits one project: episode.sharecut, the history      *)
(* index beside it (history/index.json) and one snapshot file per history  *)
(* entry, written by run_mutation, record_snapshot, the undo/redo/goto     *)
(* moves and history-free saves, each under project_commit_lock.           *)
(*                                                                         *)
(* A workspace is one ProjectWorkspace of some process; it may die between *)
(* any two disk writes, and any step of a call may raise.  The lock makes  *)
(* writers take turns, so one variable holds the call in progress; opening *)
(* a project takes no lock and interleaves with it.                        *)
(***************************************************************************)
EXTENDS History

CONSTANTS Ws,               \* workspaces
          States,           \* editable states of the project
          Edits,            \* what a mutation may be, besides a preview render
          Kinds,            \* the kinds of call enabled
          Legacy,           \* may the project have been saved without history?
          ReuseAfterError,  \* is a workspace used again after a move raised?
          Damage,           \* may something outside damage the index?
          MaxId,            \* bound: entry ids (uuid4) ever generated
          MaxRev,           \* bound: replacements of episode.sharecut
          NoIndex,          \* history/index.json does not exist
          Damaged,          \* history/index.json is not readable JSON
          NoSnap,           \* no snapshot file
          Torn              \* a snapshot file whose write was cut short

AllKinds == {"mutate", "record", "move", "free"}

ASSUME BoundsAssumption == {MaxId, Limit} \subseteq Nat \ {0} /\ MaxRev \in Nat
ASSUME KindsAssumption ==
  Kinds \subseteq AllKinds /\ {Legacy, ReuseAfterError, Damage} \subseteq BOOLEAN
ASSUME AbsentAssumption ==
  /\ NoSnap \notin States /\ Torn \notin States
  /\ Preview \notin Edits /\ "initial" \notin Edits

VARIABLES
  file,     \* episode.sharecut: its editable state, its history, its revision
  index,    \* history/index.json
  snaps,    \* history/snapshots: entry id -> what its file holds
  mem,      \* workspace -> project in memory and the revision it was read at
  opening,  \* workspace -> a read of the project in progress
  call,     \* the call that holds project_commit_lock
  nextId    \* the next entry id

vars == <<file, index, snaps, mem, opening, call, nextId>>

Ids     == 1..MaxId
Whats   == Edits \cup {Preview, "initial"}
Entries == [id : Ids, when : Whens, what : Whats]
Hists   == [cursor : Nat, entries : Seq(Entries)]
Projects == [state : States, hist : Hists]

Closed     == [open |-> FALSE]
NotOpening == [at |-> "no"]
Idle       == [at |-> "idle"]
Unknown    == 0           \* no loaded file revision

Readable(id) == snaps[id] \in States
Listed       == IF index \in {NoIndex, Damaged} THEN {} ELSE EntryIds(index)

-----------------------------------------------------------------------------
(* match_history_to_project: the index's current entry snapshots the state *)
Matches(state, h) ==
  HasCurrent(h) /\ Readable(Current(h).id) /\ snaps[Current(h).id] = state

(* adopt_history_index: an empty history is filled from a matching index   *)
Adopts(state, h) ==
  /\ IsEmpty(h)
  /\ index \notin {NoIndex, Damaged}
  /\ ~IsEmpty(index)
  /\ Matches(state, index)

AdoptHist(state, h) == IF Adopts(state, h) THEN index ELSE h

(* reading the index raises when it is needed and damaged                  *)
IndexRaises(h) == IsEmpty(h) /\ index = Damaged

Loaded(p) == [state |-> p.state, hist |-> AdoptHist(p.state, p.hist)]

Saved == [state |-> file.state, hist |-> file.hist]

(* ProjectWorkspace.transaction, entered by w: the project it works on.    *)
InMemory(w) == [state |-> mem[w].state, hist |-> mem[w].hist]

(* Mutant: the workspace trusts its memory, whatever was saved since.      *)
BaseInMemory(w) == InMemory(w)

Base(w)     == IF mem[w].sig = file.rev THEN InMemory(w) ELSE Loaded(Saved)

CanEnter(w) ==
  /\ call = Idle
  /\ mem[w].open
  /\ file.rev < MaxRev
  /\ mem[w].sig = file.rev \/ ~IndexRaises(file.hist)

Open(p, sig) == [open |-> TRUE, state |-> p.state, hist |-> p.hist, sig |-> sig]

(* Mutant: an unreadable index is remembered as it is.                     *)
CheckpointDamaged(h) == index

(* take_history_checkpoint under OWNED_WRITES                              *)
CheckpointIndex(h) == IF index = Damaged THEN h ELSE index

NewCall(w, kind, what, at, p, h) ==
  [at |-> at, ws |-> w, kind |-> kind, what |-> what, force |-> FALSE,
   proj |-> [p EXCEPT !.hist = h], pre |-> p.state,
   cpHist |-> h, cpIndex |-> CheckpointIndex(h), own |-> {},
   revBefore |-> Unknown, pruned |-> {}]

-----------------------------------------------------------------------------
InitialHist == [cursor |-> 1,
                entries |-> <<[id |-> 1, when |-> "mark", what |-> "initial"]>>]

(* ProjectWorkspace.create ran to its end; or, where Legacy, the project   *)
(* was saved before any entry was recorded.                                *)
Init ==
  /\ \E s \in States :
       \/ /\ file  = [state |-> s, hist |-> InitialHist, rev |-> 1]
          /\ index = InitialHist
          /\ snaps = [id \in Ids |-> IF id = 1 THEN s ELSE NoSnap]
          /\ nextId = 2
       \/ /\ Legacy
          /\ file  = [state |-> s, hist |-> EmptyHist, rev |-> 1]
          /\ index \in {NoIndex, EmptyHist}
          /\ snaps = [id \in Ids |-> NoSnap]
          /\ nextId = 1
  /\ mem     = [w \in Ws |-> Closed]
  /\ opening = [w \in Ws |-> NotOpening]
  /\ call    = Idle

-----------------------------------------------------------------------------
(* ProjectWorkspace.open, no lock: stat, read the project, then the index  *)
(* and its current snapshot, and stat again.                               *)
OpenStat(w) ==
  /\ ~mem[w].open /\ opening[w] = NotOpening
  /\ opening' = [opening EXCEPT ![w] = [at |-> "stat", rev |-> file.rev]]
  /\ UNCHANGED <<file, index, snaps, mem, call, nextId>>

OpenRead(w) ==
  /\ opening[w].at = "stat"
  /\ opening' = [opening EXCEPT ![w] =
                   [at |-> "read", rev |-> opening[w].rev, proj |-> Saved]]
  /\ UNCHANGED <<file, index, snaps, mem, call, nextId>>

(* Mutant: the revision is that of the file after the read.                *)
OpenAdoptLate(w) ==
  /\ opening[w].at = "read"
  /\ ~IndexRaises(opening[w].proj.hist)
  /\ mem' = [mem EXCEPT ![w] = Open(Loaded(opening[w].proj), file.rev)]
  /\ opening' = [opening EXCEPT ![w] = NotOpening]
  /\ UNCHANGED <<file, index, snaps, call, nextId>>

OpenAdopt(w) ==
  /\ opening[w].at = "read"
  /\ ~IndexRaises(opening[w].proj.hist)
  /\ mem' = [mem EXCEPT ![w] =
               Open(Loaded(opening[w].proj),
                    IF file.rev = opening[w].rev THEN file.rev ELSE Unknown)]
  /\ opening' = [opening EXCEPT ![w] = NotOpening]
  /\ UNCHANGED <<file, index, snaps, call, nextId>>

OpenRaises(w) ==
  /\ opening[w].at = "read"
  /\ IndexRaises(opening[w].proj.hist)
  /\ opening' = [opening EXCEPT ![w] = NotOpening]
  /\ UNCHANGED <<file, index, snaps, mem, call, nextId>>

-----------------------------------------------------------------------------
(* ProjectWorkspace.mutate -> run_mutation, up to record(before).  A       *)
(* damaged index is rewritten from an empty history first.                 *)
BeginMutate(w, what) ==
  /\ "mutate" \in Kinds
  /\ CanEnter(w)
  /\ nextId <= MaxId
  /\ LET p == Base(w)
         h == AdoptHist(p.state, p.hist)
     IN  /\ call' = NewCall(w, "mutate", what, "recordBefore", p, h)
         /\ index' = IF IndexRaises(p.hist) THEN h ELSE index
  /\ UNCHANGED <<file, snaps, mem, opening, nextId>>

(* ProjectWorkspace.record_snapshot                                        *)
BeginRecord(w, force) ==
  /\ "record" \in Kinds
  /\ CanEnter(w)
  /\ nextId <= MaxId
  /\ LET p == Base(w)
         h == AdoptHist(p.state, p.hist)
     IN  /\ call' = [NewCall(w, "record", "initial", "recordAfter", p, h)
                       EXCEPT !.force = force]
         /\ index' = IF IndexRaises(p.hist) THEN h ELSE index
  /\ UNCHANGED <<file, snaps, mem, opening, nextId>>

(* with ws.transaction(): change the project; ws.save()                    *)
BeginFree(w, state) ==
  /\ "free" \in Kinds
  /\ CanEnter(w)
  /\ LET p == Base(w)
     IN  call' = [NewCall(w, "free", "initial", "commit", p, p.hist)
                    EXCEPT !.proj.state = state]
  /\ UNCHANGED <<file, index, snaps, mem, opening, nextId>>

(* Mutant: the cursor moves, the snapshot is not applied.                  *)
BeginMoveKeepingState(w, p, h, i) ==
  /\ i \in DOMAIN h.entries
  /\ Readable(h.entries[i].id)
  /\ call' = NewCall(w, "move", "initial", "indexMove",
                     [p EXCEPT !.hist = MovedTo(h, i)], h)

(* _undo_locked, _redo_locked and _goto_locked up to the index write: the  *)
(* cursor lands on entry i and its snapshot is applied.                    *)
BeginMove(w, p, h, i) ==
  /\ i \in DOMAIN h.entries
  /\ Readable(h.entries[i].id)
  /\ call' = [NewCall(w, "move", "initial", "indexMove", p, h)
                EXCEPT !.proj = [state |-> snaps[h.entries[i].id],
                                 hist  |-> MovedTo(h, i)]]

CanMove(w) == "move" \in Kinds /\ CanEnter(w) /\ ~IndexRaises(Base(w).hist)

MoveHist(w) == AdoptHist(Base(w).state, Base(w).hist)

(* expected = 0: the caller named no head *)
GuardedHead(h, expected) == expected = 0 \/ IsHead(h, expected)

Undo(w, expected) ==
  /\ CanMove(w)
  /\ BehindRenderOnly(MoveHist(w), expected) \/ GuardedHead(MoveHist(w), expected)
  /\ CanUndo(MoveHist(w))
  /\ \E i \in 2..MoveHist(w).cursor :
        /\ IsUndoOrigin(MoveHist(w), i)
        /\ BeginMove(w, Base(w), MoveHist(w), i - 1)
  /\ UNCHANGED <<file, index, snaps, mem, opening, nextId>>

Redo(w, expected) ==
  /\ CanMove(w)
  /\ GuardedHead(MoveHist(w), expected)
  /\ CanRedo(MoveHist(w))
  /\ BeginMove(w, Base(w), MoveHist(w), MoveHist(w).cursor + 1)
  /\ UNCHANGED <<file, index, snaps, mem, opening, nextId>>

Goto(w, i) ==
  /\ CanMove(w)
  /\ BeginMove(w, Base(w), MoveHist(w), i)
  /\ UNCHANGED <<file, index, snaps, mem, opening, nextId>>

(* After a move raised, the request ends and its workspace is dropped;     *)
(* a caller that keeps the workspace keeps what memory holds.              *)
AfterMoveError(p, sig) == IF ReuseAfterError THEN Open(p, sig) ELSE Closed

(* "Nothing to undo" is raised after the cursor skipped the previews.      *)
RefuseUndo(w) ==
  /\ CanMove(w)
  /\ MoveHist(w).cursor > 1
  /\ ~CanUndo(MoveHist(w))
  /\ mem' = [mem EXCEPT ![w] =
        AfterMoveError([state |-> Base(w).state, hist |-> MovedTo(MoveHist(w), 1)],
                       file.rev)]
  /\ UNCHANGED <<file, index, snaps, opening, call, nextId>>

-----------------------------------------------------------------------------
(* _record_locked up to the index write: reuse the current entry, or write *)
(* a snapshot under a new id and append its entry in memory.               *)
At(label) == call.at = label

(* Mutant: the current entry is reused without comparing its snapshot.     *)
RecordEntryReusing(when, onSame, onNew) ==
  /\ HasCurrent(call.proj.hist)
  /\ call' = [call EXCEPT !.at = onSame]
  /\ UNCHANGED <<file, index, snaps, mem, opening, nextId>>

RecordEntry(when, onSame, onNew) ==
  LET p == call.proj
      h == p.hist
      same == ~call.force /\ HasCurrent(h) /\ snaps[Current(h).id] = p.state
      e == [id |-> nextId, when |-> when, what |-> call.what]
  IN  /\ (~call.force /\ HasCurrent(h)) => Readable(Current(h).id)
      /\ \/ /\ same
            /\ call' = [call EXCEPT !.at = onSame]
            /\ UNCHANGED <<snaps, nextId>>
         \/ /\ ~same
            /\ nextId \in Ids
            /\ snaps' = [snaps EXCEPT ![nextId] = p.state]
            /\ nextId' = nextId + 1
            /\ call' = [call EXCEPT !.at = onNew, !.proj.hist = Recorded(h, e)]
      /\ UNCHANGED <<file, index, mem, opening>>

(* _save_index *)
WriteIndex(next) ==
  /\ index' = call.proj.hist
  /\ call' = [call EXCEPT !.at = next]
  /\ UNCHANGED <<file, snaps, mem, opening, nextId>>

(* Mutant: nothing is recorded before a mutation.                          *)
RecordBeforeSkipped ==
  /\ At("recordBefore")
  /\ call' = [call EXCEPT !.at = "mutate"]
  /\ UNCHANGED <<file, index, snaps, mem, opening, nextId>>

RecordBefore == At("recordBefore") /\ RecordEntry("before", "mutate", "indexBefore")
IndexBefore  == At("indexBefore")  /\ WriteIndex("mutate")

(* the mutation itself; the history as record(before) left it is the       *)
(* payload remembered in own_indexes                                       *)
Mutate(state) ==
  /\ At("mutate")
  /\ call' = [call EXCEPT !.at = "recordAfter", !.proj.state = state,
                          !.own = {call.proj.hist}]
  /\ UNCHANGED <<file, index, snaps, mem, opening, nextId>>

RecordAfter ==
  /\ At("recordAfter")
  /\ RecordEntry(IF call.kind = "record" THEN "mark" ELSE "after",
                 "commit", "indexAfter")

IndexAfter == At("indexAfter") /\ WriteIndex("commit")
IndexMove  == At("indexMove")  /\ WriteIndex("commit")

-----------------------------------------------------------------------------
(* ProjectStore.commit: adopt and trim in memory, publish the index, then  *)
(* the project file, then delete the snapshots of the trimmed entries.     *)
StartCommit ==
  /\ At("commit")
  /\ LET h == AdoptHist(call.proj.state, call.proj.hist)
     IN  call' = [call EXCEPT !.at = "sync", !.revBefore = file.rev,
                              !.proj.hist = Trimmed(h), !.pruned = PrunedIds(h)]
  /\ UNCHANGED <<file, index, snaps, mem, opening, nextId>>

(* Mutant: pruned snapshots go as the index is published.                  *)
SyncIndexPruning ==
  /\ At("sync")
  /\ index' = call.proj.hist
  /\ snaps' = [id \in Ids |-> IF id \in call.pruned THEN NoSnap ELSE snaps[id]]
  /\ call' = [call EXCEPT !.at = "save"]
  /\ UNCHANGED <<file, mem, opening, nextId>>

SyncIndex ==
  /\ At("sync")
  /\ index' = call.proj.hist
  /\ call' = [call EXCEPT !.at = "save"]
  /\ UNCHANGED <<file, snaps, mem, opening, nextId>>

SaveFile ==
  /\ At("save")
  /\ file' = [state |-> call.proj.state, hist |-> call.proj.hist, rev |-> file.rev + 1]
  /\ call' = [call EXCEPT !.at = "prune"]
  /\ UNCHANGED <<index, snaps, mem, opening, nextId>>

PruneSnapshots ==
  /\ At("prune")
  /\ snaps' = [id \in Ids |-> IF id \in call.pruned THEN NoSnap ELSE snaps[id]]
  /\ call' = [call EXCEPT !.at = "mirror"]
  /\ UNCHANGED <<file, index, mem, opening, nextId>>

(* _mirror_transcript_cache, and the call returns: memory is the file.     *)
MirrorCache ==
  /\ At("mirror")
  /\ mem' = [mem EXCEPT ![call.ws] = Open(call.proj, file.rev)]
  /\ call' = Idle
  /\ UNCHANGED <<file, index, snaps, opening, nextId>>

-----------------------------------------------------------------------------
(* A step raises before its write takes effect.                            *)
Recording == {"recordBefore", "recordAfter"}
Writing   == Recording \cup {"indexBefore", "mutate", "indexAfter", "commit",
                             "sync", "save", "prune", "mirror"}

(* write_text is not atomic: a snapshot cut short may stay behind.         *)
LeavesTorn ==
  \/ UNCHANGED <<snaps, nextId>>
  \/ /\ call.at \in Recording /\ nextId \in Ids
     /\ snaps' = [snaps EXCEPT ![nextId] = Torn]
     /\ nextId' = nextId + 1

RollsBack == call.kind \in {"mutate", "record"}

Raise ==
  /\ call.at \in Writing /\ RollsBack
  /\ LeavesTorn
  /\ call' = [call EXCEPT !.at = "rollback"]
  /\ UNCHANGED <<file, index, mem, opening>>

(* Mutant: a failed save keeps the loaded revision.                        *)
RaiseInSaveRemembering ==
  /\ call.at \in Writing /\ ~RollsBack
  /\ mem' = [mem EXCEPT ![call.ws] =
        IF call.kind = "move" THEN AfterMoveError(call.proj, file.rev)
                              ELSE Open(call.proj, file.rev)]
  /\ call' = Idle
  /\ UNCHANGED <<file, index, snaps, opening, nextId>>

(* save() forgets the loaded revision before it re-raises *)
RaiseInSave ==
  /\ call.at \in Writing /\ ~RollsBack
  /\ mem' = [mem EXCEPT ![call.ws] =
        IF call.kind = "move" THEN AfterMoveError(call.proj, Unknown)
                              ELSE Open(call.proj, Unknown)]
  /\ call' = Idle
  /\ UNCHANGED <<file, index, snaps, opening, nextId>>

(* apply_undo/redo/goto raise before save(): the revision is not forgotten *)
RaiseInMove ==
  /\ At("indexMove")
  /\ mem' = [mem EXCEPT ![call.ws] = AfterMoveError(call.proj, file.rev)]
  /\ call' = Idle
  /\ UNCHANGED <<file, index, snaps, opening, nextId>>

-----------------------------------------------------------------------------
(* roll_back_history *)
CommitStarted == call.revBefore # Unknown
Landed        == CommitStarted /\ file.rev # call.revBefore

(* Mutant: every entry the call holds counts as its own.                   *)
OwnIdsOfAll == EntryIds(call.proj.hist)

OwnIds     == EntryIds(call.proj.hist) \ EntryIds(call.cpHist)
OwnIndexes == call.own \cup {call.proj.hist}

Outcome(label) ==
  /\ call' = [call EXCEPT !.at = label]
  /\ UNCHANGED <<file, snaps, mem, opening, nextId>>

RollbackLanded ==
  /\ At("rollback") /\ Landed
  /\ Outcome("landed") /\ UNCHANGED index

(* the project file cannot be stat'ed *)
RollbackUnknown ==
  /\ At("rollback") /\ CommitStarted
  /\ Outcome("unknown") /\ UNCHANGED index

(* rollback_own_history: the index is as it was, or a payload of this call *)
RollbackIndex ==
  /\ At("rollback") /\ ~Landed
  /\ index # Damaged
  /\ index \in {call.cpIndex} \cup OwnIndexes
  /\ index' = call.cpIndex
  /\ Outcome("deleteOwn")

(* Mutant: the rollback takes the trimmed snapshots with it.               *)
RollbackDeletePruned ==
  /\ At("deleteOwn")
  /\ snaps' = [id \in Ids |-> IF id \in OwnIds \cup call.pruned THEN NoSnap ELSE snaps[id]]
  /\ call' = [call EXCEPT !.at = "restored"]
  /\ UNCHANGED <<file, index, mem, opening, nextId>>

RollbackDelete ==
  /\ At("deleteOwn")
  /\ snaps' = [id \in Ids |-> IF id \in OwnIds THEN NoSnap ELSE snaps[id]]
  /\ call' = [call EXCEPT !.at = "restored"]
  /\ UNCHANGED <<file, index, mem, opening, nextId>>

RollbackKept ==
  /\ At("rollback") /\ ~Landed
  /\ index # Damaged
  /\ index \notin {call.cpIndex} \cup OwnIndexes
  /\ Outcome("kept") /\ UNCHANGED index

(* the rollback itself raises: reading a damaged index, or any write *)
RollbackRaises ==
  /\ call.at \in {"rollback", "deleteOwn"} /\ ~Landed
  /\ Outcome("rollbackFailed") /\ UNCHANGED index

(* _history_on_disk *)
HistoryOnDisk ==
  IF \/ index \in {NoIndex, Damaged}
     \/ IsEmpty(call.cpHist) /\ ~IsEmpty(index) /\ ~Matches(file.state, index)
  THEN call.cpHist ELSE index

(* on_not_landed puts the editable state back; mutate forgets the revision *)
Settle ==
  /\ call.at \in {"landed", "unknown", "restored", "kept", "rollbackFailed"}
  /\ mem' = [mem EXCEPT ![call.ws] =
        Open(CASE call.at = "landed" -> call.proj
               [] call.at \in {"unknown", "restored"} ->
                    [state |-> call.pre, hist |-> call.cpHist]
               [] OTHER -> [state |-> call.pre, hist |-> HistoryOnDisk],
             Unknown)]
  /\ call' = Idle
  /\ UNCHANGED <<file, index, snaps, opening, nextId>>

-----------------------------------------------------------------------------
(* The process of w dies, or drops the workspace; the OS frees its lock.   *)
Crash(w) ==
  /\ mem[w].open \/ opening[w] # NotOpening
  /\ mem' = [mem EXCEPT ![w] = Closed]
  /\ opening' = [opening EXCEPT ![w] = NotOpening]
  /\ IF call # Idle /\ call.ws = w
     THEN call' = Idle /\ LeavesTorn
     ELSE UNCHANGED <<call, snaps, nextId>>
  /\ UNCHANGED <<file, index>>

(* Something outside the program damages the index (no write of its own    *)
(* can: the replace is atomic).                                            *)
DamageIndex ==
  /\ Damage
  /\ call = Idle
  /\ index' = Damaged
  /\ UNCHANGED <<file, snaps, mem, opening, call, nextId>>

-----------------------------------------------------------------------------
Opens(w) == OpenStat(w) \/ OpenRead(w) \/ OpenAdopt(w) \/ OpenRaises(w)

Begins(w) ==
  \/ \E what \in Edits \cup {Preview} : BeginMutate(w, what)
  \/ \E force \in BOOLEAN : BeginRecord(w, force)
  \/ \E s \in States : BeginFree(w, s)
  \/ \E expected \in Ids \cup {0} : Undo(w, expected) \/ Redo(w, expected)
  \/ \E i \in Ids : Goto(w, i)
  \/ RefuseUndo(w)

Steps ==
  \/ RecordBefore \/ IndexBefore \/ (\E s \in States : Mutate(s))
  \/ RecordAfter \/ IndexAfter \/ IndexMove
  \/ StartCommit \/ SyncIndex \/ SaveFile \/ PruneSnapshots \/ MirrorCache

Failures ==
  \/ Raise \/ RaiseInSave \/ RaiseInMove
  \/ RollbackLanded \/ RollbackUnknown \/ RollbackIndex \/ RollbackDelete
  \/ RollbackKept \/ RollbackRaises \/ Settle

Next ==
  \/ \E w \in Ws : Opens(w) \/ Begins(w) \/ Crash(w)
  \/ Steps \/ Failures \/ DamageIndex

Spec == Init /\ [][Next]_vars

-----------------------------------------------------------------------------
Calls == [at : Writing \cup {"indexMove", "rollback", "deleteOwn", "landed",
                             "unknown", "restored", "kept", "rollbackFailed"},
          ws : Ws, kind : AllKinds, what : Whats, force : BOOLEAN,
          proj : Projects, pre : States, cpHist : Hists,
          cpIndex : Hists \cup {NoIndex}, own : SUBSET Hists,
          revBefore : Nat, pruned : SUBSET Ids]

Memories == {Closed} \cup [open : {TRUE}, state : States, hist : Hists, sig : Nat]
Readings == {NotOpening} \cup [at : {"stat"}, rev : Nat]
                        \cup [at : {"read"}, rev : Nat, proj : Projects]

TypeOK ==
  /\ file \in [state : States, hist : Hists, rev : Nat \ {0}]
  /\ index \in Hists \cup {NoIndex, Damaged}
  /\ snaps \in [Ids -> States \cup {NoSnap, Torn}]
  /\ mem \in [Ws -> Memories]
  /\ opening \in [Ws -> Readings]
  /\ call \in {Idle} \cup Calls
  /\ nextId \in Nat \ {0}

(* Every entry of the saved history, and of the index on disk, has a whole *)
(* snapshot file, whatever commit, trim, rollback or crash came before: an *)
(* undo, redo or goto after a restart never meets a missing snapshot.      *)
NoDanglingEntry ==
  \A id \in EntryIds(file.hist) \cup Listed : Readable(id)

(* While no call of its own is running, a workspace that holds the saved   *)
(* file's revision holds the saved state and history, so the next          *)
(* transaction may skip the reload (workspace.py loaded_file_revision).    *)
LoadedRevisionMatches ==
  \A w \in Ws :
    (mem[w].open /\ mem[w].sig = file.rev /\ (call = Idle \/ call.ws # w))
      => /\ mem[w].state = file.state
         /\ ~IsEmpty(file.hist) => mem[w].hist = file.hist

(* A mutation or record that did not land leaves history as it found it:   *)
(* the index is the one before the call, the saved project is what the     *)
(* call started from, every entry it started with (redo branch included)   *)
(* can be read, and no snapshot of its own entries is left.                *)
FailureLeavesNothing ==
  call.at = "restored" =>
    /\ index = call.cpIndex
    /\ file.state = call.pre
    /\ \A id \in EntryIds(call.cpHist) : Readable(id)
    /\ \A id \in OwnIds : snaps[id] = NoSnap

-----------------------------------------------------------------------------
(* The saved entries a call may keep: up to the cursor for a call that     *)
(* records (the redo branch goes), all of them for one that does not.      *)
Kept == IF RollsBack THEN SubSeq(file.hist.entries, 1, file.hist.cursor)
                     ELSE file.hist.entries

(* The history new keeps all of old but its n oldest entries.              *)
KeepsAllBut(n, old, new) ==
  /\ Len(new) >= Len(old) - n
  /\ \A i \in (n+1)..Len(old) : new[i - n] = old[i]
  /\ \A i \in 1..n : \A j \in DOMAIN new : new[j].id # old[i].id

BuildsOn(old, new) ==
  \E n \in 0..Len(old) :
    /\ KeepsAllBut(n, old, new)
    /\ n > 0 => Len(new) >= Limit /\ ~SplitsPair(old, n)

(* No commit overwrites what another workspace committed, and trimming     *)
(* takes only the oldest entries, only beyond the limit, never a redo      *)
(* entry, and never one half of an edit.                                   *)
CommitBuildsOnSaved ==
  [][file' # file =>
       call.pre = file.state /\ BuildsOn(Kept, file'.hist.entries)]_vars

(* A commit that records or moves history saves the very state its current *)
(* entry snapshots (store.py match_history_to_project relies on it).       *)
CursorHoldsSavedState ==
  [][(file' # file /\ call.kind # "free") => Matches(file'.state, file'.hist)]_vars

(* One Undo after an edit lands restores the state saved before the edit,  *)
(* however the edit's own "before" entry was deduplicated or the history   *)
(* trimmed.                                                                *)
OneUndoRevertsEdit ==
  [][(/\ file' # file /\ call.kind = "mutate" /\ call.what # Preview
      /\ file'.state # file.state) =>
       /\ CanUndo(file'.hist)
       /\ \A i \in 2..file'.hist.cursor :
            IsUndoOrigin(file'.hist, i) =>
              snaps[file'.hist.entries[i-1].id] = file.state]_vars
=============================================================================
