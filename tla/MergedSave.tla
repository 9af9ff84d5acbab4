----------------------------- MODULE MergedSave -----------------------------
(***************************************************************************)
(* A long job's saves: ProjectWorkspace.checkpoint, save_merged and        *)
(* discard_changes (services/app/workspace.py), while other writers edit,  *)
(* undo and redo the same project.                                         *)
(*                                                                         *)
(* The job works on its own copy for minutes.  When it saves, the changes  *)
(* it made since its checkpoint and those committed meanwhile are merged   *)
(* under project_commit_lock; its own undo entry and that of the merge are *)
(* recorded in the same locked call, which may fail or be killed between   *)
(* any two disk writes.  Another writer's call is one step here: the lock  *)
(* keeps it apart from the save, and ProjectStore models its writes.       *)
(***************************************************************************)
EXTENDS ThreeWayMerge, HistoryWalks

CONSTANTS Items,      \* identities of the objects of a project
          Values,     \* values of an object
          Labels,     \* labels a job records its saves under: [when, what]
          Edits,      \* what another writer records
          Merging,    \* the label "after merging concurrent edits"
          MaxId,      \* bound: entry ids ever generated
          MaxRev,     \* bound: replacements of episode.sharecut
          MaxWork,    \* bound: changes the job makes
          NoSnap      \* no snapshot file

ASSUME MergeBounds == {MaxId, Limit} \subseteq Nat \ {0} /\ {MaxRev, MaxWork} \subseteq Nat

VARIABLES
  file,     \* episode.sharecut: data, history, revision
  index,    \* history/index.json
  snaps,    \* history/snapshots: entry id -> the data its file holds
  job,      \* the job's workspace and its save in progress
  nextId,   \* the next entry id
  work,     \* changes the job made
  loose     \* the index on disk may be another than the file's history

vars == <<file, index, snaps, job, nextId, work, loose>>

Ids   == 1..MaxId
Whats == Edits \cup {Preview, Merging, "initial"} \cup {l.what : l \in Labels}

NoLabel == [when |-> "none", what |-> "initial"]
NoBase  == [none |-> TRUE]
Unknown == 0           \* no loaded file revision

Objects == [id : Items, val : Values]

ASSUME FewItems == IsFiniteSet(Items)
ASSUME LabelledWhens == \A l \in Labels : l.when \in Whens
ASSUME NoSnapIsNoList == NoSnap \notin Seq(Objects)

Project == [data |-> file.data, hist |-> file.hist]

(* One change to a project's data: an object changed, added or removed, or *)
(* the list put in another order.                                          *)
ChangesOf(data) ==
  ({[data EXCEPT ![i].val = v] : i \in DOMAIN data, v \in Values}
   \cup {Append(data, x) : x \in {y \in Objects : y.id \notin IdsOf(data)}}
   \cup {RemoveAt(data, i) : i \in DOMAIN data}
   \cup {Reverse(data)}) \ {data}

-----------------------------------------------------------------------------
(* HistoryManager.record: nothing when the current entry holds this very   *)
(* data, else a snapshot and an entry at the cursor.                       *)
Recording == [data |-> file.data, hist |-> file.hist, snaps |-> snaps, id |-> nextId]

HeldBy(r) ==
  /\ HasCurrent(r.hist)
  /\ Current(r.hist).id \in Ids
  /\ r.snaps[Current(r.hist).id] = r.data

AfterRecord(r, when, what) ==
  IF HeldBy(r) THEN r
  ELSE [r EXCEPT !.hist  = Recorded(r.hist, [id |-> r.id, when |-> when, what |-> what]),
                 !.snaps = [i \in Ids |-> IF i = r.id THEN r.data ELSE r.snaps[i]],
                 !.id    = r.id + 1]

Without(s, ids) == [i \in Ids |-> IF i \in ids THEN NoSnap ELSE s[i]]

-----------------------------------------------------------------------------
InitialHist == [cursor  |-> 1,
                entries |-> <<[id |-> 1, when |-> "mark", what |-> "initial"]>>]

(* ProjectWorkspace.open for the job.  At first every object of the        *)
(* project holds the same value.                                           *)
Opened(p, rev) == [at |-> "open", mem |-> p, base |-> NoBase, sig |-> rev]

Init ==
  /\ \E data \in {SetToSeq([id : Items, val : {v}]) : v \in Values} :
       /\ file  = [data |-> data, hist |-> InitialHist, rev |-> 1]
       /\ snaps = [i \in Ids |-> IF i = 1 THEN data ELSE NoSnap]
       /\ job   = Opened([data |-> data, hist |-> InitialHist], 1)
  /\ index  = InitialHist
  /\ nextId = 2
  /\ work   = 0
  /\ loose  = FALSE

-----------------------------------------------------------------------------
(* Another writer's whole call, while it holds project_commit_lock.        *)
Locked == job.at \in {"writing", "landed"}

Commit(r) ==
  /\ r.id <= MaxId + 1
  /\ file'   = [data |-> r.data, hist |-> Trimmed(r.hist), rev |-> file.rev + 1]
  /\ index'  = Trimmed(r.hist)
  /\ snaps'  = Without(r.snaps, PrunedIds(r.hist))
  /\ nextId' = r.id
  /\ loose'  = FALSE
  /\ UNCHANGED <<job, work>>

WriterMayStart == ~Locked /\ file.rev < MaxRev

(* ProjectWorkspace.mutate: the state before it, if no entry holds that,   *)
(* and the state after it.                                                 *)
Edit(what, data) ==
  /\ WriterMayStart
  /\ LET before == AfterRecord(Recording, "before", what)
     IN  Commit(AfterRecord([before EXCEPT !.data = data], "after", what))

(* undo, redo and goto: the cursor on an entry, the project as it holds it *)
Move(i) ==
  /\ WriterMayStart
  /\ i \in DOMAIN file.hist.entries
  /\ snaps[file.hist.entries[i].id] # NoSnap
  /\ Commit([Recording EXCEPT !.data = snaps[file.hist.entries[i].id],
                              !.hist = MovedTo(file.hist, i)])

-----------------------------------------------------------------------------
(* The job changes its copy.                                               *)
Work(data) ==
  /\ job.at \in {"open", "based"}
  /\ work < MaxWork
  /\ job' = [job EXCEPT !.mem.data = data]
  /\ work' = work + 1
  /\ UNCHANGED <<file, index, snaps, nextId, loose>>

(* checkpoint: stat and read the saved file, without the commit lock       *)
Read ==
  /\ job.at \in {"open", "based"}
  /\ job' = [at |-> "read", mem |-> job.mem, sig |-> job.sig, base |-> Project,
             rev |-> file.rev]
  /\ UNCHANGED <<file, index, snaps, nextId, work, loose>>

(* checkpoint, after the read: unsaved changes stay only on the revision   *)
(* the workspace was loaded at, and only if that is still the file's.      *)
Checkpoint ==
  /\ job.at = "read"
  /\ LET stable == file.rev = job.rev
         keeps  == stable /\ job.rev = job.sig
     IN  job' = [at |-> "based", base |-> job.base,
                 mem |-> IF keeps THEN job.mem ELSE job.base,
                 sig |-> IF stable THEN job.rev ELSE Unknown]
  /\ UNCHANGED <<file, index, snaps, nextId, work, loose>>

(* discard_changes: read the saved project again, no base                  *)
Discard ==
  /\ job.at = "based"
  /\ job' = Opened(Project, file.rev)
  /\ UNCHANGED <<file, index, snaps, nextId, work, loose>>

-----------------------------------------------------------------------------
(* save_merged(label): the job's state under its label, before any merge   *)
Labelled(label) ==
  LET mine == [Recording EXCEPT !.data = job.mem.data, !.hist = job.mem.hist]
  IN  IF label = NoLabel THEN mine ELSE AfterRecord(mine, label.when, label.what)

Ours(label) == [data |-> Labelled(label).data, hist |-> Labelled(label).hist]

Moved == Project # job.base

BaseGone == HasCurrent(job.base.hist) /\ CursorId(job.base.hist) \notin EntryIds(file.hist)

(* Mutant: the merged state is committed without an entry of its own.      *)
MergedUnrecorded(label) ==
  IF ~Moved THEN Labelled(label)
  ELSE LET m == Merged(job.base, Ours(label), Project)
       IN  [Labelled(label) EXCEPT !.data = m.data, !.hist = m.hist]

(* _merged_with: what is to be saved, and what was recorded for it         *)
ToSave(label) ==
  IF ~Moved THEN Labelled(label)
  ELSE LET m == Merged(job.base, Ours(label), Project)
       IN  AfterRecord([Labelled(label) EXCEPT !.data = m.data, !.hist = m.hist],
                       "after", Merging)

Refused(label) == BaseGone \/ (Moved /\ Conflict(job.base, Ours(label), Project))

(* save_merged up to store.commit: entries and index are on disk           *)
BeginSave(label) ==
  /\ job.at = "based" /\ file.rev < MaxRev
  /\ ~Refused(label)
  /\ LET r == ToSave(label)
     IN  /\ r.id <= MaxId + 1
         /\ snaps' = r.snaps /\ nextId' = r.id
         /\ index' = IF r.id > Labelled(label).id THEN r.hist
                     ELSE IF r.id > nextId THEN Labelled(label).hist ELSE index
         /\ job' = [at |-> "writing", mem |-> job.mem, base |-> job.base, label |-> label,
                    next |-> [data |-> r.data, hist |-> r.hist],
                    own |-> nextId..(r.id - 1), indexBefore |-> index]
  /\ UNCHANGED <<file, work, loose>>

(* A conflict, or a merged project that does not validate: everything      *)
(* recorded for it is taken back.                                          *)
RefuseSave(label) ==
  /\ job.at = "based"
  /\ Refused(label) \/ Moved
  /\ job' = [job EXCEPT !.sig = Unknown]
  /\ UNCHANGED <<file, index, snaps, nextId, work, loose>>

(* ProjectStore.commit up to the replacement of episode.sharecut           *)
Land ==
  /\ job.at = "writing"
  /\ LET h == Trimmed(job.next.hist)
     IN  /\ index' = h
         /\ file' = [data |-> job.next.data, hist |-> h, rev |-> file.rev + 1]
         /\ job' = [at |-> "landed", mem |-> job.mem, base |-> job.base,
                    next |-> [job.next EXCEPT !.hist = h],
                    pruned |-> PrunedIds(job.next.hist)]
  /\ loose' = FALSE
  /\ UNCHANGED <<snaps, nextId, work>>

(* _adopt_saved: memory is what was saved, and so is the next base         *)
Adopt == job' = [at |-> "based", mem |-> job.next, base |-> job.next, sig |-> Unknown]

Finish ==
  /\ job.at = "landed"
  /\ snaps' = Without(snaps, job.pruned)
  /\ Adopt
  /\ UNCHANGED <<file, index, nextId, work, loose>>

(* A write after the replacement fails: the commit landed.                 *)
FailLanded ==
  /\ job.at = "landed"
  /\ Adopt
  /\ UNCHANGED <<file, index, snaps, nextId, work, loose>>

(* the job's copy keeps its data; its history is that of the checkpoint    *)
Back == [at |-> "based", mem |-> job.mem, base |-> job.base, sig |-> Unknown]

(* Mutant: a failed save leaves its entries in the index.                  *)
FailSaveKeepingIndex ==
  /\ job.at = "writing"
  /\ snaps' = Without(snaps, job.own)
  /\ job' = Back
  /\ UNCHANGED <<file, index, nextId, work, loose>>

(* A write before the replacement fails: roll_back_history under           *)
(* LOCKED_CALL restores the index, then removes the new snapshots.         *)
FailSave ==
  /\ job.at = "writing"
  /\ index' = job.indexBefore
  /\ snaps' = Without(snaps, job.own)
  /\ job' = Back
  /\ UNCHANGED <<file, nextId, work, loose>>

(* The file cannot be stat'ed, or the cleanup fails too: what is on disk   *)
(* stays, and nobody knows whether the commit landed.                      *)
FailUnknown ==
  /\ Locked
  /\ job' = Back
  /\ loose' = (loose \/ job.at = "writing")
  /\ UNCHANGED <<file, index, snaps, nextId, work>>

(* The job's process dies while it saves; a later job opens the project.   *)
(* Elsewhere a death leaves no more behind than discard_changes.           *)
Die ==
  /\ Locked
  /\ job' = Opened(Project, file.rev)
  /\ loose' = (loose \/ job.at = "writing")
  /\ UNCHANGED <<file, index, snaps, nextId, work>>

-----------------------------------------------------------------------------
Writers ==
  \/ \E what \in Edits \cup {Preview} : \E data \in ChangesOf(file.data) : Edit(what, data)
  \/ \E i \in 1..MaxId : Move(i)

Saves == \E label \in Labels \cup {NoLabel} : BeginSave(label) \/ RefuseSave(label)

Next ==
  \/ Writers
  \/ job.at \in {"open", "based"} /\ (\E data \in ChangesOf(job.mem.data) : Work(data))
  \/ Read \/ Checkpoint \/ Discard
  \/ Saves \/ Land \/ Finish
  \/ FailLanded \/ FailSave \/ FailUnknown \/ Die

Spec == Init /\ [][Next]_vars

-----------------------------------------------------------------------------
Entries  == [id : Ids, when : Whens, what : Whats]
Hists    == [cursor : Nat, entries : Seq(Entries)]
Projects == [data : Seq(Objects), hist : Hists]

Jobs ==
  [at : {"open"}, mem : Projects, base : {NoBase}, sig : Nat]
  \cup [at : {"read"}, mem : Projects, base : Projects, sig : Nat, rev : Nat]
  \cup [at : {"based"}, mem : Projects, base : Projects, sig : Nat]
  \cup [at : {"writing"}, mem : Projects, base : Projects, label : Labels \cup {NoLabel},
        next : Projects, own : SUBSET Ids, indexBefore : Hists]
  \cup [at : {"landed"}, mem : Projects, base : Projects, next : Projects,
        pruned : SUBSET Ids]

(* Every variable has its type: whatever is merged, a project is a list of *)
(* objects without a hole and a history.                                   *)
TypeOK ==
  /\ file \in [data : Seq(Objects), hist : Hists, rev : Nat \ {0}]
  /\ index \in Hists
  /\ \A i \in Ids : snaps[i] \in Seq(Objects) \/ snaps[i] = NoSnap
  /\ job \in Jobs
  /\ nextId \in 1..(MaxId + 1)
  /\ work \in 0..MaxWork
  /\ loose \in BOOLEAN

-----------------------------------------------------------------------------
Lands == job.at = "writing" /\ file' # file

Before(list, i, j) ==
  \E m, n \in DOMAIN list : m < n /\ list[m].id = i /\ list[n].id = j

Reordered(was, now) == \E i, j \in Items : Before(was, i, j) /\ Before(now, j, i)

(* Neither side's change is lost: every object either side changed,        *)
(* added or removed since the checkpoint is saved as that side left it.    *)
(* The order is the file's unless the job reordered, and then what the job *)
(* has comes in its order.  A job that changed nothing, however old its    *)
(* copy, changes nothing in the file.                                      *)
BothSidesSurvive ==
  [][Lands =>
       /\ \A i \in Items :
            LET was == ItemOf(job.base.data, i)
                now == ItemOf(file'.data, i)
            IN  /\ ItemOf(job.mem.data, i) # was => now = ItemOf(job.mem.data, i)
                /\ ItemOf(file.data, i) # was => now = ItemOf(file.data, i)
       /\ \A i, j \in Items :
            Before(file.data, i, j) /\ Before(file'.data, j, i)
            => /\ Reordered(job.base.data, job.mem.data)
               /\ i \in IdsOf(job.mem.data) => Before(job.mem.data, j, i)
       /\ work = 0 => file'.data = file.data]_vars

Applied(h) == {h.entries[i].id : i \in 1..h.cursor}

(* Others recorded an edit since the job took its base, and undid it.      *)
EditUndone ==
  Added(job.base.hist, file.hist) /\ file.hist.cursor < Len(file.hist.entries)

(* The job has recorded nothing of its own, under a label, for its save.   *)
NothingLabelled ==
  \A n \in DOMAIN job.next.hist.entries :
    job.next.hist.entries[n].id \in job.own => job.next.hist.entries[n].what = Merging

(* What was applied or undone when the job took its base still is what the *)
(* other writers left it: an entry they undid does not become undoable     *)
(* again, one they left applied stays, unless the trim took it.  A save    *)
(* that records nothing of its own may bring entries back after an edit    *)
(* others made and undid, as in UndoneStaysUndone.                         *)
BaseLineageKept ==
  [][Lands =>
       \A i \in EntryIds(job.base.hist) :
          /\ i \in Applied(file'.hist) =>
               i \in Applied(file.hist) \/ (EditUndone /\ NothingLabelled)
          /\ i \in Applied(file.hist) \cap Applied(job.base.hist)
             => i \in Applied(file'.hist) \/ i \in PrunedIds(job.next.hist)]_vars

(* history.md: an undo, redo or goto by another request during a job       *)
(* conflicts "rather than interleaving entries".  So no entry somebody     *)
(* undid is among the entries below the cursor after a merge.  The code    *)
(* does not keep this (README, merge_undo); no run lists it.               *)
UndoneStaysUndone ==
  [][Lands => Applied(file'.hist) \cap EntryIds(file.hist) \subseteq Applied(file.hist)]_vars

(* A save that merged, or that was given a label, can be undone: its       *)
(* current entry holds what was saved.  And whoever saved last, every      *)
(* entry of the saved history can be read.                                 *)
MergeIsUndoable ==
  [][/\ Lands /\ (job.label # NoLabel \/ Moved) =>
          HasCurrent(file'.hist) /\ snaps'[Current(file'.hist).id] = file'.data
     /\ file' # file => \A i \in EntryIds(file'.hist) : snaps'[i] # NoSnap]_vars

(* A refused or failed save leaves nothing: the index on disk is the       *)
(* saved file's, unless cleaning up failed too, and the job's copy lists   *)
(* no entry its base does not.                                             *)
FailureLeavesNoEntry ==
  job.at = "based" =>
    /\ job.mem.hist = job.base.hist
    /\ loose \/ index = file.hist

(* The file's history, that of a save on its way, and what they are once   *)
(* one more entry is recorded.                                             *)
Walked ==
  LET now  == {file.hist} \cup (IF job.at = "writing" THEN {job.next.hist} ELSE {})
      more == {[id |-> MaxId + 1, when |-> l.when, what |-> l.what] : l \in Labels}
  IN  now \cup {Recorded(h, e) : h \in now, e \in more}

(* Whatever is merged, recorded or trimmed, the history code's two loops   *)
(* (_trim_history, undo_origin) end where the closed forms of History say. *)
WalksAgree == \A h \in Walked : LoopsAgree(h)
=============================================================================
