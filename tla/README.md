# Sharecut Studio: TLA+ models, checks and proofs

Sharecut Studio (`src/podcast_mcp`, with a browser editor in `gui/web` and a
relay in `src/podcast_relay`) edits multitrack podcast projects. Several
processes work on one project directory at once (the GUI server, the CLI, MCP
agents, long-running jobs), and several tabs of several browsers on one project.
This directory models the parts of the program where that goes wrong in ways a
unit test hardly reaches:

- how a project and its undo history reach the disk, and how a long job merges
  its work into what others saved meanwhile;
- how an edit reaches the project and the document journal exactly once, how a
  browser keeps its edits in order until then, and how the journal's rows reach
  the other open tabs;
- how the threads that start, run and report jobs meet in one catalog;
- who is on the roster of a record room while sockets come, go and reconnect;
- how a recording made in that room is uploaded and landed in the project while
  it is taken again or withdrawn.

Contents:

- [Parts of the system](#parts-of-the-system)
- [Modules and how they correspond to the code](#modules-and-how-they-correspond-to-the-code)
- [What is checked](#what-is-checked)
- [Where the code and its documentation disagree](#where-the-code-and-its-documentation-disagree)
- [What is proved](#what-is-proved)
- [What is not modelled](#what-is-not-modelled)
- [Plan](#plan)

## Parts of the system

State, operations and interactions, part by part. The last column says what
makes the part correct, and where it stands here. Everything named as modelled is
so in part: [what is left out](#what-is-not-modelled) is listed below.

| Part | State | Operations | What makes it correct |
|---|---|---|---|
| **Project store and undo history** (`project/store.py`, `project/history/*`, `models/history.py`) | `episode.sharecut`, `history/index.json`, one snapshot file per entry | commit (index, then project file, then prune), record, undo, redo, goto, trim, rollback, adoption of an index | An entry always has its snapshot; a failed call leaves nothing; one undo reverts one edit. `History`, `ProjectStore` |
| **Project workspace** (`services/app/workspace.py`, `util/project_state.py`) | the project in memory, the revision it was loaded at; render, state and commit locks | open, transaction, mutate, record_snapshot, save, save_merged, checkpoint, discard_changes | A commit builds on what was saved last. `ProjectStore`, `MergedSave` |
| **Three-way merge** (`project/merge.py`) | none | merge of two descendants of one base | Neither side's change is lost, or the merge refuses. `ThreeWayMerge`, `MergedSave` |
| **Document sync** (`services/document_sync/service.py`, `services/session_sync/log.py`, `util/sqlite_tx.py`) | `document.db` (rows), `document_sync.last_command` in the project | submit, publish_document_changed, document_snapshot, recovery | Each edit is applied once and journaled once, whatever is retried or dies. `DocumentJournal`, `CommandLog` |
| **Command handlers** (`registry.py`, `payloads.py`) | none | one edit of the project each | Data; any handler commits once, changes nothing, or raises |
| **Snapshots and deltas** (`projection_delta.py`; `document/applyDocumentUpdate.ts`, `cursor.ts`, the polls in `hooks/`) | what a tab knows: seq, state token, file, phase | apply, ignore or recover; poll | A delta is applied to the base it was made for; a tab that missed something asks. `DocumentTab`, `DocumentFeed` |
| **Session sync hub and presence** (`session_sync/hub.py`, `presence_delta.py`, `fanout_hub.py`) | subscriber queues, newest published seqs, roster | publish, subscribe, overflow, snapshot repair | A subscriber that lost an event is told to resync. `DocumentFeed`; presence is not modelled |
| **Cross-process watcher** (`services/document/cross_process_sync.py`) | a cursor per workspace, reference counts | poll, publish, put the cursor back, acquire, release, join | Rows of other processes reach the sockets that lease it. `DocumentFeed` |
| **Job slot and catalog** (`services/jobs/manager.py`, `catalog.py`) | one slot per workspace, finished jobs | start, cancel, settle, archive | One live job per slot; a finished job stays findable. `JobCatalog` |
| **Job progress** (`services/jobs/reporter.py`, `gui/job_events.py`) | progress events, agent-started jobs | ensure, emit, finalise, stream | A job made for a tool ends with it. `JobCatalog`; the streams are not modelled |
| **Record session** (`services/record/reducer.py`, `service.py`) | roster, takes and commands on disk; connections and leases in the process | join, leave, consent, start, pause, resume, stop, remove | A late release never drops somebody who came back; consent governs a take. `RecordSession` |
| **Record upload and landing** (`upload.py`, `landing.py`) | parts, acknowledged generations, landed media | ingest, assemble, land, roll back | What is acknowledged is on disk; what was landed from a withdrawn upload is taken back, or a rollback row owes it. `BedLanding`, for the room-tone bed |
| **Browser command queue** (`services/commandQueue.ts`, `offlineQueue/*`, `state/documentSendOrder.ts`, `commandSendOwnership.ts`, `commands/history.ts`) | queued edits in IndexedDB, a Web Lock, sends and drains of each tab | send live, undo, drain, reload | Edits keep their order and identity, and every one comes to an end. `CommandQueue` |
| **Pipeline runner** (`pipeline/runner.py`) | step markers | run the steps, save merged | The job of `MergedSave` |
| **Share links, tunnel, review versions** (`services/collaboration/*`, `share_auth/store.py`) | registry and token files | create, revoke, resolve, reconnect | Request handling over small records. Not modelled |
| **Relay** (`src/podcast_relay`) | report queue, tunnels | claim, post, settle; proxying | A report is posted once. A program of its own, not modelled |
| **Edits and audio engines**, **GUI components**, **exporters** | none of their own | signal processing, layout, formats | Not for a model checker |

How the parts meet. A **browser** queues a command and posts it, live or from a
**drain**; an agent sends it at once. A **document sync service** takes the
project lock, journals what an earlier crash left out, looks for the row a retry
names, runs the handler, which commits the project through the **workspace** and
the **store**, appends the row in an open sqlite transaction, publishes `Applied`
to the **hub** and COMMITs. The hub puts the event into the bounded queue of every
socket; a **tab** applies it, or asks for the whole document. Processes share
only the disk: the lock file, the project file, the index and snapshots beside it
and `document.db`. The **watcher** of each process looks for rows other processes
wrote, on behalf of the sockets that lease it. **Jobs** run on threads and end in
a merged save. The **record room** keeps its own rows in `sync.db` and its
connections in memory. A recording's parts and its acknowledgement are rows in
`sync.db`, its bytes files beside it; a **land** copies them into the project's
`raw/` and commits the registration through the workspace.

The hard behaviours, listed with their source lines under `hazards` in
`PROJECT.json`: a death or an error between two of the writes that make up one
commit; two writes (project file, journal COMMIT) that cannot be atomic
together; a row, a file and a project that must agree on one recording although
no transaction spans them; memory that is trusted because a revision matches; reads without the
lock; a retry of a command already done, under its own id or another; a rollback
that must tell its own leftovers from another writer's; a trim, at the limit,
of a stack with a cursor in the middle; two stacks merged into one; an event lost
to a full queue, overtaken by a reply or published for a row that is then rolled
back; a lease let go of while another socket takes it; edits sent live past
edits that wait to be replayed; a slot that is looked at, let go of and
taken; a timer that adopts a job while the tool it is for ends; numbers a process
hands out again after a restart.

## Modules and how they correspond to the code

`PROJECT.json` maps every definition to the lines it stands for. In every module
an operator introduced as *Mutant* is a deliberately broken variant of the
definition that follows it: no specification uses it, and it is there to show
that the properties can fail.

**`History`** is the undo stack as data: entries, the cursor, and the pure steps
taken on it (`models/history.py`, `HistoryManager`, `ProjectStore._trim_history`).
An entry's label is reduced to when it was taken and what for; its snapshot file
is named by its id. The loops of the code are stated by their result
(`TrimCount`, `IsUndoOrigin`), so that the module can be used in proofs.
**`HistoryWalks`** has those two loops as they are written, turn by turn, as
recursive functions of the place a loop has got to; `LoopsAgree(h)` says that they
end where the closed forms say. `WalksAgree` of `MergedSave` claims it of every
history that saves and merges produce, and of those with one more entry recorded.
**`Selections`** is
Python's comprehension with a condition, some members of a sequence in the order
they have there: it counts positions instead of recursing, so that the provers can
be told what it returns.

**`ProjectStore`** is one project on disk and the workspaces that use it.

| Variable | Code |
|---|---|
| `file` | `episode.sharecut`: editable state, history, and the file's identity (`rev`) |
| `index` | `history/index.json`; absent, unreadable, or a history |
| `snaps` | `history/snapshots/<id>`: absent, cut short, or a state |
| `mem` | per `ProjectWorkspace`: `project` and `loaded_file_revision` |
| `opening` | a `ProjectWorkspace.open` in progress: it takes no lock |
| `call` | the call holding `project_commit_lock`: its step, its working project, its checkpoint, its own index payloads |
| `nextId` | stands for `uuid4` |

Each disk write of a call is an action: `RecordBefore` (snapshot file),
`IndexBefore`, `Mutate`, `RecordAfter`, `IndexAfter`, `StartCommit` (adopt and
trim in memory), `SyncIndex`, `SaveFile`, `PruneSnapshots`, `MirrorCache`. Any
of them may raise (`Raise`, `RaiseInSave`, `RaiseInMove`); the rollback is
itself a sequence of steps that may raise, and ends in one of the outcomes of
`rollback.py` (landed, unknown, restored, kept, failed) before `Settle` puts
memory back. `Crash` ends a process anywhere, and may leave a snapshot file cut
short, since `write_text` is not atomic.

**`ThreeWayMerge`** is `project/merge.py`: one value, keyed lists (the order of
the one side unless the other reordered), and two undo stacks merged by entry id,
with every conflict it can raise. The code's sort by `created_at` is one by entry
id here, since the model's ids are handed out in the order entries are recorded.
**`MergedSave`** runs it: a job works on its
own copy (`job`), checkpoints, discards, and saves under the project lock with or
without a label, while other writers edit, undo, redo and jump. `file`, `index`
and `snaps` are those of `ProjectStore`; another writer's whole call is one step
here, the save of the job is the sequence `BeginSave` or `RefuseSave`, `Land`,
`Finish`, each of which may fail (`FailSave`, `FailLanded`, `FailUnknown`) or be
the last (`Die`). `loose` remembers that a death or a failed clean-up has left
the index another than the file's history.

**`DocumentJournal`** is `DocumentSyncService` for one project, used by several
services (processes). The project is reduced to the commands it has absorbed and
the saved `last_command`.

| Variable | Code |
|---|---|
| `saved`, `applied` | `document_sync.last_command` with its `base_server_seq`; the edits in the project file |
| `journal` | committed rows of `document.db`; the index is `server_seq` |
| `mem` | the `last_command` a service holds, while its certificate is the file's |
| `call` | the section that holds the project lock |
| `published`, `replied`, `refused` | what peers and clients have been told |
| `quiet`, `spent` | commands that changed nothing, how much of each bound is used |

A section enters (`Submit`, `Notify`, `Snapshot`), recovers (`Recover`:
`journal_saved_command`), checks for a row (`Retry`, `Refuse`, `Prepare`), runs
the handler (`ApplyLands`, `ApplyQuiet`, or one of the failures), appends,
publishes and commits. Failures: the handler raises before its commit, after it,
or so that nobody can tell; any sqlite step fails; the process dies; the reply
is lost; `document.db` is deleted.

**`CommandLog`** is what clients are promised, without any of that: a log each
intent enters at most once and never leaves. `DocumentJournal` implements it,
with the journal *and its pending recovery* as the log (`Effective`).

**`DocumentTab`** is what one tab knows of the document and what it does with an
event. The project is the sequence of its saves and a tab shows a set of
changes, so that a patch on the wrong base shows as a hole. **`DocumentFeed`**
puts it at the end of the whole way an event takes.

| Variable | Code |
|---|---|
| `file`, `saved`, `journal`, `open`, `notice` | the project and `document.db` as above, each section one step up to its publish and one to its COMMIT; an `ExternalMutate` row still to be written |
| `published` | `SessionHub._applied_seqs`, the newest seqs it published |
| `entry`, `watcher` | `CrossProcessBridge._entries`, and each watcher's cursor, tick, failures and references |
| `socket` | the server's side of a websocket: its queue, its lease, what is on the wire |
| `tab`, `conn`, `fetch`, `reply`, `poll` | the tab, its connection, the requests of its recovery loop, of its own command and of `useFileMetaPoll` |

`Submit`, `Announce`, `StaySilent`, `Commit` and `Rollback` are sections of this
process, `SubmitElsewhere` another process; `Tick`, `PublishHead`, `PublishFails`
the watcher thread; `Acquire`, `Release`, `Join` its leases; `Connect`, `Hello`,
`Pump`, `Leave`, `Gone` the socket's handler; the rest is the browser.

**`CommandQueue`** is the other direction: the tabs of one browser, host or share
guest, with Web Locks or without (`side`).

| Variable | Code |
|---|---|
| `queue` | `queue:{token}` or `host-queue:{path}` in IndexedDB |
| `line` | requests for the Web Lock `sharecut:command-send:...`, in the order of the browser's own queue |
| `op` | per command: how far the call that sends it live is, and what it waits for; `ahead` only serves the property |
| `drain` | per tab: the `DrainRun` and the pass of `replayQueuedCommands` with the state its source keeps |
| `wire`, `log` | POSTs without an answer yet; what the server has applied |
| `told` | edits whose sender was told they did not land for certain |

`Begin`, `Admit`, `Unsaved`, `FallBehind`, `GiveUp`, `Look`, `Settle` and
`Unsure` are `submitThroughQueue`; `Press`, `AskLock`, `Enter` and `LookUndo` an
undo; `ReadQueue`, `MarkLive`, `Stop`, `Pass`, `Claim`, `Replay`, `Answered`,
`Uncertain` and `EndPass` a drain. `Reload` forgets a tab, and a POST nobody
listens to may still reach the server (`Orphan`). What the server does with a
POST and its answer are one step: an answer that is lost belongs to an orphan.

**`JobCatalog`** is `JobManager` and `JobCatalog` of one process, with the
reporters of its agent tools.

| Variable | Code |
|---|---|
| `jobs` | every `Job` made: kind, status, `cancel_requested`, where its worker is, how often its `done` event was published |
| `slot`, `agents`, `claims`, `latest` | `_job`, `_agent_live`, `_agent_claims`, `_agent_latest` |
| `filed` | every job archived, in order; `Finished` is what `_finished` still holds of it |
| `caller` | where a thread is in `start_export` and `_spawn` |
| `wrap` | `AgentJobFanInReporter`: whether the tool has started and ended, its job, its timer |
| `thread` | where the tool's own thread and its timer are in `_ensure_job` and `complete_agent_job` |

One action is one critical section, or what a thread does between two:
`CheckSlot`, `Validate` and `TakeSlot` are `_spawn`; `Look`, `Waited`,
`StillUpdating` and `Busy` the loop of `start_export`; `Run`, `Finish`,
`FileJob` and `PublishDone` the worker; `Ensure`, `Adopt`, `EndEvicted` and
`Keep` `_ensure_job` with `adopt_agent_job`; `Close`, `Settle`, `Forget` and
`PublishAgentDone` the end of a tool. Deadlines may pass whenever the code looks
at the clock. Pipeline runs and analyses behave as `bounce` does.

**`RecordSession`** is one record room.

| Variable | Code |
|---|---|
| `state`, `away`, `roster`, `takes` | the `RecordSnapshot` in `sync.db`: phase, `host_offline_since_wall_ms` set or not, participants, takes with their roster of consent |
| `rows` | the `(client_id, client_seq)` of the Leave rows in the command log |
| `claims`, `tabs` | `_CONNECTIONS` and `_HOST_CONNS` of the process |
| `socks` | how far the handler of each websocket is |
| `leaves` | `_SEQ` of the process |

Commands run under the room's authority lock and are one action each; a
disconnect is three, since it lets its claim go (`Release`), notes the host's
absence (`Note`) and submits its Leave (`Leave`) one after the other. `Restart`
loses what only the process keeps. Wall-clock times are choices: whether an
absence was long enough to pause the take, or a lease idle long enough to be
taken over.

**`BedLanding`** is the room-tone bed of one participant, all the way from the
browser to the project (`useRoomToneCapture.ts`, `record/upload.py`,
`record/landing.py`, `record/landing_rollback.py`). A recording is its number, and
stands for its bytes and their hash.

| Variable | Code |
|---|---|
| `tab` | the capture hook: newest take, the request it waits for, `uploaded` |
| `reqs` | HTTP requests the server has not begun; the order is not kept |
| `ing` | the request that holds the participant's ingest lock, and where it is |
| `parts`, `files`, `row`, `acked` | `record_upload_parts`, the `.part` files, `record_upload_files`, the assembled file |
| `post` | the rest of the request that completed an upload: wait for the land, check, report |
| `land` | the land that holds the room's land lock: its step, the row it planned for, the project it read |
| `raw` | `raw/room-tone/<session>/<participant>.wav`, the one path all beds share |
| `reg`, `past` | the bed the saved project registers on the track, and what undo would put back |
| `waived` | `record_land_rollbacks`: whether the file is unchanged since, whether a retry has failed |
| `by` | serves the properties: what the registration rests on |

An upload and a withdrawal take turns on the ingest lock (`Take` to `Reply`), one
action per row or file they change; lands take turns on the land lock
(`StartLand` to `EndLand`), one action per store they touch; from the commit to
the end of the rollback a land also holds the project lock, which is all that
`Undo` waits for. Nothing orders an upload against a land: that is what the
checks in `Register` and `Mark` and the rollback after them are for.

The steps of a land that only a failure takes are `LandFails`. A save can fail in
two ways: before the project file is replaced (`SaveFails`), or after it, when
snapshots are pruned or the transcript cache is written (`store.py:405-407`, the
outcome `LANDED` of `history/rollback.py`); then the registration stays although
the land raises (`SaveRaises`). A rollback and its retry are saves too, and fail in
both ways (`RollBackFails`, `RetryFails`). The mark after a commit and the look at
the upload row that follows it are outside any `try` (`MarkFails`), as are the reads
before the copy and the writes after the project lock (`LandRaises`). `ReportFails`
is the same for the request that asked for the land.

**`MC_ProjectStore`**, **`MC_DocumentJournal`**, **`MC_DocumentFeed`**,
**`MC_MergedSave`**, **`MC_JobCatalog`**, **`MC_RecordSession`**,
**`MC_CommandQueue`** and **`MC_BedLanding`** hold what only TLC needs: symmetry, names, the commands
clients may send, and the constraints that keep a run small.
**`ProjectStoreProofs`**, **`MergedSaveProofs`**, **`DocumentJournalProofs`**,
**`DocumentFeedProofs`**, **`CommandQueueProofs`**, **`JobCatalogProofs`**,
**`RecordSessionProofs`** and **`BedLandingProofs`** hold the proofs.

## What is checked

`tlc -workers 2 -config <run>.cfg <module>` for each run. Deadlock is checked in
the runs of the store, the journal and the bed: nothing there may stop for good (a
workspace can always be dropped and opened, a service can always read, the host
can always land). The
others end when their callers, saves, commands or takes are used up, and say
`CHECK_DEADLOCK FALSE`; that nobody waits for ever is a property there.

| Run | What it shows | Bounds |
|---|---|---|
| `store_commit` | Two workspaces edit, preview, undo, redo and jump, each possibly holding memory older than the file, with a failure or a death at every write | 2 states, 3 entry ids, limit 2, 4 file revisions |
| `store_kinds` | Every kind of call of one workspace meets the leftovers of every other, also in projects saved before history existed and with an index damaged from outside | 2 states, 4 ids, limit 2, 3 revisions |
| `merge` | A job and other writers save one project, every save refused, failed or killed between its writes: neither side's change is lost, what was undone before the job began does not return (but see merge_undo), a merged or labelled save can be undone, a failed save leaves nothing; the closed forms of trim and undo origin equal the loops of the code | 2 objects, 2 values, limit 3, 4 ids, 5 revisions, 1 change of the job |
| `journal_submit` | Two clients, two services, retries under a new `command_id`, quiet handlers, an outside notification and two faults: the journal implements `CommandLog` | 3 commands for 2 edits, 2 faults, 1 outside row |
| `journal_live` | An edit, its retry and another edit under its `client_seq`, `document.db` deleted: every command is answered in the end, no row appears for an edit that never ran | 3 commands, 2 faults, 1 deletion |
| `feed` | Two saves reach a tab through the hub, the watcher, its requests, its poll and replies, with a lost connection or restart and one fault of any kind: what the tab claims to show it shows, and once all is quiet it misses no row | 1 socket, 2 saves, queue of 1, memory of 2 seqs, 2 attempts |
| `feed_live` | Two sockets, a lease let go while the other is taken, late leases: each leased socket is watched, and the tab converges | 2 sockets, 1 save, 1 fault of 4 kinds, 1 lost connection |
| `queue` | Two tabs send edits and an undo live while their drains replay the queue: nothing lands before an edit queued ahead of it, and every call, edit and row comes to an end | 2 tabs, 2 edits or an edit and an undo, 1 fault |
| `jobs` | Two callers start rebuilds, bounces and exports, and cancel them; or two tools, each with its reporting thread and its timer, share room for one live agent job | 3 starts, an archive of 1, 2 tools |
| `record` | A host and two guests join, reload, take over their own lease, consent, are removed and leave, through a take or two and a restart | 3 sockets, 1 link, 2 recorded seats, 2 takes, 1 Leave per process, 1 restart |
| `bed` | A participant records, retakes and withdraws a bed while it is uploaded and landed, by the server or the host's own process: what is acknowledged is whole, what counts as landed is what the track plays, a stale registration is taken back, no answer leaves a bed that nobody lands or reports | 2 recordings of 1 and 2 parts, 1 fault, 1 undo step |
| `record_restart` | A violation of what a test says: see below | as small as shows it |

Why the bounds are enough.

*Store.* A failed or dead call leaves behind at most an index ahead of the file,
orphan snapshots and stale memory; what the next call makes of them depends on
those leftovers and on one more call, so two calls after a failure and two
workspaces show every pair. Limit 2 is reached by one mutation, so trims happen
with redo entries, with a pair at the edge and with the cursor at the bottom.
*Merge.* With two objects a merge can keep, change, add, remove and reorder on
either side, and conflict; four entry ids let both sides record on top of a
common base and the trim bite. Limit 3 leaves room for an entry of the base under
two new ones, and with five revisions a save happens that brings an undone entry
back, which with four does not; the last two are for a job that changed nothing
(`LateSaves`). The edits of other writers are recorded as
previews are, which makes their entries as many as the ids allow; `created_at`
orders entries as their ids do.
*Journal.* A fault leaves one unjournaled command, and the next section either
repairs it or fails again: two faults reach a failure during the repair of a
failure. *Feed.* With room for one event every second event overflows, and with
two remembered seqs the third forgets the first; each kind of fault happens at
most once, and one frame is on the wire at a time. Giving up after the last
attempt of the watcher needs more failures than that, and is not exercised.
*Queue.* An edit can wait behind the other tab's or its own, and be stuck behind
one that was lost; one fault is enough to leave a row that a drain and a live
send both meet. Both tabs drain at once only beside a single send or after the
sends have ended (`DrainsMeetLate`), and a guest without Web Locks is left out.
*Jobs.* With two callers one can take the slot between another's two looks; a
third start lets a job be superseded before its worker has filed it. Two tools
with room for one make every adoption an eviction of a job whose own tool may be
at any step. Slot jobs and agent jobs share only the archive and the lookup: a
behaviour has the one or the other (`ApartSpec`), as the product is out of reach.
*Record.* Two recorded seats are the host's and one guest's, so that the second
guest always meets the limit; the checks of a Consent command and its
application are one step. A third busy socket, a second take and a restart come
one at a time (`SmallRoom`).
*Bed.* Two recordings give every request about a bed a rival: a final part
against parts and a row of the other, a withdrawal overtaken by the next bed, a
land whose bed is replaced at any of its steps. The second has two parts, so that
one of them may be there alone. One fault is a crash of either process or a failed
read or write (a save's with its file replaced or not), besides retries of a
rollback, which may fail for ever. The host
lands only with something to land or take back, and two requests wait at most
(`SmallBeds`). Both an empty track and one with a bed of an earlier session are
initial states.

`MaxId`, `MaxRev`, `MaxWork`, `MaxExternal`, `MaxLost`, `MaxFaults`, `MaxSaves`,
`MaxDrops`, `MaxStarts`, `MaxTakes`, `MaxLeaves`, `MaxRestarts`, `MaxBeds` and
`MaxUndo` are bounds of the model, not of the code. `FewKindsLate`,
`LateSaves`, `FewTroubles`, `SmallQueue`, `SmallRoom` and `SmallBeds` cut runs short where their comments say, and nothing else.

The properties, by the question they answer:

- *Can history be lost or broken?* `NoDanglingEntry`, `CursorHoldsSavedState`,
  `OneUndoRevertsEdit`, `FailureLeavesNothing`, `MergeIsUndoable`,
  `BaseLineageKept`, `WalksAgree`.
- *Can a writer overwrite another's commit, or trust stale memory?*
  `CommitBuildsOnSaved`, `BothSidesSurvive`, `FailureLeavesNoEntry`.
- *Can an edit be applied twice, lost, or journaled out of order or unrun?*
  `AppliedOnce`, `NothingAppliedIsLost`, `JournalKeepsApplyOrder`, `RowsRan`,
  `ExactlyOnceLog`; `NoOvertaking` on its way there.
- *Can a client be told something untrue, or nothing?* `RepliesHold`,
  `PublishedSeqKeepsCommand`, `EveryCommandSettles`, `EverySendSettles`,
  `EveryStartAnswered`.
- *Can a tab show what is not there, or miss what is?* `ClaimsWhatItShows`,
  `QuietTabIsCurrent`, `SeenSeqsComeBack`, `LeasedSocketIsWatched`,
  `TabConverges`.
- *Can two jobs run where one may, or one get lost or never end?* `OneSlotJob`,
  `FinishedFindable`, `NoJobLeftRunning`.
- *Can somebody lose their place in the room, or be recorded without consent?*
  `HolderIsConnected`, `HostSeatKept`, `ConsentGovernsTakes`.
- *Can an acknowledged recording be lost, or a withdrawn one stay?*
  `AckMeansBytes`, `LandedBedIsHeard`, `StaleBedTakenBack`, `AnsweredAckSettled`.

The type invariants of the store, the journal, the catalog and the queue are part
of a run, since they also state limits and what may not occur twice. Those of
`DocumentFeed`, `MergedSave`, `RecordSession` and `BedLanding` hold on the instances
of their runs and are left out of them.

**Fairness.** The liveness properties need it.

- `EveryCommandSettles`: a section in progress takes its next step (weak fairness
  of `Section`: the code runs straight through under the lock, and a death is a
  step of its own). A client resends a command until it is told its fate, and one
  of its attempts gets the lock (strong fairness of `Resend`: the lock is free
  again and again, and clients retry on the error the server returns). Faults are
  finite: a server that dies for ever answers nobody. Nothing is assumed of
  `Drop`, of outside commits, of notifications or of faults.
- `EveryStartAnswered`: a thread that asks for a job goes on (weak fairness of
  `Spawning`: it polls or runs straight on); nothing is assumed of the workers,
  so that a rebuild may hang.
- `TabConverges`: sections end, threads and handlers run, requests are answered
  or fail, the poll's timer fires, a closed socket is opened again (weak fairness
  of each). Nothing makes anybody write, fail or disconnect.
- `EverySendSettles`: the code of a tab runs on, the server answers, and the
  sanity timer asks for a drain while there is something queued
  (`useHostSync.ts:496`; weak fairness of `Sent` and of `Drained`). Nothing is
  assumed of orphans, of new commands or of timeouts.

`RowsRan` holds also when the journal is deleted; `AppliedOnce` and
`NothingAppliedIsLost` cannot: with its rows gone the server has nothing to know
a retry by, beyond the one saved command. The `queue` is empty again and again,
but perhaps not for good: see the divergences.

## Where the code and its documentation disagree

One run expects a violation, and quotes its sentence under `findings`.

- `record_restart`: the numbers of the Leave commands that a disconnect submits
  start again with the process, while the log on disk keeps the rows of an earlier
  one; the Leave is taken for its duplicate and applied to nobody, and the person
  stays on the roster as connected.

More divergences have no run of their own, but shape the models or are shown by
their behaviours:

- **merge_undo**: another writer records an edit and undoes it while a job runs.
  The merge compares both sides with the base's cursor entry only
  (`merge.py:245`); the undone entry is new to it and ends up below the cursor, so
  one Undo after the merge applies an edit somebody had undone.
  `docs/history.md:139` says such a save conflicts. With other writers' edits
  recorded step by step (`Edits = {"edit"}`, the job's label that of a step, five
  ids, limit 3) `UndoneStaysUndone` of `MergedSave` fails; `BaseLineageKept` is the
  part that holds. An entry of the base is safe as long as the job's save records
  something: its new entries then have to agree with where the other writers' cursor
  stands on the base, or the save conflicts. A save that records nothing of its own
  checks nothing of the kind, and if the others made an edit and undid it
  (`EditUndone`, `NothingLabelled`), an entry of the base they undid as well may be
  below the cursor again.
- **store_reuse**: an undo that raises has already moved the cursor of the
  project in memory, while the workspace still holds the file's revision; a
  workspace used again skips the reload and commits the moved cursor. The runs
  have `ReuseAfterError = FALSE`; with `TRUE` `CommitBuildsOnSaved` fails.
- **store_open_race**: a project opened without the lock can adopt an index whose
  writer then rolls it back; its next history-free save publishes entries whose
  snapshots are gone. It takes a project saved with an empty history:
  `NoDanglingEntry` is checked with `Legacy = FALSE`.
- **Kept entries**: after a commit has trimmed the history in memory, a failure
  before the index is written makes the rollback take the index on disk for
  another writer's, and the call's entries stay. `docs/history.md` promises they
  are removed unless another writer recorded on top; `FailureLeavesNothing`
  leaves this case out.
- **Publishing before COMMIT**: `docs/session-sync.md:489` calls it safe because
  recovery re-journals the same command at that seq. A command that commits
  nothing saves no record, and neither does an outside notification
  (`ExternalMutate`): after a failed COMMIT tabs are at a seq the journal does
  not have. `PublishedSeqKeepsCommand` leaves these out, and `feed` is run without
  the fault `"notice"`; with it `SeenSeqsComeBack` fails.
- **Deleted journal**: a saved command whose base is 0 is journaled again after
  `document.db` is deleted, also into a `client_seq` its client has reused, which
  `docs/session-sync.md` rules out.
- **job_export**: an export that finds the slot taken by a mix rebuild looks for
  that rebuild to wait for it; if the rebuild has ended by then, it is refused
  instead of taking the free slot. `docs/daw-editing.md:293` says it retakes it.
- **feed_poll**: the sanity poll stores a reading before the request it makes for
  it has succeeded (`useFileMetaPoll.ts:67`). If that request fails, a save that
  no row announces is never asked for again; `docs/session-sync.md:424` says such
  saves are covered by the poll. Its very first reading is only a baseline, and a
  recovery request that fails is not repeated until something else asks:
  `QuietTabIsCurrent` leaves out behaviours with a lost request.
- **Host's absence**: `disconnect` notes it after its claim is gone and outside
  the room's lock (`service.py:800-814`). A host tab that joined in between has
  already cleared the note, and nothing clears it again, so that the next Join of
  the host may pause a take the host never left.
- **Replays of two tabs**: a row leaves the queue when its replay is refused, and
  `docs/session-sync.md:648` says it is not silently retried. Another tab that had
  read the queue before posts it again (a guest's tab even admits it again), and
  it may land after later edits: `NoOvertaking` says nothing of an edit whose
  sender was told it failed. In the same way two guest tabs with stale snapshots
  may admit a row that has landed for each other, back and forth: that is why
  `EverySendSettles` says the queue is empty again and again, not for good.
- **bed_copy**: a land copies a bed over the participant's one raw path before it
  looks whether the upload still stands. If it does not, the land skips the bed
  (`landing.py:925-927`) and leaves the copy: an earlier bed that is still
  registered at that path now plays the recording that was withdrawn, and no
  rollback knows of it. The rollback handles just this case when it comes after
  the registration: `docs/recording-session.md:1590` has the bed "cleared rather
  than restored, since the stale copy already overwrote it in place".
  `StaleBedTakenBack` speaks of registrations a land made, and
  `LandedBedIsHeard` of the upload whose row stands.
- **bed_drop**: `drop` waits for the part in flight, "or it would land after the
  delete or revoke" (`useRoomToneCapture.ts:317`). An aborted request settles in
  the browser at once while the server may still work on it: the part may be
  ingested after the withdrawal, and a withdrawal that is late takes the next bed
  with it. In `BedLanding` a request once sent is in `reqs` until it is taken.
- **part_gap**: `delete_segment` deletes part rows and file row in two
  statements. After a crash in between, the next bed finds the old file row only at
  its final part, and the clearing that this triggers removes the parts just
  sent: the upload is refused with "part gap" and has to be made again.
- **bed_lost**: a land can end between its commit and the row that defers its
  rollback, and then nothing takes back a bed that is withdrawn meanwhile or
  before the next land: it stays registered, and no rollback row counts it. `by =
  "lost"` says so, in four cases. (a) The process dies there (`LandDies`);
  `docs/recording-session.md:1590` and `landing.py:1557-1560` name this case, and
  only this one. (b) The save raises after it replaced the file (`SaveRaises`):
  `landing.py:1011-1014` marks the upload failed and raises again, whether the
  registration was saved or not. (c) The mark or the look after it raises
  (`MarkFails`): `landing.py:1017-1035` is in no `try`, and `_rollback_or_defer`,
  which never raises, is not reached. (d) Neither the rollback nor its row can be
  written (`RollBackFails`); `landing.py:1560` allows the one, not both.
  `StaleBedTakenBack` leaves out these four and an undo that puts the bed back, so
  it is a promise about lands that got to their rollback row, and not that no
  stale bed ever stays.
- **Unpersisted sends**: a host's edit whose row cannot be written is posted
  without one if the queue is empty, so a second edit does not see it and may
  overtake it in flight. The documents ask only that no older edit waits in the
  queue.

## What is proved

With TLAPS, for every value of the constants that satisfies the assumptions of the
modules. `BoundsAssumption`, `JournalBounds`, `MergeBounds`, `CatalogBounds` and the
number part of `FeedAssumption`, `RoomAssumption`, `BedAssumption` and
`QueueAssumption` say that limits are positive and bounds are numbers;
`KindsAssumption` and `FeedAssumption`, which calls, kinds of event and faults the
instance has. The others keep a marker from being a value: `AbsentAssumption` (no
snapshot, nobody on the roster), `JournalMarkers` (not read yet), `FeedMarkers` (no
queue, and a request that was not made or not answered is no event), `WrapsAssumption`
(a tool's jobs and slot jobs), and the rest of `FeedAssumption` (no row, no file and
nobody are none), `RoomAssumption`, `BedAssumption` and `QueueAssumption` (the host
is no guest, no row is no row, an undo is no edit). `JournalCommands` says that one
client's commands have distinct ids. Of the merge, `FewItems` says that objects are
finitely many, `LabelledWhens` that a job's label says before, after or mark, as
every entry does, and `NoSnapIsNoList` that a missing snapshot is not a list.

| Theorem | Statement |
|---|---|
| `ProjectStoreProofs!TypeCorrect` | `Spec => []TypeOK` |
| `ProjectStoreProofs!SavedHistoryKept` | without `Legacy`, `Spec => []NoDanglingEntry` |
| `ProjectStoreProofs!CommitsBuildOnSaved` | without `Legacy` and `ReuseAfterError`, `Spec => CommitBuildsOnSaved`, an action property |
| `ProjectStoreProofs!CursorSnapshotsSaved` | without `Legacy`, `Spec => CursorHoldsSavedState`, an action property |
| `ProjectStoreProofs!UndoReverts` | without `Legacy` and `ReuseAfterError`, with `Limit >= 2`, `Spec => OneUndoRevertsEdit`, an action property |
| `ProjectStoreProofs!FailedCallLeavesNothing` | without `Legacy` and `ReuseAfterError`, `Spec => []FailureLeavesNothing` |
| `MergedSaveProofs!FailedSaveLeavesNothing` | `Spec => []FailureLeavesNoEntry` |
| `MergedSaveProofs!NeitherSideIsLost` | `Spec => BothSidesSurvive`, an action property |
| `MergedSaveProofs!LineageIsKept` | `Spec => BaseLineageKept`, an action property |
| `MergedSaveProofs!SavesAreUndoable` | `Spec => MergeIsUndoable`, an action property |
| `MergedSaveProofs!LoopsEndAsStated` | `Spec => []WalksAgree` |
| `MergedSaveProofs!TypeCorrect` | `Spec => []TypeOK`: whatever is merged, a list of objects has no hole |
| `DocumentJournalProofs!TypeCorrect` | `Spec => []TypeOK` |
| `DocumentJournalProofs!NoEditTwice` | with `MaxLost = 0`, `Spec => []AppliedOnce` |
| `DocumentJournalProofs!NoEditLost` | with `MaxLost = 0`, `Spec => []NothingAppliedIsLost` |
| `DocumentJournalProofs!RowNeverClaimed` | with `MaxLost = 0`, `Spec => []NeverClaimed`: the guard `_submit` calls unreachable is |
| `DocumentJournalProofs!RowsOnlyOfEditsRun` | `Spec => []RowsRan`, also when the journal is deleted |
| `DocumentJournalProofs!JournalInApplyOrder` | with `MaxLost = 0`, `Spec => []JournalKeepsApplyOrder` |
| `DocumentJournalProofs!PublishedSeqKept` | with `MaxLost = 0`, `Spec => []PublishedSeqKeepsCommand` |
| `DocumentJournalProofs!JournalImplementsLog` | with `MaxLost = 0`, `Spec => ExactlyOnceLog`: the journal implements `CommandLog` |
| `DocumentJournalProofs!RepliesForGood` | with `MaxLost = 0` and `UniqueIds`, `Spec => []RepliesHold` |
| `DocumentFeedProofs!TypeCorrect` | `Spec => []TypeOK`, the bounds of the hub's memory and of every socket's queue included |
| `DocumentFeedProofs!TabsClaimWhatTheyShow` | `Spec => []ClaimsWhatItShows` |
| `DocumentFeedProofs!SeenSeqsAreKept` | without the fault `"notice"`, `Spec => []SeenSeqsComeBack` |
| `DocumentFeedProofs!LeasesAreWatched` | `Spec => []LeasedSocketIsWatched` |
| `DocumentFeedProofs!QuietTabsMissNothing` | without the fault `"notice"`, with `Attempts >= 2`, `Spec => []QuietTabIsCurrent` |
| `CommandQueueProofs!TypesKept` | `Spec => []TypeOK`: no command twice in the queue or the log |
| `CommandQueueProofs!OrderKept` | `Spec => []NoOvertaking` |
| `JobCatalogProofs!TypeCorrect` | `Spec => []TypeOK`, the limit on live agent jobs included |
| `JobCatalogProofs!OneJobInSlot` | `Spec => []OneSlotJob` |
| `JobCatalogProofs!EveryJobFindable` | `Spec => []FinishedFindable` |
| `JobCatalogProofs!JobsEnd` | `Spec => []NoJobLeftRunning` |
| `RecordSessionProofs!TypeCorrect` | `Spec => []TypeOK` |
| `RecordSessionProofs!HolderConnected` | `Spec => []HolderIsConnected` |
| `RecordSessionProofs!SeatKept` | `Spec => []HostSeatKept` |
| `RecordSessionProofs!ConsentGoverned` | `Spec => ConsentGovernsTakes`, an action property |
| `BedLandingProofs!TypeCorrect` | `Spec => []TypeOK` |
| `BedLandingProofs!AckedBedWhole` | `Spec => []AckMeansBytes` |
| `BedLandingProofs!LandedBedHeard` | `Spec => []LandedBedIsHeard` |
| `BedLandingProofs!StaleBedOwed` | `Spec => []StaleBedTakenBack`: for lands that reached their rollback row (**bed_lost**) |
| `BedLandingProofs!AnswersSettle` | `Spec => []AnsweredAckSettled` |

**`SavedHistoryKept`.** `NoDanglingEntry` speaks of the file and the index only,
and a call in progress is about to publish other histories: the invariant has to
say they are sound too. `IInv` adds: ids not yet used have no snapshot (`Fresh`),
so a new entry cannot take over an old file; the saved history has distinct,
readable entries (`SavedSound`) and so has the index (`IndexWhole`); a workspace
or a read that holds the saved revision holds the saved entries (`MemCurrent`,
`ReadCurrent`), so that a call that skips the reload starts from a sound
history; where a call stands with respect to the file (`CallPhase`), which is
what makes pruning safe only after `SaveFile`; that the history it would publish
is sound and disjoint from what it would prune (`CallHistory`); and that what a
rollback would put back is whole and disjoint from what it would delete
(`CallCheckpoint`). One lemma per step of a call shows it is kept. Distinctness
of ids is needed for the trim alone: an id pruned from the front must not be
named again further up. Without `~Legacy` it is false: see store_open_race.

**Commits.** `CommitInv` adds to `IInv` what whole projects need. A workspace or a
read at the saved revision holds the saved project exactly (`MemExact`,
`ReadExact`), and until a call lands its checkpoint is the saved project
(`CallExact`): so what a call saves was made from what is saved. Its history is
the saved one grown by at most its own two entries (`CallGrown`); those two are
one edit, which a trim does not split, so a trim reaches back from the saved
cursor and never takes an entry of the call (`GrownTrims`). The entry at the
cursor snapshots the project (`CallCurrent`). Before a mutation that entry is the
state it started from, whether `record(before)` wrote it or found it there, and
after it the entry below the cursor is (`CallReverts`): one Undo lands on it.
With a limit of one that entry could be trimmed; `HISTORY_ENTRY_LIMIT` is 400.
`ReuseAfterError` makes `MemExact` false (store_reuse); `CursorHoldsSavedState`
does without it, since a moved cursor and the snapshot it applied agree.

**The merged save.** A refused save takes the job's copy back to its checkpoint, and
the index on disk back to what the job remembers of it. So the invariant is about
what is remembered, and what the merge makes of two histories does not matter: a
copy (`CopyCurrent`) and a read (`ReadCurrent`) at the file's revision have the
file's history, the revision being the optimistic lock of the save; while the save
runs the job's copy still has the history of its base (`BaseHeld`); and the index
the job holds for its rollback is the saved file's, unless cleaning up failed
before (`IndexKept`).

**What a merge saves.** The three action properties are about what the merged lists
hold, so lemmas say that first, once for any list: which position `Nth` picks
(`NthCounts`, from the ranks of a finite set of numbers), what a selection has and in
which order (`PickedHas`, `KeptHas`), which ids a merged list has, each once, each
with the item chosen for it (`ListsMerge`, `ListMerges`), whose order two objects
keep (`OrderKept`), and that merged entries still rise in their ids, those of the
base before the new ones (`MergedEntriesHave`, `MergedHistHas`). Each is a count of
a finite set and none an induction. The invariant `DInv` then needs what such lists
are merged from. What is on disk is lists without duplicates and a history whose
entries rise and can be read (`DiskFits`), as are the job's copy and its base; the
file's history was grown from that of the base, by entries newer than all of it
(`CopyFits`), which is why the merge may put the new ones on top. A base read at the
file's revision is the file's data (`BaseCurrent`), and the copy of a job that
changed nothing is that of the revision it was loaded at (`Untouched`): so an old
copy changes nothing when it is saved. While the save runs, what it is about to put
in place is the merge of base, copy and the file as it still is, without a clash; its
history is sound and readable, its current entry the snapshot of what is saved, and
the base's lineage is held in it (`SaveFits`); once it has landed it is the file, and
what it prunes is no entry of it (`LandedFits`). TLC checked `DInv` within the bounds
of `merge` before it was proved. The proofs showed more than the earlier runs could,
with their smaller bounds: earlier forms of `BothSidesSurvive`, which said
nothing of a reorder of objects the other writer removed, and of `BaseLineageKept`,
which knew no exception, were false beyond them. Both now say what the code does. The
bounds of `merge` reach the second case; the first takes three objects, and TLC finds
the earlier form violated with three objects of one value and two changes of the job.

`TypeOK` follows: what `DInv` calls sound is typed as soon as ids stay within
`MaxId` (`SoundIsTyped`), and `TInv` keeps that bound and the types of what `DInv`
does not speak of, such as the index a save may have to put back.

**The loops of the history.** The provers know of a recursive function only that it
is some function with its equation, if there is one. So a function that satisfies
the equation is written down first. For `_trim_history` that is `TrimEnd`: whether a
pair ends at a place does not depend on how the loop got there, since pairs do not
overlap; so the loop stops at the end of the room there is, or one short of it where
that would split a pair. For `undo_origin` it is `StopsAt`: the highest place at or
below which the walk down must stop. Then the function the loop defines agrees with
it, or there is a nearest place where it does not, whose next turn is one where it does
(`TrimFromEnds`, `OriginFromStops`): a least member of a set of numbers takes the
place of an induction. That is shown for every history with a current entry and for
every limit (`LoopsEnd`), and `DInv` says that the histories in question have one.
What `LoopsAgree` says of a trimmed history, that the cursor stays on its entry,
every redo entry stays and a second trim removes nothing, then follows from how many
entries the walk removes (`TrimCounts`, `TrimSettles`).

**The journal.** `AppliedOnce` rests on the saved record being the last command
applied (`SavedIsLast`) and, while it is not journaled, on no service holding
anything else (`PendingHeld`): so whoever enters next repairs it first, and a
section past its recovery works on a journal that misses nothing
(`SectionSees`), which makes its row check conclusive. `NothingAppliedIsLost`
is part of the invariant: without it, a command could be buried under a later
row and its retry applied again. These results follow from one invariant, `IInv`;
`MaxLost = 0` is needed because a deleted journal forgets the rows.

`RowsRan` needs none of that. It rests on whose hands a record is in: what a
service still holds, and what is saved, was carried out once, except the record of
the section that has prepared its command and not yet run it (`RecordsRan`).

The order of the rows, the seqs that were published and the refinement need `IInv`
and three facts more (`LogInv`): rows are of distinct intents, a notification in
progress is numbered above all rows, and a section between its project and its
row owes the row of the pending command, unless it changed nothing
(`SectionOwes`). A step then is of one of three kinds (`StepKind`): it leaves
project and journal alone, appends a row for what has none, or lands a command
that becomes pending. `JournalKeepsApplyOrder` and
`PublishedSeqKeepsCommand` are kept by each kind; so is the mapping to
`CommandLog`, whose log is the journal followed by the pending command: a landing
appends to it, the row of the pending command leaves it as it is (`Taking`).

`RepliesHold` is about clients: whoever was told of success has a row of its edit
that answers it, and whoever was refused one that bars it (`AnswersStand`); rows
stay, and no row is both. That needs the ids of commands to be unique over all
clients (`UniqueIds`: they are v4 UUIDs, from `randomUuid.ts` and `uuid4()`), since
the code looks an id up without asking for the client.

**The feed.** `ClaimsWhatItShows` is a promise of what is under way to the tab:
every event and reply in any queue, on any wire or in a recovery carries a whole
project, or the one change that follows the file it was made for (`Sound`,
`Flight`). The marker a full queue puts in an event's place is sound too. A tab
that holds that file, and only such a tab, adds the change; so it stays truthful,
whatever was dropped, repeated or overtaken. `Ledger` says what the file and the
journal are, including that at most one saved command is not journaled
(`RecoversAtMostOne`).

For `SeenSeqsComeBack`, `Reach` is the newest seq anyone may have been told of:
outside a section, what the next recovery brings the journal to; inside one, the
next seq. Everything under way stays within it (`WithinReach`), because a section
that told of its seq and then rolled back has saved its command (`SectionOpen`),
which the next section recovers under the same seq. A notification saves nothing,
so where its COMMIT may fail the theorem is false (see "Publishing before COMMIT" above).

`LeasedSocketIsWatched` needs the counts: a watcher's references are the sockets
that hold it (`Counted`), only the watcher of the entry has any (`OneWatched`), and
a stopped one has at most the one socket that is still to join it (`OneJoins`): so the
thread a socket let go is not the one another has just taken. Steps that touch
neither leases nor watchers are `Steady`.

`QuietTabIsCurrent` is in two parts, each about what a seq stands for. The first
(`RowsInv`): behind the seqs anybody may have been told of there is one list of
rows, the `Book`, which is the journal and what the open or the next section adds,
and which a step only ever adds to (`BookMovesOn`; here a COMMIT of a notification
that fails would take a row back). Every event under way agrees with it
(`Agreeing`): a whole project has all rows up to its seq, a patch is the change of
its row. So the tab shows all rows up to its seq (`Has`). The second (`HearInv`):
that its seq gets there. A live tab has `Heard` of a seq if it has shown it, asks
for a document as new, or an event of that seq or a later one is in its queue or on
its wire; a full queue keeps the newest seq in its marker, so nothing heard of is
forgotten (`Remembers`). What the hub remembers as published, and what a hello
snapshot has, the live tab has heard of (`PublishedHeard`); so when the tick of a
watcher sees a head and finds nothing unpublished, the tab has heard of that head,
and when it publishes, it will have (`HeadHeard`). A watcher about to publish, or
whose publish failed, stands before the head (`Looked`), and the watcher of a live
socket is not reset under it, by `LeaseInv`. Last, a tab that is not ready has asked for the
document, or its next frame makes it ready (`Answered`). Most steps are `Calm`: they
leave the tab alone. The hypothesis `Attempts >= 2` is the retry: each fault happens
once at most in the model, and with one attempt a failed publish is given up, as it is
in the code after three (`_PUBLISH_ATTEMPTS`), which leaves the row to the poll.
TLC checked `HearInv` within the bounds of `feed`, and on simulated behaviours of two
sockets and three faults, before it was proved. `Remembering` and `Unpublished` are
written with `Picked`, for the same reason as the queue's selections below.

`TypeOK` has the two limits of the hub in it: what is remembered as published is cut
to the newest `Memory` seqs when a seq is added (`RememberingHas`), and an event that
finds a queue full takes the place of another (`PublishKeepsBounds`). All other steps
only take from the queues (`Drains`).

**The command queue.** An edit is over once it landed or its sender was told
(`Landed`). In the queue, and in the part of it a pass still holds, a command
stands behind every edit it may not overtake that is not over (`QueueOK`,
`RunOK`); on the wire, it has none left (`WireOK`): it was posted from the head of
one of the two, or with nothing but other undos in front. No step takes an edit
from the queue that is not over, so a saved edit is kept, and a pass that finds it
gone is right to go on; that an undo in the making will still find the edits it
waited for, and that a row of a reloaded tab is no one's, is `CallOK`. A step is
shown to move each variable in one of a few ways (`Moves`), and these keep the
invariant (`MovesKeep`). The Web Lock is no part of it: order rests on the queue
alone, and the lock on `line` only says when a call goes on. `Without` and
`LineWithout` are written with `Picked`, which keeps positions, as the provers know
nothing of `SelectSeq`.

**The job catalog.** Every step lets the jobs grow (`JobsGrow`): none goes or
changes its kind, none that has ended runs again; so a job that is named stays
one. With that, a step can break `OneSlotJob` only by making a slot job, which
`TakeSlot` does, in the section that has just found none live. The limit in
`TypeOK` needs that at the limit there is an oldest job to make room
(`RoomForOne`), which is that a set of naturals has a least member.

`FinishedFindable` holds because a job that leaves the slot or the live jobs is
filed in that step (`Kept`), and because a job among the newest `FinishedLimit`
entries is not filed again (`FiledOnce`): so those entries are that many different
jobs, and what falls off the end has enough newer ones (`FileKeeps`, by
counting).

`NoJobLeftRunning` is about who still has to settle a job. `SomeoneOwes`: a live
job of a tool is kept by the tool, or one of the threads of that same tool has it
to settle, and settles it before taking it out of the catalog. `OneTells`: an
ended job is in the catalog, or was announced, or exactly one thread holds it to
announce. `OwnJobs` says threads hold jobs of their own tool only, which is what
an eviction by another tool could break; `WorkerTells` is the same for slot jobs.
One lemma per action shows each is kept.

**The record room.** A claim is let go before the Leave it leads to, and a Leave
that finds a newer claim is dropped; so with the types, and with whoever is about
to leave still listed (`LeaversListed`), `HolderIsConnected` is inductive.
`HostSeatKept` follows from the guests who are live being fewer than the seats
(`SeatInv`), whether the host is there or not. `ConsentGovernsTakes` compares two
states: the open take's list, as far as guests go, is who consents
(`TakeMatches`), and no step touches a closed take (`ClosedTakesStay`).

**The bed.** Both halves of the invariant meet in `Was(b)`: bed `b` was
acknowledged once. A part is sent once, and one at a time (`OnePartOut`), so a bed
that was has no part on its way and is never acknowledged again (`NotTwice`). For
the upload (`UploadInv`): the holder of the ingest lock has deleted what its step
says (`IngestAt`), the row names a bed that was, and an assembled file that was
acknowledged is the row's. That gives `AckMeansBytes`. For the land (`LandInv`):
the raw file is the bed the land works on while it holds the project lock, a
rollback is owed only of a bed that was and is acknowledged no more
(`OwedOfStale`), and a registration that was neither marked nor taken back is such
a bed and is owed (`UnmarkedIsStale`, `UnmarkedIsOwed`); `Unmarked` does not count
a registration that is `"lost"`. A save that raises changes the registration as one
that succeeds does, so only the ground it rests on is new there. Since no bed is
acknowledged twice, a stale one stays stale, and a check made before a step of the
other side still holds after it.

Only model-checked is liveness (`EveryCommandSettles`, `EveryStartAnswered`,
`TabConverges`, `EverySendSettles`), which is out of this prover's reach.
`record_restart` shows a disagreement: its property is refuted by a counterexample,
and no theorem speaks of it.

## What is not modelled

- In the store: the render hashes a mutation records, `reload`, the render lock
  and the order of the locks between threads and processes, the contents of the
  transcript cache (its write is a step that may fail).
- In the merge: nested dicts and lists within one object, the wording of a
  conflict, the validation of the merged project (any merge may be refused), and
  the step merge in memory of `publish_project_changes`.
- In the journal: dry runs, authorisation, projections and deltas, presence and
  record snapshots kept in the same store.
- In the feed: the session plane (a second journal through the same watcher),
  presence and signals with their overflow rules, `stop_all` beyond what a
  restart loses, drafts laid over the document, authentication of sockets.
- In the browser's queue: failing reads of IndexedDB, the list of outcomes
  (reduced to who was told), dismissal, superseded corrections, outcomes kept in
  memory because they could not be written, envelope baselines, drafts, and the
  change of project under a call.
- In the catalog: the download slot, which works like the pipeline's and apart
  from it; what a job does, and the texts and counters it reports; the event
  streams that follow a job; that a thread cannot be started, or that making a
  reporter raises; tools that never start or end (their wrap is simply left
  there).
- In the room: producers, room tone, muting, the landing target, notes and
  comments, segment reports, display names, new sessions, the expiry of invites.
  A host socket that joins again is one that joins anew; an explicit Leave on a
  live socket changes nothing that its disconnect would not; guests stay
  "connected" after a restart until they return or are removed.
- In the upload and landing of recordings: keepers (their part files and
  registrations have a path for each segment, which is easier than a bed's one
  path), staged sessions, quotas and the sweep of old parts, live comments, the
  roles of consent, the discard of a take, beds the pipeline extracts, and that a
  land is ever made: a bed that was reported as failed waits for one.
- The relay, share links and tunnels: programs and request handlers that share no
  state with a modelled part.
- File-system durability: a write that returned is on disk. A power loss that
  undoes a completed rename is outside the model; a write cut short is inside.
- Edits, engines, components and exporters, which make up most of the source:
  arithmetic on samples and floats, and presentation.

## Plan

The modules are written, and every safety property the passing runs check is
proved, with the refinement of `CommandLog`. What is left:

1. `QuietTabIsCurrent` where the same fault happens again: a publish that fails
   `Attempts - 1` times in a row needs the count of failures in `Looked`.
2. Hazards no property covers yet, with the reason given for each: the order of the
   locks between threads and processes, the relay's report queue, the poll that
   remembers a reading before its request, the host's absence.
