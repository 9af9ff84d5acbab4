----------------------------- MODULE BedLanding -----------------------------
(***************************************************************************)
(* One participant's room-tone bed, from the browser that records it to    *)
(* the project that plays it (useRoomToneCapture.ts, record/upload.py,     *)
(* record/landing.py, record/landing_rollback.py).                         *)
(*                                                                         *)
(* The upload row is in sync.db, the bytes are in files, the registration  *)
(* is in the project, and no transaction spans two of them.  Uploads and   *)
(* withdrawals take turns on the ingest lock, lands on the room's land     *)
(* lock, project commits on the project's lock; nothing orders an upload   *)
(* against a land.  Every bed of the participant lands at one raw path.    *)
(* Keepers, staged sessions, quotas and consent are left out.              *)
(***************************************************************************)
EXTENDS Naturals, Sequences, FiniteSets, SequencesExt

CONSTANTS
  MaxBeds,    \* bound: recordings made; a recording is its number
  Parts,      \* bed -> how many upload parts it has
  Host,       \* a land by the host's CLI or MCP, another process
  Nothing,    \* no file, no part, no registered bed
  Other,      \* the bed an earlier session landed on the track, at its own path
  NoRow,
  MaxFaults,  \* bound: crashes, failed reads and writes but a retry's, lost answers
  MaxUndo     \* bound: undo steps the project keeps

Beds == 1..MaxBeds

ASSUME BedAssumption ==
  /\ MaxBeds \in Nat \ {0} /\ MaxFaults \in Nat /\ MaxUndo \in Nat
  /\ Parts \in [Beds -> Nat \ {0}]
  /\ {Host, Nothing, Other} \cap Beds = {} /\ Nothing # Other
  /\ NoRow \notin [bed : Beds, landed : BOOLEAN, failed : BOOLEAN]

VARIABLES
  tab,      \* the browser: newest bed, part on its way, whether parts were sent
  reqs,     \* requests the server has not begun
  ing,      \* the request that holds the ingest lock, and where it is
  parts,    \* record_upload_parts: part -> bed whose bytes it names
  files,    \* part files: part -> bed
  row,      \* record_upload_files
  acked,    \* the assembled acked/.../room_tone/<participant>.wav
  post,     \* bed -> where the request that completed it is after its ack
  land,     \* the land that holds the land lock
  raw,      \* raw/room-tone/<session>/<participant>.wav
  reg,      \* the bed the saved project registers: Nothing, Other, or a bed
  past,     \* what undo would put back, newest last
  by,       \* ghost: what reg rests on (Grounds)
  waived,   \* record_land_rollbacks: rollbacks still owed
  faults

vars == <<tab, reqs, ing, parts, files, row, acked, post, land, raw, reg, past,
          by, waived, faults>>
browser == <<tab, reqs>>
upload  == <<ing, parts, files, acked>>
project == <<reg, past, by>>

PartNos == 1..(CHOOSE n \in {Parts[b] : b \in Beds} : \A b \in Beds : Parts[b] <= n)
NoParts == [p \in PartNos |-> Nothing]
NoLand  == [at |-> "idle", for |-> Nothing, bed |-> Nothing, seen |-> Nothing,
            prior |-> Nothing, due |-> {}]
Free    == [at |-> "free", req |-> Nothing]

Request(op, b, p) == [op |-> op, bed |-> b, part |-> p]
Acked(b) == [bed |-> b, landed |-> FALSE, failed |-> FALSE]

Init ==
  /\ tab = [bed |-> 0, part |-> 0, at |-> "idle", sent |-> FALSE]
  /\ reqs = {} /\ ing = Free
  /\ parts = NoParts /\ files = NoParts /\ row = NoRow /\ acked = Nothing
  /\ post = [b \in Beds |-> "none"]
  /\ land = NoLand /\ raw = Nothing
  /\ reg \in {Nothing, Other} /\ past = <<>> /\ by = "undo"
  /\ waived = {} /\ faults = 0

Fault == faults < MaxFaults /\ faults' = faults + 1

Bed(r) == IF r = NoRow THEN Nothing ELSE r.bed

-----------------------------------------------------------------------------
(* The browser.  A new take first withdraws the bed sent before it; parts  *)
(* go one at a time, each when the one before it is answered.              *)

Sending(b, p) == [bed |-> b, part |-> p, at |-> "sending", sent |-> TRUE]

\* record
Record ==
  /\ tab.at = "idle" /\ tab.bed < MaxBeds
  /\ LET b == tab.bed + 1
     IN  IF tab.sent
         THEN /\ tab' = [bed |-> b, part |-> 0, at |-> "revoking", sent |-> FALSE]
              /\ reqs' = reqs \cup {Request("revoke", b, 0)}
         ELSE tab' = Sending(b, 1) /\ reqs' = reqs \cup {Request("part", b, 1)}
  /\ UNCHANGED <<upload, row, post, land, raw, project, waived, faults>>

(* skip, cancel: the upload in flight is aborted, though the server may    *)
(* still hold it, and what was sent is withdrawn, a tick later and only if *)
(* no new take has begun.                                                  *)
Drop ==
  /\ tab.sent \/ tab.at # "idle"
  /\ \/ tab.at # "idle" /\ tab' = [tab EXCEPT !.at = "idle"] /\ UNCHANGED reqs
     \/ /\ tab.sent /\ tab' = [tab EXCEPT !.at = "idle", !.sent = FALSE]
        /\ reqs' = reqs \cup {Request("drop", tab.bed, 0)}
  /\ UNCHANGED <<upload, row, post, land, raw, project, waived, faults>>

\* the request fails in the browser, or the page is loaded again
GiveUp ==
  /\ Fault
  /\ \/ tab.at # "idle" /\ tab' = [tab EXCEPT !.at = "idle"]
     \/ tab.sent /\ tab' = [tab EXCEPT !.at = "idle", !.sent = FALSE]
  /\ UNCHANGED <<reqs, upload, row, post, land, raw, project, waived>>

Awaits(r) ==
  /\ r.bed = tab.bed
  /\ \/ r.op = "revoke" /\ tab.at = "revoking"
     \/ r.op = "part" /\ tab.at = "sending" /\ r.part = tab.part

\* uploadKeeperWav: what the browser does with the answer to r
Answer(r, ok) ==
  IF ~Awaits(r) THEN UNCHANGED browser
  ELSE IF ~ok \/ (r.op = "part" /\ r.part = Parts[r.bed])
  THEN tab' = [tab EXCEPT !.at = "idle"] /\ UNCHANGED reqs
  ELSE LET p == IF r.op = "revoke" THEN 1 ELSE r.part + 1
       IN  tab' = Sending(r.bed, p) /\ reqs' = reqs \cup {Request("part", r.bed, p)}

-----------------------------------------------------------------------------
(* The server's side of the upload, under the participant's ingest lock.   *)

Final(r) == r.op = "part" /\ r.part = Parts[r.bed]

(* Mutant: only the parts held are compared.                               *)
OtherPart(r) == parts[r.part] \notin {Nothing, r.bed}

\* different_part, different_file: the parts held are another bed's
Supersedes(r) ==
  \/ parts[r.part] \notin {Nothing, r.bed}
  \/ Final(r) /\ Bed(row) \notin {Nothing, r.bed}

Store(r) ==
  IF parts[r.part] = Nothing \/ files[r.part] = Nothing THEN "row"
  ELSE IF Final(r) THEN "assemble" ELSE "done"

\* ingest_part, revoke_room_tone: the lock is taken
Take(r) ==
  /\ ing = Free /\ r \in reqs
  /\ reqs' = reqs \ {r}
  /\ ing' = [req |-> r,
             at |-> IF r.op # "part" \/ Supersedes(r) THEN "unlink" ELSE Store(r)]
  /\ UNCHANGED <<tab, parts, files, acked, row, post, land, raw, project, waived, faults>>

Ingest(from, to) == ing.at = from /\ ing' = [ing EXCEPT !.at = to]

(* _clear_room_tone: part files, the assembled file, part rows, file row.   *)
ClearParts ==
  /\ Ingest("unlink", "unlinkAcked") /\ files' = NoParts
  /\ UNCHANGED <<browser, parts, acked, row, post, land, raw, project, waived, faults>>

ClearAcked ==
  /\ Ingest("unlinkAcked", "deleteParts") /\ acked' = Nothing
  /\ UNCHANGED <<browser, parts, files, row, post, land, raw, project, waived, faults>>

ClearPartRows ==
  /\ Ingest("deleteParts", "deleteRow") /\ parts' = NoParts
  /\ UNCHANGED <<browser, files, acked, row, post, land, raw, project, waived, faults>>

ClearRow ==
  /\ Ingest("deleteRow", IF ing.req.op = "part" THEN "row" ELSE "done")
  /\ row' = NoRow
  /\ UNCHANGED <<browser, parts, files, acked, post, land, raw, project, waived, faults>>

\* register_part runs before the part's file is renamed into place
PutRow ==
  /\ Ingest("row", "file") /\ parts' = [parts EXCEPT ![ing.req.part] = ing.req.bed]
  /\ UNCHANGED <<browser, files, acked, row, post, land, raw, project, waived, faults>>

PutFile ==
  /\ Ingest("file", IF Final(ing.req) THEN "assemble" ELSE "done")
  /\ files' = [files EXCEPT ![ing.req.part] = ing.req.bed]
  /\ UNCHANGED <<browser, parts, acked, row, post, land, raw, project, waived, faults>>

Whole(b) ==
  \A p \in PartNos :
    IF p <= Parts[b] THEN parts[p] = b /\ files[p] = b ELSE parts[p] = Nothing

Known(b) == Bed(row) = b

\* _assemble, to publish_completed_file; a gap or another hash is refused
Assemble ==
  LET b == ing.req.bed IN
  /\ Ingest("assemble", "mark")
  /\ ~Known(b) /\ Whole(b) /\ acked' = b
  /\ UNCHANGED <<browser, parts, files, row, post, land, raw, project, waived, faults>>

MarkFile ==
  /\ Ingest("mark", "sweep") /\ row' = Acked(ing.req.bed)
  /\ UNCHANGED <<browser, parts, files, acked, post, land, raw, project, waived, faults>>

\* the part files go; the request goes on to land what it completed
Sweep ==
  /\ ing.at = "sweep" /\ ing' = Free
  /\ files' = NoParts
  /\ post' = [post EXCEPT ![ing.req.bed] = "land"]
  /\ UNCHANGED <<browser, parts, acked, row, land, raw, project, waived, faults>>

Reply ==
  /\ \/ ing.at = "done" /\ Answer(ing.req, TRUE)
     \/ /\ ing.at = "assemble"
        /\ \/ Known(ing.req.bed) /\ Answer(ing.req, TRUE)
           \/ ~Known(ing.req.bed) /\ ~Whole(ing.req.bed) /\ Answer(ing.req, FALSE)
  /\ ing' = Free
  /\ UNCHANGED <<parts, files, acked, row, post, land, raw, project, waived, faults>>

\* a disk write raises; what was written before it stays
IngestFails ==
  /\ ing # Free /\ Fault
  /\ Answer(ing.req, FALSE) /\ ing' = Free
  /\ post' = IF ing.at = "sweep" THEN [post EXCEPT ![ing.req.bed] = "died"] ELSE post
  /\ UNCHANGED <<parts, files, acked, row, land, raw, project, waived>>

Ingests ==
  \/ ClearParts \/ ClearAcked \/ ClearPartRows \/ ClearRow \/ PutRow \/ PutFile
  \/ Assemble \/ MarkFile \/ Sweep \/ Reply

-----------------------------------------------------------------------------
(* land(), under the room's land lock.  Upload rows change meanwhile.      *)

Lands(from, to) == land.at = from /\ land' = [land EXCEPT !.at = to]

(* Undo put reg there; a land did, and nothing says yet that its upload    *)
(* stands; a land marked it landed; or a land went away without either: it *)
(* died or raised after the commit, or could neither take the bed back nor *)
(* write the row that says how.                                            *)
Grounds == {"undo", "land", "marked", "lost"}

Newest(s) == IF Len(s) > MaxUndo THEN Tail(s) ELSE s
Commit(bed) == reg' = bed /\ past' = Newest(Append(past, reg))

\* registration_present: beds share one path
AtPath(bed) == bed \in Beds

\* _ack_generation_current
Current(bed) == Bed(row) = bed

\* mark_land_failed with the hash of the upload it is about
MarkFailed(bed) ==
  row' = IF Bed(row) = bed THEN [row EXCEPT !.landed = FALSE, !.failed = TRUE] ELSE row

(* Mutant: whatever upload the row is about by now counts as landed.       *)
MarkAnyLanded(bed) ==
  row' = IF row # NoRow THEN [row EXCEPT !.landed = TRUE, !.failed = FALSE] ELSE row

MarkLanded(bed) ==
  row' = IF Bed(row) = bed THEN [row EXCEPT !.landed = TRUE, !.failed = FALSE] ELSE row

\* the lock is free, and the saved project is read again
StartLand(who) ==
  /\ land = NoLand
  /\ who \in {Host} \cup {b \in Beds : post[b] = "land"}
  /\ land' = [NoLand EXCEPT !.at = "waived", !.for = who, !.seen = reg]
  /\ UNCHANGED <<browser, upload, row, post, raw, project, waived, faults>>

Moot(r) == Current(r.bed) \/ ~AtPath(land.seen) \/ ~r.intact

(* _retry_deferred_rollbacks: rows that failed before may be backing off;  *)
(* moot rows are dropped, unless that write fails.                         *)
SortWaived ==
  \E skipped \in SUBSET {r \in waived : r.tried} :
    LET moot == {r \in waived \ skipped : Moot(r)}
        due  == waived \ (skipped \cup moot)
    IN  /\ land.at = "waived"
        /\ land' = [land EXCEPT !.at = IF due = {} THEN "plan" ELSE "retry", !.due = due]
        /\ \/ waived' = waived \ moot /\ UNCHANGED faults
           \/ moot # {} /\ Fault /\ UNCHANGED waived
        /\ UNCHANGED <<browser, upload, row, post, raw, project>>

\* the rows cannot be read: the land goes on without them
RowsUnread ==
  /\ Lands("waived", "plan") /\ Fault
  /\ UNCHANGED <<browser, upload, row, post, raw, project, waived>>

\* the rows of due whose registration the project still holds
Applies == {r \in land.due : AtPath(reg) /\ r.intact}

Retry ==
  /\ land.at = "retry"
  /\ IF Applies = {} THEN UNCHANGED <<reg, past>> ELSE \E r \in Applies : Commit(r.prior)
  /\ land' = [land EXCEPT !.at = "retried", !.seen = reg']
  /\ UNCHANGED <<browser, upload, row, post, raw, by, waived, faults>>

(* A retry may fail however often; only the first failure changes the row. *)
(* The save may have landed before it raised.  What comes after it, the    *)
(* note in the row and reading the project again, may fail as well.        *)
RetryFails ==
  /\ land.at = "retry"
  /\ UNCHANGED <<reg, past>> \/ \E r \in Applies : Commit(r.prior)
  /\ \E seen \in {land.seen, reg'} :
       land' = [land EXCEPT !.at = "plan", !.seen = seen, !.due = {}]
  /\ \/ waived' = (waived \ land.due) \cup {[r EXCEPT !.tried = TRUE] : r \in land.due}
     \/ UNCHANGED waived
  /\ UNCHANGED <<browser, upload, row, post, raw, by, faults>>

ClearRetried ==
  /\ land.at = "retried"
  /\ land' = [land EXCEPT !.at = "plan", !.due = {}]
  /\ \/ waived' = waived \ land.due /\ UNCHANGED faults
     \/ Fault /\ UNCHANGED waived
  /\ UNCHANGED <<browser, upload, row, post, raw, project>>

\* pending_rows: an acked bed not landed, or landed where the track has none
Pending == row # NoRow /\ (~row.landed \/ land.seen = Nothing)

Plan ==
  /\ land.at = "plan"
  /\ land' = IF Pending THEN [land EXCEPT !.at = "gate", !.bed = row.bed]
             ELSE [land EXCEPT !.at = "end"]
  /\ UNCHANGED <<browser, upload, row, post, raw, project, waived, faults>>

(* _gate_acked.  _mark_missing_acked, when the file is gone: the upload    *)
(* has landed only if the registered file holds its bytes.                 *)
Gate ==
  /\ IF acked # Nothing THEN Lands("gate", "copy") /\ UNCHANGED row
     ELSE /\ Lands("gate", "end")
          /\ IF AtPath(land.seen) /\ AtPath(reg) /\ raw = land.bed
             THEN MarkLanded(land.bed) ELSE MarkFailed(land.bed)
  /\ UNCHANGED <<browser, upload, post, raw, project, waived, faults>>

(* _copy_room_tone.  The file is another one now, whatever bytes it held.  *)
Copy ==
  /\ acked # Nothing /\ Lands("copy", "register")
  /\ raw' = acked
  /\ waived' = {[r EXCEPT !.intact = FALSE] : r \in waived}
  /\ UNCHANGED <<browser, upload, row, post, project, faults>>

\* the acked file went after the gate, or the copy fails: land raises
CopyFails ==
  /\ Lands("copy", "raise")
  /\ IF acked = Nothing THEN UNCHANGED faults ELSE Fault
  /\ UNCHANGED <<browser, upload, row, post, raw, project, waived>>

(* The mutation of the project: what was copied must be the upload planned *)
(* for, and that upload must still stand.                                  *)
Register ==
  /\ land.at = "register"
  /\ IF raw # land.bed
     THEN Lands("register", "end") /\ MarkFailed(land.bed)
     ELSE /\ UNCHANGED row
          /\ land' = IF Current(land.bed)
                     THEN [land EXCEPT !.at = "commit",
                                       !.prior = IF AtPath(reg) THEN Nothing ELSE reg]
                     ELSE [land EXCEPT !.at = "end"]
  /\ UNCHANGED <<browser, upload, post, raw, project, waived, faults>>

SaveRegistration ==
  /\ Lands("commit", "mark")
  /\ Commit(land.bed) /\ by' = "land"
  /\ UNCHANGED <<browser, upload, row, post, raw, waived, faults>>

\* _mark_copied_failed, which may raise too
SaidFailed == MarkFailed(land.bed) \/ UNCHANGED row

\* the mutation or its save raises, and the file is as it was
SaveFails ==
  /\ Lands("register", "raise") \/ Lands("commit", "raise")
  /\ Fault /\ SaidFailed
  /\ UNCHANGED <<browser, upload, post, raw, project, waived>>

(* The save raises after it replaced the file, from pruning snapshots or    *)
(* the transcript cache: the registration stays, and nobody looks whether  *)
(* its upload still stands.                                                *)
SaveRaises ==
  /\ Lands("commit", "raise") /\ Fault /\ SaidFailed
  /\ Commit(land.bed) /\ by' = "lost"
  /\ UNCHANGED <<browser, upload, post, raw, waived>>

\* _mark_registered_landing, and what it says when the upload has changed
Mark ==
  /\ land.at = "mark" /\ MarkLanded(land.bed)
  /\ IF Current(land.bed)
     THEN Lands("mark", "end") /\ by' = "marked"
     ELSE Lands("mark", "defer") /\ UNCHANGED by
  /\ UNCHANGED <<browser, upload, post, raw, reg, past, waived, faults>>

\* the mark or the look after it raises: the land ends there, too
MarkFails ==
  /\ Lands("mark", "raise") /\ Fault
  /\ by' = "lost"
  /\ UNCHANGED <<browser, upload, row, post, raw, reg, past, waived>>

\* _defer_rollbacks; a failure to write it does not stop the rollback
Defer ==
  /\ Lands("defer", "roll")
  /\ \/ /\ waived' = waived \cup {[bed |-> land.bed, prior |-> land.prior,
                                   intact |-> TRUE, tried |-> FALSE]}
        /\ UNCHANGED faults
     \/ Fault /\ UNCHANGED waived
  /\ UNCHANGED <<browser, upload, row, post, raw, project>>

Deferred(bed) == {r \in waived : r.bed = bed}

\* the project is left registering bed, with no row to take it back
Forgotten == IF Deferred(land.bed) = {} THEN by' = "lost" ELSE UNCHANGED by

RollBack ==
  /\ Lands("roll", "rolled")
  /\ Commit(land.prior)
  /\ UNCHANGED <<browser, upload, row, post, raw, by, waived, faults>>

(* Mutant: the row is cleared though the rollback failed.                  *)
FailsAndClears ==
  /\ Lands("roll", "rolled") /\ Fault
  /\ Forgotten
  /\ UNCHANGED <<browser, upload, row, post, raw, reg, past, waived>>

\* its save raises, before it replaced the file or after
RollBackFails ==
  /\ Lands("roll", "end") /\ Fault
  /\ \/ Forgotten /\ UNCHANGED <<reg, past>>
     \/ Commit(land.prior) /\ UNCHANGED by
  /\ UNCHANGED <<browser, upload, row, post, raw, waived>>

ClearDeferred ==
  /\ Lands("rolled", "end")
  /\ \/ waived' = waived \ Deferred(land.bed) /\ UNCHANGED faults
     \/ Fault /\ UNCHANGED waived
  /\ UNCHANGED <<browser, upload, row, post, raw, project>>

Then(who, to) == IF who = Host THEN post ELSE [post EXCEPT ![who] = to]

EndLand ==
  /\ land.at = "end"
  /\ land' = NoLand /\ post' = Then(land.for, "check")
  /\ UNCHANGED <<browser, upload, row, raw, project, waived, faults>>

(* The rows or the project cannot be read, or a row cannot be written,     *)
(* before the copy or after the project's lock was let go.                 *)
LandRaises ==
  /\ \E at \in {"waived", "plan", "gate", "end"} : Lands(at, "raise")
  /\ Fault
  /\ UNCHANGED <<browser, upload, row, post, raw, project, waived>>

\* land raised: _mark_pending_land_failed, which may raise too
RaiseLand ==
  /\ land.at = "raise"
  /\ land' = NoLand /\ post' = Then(land.for, "fail")
  /\ \/ /\ IF row # NoRow /\ ~row.landed THEN MarkFailed(row.bed) ELSE UNCHANGED row
        /\ UNCHANGED faults
     \/ Fault /\ UNCHANGED row
  /\ UNCHANGED <<browser, upload, raw, project, waived>>

LandSteps ==
  \/ SortWaived \/ Retry \/ ClearRetried \/ Plan \/ Gate \/ Copy \/ Register
  \/ SaveRegistration \/ Mark \/ Defer \/ RollBack \/ ClearDeferred
  \/ EndLand \/ RaiseLand

\* steps of a land that only a failing read or write, or a missing file, takes
LandFails ==
  \/ RowsUnread \/ RetryFails \/ CopyFails \/ SaveFails \/ SaveRaises \/ MarkFails
  \/ RollBackFails \/ LandRaises

-----------------------------------------------------------------------------
(* The request that completed bed b, after its ack                         *)
(* (ingest_record_upload_request).                                         *)

(* Mutant: the request gives up on the lock and says nothing of its bed.   *)
BusyUnsaid(b) ==
  /\ post[b] = "land" /\ land.for = Host
  /\ post' = [post EXCEPT ![b] = "done"] /\ Answer(Request("part", b, Parts[b]), TRUE)
  /\ UNCHANGED <<upload, row, land, raw, project, waived, faults>>

\* another process has held the land lock too long
Busy(b) ==
  /\ post[b] = "land" /\ land.for = Host
  /\ post' = [post EXCEPT ![b] = "fail"]
  /\ UNCHANGED <<browser, upload, row, land, raw, project, waived, faults>>

Check(b) ==
  /\ post[b] = "check"
  /\ IF Current(b) /\ ~row.landed
     THEN post' = [post EXCEPT ![b] = "fail"] /\ UNCHANGED browser
     ELSE post' = [post EXCEPT ![b] = "done"] /\ Answer(Request("part", b, Parts[b]), TRUE)
  /\ UNCHANGED <<upload, row, land, raw, project, waived, faults>>

Fail(b) ==
  /\ post[b] = "fail"
  /\ post' = [post EXCEPT ![b] = "done"] /\ Answer(Request("part", b, Parts[b]), TRUE)
  /\ MarkFailed(b)
  /\ UNCHANGED <<upload, land, raw, project, waived, faults>>

(* The land's lock, the room or the row cannot be read, and the bed is said *)
(* to have failed; or that cannot be written, and the answer is an error.  *)
ReportFails(b) ==
  /\ Fault
  /\ \/ /\ post[b] \in {"land", "check"} /\ land.for # b
        /\ post' = [post EXCEPT ![b] = "fail"] /\ UNCHANGED browser
     \/ /\ post[b] = "fail" /\ post' = [post EXCEPT ![b] = "died"]
        /\ Answer(Request("part", b, Parts[b]), FALSE)
  /\ UNCHANGED <<upload, row, land, raw, project, waived>>

-----------------------------------------------------------------------------
(* Somebody else, and crashes.                                             *)

\* from the commit on the land holds the project lock
HoldsProject == land.at \in {"commit", "mark", "defer", "roll", "rolled"}

Undo ==
  /\ ~HoldsProject /\ past # <<>>
  /\ reg' = Last(past) /\ past' = Front(past) /\ by' = "undo"
  /\ UNCHANGED <<browser, upload, row, post, land, raw, waived, faults>>

\* a land dies with its process; its rollback is lost if it was not written
LandDies ==
  /\ land' = NoLand
  /\ IF land.at \in {"mark", "defer", "roll"} THEN Forgotten ELSE UNCHANGED by

CrashHost ==
  /\ land.for = Host /\ Fault
  /\ LandDies
  /\ UNCHANGED <<browser, upload, row, post, raw, reg, past, waived>>

CrashServer ==
  /\ Fault
  /\ reqs' = {} /\ ing' = Free /\ tab' = [tab EXCEPT !.at = "idle"]
  /\ post' = [b \in Beds |->
                IF \/ post[b] \in {"land", "check", "fail"}
                   \/ ing.at = "sweep" /\ ing.req.bed = b
                THEN "died" ELSE post[b]]
  /\ IF land.for \in Beds THEN LandDies ELSE UNCHANGED <<land, by>>
  /\ UNCHANGED <<parts, files, acked, row, raw, reg, past, waived>>

Next ==
  \/ Record \/ Drop \/ GiveUp
  \/ \E r \in reqs : Take(r)
  \/ Ingests \/ IngestFails
  \/ \E who \in Beds \cup {Host} : StartLand(who)
  \/ LandSteps \/ LandFails
  \/ \E b \in Beds : Busy(b) \/ Check(b) \/ Fail(b) \/ ReportFails(b)
  \/ Undo \/ CrashHost \/ CrashServer

Spec == Init /\ [][Next]_vars

-----------------------------------------------------------------------------
Ops == [op : {"part", "revoke", "drop"}, bed : Beds, part : Nat]
Steps == {"unlink", "unlinkAcked", "deleteParts", "deleteRow", "row", "file",
          "assemble", "mark", "sweep", "done"}
MayBeds == Beds \cup {Nothing}
Rows    == [bed : Beds, landed : BOOLEAN, failed : BOOLEAN]
Waivers == [bed : Beds, prior : {Nothing, Other}, intact : BOOLEAN, tried : BOOLEAN]
Stages  == {"idle", "waived", "retry", "retried", "plan", "gate", "copy", "register",
            "commit", "mark", "defer", "roll", "rolled", "end", "raise"}

Tabs  == [bed : 0..MaxBeds, part : Nat, at : {"idle", "revoking", "sending"},
          sent : BOOLEAN]
Ings  == [at : Steps, req : Ops]
Posts == [Beds -> {"none", "land", "check", "fail", "done", "died"}]
Bedless == {"idle", "waived", "retry", "retried", "plan", "end", "raise"}
LandStates ==
  {l \in [at : Stages, for : MayBeds \cup {Host}, bed : MayBeds,
          seen : MayBeds \cup {Other}, prior : {Nothing, Other}, due : SUBSET Waivers] :
     l.bed = Nothing => l.at \in Bedless}

(* What each part may hold (sync.db, the upload and raw directories, the    *)
(* project's registration, the two locks).                                  *)
TypeOK ==
  /\ tab \in Tabs /\ (tab.sent => tab.bed # 0) /\ reqs \subseteq Ops /\ ing \in {Free} \cup Ings
  /\ parts \in [PartNos -> MayBeds] /\ files \in [PartNos -> MayBeds]
  /\ row \in {NoRow} \cup Rows /\ acked \in MayBeds /\ raw \in MayBeds
  /\ post \in Posts /\ land \in LandStates
  /\ reg \in MayBeds \cup {Other} /\ past \in Seq(MayBeds \cup {Other})
  /\ Len(past) <= MaxUndo /\ by \in Grounds
  /\ waived \subseteq Waivers /\ faults \in 0..MaxFaults

(* A bed the host acknowledged is whole: its assembled file is there, or it *)
(* is being withdrawn and its part files went first (_assemble publishes    *)
(* before mark_file, _clear_room_tone unlinks in that order), also after a  *)
(* crash between two of these steps.                                        *)
AckMeansBytes ==
  row # NoRow =>
    \/ acked = row.bed
    \/ acked = Nothing /\ \A p \in PartNos : files[p] # row.bed

(* While an upload counts as landed and the track plays the participant's   *)
(* bed file, that file holds this upload and not the one before or after    *)
(* it (mark_landed's expected_sha256, _mark_missing_acked).                 *)
LandedBedIsHeard == row # NoRow /\ row.landed /\ AtPath(reg) => raw = row.bed

(* A bed that was withdrawn or replaced while a land registered it does     *)
(* not stay: once the land is over it is taken back, or a rollback row      *)
(* still says how, through failed retries and crashes (_rollback_or_defer,  *)
(* _retry_deferred_rollbacks).  Not so where the land never got to that row *)
(* (Grounds: "lost"), or undo put the bed back.                            *)
StaleBedTakenBack ==
  land = NoLand /\ by = "land" /\ AtPath(reg) /\ raw = reg =>
    \E r \in waived : r.bed = reg /\ r.intact

(* When the request that completed a bed is answered, the bed has landed,   *)
(* is marked failed, or is no longer the one acknowledged: no participant    *)
(* is left waiting on an upload that nothing will land                      *)
(* (ingest_record_upload_request, _mark_pending_land_failed).               *)
AnsweredAckSettled == \A b \in Beds : post[b] = "done" => row # Acked(b)
=============================================================================
