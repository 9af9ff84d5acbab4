----------------------------- MODULE DocumentFeed -----------------------------
(* How a row of the document journal reaches an open tab: the Studio        *)
(* process, which commits rows and publishes them through its hub; another  *)
(* process, which can only commit; the watcher that looks for such rows on  *)
(* behalf of the sockets that lease it; one bounded queue per socket; and   *)
(* the tab, with its recovery loop and its slow poll.                       *)
EXTENDS DocumentTab, Selections

CONSTANTS
  Sockets,       \* sockets the tab may open, one after the other
  Kinds,         \* what a command of this process announces itself with
  Faults,        \* what may go wrong, of AllFaults
  Capacity,      \* queue_maxsize of the hub
  Memory,        \* _APPLIED_SEQ_MEMORY
  Attempts,      \* _PUBLISH_ATTEMPTS
  MaxSaves, MaxFaults, MaxDrops,  \* bounds
  Nobody, NoRow, Off, Asked

(* A section that ends without COMMIT (a submit, a notification), a mutation *)
(* that tells nobody, another process that dies after its save, a           *)
(* publish_head that raises, a baseline that cannot be read, an acquire     *)
(* that cannot start a watcher, a request of the tab that gets no reply.    *)
AllFaults == {"command", "notice", "silence", "death", "publish", "baseline",
              "lease", "request"}

ASSUME FeedAssumption ==
  /\ Kinds \subseteq {"delta", "whole", "resync"}
  /\ Faults \subseteq AllFaults
  /\ Capacity \in Nat \ {0} /\ Memory \in Nat \ {0} /\ Attempts \in Nat \ {0}
  /\ {MaxSaves, MaxFaults, MaxDrops} \subseteq Nat
  /\ Nobody \notin Sockets /\ NoRow \notin Nat /\ NoFile \notin Nat
  /\ NoRow \notin [v : Nat, base : Nat]
  /\ NoRow \notin [what : {"command", "notice"}, event : Events, mine : BOOLEAN]

ASSUME FeedMarkers ==
  /\ NoRow \notin Seq(Events)
  /\ Off # Asked /\ {Off, Asked} \cap Events = {}

VARIABLES
  file,       \* saves of the project so far
  saved,      \* document_sync.last_command: the save it is, the head it was made at
  journal,    \* committed rows: the save each one announces
  open,       \* the section that has published and not yet committed, or NoRow
  notice,     \* a save of this process whose ExternalMutate row is still to come
  published,  \* SessionHub._applied_seqs, oldest first
  entry,      \* CrossProcessBridge._entries: the watcher of this workspace
  watcher,    \* every watcher made
  socket,     \* the server's side of each socket
  tab,        \* the tab (DocumentTab)
  conn,       \* the socket the tab has open
  fetch,      \* the recovery loop's request: Off, Asked, or the reply
  reply,      \* the reply to the tab's own command, on its way
  poll,       \* useFileMetaPoll: what it read last, and the request it makes
  faults,     \* what has gone wrong, each once at most
  drops       \* connections lost

server == <<file, saved, journal, open, notice>>
bridge == <<entry, watcher>>
trouble == <<faults, drops>>
client == <<tab, conn, fetch, reply, poll>>
vars == <<server, published, bridge, socket, client, trouble>>

-----------------------------------------------------------------------------
(* The journal and the project lock.                                        *)

Rows == {journal[i] : i \in DOMAIN journal}
JournalHead == Len(journal)
Unlocked == open = NoRow

(* Mutant: a saved command that was not journaled is left alone.            *)
RecoveredNever == journal

(* journal_saved_command: a command saved on top of this head, without row. *)
Recovered ==
  IF saved # NoRow /\ saved.base = JournalHead /\ saved.v \notin Rows
    THEN Append(journal, saved.v) ELSE journal

(* document_snapshot(shell), which takes the project lock and recovers.     *)
Snapshot == Whole(Len(Recovered), file)

Fault(what) ==
  /\ what \in Faults \ faults /\ Cardinality(faults) < MaxFaults
  /\ faults' = faults \cup {what}
  /\ UNCHANGED drops

LoseConnection ==
  /\ drops < MaxDrops
  /\ drops' = drops + 1
  /\ UNCHANGED faults

-----------------------------------------------------------------------------
(* SessionHub.                                                              *)

Listening == {k \in Sockets : socket[k].queue # NoRow}

(* mark_published: a deque of the newest Memory seqs, each once.            *)
Remembering(mem, seqs) ==
  LET new == {i \in DOMAIN seqs : seqs[i] \notin {mem[j] : j \in DOMAIN mem}}
      all == mem \o Picked(seqs, new)
  IN SubSeq(all, Larger(Len(all) - Memory, 0) + 1, Len(all))

(* unpublished_seqs. `after` is NoRow when the baseline could not be read.  *)
Unpublished(after, head) ==
  LET start == IF after = NoRow THEN head ELSE Larger(after + 1, head - Memory + 1)
      range == [i \in 1..Larger(head - start + 1, 0) |-> start + i - 1]
      unknown == {i \in DOMAIN range : range[i] \notin {published[j] : j \in DOMAIN published}}
  IN IF head = 0 THEN <<>> ELSE Picked(range, unknown)

(* Mutant: a full queue drops what arrives.                                 *)
PutDroppingNewest(queue, e) == IF Len(queue) < Capacity THEN Append(queue, e) ELSE queue

(* _session_overflow, rule 1: one marker instead of the whole queue.        *)
Put(queue, e) ==
  IF Len(queue) < Capacity THEN Append(queue, e)
  ELSE <<[e EXCEPT !.kind = "resync"]>>

(* FanoutHub.publish, after marking the seqs.                               *)
Publish(e, seqs) ==
  /\ published' = Remembering(published, seqs)
  /\ socket' = [k \in Sockets |->
       IF k \in Listening THEN [socket[k] EXCEPT !.queue = Put(@, e)] ELSE socket[k]]

-----------------------------------------------------------------------------
(* DocumentSyncService in the Studio process.                               *)

(* submit up to its COMMIT: recover, save the project, append the row and   *)
(* publish, all under the project lock. The tab itself may be the sender.   *)
Submit(kind, mine) ==
  /\ Unlocked /\ file < MaxSaves
  /\ mine => tab.phase # "starting" /\ reply = NoRow
  /\ LET e == Event(kind, Len(Recovered) + 1, file + 1, file) IN
       /\ Publish(e, <<e.seq>>)
       /\ open' = [what |-> "command", event |-> e, mine |-> mine]
       /\ saved' = [v |-> file + 1, base |-> Len(Recovered)]
  /\ file' = file + 1
  /\ journal' = Recovered
  /\ UNCHANGED <<notice, bridge, client, trouble>>

(* A mutation outside submit saves first and tells the journal later.       *)
SaveUnannounced ==
  /\ Unlocked /\ file < MaxSaves /\ notice = NoRow
  /\ file' = file + 1
  /\ notice' = file + 1
  /\ UNCHANGED <<saved, journal, open, published, bridge, socket, client, trouble>>

(* publish_document_changed up to its COMMIT. Comments name the file they   *)
(* were made for only while that save is still the last one.                *)
Announce(kind) ==
  /\ Unlocked /\ notice # NoRow
  /\ LET e == IF kind = "whole" THEN Whole(Len(Recovered) + 1, file)
              ELSE Event("comments", Len(Recovered) + 1, file,
                         IF file = notice THEN file - 1 ELSE NoFile)
     IN /\ Publish(e, <<e.seq>>)
        /\ open' = [what |-> "notice", event |-> e, mine |-> FALSE]
  /\ journal' = Recovered
  /\ notice' = NoRow
  /\ UNCHANGED <<file, saved, bridge, client, trouble>>

(* The notification is best effort: it may fail and leave no row.           *)
StaySilent ==
  /\ notice # NoRow /\ Fault("silence")
  /\ notice' = NoRow
  /\ UNCHANGED <<file, saved, journal, open, published, bridge, socket, client>>

(* COMMIT of document.db; the sender's reply sets out.                      *)
Commit ==
  /\ ~Unlocked
  /\ journal' = Append(journal, open.event.v)
  /\ open' = NoRow
  /\ reply' = IF open.mine THEN open.event ELSE reply
  /\ UNCHANGED <<file, saved, notice, published, bridge, socket, tab, conn, fetch, poll, trouble>>

(* The COMMIT fails after the event has been published.                     *)
Rollback ==
  /\ ~Unlocked /\ Fault(open.what)
  /\ open' = NoRow
  /\ UNCHANGED <<file, saved, journal, notice, published, bridge, socket, client>>

(* A command of another process: project and row, or, when that process     *)
(* dies in between, the project alone.                                      *)
SubmitElsewhere(dies) ==
  /\ Unlocked /\ file < MaxSaves
  /\ file' = file + 1
  /\ saved' = [v |-> file + 1, base |-> Len(Recovered)]
  /\ journal' = IF dies THEN Recovered ELSE Append(Recovered, file + 1)
  /\ IF dies THEN Fault("death") ELSE UNCHANGED trouble
  /\ UNCHANGED <<open, notice, published, bridge, socket, client>>

-----------------------------------------------------------------------------
(* CrossProcessWatcher and CrossProcessBridge.                              *)

NoWatcher == [state |-> "none", refs |-> 0, seen |-> NoRow, tick |-> "idle",
              after |-> NoRow, failures |-> 0]

(* _Plane.poll up to publish_head: the head is read without the lock.       *)
Tick(w) ==
  /\ watcher[w].state = "running" /\ watcher[w].tick = "idle"
  /\ Listening # {} /\ JournalHead # watcher[w].seen
  /\ LET after == watcher[w].seen
         looked == [watcher[w] EXCEPT !.seen = JournalHead]
     IN watcher' = [watcher EXCEPT ![w] =
          IF Unpublished(after, JournalHead) = <<>> THEN looked
          ELSE [looked EXCEPT !.tick = "publish", !.after = after]]
  /\ UNCHANGED <<server, published, entry, socket, client, trouble>>

Idle(w) == [w EXCEPT !.tick = "idle", !.after = NoRow]

(* publish_cross_process_head: looked at again under the lock, and          *)
(* collapsed into one whole snapshot at the head.                           *)
PublishHead(w) ==
  /\ watcher[w].tick = "publish" /\ Unlocked
  /\ LET head == Len(Recovered)
         seqs == Unpublished(watcher[w].after, head)
     IN IF Unpublished(watcher[w].after, JournalHead) = <<>>
        THEN UNCHANGED <<journal, published, socket>>
        ELSE journal' = Recovered /\ Publish(Whole(head, file), seqs)
  /\ watcher' = [watcher EXCEPT ![w] = [Idle(watcher[w]) EXCEPT !.failures = 0]]
  /\ UNCHANGED <<file, saved, open, notice, entry, client, trouble>>

(* Mutant: the cursor stays where the failing tick had put it.              *)
PublishFailsForgetting(w) ==
  /\ watcher[w].tick = "publish" /\ Fault("publish")
  /\ watcher' = [watcher EXCEPT ![w] = [Idle(watcher[w]) EXCEPT !.failures = @ + 1]]
  /\ UNCHANGED <<server, published, entry, socket, client>>

(* publish_head raises: the cursor goes back, but not for ever.             *)
PublishFails(w) ==
  /\ watcher[w].tick = "publish" /\ Fault("publish")
  /\ watcher' = [watcher EXCEPT ![w] =
       IF watcher[w].failures + 1 < Attempts
         THEN [Idle(watcher[w]) EXCEPT !.failures = @ + 1, !.seen = watcher[w].after]
         ELSE [Idle(watcher[w]) EXCEPT !.failures = 0]]
  /\ UNCHANGED <<server, published, entry, socket, client>>

(* acquire: the workspace's watcher, made on first use, and its start,      *)
(* which reads a baseline; the read may fail, which leaves it unknown. The  *)
(* bridge's lock and the watcher's are taken one after the other; nobody    *)
(* reads in between what the second writes, so they are one step.           *)
Acquire(k) ==
  /\ socket[k].lease = "asked"
  /\ \E w \in Sockets, seen \in {JournalHead, NoRow} :
       /\ IF entry = Nobody THEN watcher[w].state = "none" ELSE w = entry
       /\ entry' = w
       /\ \/ entry # Nobody /\ seen = JournalHead
             /\ watcher' = [watcher EXCEPT ![w].refs = @ + 1]
          \/ entry = Nobody
             /\ watcher' = [watcher EXCEPT ![w] =
                  [@ EXCEPT !.refs = 1, !.state = "running", !.seen = seen]]
       /\ socket' = [socket EXCEPT ![k].lease = "held", ![k].watcher = w]
       /\ IF seen = NoRow THEN Fault("baseline") ELSE UNCHANGED trouble
  /\ UNCHANGED <<server, published, client>>

(* acquire never raises: it logs and hands out a lease on nothing.          *)
AcquireFails(k) ==
  /\ socket[k].lease = "asked" /\ Fault("lease")
  /\ socket' = [socket EXCEPT ![k].lease = "held", ![k].watcher = Nobody]
  /\ UNCHANGED <<server, published, bridge, client>>

(* Mutant: the bridge keeps the watcher it has stopped.                     *)
ReleaseKeepingEntry(k) ==
  /\ socket[k].pc = "left" /\ socket[k].lease = "held"
  /\ LET w == socket[k].watcher
         last == w # Nobody /\ entry = w /\ watcher[w].refs = 1
     IN /\ watcher' = [x \in Sockets |-> IF x # w \/ x # entry THEN watcher[x] ELSE
             [watcher[x] EXCEPT !.refs = @ - 1, !.state = IF last THEN "stopping" ELSE @]]
        /\ socket' = [socket EXCEPT ![k].lease = IF last THEN "joining" ELSE "none"]
  /\ UNCHANGED <<server, published, entry, client, trouble>>

(* release, also of a lease that came too late for its socket. The last one *)
(* removes the entry, stops the thread and waits for its tick.              *)
Release(k) ==
  /\ socket[k].pc = "left" /\ socket[k].lease = "held"
  /\ LET w == socket[k].watcher
         last == w # Nobody /\ entry = w /\ watcher[w].refs = 1
     IN /\ entry' = IF last THEN Nobody ELSE entry
        /\ watcher' = [x \in Sockets |-> IF x # w \/ x # entry THEN watcher[x] ELSE
             [watcher[x] EXCEPT !.refs = @ - 1, !.state = IF last THEN "stopping" ELSE @]]
        /\ socket' = [socket EXCEPT ![k].lease = IF last THEN "joining" ELSE "none"]
  /\ UNCHANGED <<server, published, client, trouble>>

Join(k) ==
  /\ socket[k].lease = "joining" /\ watcher[socket[k].watcher].tick = "idle"
  /\ watcher' = [watcher EXCEPT ![socket[k].watcher] = NoWatcher]
  /\ socket' = [socket EXCEPT ![k].lease = "none"]
  /\ UNCHANGED <<server, published, entry, client, trouble>>

-----------------------------------------------------------------------------
(* A socket: the handler of /api/host/ws, and the wire to the tab.          *)

NoSocket == [pc |-> "closed", queue |-> NoRow, wire |-> <<>>, lease |-> "none",
             watcher |-> Nobody]

(* The tab connects; the handler subscribes and asks for the lease.         *)
Connect(k) ==
  /\ conn = Nobody /\ socket[k] = NoSocket
  /\ conn' = k
  /\ socket' = [socket EXCEPT ![k] =
       [@ EXCEPT !.pc = "subscribed", !.queue = <<>>, !.lease = "asked"]]
  /\ UNCHANGED <<server, published, bridge, tab, fetch, reply, poll, trouble>>

(* Mutant: the hello snapshot is read without waiting for the lease.        *)
HelloBeforeLease(k) ==
  /\ socket[k].pc = "subscribed" /\ Unlocked /\ conn = k
  /\ journal' = Recovered
  /\ socket' = [socket EXCEPT ![k].pc = "live", ![k].wire = Append(@, Snapshot)]
  /\ UNCHANGED <<file, saved, open, notice, published, bridge, client, trouble>>

(* The hello snapshot, read once the lease is held; then the pump starts.   *)
Hello(k) ==
  /\ socket[k].pc = "subscribed" /\ socket[k].lease = "held" /\ Unlocked /\ conn = k
  /\ journal' = Recovered
  /\ socket' = [socket EXCEPT ![k].pc = "live", ![k].wire = Append(@, Snapshot)]
  /\ UNCHANGED <<file, saved, open, notice, published, bridge, client, trouble>>

(* pump: one event from the queue to the wire.                              *)
Pump(k) ==
  /\ socket[k].pc = "live" /\ socket[k].queue \notin {NoRow, <<>>}
  /\ conn = k /\ socket[k].wire = <<>>
  /\ socket' = [socket EXCEPT ![k].queue = Tail(@),
                              ![k].wire = Append(@, Head(socket[k].queue))]
  /\ UNCHANGED <<server, published, bridge, client, trouble>>

(* The handler notices that the tab is gone: it unsubscribes, and leaves a  *)
(* lease that is still on its way to be released when it comes. The last    *)
(* subscriber takes the hub's memory with it (_key_idle).                   *)
Leave(k) ==
  /\ socket[k].pc \in {"subscribed", "live"} /\ conn # k
  /\ socket' = [socket EXCEPT ![k].pc = "left", ![k].queue = NoRow]
  /\ published' = IF Listening = {k} THEN <<>> ELSE published
  /\ UNCHANGED <<server, bridge, client, trouble>>

Gone(k) ==
  /\ socket[k].pc = "left" /\ socket[k].lease = "none"
  /\ socket' = [socket EXCEPT ![k] = NoSocket]
  /\ UNCHANGED <<server, published, bridge, client, trouble>>
-----------------------------------------------------------------------------
(* The tab.                                                                 *)

(* applyDocumentSnapshot, and recoverDocument where it calls for it. A loop *)
(* that is already running goes on with the new minimum.                    *)
Receive(e) ==
  /\ tab' = Applied(tab, e)
  /\ fetch' = IF Invalidates(tab, e) /\ fetch = Off THEN Asked ELSE fetch

(* The next frame of the socket.                                            *)
Deliver ==
  /\ conn # Nobody /\ socket[conn].wire # <<>>
  /\ Receive(Head(socket[conn].wire))
  /\ socket' = [socket EXCEPT ![conn].wire = Tail(@)]
  /\ UNCHANGED <<server, published, bridge, conn, reply, poll, trouble>>

(* applyDocumentResult: the reply to its own command, before or after the   *)
(* same event over the socket.                                              *)
TakeReply ==
  /\ reply # NoRow
  /\ Receive(reply)
  /\ reply' = NoRow
  /\ UNCHANGED <<server, published, bridge, socket, conn, poll, trouble>>

(* GET /api/document/state, for the recovery loop.                          *)
ServeFetch ==
  /\ fetch = Asked /\ Unlocked
  /\ fetch' = Snapshot
  /\ journal' = Recovered
  /\ UNCHANGED <<file, saved, open, notice, published, bridge, socket, tab, conn, reply, poll, trouble>>

(* The loop ends when it is no longer needed or the state is new enough,    *)
(* and asks again otherwise.                                                *)
TakeFetch ==
  /\ fetch \notin {Off, Asked}
  /\ \/ tab.phase # "recovering" /\ fetch' = Off /\ UNCHANGED tab
     \/ /\ tab.phase = "recovering" /\ fetch.seq >= tab.min
        /\ tab' = Applied(tab, fetch) /\ fetch' = Off
     \/ tab.phase = "recovering" /\ fetch.seq < tab.min /\ fetch' = Asked /\ UNCHANGED tab
  /\ UNCHANGED <<server, published, bridge, socket, conn, reply, poll, trouble>>

(* The request fails: the loop's promise rejects, and nobody asks again.    *)
LoseFetch ==
  /\ fetch = Asked /\ Fault("request")
  /\ fetch' = Off
  /\ UNCHANGED <<server, published, bridge, socket, tab, conn, reply, poll>>

(* pollSnapshotAlreadyApplied.                                              *)
AlreadyApplied(meta) == tab.file = meta.v /\ meta.seq <= tab.seq

Meta == [v |-> file, seq |-> JournalHead]

(* useFileMetaPoll: the first reading is only remembered, a later one that  *)
(* differs makes useProjectPoll ask for the document, unless the socket has *)
(* delivered it or the tab is already past it.                              *)
PollRead ==
  /\ poll.req = Off /\ poll.ref # Meta
  /\ poll' = [ref |-> Meta,
              req |-> IF \/ poll.ref = NoRow \/ AlreadyApplied(Meta)
                         \/ Meta.seq \in 1..(tab.seq - 1)
                        THEN Off ELSE Asked]
  /\ UNCHANGED <<server, published, bridge, socket, tab, conn, fetch, reply, trouble>>

ServePoll ==
  /\ poll.req = Asked /\ Unlocked
  /\ poll' = [poll EXCEPT !.req = Snapshot]
  /\ journal' = Recovered
  /\ UNCHANGED <<file, saved, open, notice, published, bridge, socket, tab, conn, fetch, reply, trouble>>

TakePoll ==
  /\ poll.req \notin {Off, Asked}
  /\ IF AlreadyApplied(poll.ref) THEN UNCHANGED <<tab, fetch>> ELSE Receive(poll.req)
  /\ poll' = [poll EXCEPT !.req = Off]
  /\ UNCHANGED <<server, published, bridge, socket, conn, reply, trouble>>

(* The request fails: "Transient", with the reading already remembered.     *)
LosePoll ==
  /\ poll.req = Asked /\ Fault("request")
  /\ poll' = [poll EXCEPT !.req = Off]
  /\ UNCHANGED <<server, published, bridge, socket, tab, conn, fetch, reply>>

(* The connection is lost, with what was on its way.                        *)
Drop ==
  /\ conn # Nobody /\ LoseConnection
  /\ conn' = Nobody
  /\ socket' = [socket EXCEPT ![conn].wire = <<>>]
  /\ UNCHANGED <<server, published, bridge, tab, fetch, reply, poll>>

(* The Studio process dies: what was not committed, the hub's memory, its   *)
(* watchers and sockets are gone, and the tab's requests fail.              *)
Restart ==
  /\ LoseConnection /\ notice = NoRow
  /\ ~Unlocked => open.what \in Faults
  /\ open' = NoRow /\ published' = <<>> /\ entry' = Nobody
  /\ watcher' = [w \in Sockets |-> NoWatcher]
  /\ socket' = [k \in Sockets |-> NoSocket]
  /\ conn' = Nobody /\ reply' = NoRow
  /\ fetch' = IF fetch = Asked THEN Off ELSE fetch
  /\ poll' = [poll EXCEPT !.req = IF @ = Asked THEN Off ELSE @]
  /\ UNCHANGED <<file, saved, journal, notice, tab>>

-----------------------------------------------------------------------------
Init ==
  /\ file = 0 /\ saved = NoRow /\ journal = <<>> /\ open = NoRow /\ notice = NoRow
  /\ published = <<>> /\ entry = Nobody
  /\ watcher = [w \in Sockets |-> NoWatcher]
  /\ socket = [k \in Sockets |-> NoSocket]
  /\ tab = Starting /\ conn = Nobody /\ fetch = Off /\ reply = NoRow
  /\ poll = [ref |-> NoRow, req |-> Off]
  /\ faults = {} /\ drops = 0

Write ==
  \/ \E kind \in Kinds, mine \in BOOLEAN : Submit(kind, mine)
  \/ \E dies \in BOOLEAN : SubmitElsewhere(dies)
  \/ SaveUnannounced
  \/ \E kind \in {"whole", "comments"} : Announce(kind)
  \/ StaySilent \/ Commit \/ Rollback

Watch ==
  \/ \E w \in Sockets : Tick(w) \/ PublishHead(w) \/ PublishFails(w)
  \/ \E k \in Sockets : \/ Acquire(k) \/ AcquireFails(k) \/ Release(k) \/ Join(k)

Serve ==
  \E k \in Sockets : Connect(k) \/ Hello(k) \/ Pump(k) \/ Leave(k) \/ Gone(k)

React ==
  \/ Deliver \/ TakeReply
  \/ ServeFetch \/ TakeFetch \/ LoseFetch
  \/ PollRead \/ ServePoll \/ TakePoll \/ LosePoll

Next == Write \/ Watch \/ Serve \/ React \/ Drop \/ Restart

Spec == Init /\ [][Next]_vars

(* Sections end, notifications are sent, threads and handlers run, requests *)
(* are answered, the poll's timer fires, and a closed socket is opened      *)
(* again. Nothing makes anybody write, fail or disconnect.                  *)
FairSpec ==
  /\ Spec
  /\ WF_vars(Commit \/ Rollback)
  /\ WF_vars(\E kind \in {"whole", "comments"} : Announce(kind))
  /\ \A k \in Sockets :
       /\ WF_vars(Tick(k)) /\ WF_vars(PublishHead(k) \/ PublishFails(k))
       /\ WF_vars(Acquire(k) \/ AcquireFails(k)) /\ WF_vars(Release(k)) /\ WF_vars(Join(k))
       /\ WF_vars(Connect(k)) /\ WF_vars(Hello(k)) /\ WF_vars(Pump(k))
       /\ WF_vars(Leave(k)) /\ WF_vars(Gone(k))
  /\ WF_vars(Deliver) /\ WF_vars(TakeReply)
  /\ WF_vars(ServeFetch) /\ WF_vars(TakeFetch)
  /\ WF_vars(PollRead) /\ WF_vars(ServePoll) /\ WF_vars(TakePoll)

-----------------------------------------------------------------------------
(* The type of every variable, and the bounds of the hub's two stores.      *)
TypeOK ==
  /\ Len(published) <= Memory
  /\ \A k \in Listening : Len(socket[k].queue) <= Capacity
  /\ file \in Nat /\ journal \in Seq(Nat) /\ published \in Seq(Nat)
  /\ saved = NoRow \/ saved \in [v : Nat, base : Nat]
  /\ open = NoRow \/ open \in [what : {"command", "notice"}, event : Events, mine : BOOLEAN]
  /\ notice \in Nat \cup {NoRow} /\ entry \in Sockets \cup {Nobody}
  /\ watcher \in [Sockets -> [state : {"none", "running", "stopping"}, refs : Nat,
                  seen : Nat \cup {NoRow}, tick : {"idle", "publish"},
                  after : Nat \cup {NoRow}, failures : Nat]]
  /\ socket \in [Sockets -> [pc : {"closed", "subscribed", "live", "left"},
                  queue : Seq(Events) \cup {NoRow}, wire : Seq(Events),
                  lease : {"none", "asked", "held", "joining"},
                  watcher : Sockets \cup {Nobody}]]
  /\ tab \in [phase : {"starting", "ready", "recovering"}, min : Nat, seq : Nat,
              token : Nat \cup {NoFile}, file : Nat \cup {NoFile}, shown : SUBSET Nat]
  /\ conn \in Sockets \cup {Nobody}
  /\ fetch \in Events \cup {Off, Asked} /\ reply \in Events \cup {NoRow}
  /\ poll \in [ref : [v : Nat, seq : Nat] \cup {NoRow}, req : Events \cup {Off, Asked}]
  /\ faults \subseteq AllFaults /\ drops \in Nat

(* A tab claims a file (noteDocumentFile) only while it shows all of it and *)
(* nothing else: whatever was dropped, collapsed, sent twice or overtaken,  *)
(* a patch was put on the file it was made for, or the claim is given up.   *)
(* The poll skips its request on the strength of this claim.                *)
ClaimsWhatItShows == tab.file # NoFile => tab.shown = 1..tab.file

(* When nothing is on its way any more (the queue, the wire and the tab's   *)
(* requests are empty, none of them failed, and the watcher has looked at   *)
(* the head), a ready tab shows every journaled change: no row of another    *)
(* process is missed, and no lost or overtaken event goes unnoticed.        *)
Quiet ==
  /\ "request" \notin faults
  /\ Unlocked /\ conn # Nobody /\ fetch = Off /\ poll.req = Off /\ reply = NoRow
  /\ socket[conn].pc = "live" /\ socket[conn].queue = <<>> /\ socket[conn].wire = <<>>
  /\ socket[conn].watcher # Nobody
  /\ LET w == watcher[socket[conn].watcher] IN
       w.seen = JournalHead /\ w.tick = "idle"

QuietTabIsCurrent == Quiet => tab.phase = "ready" /\ Rows \subseteq tab.shown

(* A tab that was told of a seq whose row a crash rolled back is safe: the  *)
(* next section journals the same command at the same seq. Outside a        *)
(* section no tab is ahead of that, or waits for what will not come.        *)
SeenSeqsComeBack == Unlocked => Larger(tab.seq, tab.min) <= Len(Recovered)

(* Every live socket that got a lease is watched for: its watcher is the    *)
(* one in the bridge and runs, however leases were taken and let go; and    *)
(* only as many hold it as are counted.                                     *)
LeasedSocketIsWatched ==
  /\ \A k \in Sockets : socket[k].lease = "held" /\ socket[k].watcher # Nobody =>
       entry = socket[k].watcher /\ watcher[entry].state = "running"
  /\ \A w \in Sockets : watcher[w].refs = Cardinality(
       {k \in Sockets : socket[k].watcher = w /\ socket[k].lease = "held"})

(* Once nobody writes any more, the tab comes to show every journaled       *)
(* change, and goes on showing it.                                          *)
TabConverges == <>[](tab.phase = "ready" /\ Rows \subseteq tab.shown)
=============================================================================
