---------------------------- MODULE CommandQueue ----------------------------
(***************************************************************************)
(* The browser's command queue for one project (services/commandQueue.ts,  *)
(* services/offlineQueue/drainOfflineQueue.ts): the tabs of one browser    *)
(* send edits, undo, and replay what was left unsent, over one persisted   *)
(* queue in IndexedDB and one Web Lock.                                    *)
(*                                                                         *)
(* An edit is queued before it is posted and leaves the queue when it is   *)
(* answered; one whose answer did not come stays, and a later drain posts  *)
(* it again.  A command keeps its identity, so that the server, which      *)
(* journals each once (DocumentJournal), is here a log.  Payloads, drafts  *)
(* and what a reply changes on the screen are left out.  So is a failing   *)
(* read of IndexedDB; a failing write of an admission is in.               *)
(***************************************************************************)
EXTENDS Naturals, Sequences, FiniteSets, SequencesExt, Selections

CONSTANTS Tabs, Edits, Undos,
          Sides,     \* host or share guest, with Web Locks or without
          Live,      \* who posts: a live command, or the tab that replays, or
          Gone,      \*   nobody who still listens
          Nobody,
          MaxFaults  \* bound: refusals, lost answers, reloads, failed writes

Commands == Edits \cup Undos

ASSUME QueueAssumption ==
  /\ Edits \cap Undos = {} /\ Nobody \notin Tabs
  /\ {Live, Gone} \cap Tabs = {} /\ Live # Gone
  /\ Sides \subseteq [guest : BOOLEAN, locks : BOOLEAN]
  /\ MaxFaults \in Nat

VARIABLES
  side,     \* which of Sides this browser is
  queue,    \* queue:{token} or host-queue:{path}, persisted
  line,     \* requests for the Web Lock, in order; granted from the front
  op,       \* command -> where the call that sends it live is
  drain,    \* tab -> its DrainRun and the ReplaySource of its pass
  wire,     \* POSTs whose answer has not been handled
  log,      \* the commands the server has applied, in order
  told,     \* edits whose sender was told they did not land for certain
  faults

vars == <<side, queue, line, op, drain, wire, log, told, faults>>

Rows == ToSet(queue)
Post(c, by) == [cmd |-> c, by |-> by]

Unsent == [at |-> "idle", tab |-> Nobody, earlier |-> {}, ahead |-> {},
           behindRun |-> FALSE, saved |-> FALSE, head |-> 0]

\* awaited outlives a run: awaitedLiveSends
NoRun(awaited) ==
  [at |-> "idle", again |-> FALSE, rest |-> <<>>, live |-> {}, recheck |-> FALSE,
   news |-> FALSE, present |-> {}, done |-> {}, awaited |-> awaited]

Init ==
  /\ side \in Sides
  /\ queue = <<>> /\ line = <<>> /\ log = <<>>
  /\ op = [c \in Commands |-> Unsent]
  /\ drain = [t \in Tabs |-> NoRun({})]
  /\ wire = {} /\ told = {} /\ faults = 0

Fault == faults < MaxFaults /\ faults' = faults + 1

-----------------------------------------------------------------------------
(* The Web Lock: shared for an edit and for a replay, exclusive for an     *)
(* undo.  Requests wait in groups that may hold it together.  A browser    *)
(* without it sends edits unguarded and refuses undo.                      *)

Shared(group) == group \cap Undos = {}

Request(who) ==
  line' = IF ~side.locks THEN line
          ELSE IF line # <<>> /\ Shared(Last(line)) /\ Shared({who})
          THEN [line EXCEPT ![Len(line)] = @ \cup {who}]
          ELSE Append(line, {who})

Held(who) ==
  side.locks =>
    \E i \in DOMAIN line :
      /\ who \in line[i]
      /\ i = 1 \/ \A j \in 1..i : Shared(line[j])

LineWithout(gone) ==
  LET left == [i \in DOMAIN line |-> line[i] \ gone]
  IN  Picked(left, {i \in DOMAIN left : left[i] # {}})

(* The queue: one rule of admission, an existing row stays where it is.    *)
AdmitAgain(q, c) == Append(q, c)           \* Mutant
AdmitRow(q, c) == IF Contains(q, c) THEN q ELSE Append(q, c)

Without(q, gone) == Picked(q, {i \in DOMAIN q : q[i] \notin gone})

(* Live sends of a tab (documentSendOrder.ts); a guest's undo is not one.  *)
Sending(t) ==
  {c \in Commands : /\ op[c].tab = t
                    /\ op[c].at \in {"wait", "behind", "look", "posted"}
                    /\ c \in Undos => ~side.guest}

(* What an undo waits for besides the drain: editSavesInFlight and the     *)
(* moves pressed before it.                                                *)
InFlight(t) ==
  {c \in Commands : op[c].tab = t /\ op[c].at \notin {"idle", "done"}}

(* A run ends, and lets on what waited for it.                             *)
EndRun(t) ==
  /\ drain' = [drain EXCEPT ![t] = NoRun(@.awaited)]
  /\ op' = [c \in Commands |->
              IF op[c].tab # t THEN op[c]
              ELSE [op[c] EXCEPT !.at = IF @ = "behind" THEN "look" ELSE @,
                                 !.behindRun = FALSE]]

(* requestHostDrain, requestGuestDrain: a run now, or once more after it.  *)
Asked(d) == [d EXCEPT !.again = TRUE]
Running(t) == drain[t].at # "idle" \/ drain[t].again

(* send.finish: a drain that met this send runs once more.                 *)
Noted(d, c) ==
  LET heard == [d EXCEPT !.awaited = @ \ {c},
                         !.news = d.at = "read" \/ d.recheck \/ d.live # {}]
  IN  IF c \in d.awaited THEN Asked(heard) ELSE heard

Ended(c) == [op[c] EXCEPT !.at = "done", !.tab = Nobody, !.earlier = {}, !.behindRun = FALSE]

Finish(c, asks) ==
  LET t == op[c].tab
      d == IF c \in Sending(t) THEN Noted(drain[t], c) ELSE drain[t]
  IN  /\ op' = [op EXCEPT ![c] = Ended(c)]
      /\ drain' = [drain EXCEPT ![t] = IF asks THEN Asked(d) ELSE d]
      /\ line' = LineWithout({c})
-----------------------------------------------------------------------------
(* An edit sent live: submitQueuedDocumentCommand.                         *)

Begin(t, c) ==
  /\ op[c].at = "idle" /\ c \in Edits
  /\ op' = [op EXCEPT ![c].at = "begun", ![c].tab = t]
  /\ Request(c)
  /\ UNCHANGED <<side, queue, drain, wire, log, told, faults>>

(* beginDocumentSend and the admission, one atomic append.  Nothing older: *)
(* the edit is posted at once.                                             *)
Admit(c) ==
  /\ c \in Edits /\ op[c].at = "begun" /\ Held(c)
  /\ op' = [op EXCEPT ![c].at = IF queue = <<>> THEN "posted" ELSE "wait",
                      ![c].earlier = Sending(op[c].tab),
                      ![c].ahead = Rows \cap Edits,
                      ![c].saved = TRUE]
  /\ queue' = AdmitRow(queue, c)
  /\ wire' = IF queue = <<>> THEN wire \cup {Post(c, Live)} ELSE wire
  /\ UNCHANGED <<side, line, drain, log, told, faults>>

(* The admission cannot be written.  A host's edit is then posted without  *)
(* a row if the queue is seen to be empty; anything else fails.            *)
Unsaved(c) ==
  /\ op[c].at = "begun" /\ Held(c) /\ Fault
  /\ IF c \in Edits /\ ~side.guest /\ queue = <<>>
     THEN /\ op' = [op EXCEPT ![c].at = "posted"]
          /\ wire' = wire \cup {Post(c, Live)}
          /\ UNCHANGED <<line, drain, told>>
     ELSE /\ Finish(c, FALSE)
          /\ told' = told \cup ({c} \cap Edits)
          /\ UNCHANGED wire
  /\ UNCHANGED <<side, queue, log>>

(* queueHeadAfterPriorSend: wait for the tab's earlier sends and, without  *)
(* Web Locks, for the drain that runs then.                                *)
EarlierDone(c) == \A e \in op[c].earlier : op[e].at = "done"
MeetsDrain(c) == ~side.locks /\ Running(op[c].tab)

FallBehind(c) ==
  /\ op[c].at = "wait" /\ EarlierDone(c) /\ MeetsDrain(c)
  /\ op' = [op EXCEPT ![c].at = "behind"]
  /\ UNCHANGED <<side, queue, line, drain, wire, log, told, faults>>

(* DOCUMENT_SEND_WAIT_MS passes: the edit is left to a drain.              *)
GiveUp(c) ==
  /\ op[c].at \in {"wait", "behind"}
  /\ Finish(c, TRUE)
  /\ UNCHANGED <<side, queue, wire, log, told, faults>>

MayPostAnyway(c) == c \in Rows  \* Mutant
MayPost(c) == queue # <<>> /\ Head(queue) = c

(* Posts as the head of the queue; else something older is still there.    *)
Look(c) ==
  /\ \/ op[c].at = "wait" /\ EarlierDone(c) /\ ~MeetsDrain(c)
     \/ op[c].at = "look" /\ c \in Edits
  /\ IF MayPost(c)
     THEN /\ op' = [op EXCEPT ![c].at = "posted"]
          /\ wire' = wire \cup {Post(c, Live)}
          /\ UNCHANGED <<line, drain>>
     ELSE Finish(c, TRUE) /\ UNCHANGED wire
  /\ UNCHANGED <<side, queue, log, told, faults>>

(* The server (DocumentSyncService.submit): a command already journaled is *)
(* answered as done, an undo is applied only to the head it names, and an  *)
(* edit may be refused.  What the server does and the answer it gives are  *)
(* one step: an answer that does not arrive is an orphan's.                *)
Answer(c, answer) ==
  \/ /\ answer = "ok" /\ Contains(log, c)
     /\ UNCHANGED <<log, faults>>
  \/ /\ answer = "ok" /\ ~Contains(log, c)
     /\ c \in Undos => op[c].head = Len(log)
     /\ log' = Append(log, c) /\ UNCHANGED faults
  \/ /\ answer = "refused" /\ ~Contains(log, c)
     /\ IF c \in Undos THEN op[c].head # Len(log) /\ UNCHANGED faults ELSE Fault
     /\ UNCHANGED log

(* A refusal goes to the sender and to "Needs attention".                  *)
Tell(c, answer) ==
  told' = IF answer = "refused" THEN told \cup ({c} \cap Edits) ELSE told

(* The answer of a live command: it leaves the queue either way.           *)
Settle(c) ==
  \E answer \in {"ok", "refused"} :
    /\ Post(c, Live) \in wire
    /\ Answer(c, answer) /\ Tell(c, answer)
    /\ queue' = Without(queue, {c})
    /\ wire' = wire \ {Post(c, Live)}
    /\ Finish(c, FALSE)
    /\ UNCHANGED side

(* A POST nobody listens to any more: the server may still get it.         *)
Orphaned(posts) == (wire \ posts) \cup {Post(p.cmd, Gone) : p \in posts}

LeavesAnyway(c) == {c}  \* Mutant
LeavesUnsure(c) == IF c \in Undos THEN {c} ELSE {}

(* No answer, a 408, 429 or 5xx: an edit stays queued, an undo never.      *)
Unsure(c) ==
  /\ Post(c, Live) \in wire /\ Fault
  /\ queue' = Without(queue, LeavesUnsure(c))
  /\ told' = IF c \in Edits /\ ~op[c].saved THEN told \cup {c} ELSE told
  /\ wire' = Orphaned({Post(c, Live)})
  /\ Finish(c, FALSE)
  /\ UNCHANGED <<side, log>>
-----------------------------------------------------------------------------
(* Undo and redo: moveHistory, submitLiveHistoryCommand.                   *)

Press(t, u) ==
  /\ side.locks /\ u \in Undos /\ op[u].at = "idle"
  /\ op' = [op EXCEPT ![u] = [Unsent EXCEPT !.at = "hold", !.tab = t,
                 !.earlier = InFlight(t), !.ahead = InFlight(t) \cap Edits,
                 !.behindRun = Running(t)]]
  /\ UNCHANGED <<side, queue, line, drain, wire, log, told, faults>>

(* The edits in flight when it was pressed have ended.  It names the head  *)
(* this tab knows; an older one could only be refused.                     *)
AskLock(u) ==
  /\ op[u].at = "hold" /\ ~op[u].behindRun
  /\ EarlierDone(u)
  /\ op' = [op EXCEPT ![u].at = "begun", ![u].head = Len(log)]
  /\ Request(u)
  /\ UNCHANGED <<side, queue, drain, wire, log, told, faults>>

Enter(u) ==
  /\ u \in Undos /\ op[u].at = "begun" /\ Held(u)
  /\ op' = [op EXCEPT ![u].at = "look", ![u].ahead = @ \cup (Rows \cap Edits),
                      ![u].saved = TRUE]
  /\ queue' = AdmitRow(queue, u)
  /\ UNCHANGED <<side, line, drain, wire, log, told, faults>>

(* Another undo's row does not count; an edit's does, and so does a row of *)
(* its own that another tab's drain has taken out.                         *)
FirstEffective(u) ==
  \E i \in DOMAIN queue : queue[i] = u /\ \A j \in 1..(i - 1) : queue[j] \in Undos

LookUndo(u) ==
  /\ u \in Undos /\ op[u].at = "look"
  /\ IF FirstEffective(u)
     THEN /\ op' = [op EXCEPT ![u].at = "posted"]
          /\ wire' = wire \cup {Post(u, Live)}
          /\ UNCHANGED <<queue, line, drain>>
     ELSE /\ queue' = Without(queue, {u})
          /\ Finish(u, side.guest => u \in Rows)
          /\ UNCHANGED wire
  /\ UNCHANGED <<side, log, told, faults>>
-----------------------------------------------------------------------------
(* A drain: coalescedDrain, replayQueuedCommands, queueReplaySource.       *)

(* load, when somebody has asked or the sanity timer, "online" or a        *)
(* reconnect does: the snapshot, and then which of it this tab is itself   *)
(* sending.  A run over an empty queue ends as it begins.                  *)
ReadQueue(t) ==
  /\ drain[t].at = "idle" /\ (drain[t].again \/ queue # <<>>)
  /\ IF queue = <<>>
     THEN EndRun(t)
     ELSE /\ drain' = [drain EXCEPT ![t] = [NoRun(@.awaited) EXCEPT !.at = "read",
                                                                   !.rest = queue]]
          /\ UNCHANGED op
  /\ UNCHANGED <<side, queue, line, wire, log, told, faults>>

Tidy(d) ==
  LET live == d.live \cap ToSet(d.rest)
  IN  [d EXCEPT !.live = live, !.present = @ \cap ToSet(d.rest),
                !.recheck = @ /\ d.rest # <<>>,
                !.news = @ /\ (d.recheck \/ live # {})]

MarkLive(t) ==
  /\ drain[t].at = "read"
  /\ drain' = [drain EXCEPT ![t] =
                 Tidy([@ EXCEPT !.at = "gate", !.live = Sending(t),
                                !.recheck = drain[t].news, !.present = Commands])]
  /\ UNCHANGED <<side, queue, line, op, wire, log, told, faults>>

Stopped(d) == [NoRun(d.awaited) EXCEPT !.at = "end", !.again = d.again,
                                       !.done = d.done]
Onward(d) == Tidy([d EXCEPT !.at = "gate", !.rest = Tail(@)])

(* gate: a row this tab is sending stops the pass; one it may have sent    *)
(* since the snapshot is looked up again.                                  *)
Checked(d, c) ==
  IF d.news /\ (d.recheck \/ c \in d.live)
  THEN Tidy([d EXCEPT !.present = Rows, !.news = FALSE, !.recheck = FALSE])
  ELSE d

Due(t) == Head(drain[t].rest)
AtGate(t) == drain[t].at = "gate" /\ drain[t].rest # <<>>

Stop(t) ==
  /\ AtGate(t) /\ Due(t) \in Sending(t)
  /\ drain' = [drain EXCEPT ![t] = [Stopped(drain[t]) EXCEPT !.awaited = @ \cup {Due(t)}]]
  /\ UNCHANGED <<side, queue, line, op, wire, log, told, faults>>

(* An undo left in the queue is only inspected: it may have been applied.  *)
Pass(t) ==
  LET d == Checked(drain[t], Due(t))
  IN  /\ AtGate(t) /\ Due(t) \notin Sending(t)
      /\ Due(t) \in d.present => Due(t) \in Undos
      /\ drain' = [drain EXCEPT ![t] = Onward(d)]
      /\ queue' = IF Due(t) \in d.present THEN Without(queue, {Due(t)}) ELSE queue
      /\ UNCHANGED <<side, line, op, wire, log, told, faults>>

Claim(t) ==
  LET d == Checked(drain[t], Due(t))
  IN  /\ AtGate(t) /\ Due(t) \notin Sending(t)
      /\ Due(t) \in d.present \cap Edits
      /\ drain' = [drain EXCEPT ![t] = [d EXCEPT !.at = "claim"]]
      /\ Request(t)
      /\ UNCHANGED <<side, queue, op, wire, log, told, faults>>

(* A guest's replay admits its row again, a host's relies on the one there.*)
Replay(t) ==
  /\ drain[t].at = "claim" /\ Held(t)
  /\ drain' = [drain EXCEPT ![t].at = "posted"]
  /\ queue' = IF side.guest THEN AdmitRow(queue, Due(t)) ELSE queue
  /\ wire' = wire \cup {Post(Due(t), t)}
  /\ UNCHANGED <<side, line, op, log, told, faults>>

(* Applied: a guest's row goes now, a host's with the batch.  Refused: the *)
(* row goes and the pass goes on.                                          *)
Answered(t) ==
  \E answer \in {"ok", "refused"} :
    LET c == Due(t)
    IN  /\ drain[t].at = "posted"
        /\ Answer(c, answer) /\ Tell(c, answer)
        /\ wire' = wire \ {Post(c, t)}
        /\ queue' = IF side.guest \/ answer = "refused"
                    THEN Without(queue, {c}) ELSE queue
        /\ drain' = [drain EXCEPT ![t] =
             Onward(IF answer = "ok" THEN [drain[t] EXCEPT !.done = @ \cup {c}] ELSE @)]
        /\ line' = LineWithout({t})
        /\ UNCHANGED <<side, op>>

GoOn(d) == Onward(d)          \* Mutant
AfterUnsure(d) == Stopped(d)

(* An uncertain replay stays queued and stops the pass.                    *)
Uncertain(t) ==
  /\ drain[t].at = "posted" /\ Fault
  /\ wire' = Orphaned({Post(Due(t), t)})
  /\ drain' = [drain EXCEPT ![t] = AfterUnsure(@)]
  /\ line' = LineWithout({t})
  /\ UNCHANGED <<side, queue, op, log, told>>

(* settle: the rows that landed go in one update; then another pass if one *)
(* was asked for, or the run ends.                                         *)
EndPass(t) ==
  /\ \/ drain[t].at = "end"
     \/ drain[t].at = "gate" /\ drain[t].rest = <<>>
  /\ queue' = Without(queue, drain[t].done)
  /\ IF drain[t].again
     THEN /\ drain' = [drain EXCEPT ![t] = Asked(NoRun(@.awaited))]
          /\ UNCHANGED op
     ELSE EndRun(t)
  /\ UNCHANGED <<side, line, wire, log, told, faults>>
-----------------------------------------------------------------------------
(* The tab is reloaded; and what becomes of a POST nobody listens to.      *)

Reload(t) ==
  LET lost == InFlight(t)
  IN  /\ Fault
      /\ lost # {} \/ drain[t] # NoRun({})
      /\ op' = [c \in Commands |-> IF c \in lost THEN Ended(c) ELSE op[c]]
      /\ drain' = [drain EXCEPT ![t] = NoRun({})]
      /\ line' = LineWithout(lost \cup {t})
      /\ wire' = Orphaned({p \in wire : p.by = t \/ (p.by = Live /\ p.cmd \in lost)})
      /\ UNCHANGED <<side, queue, log, told>>

Orphan ==
  \E p \in wire :
    /\ p.by = Gone /\ wire' = wire \ {p}
    /\ \/ \E answer \in {"ok", "refused"} : Answer(p.cmd, answer)
       \/ UNCHANGED <<log, faults>>
    /\ UNCHANGED <<side, queue, line, op, drain, told>>
-----------------------------------------------------------------------------
LiveStep(c) ==
  \/ Admit(c) \/ FallBehind(c) \/ Look(c) \/ Settle(c)
  \/ AskLock(c) \/ Enter(c) \/ LookUndo(c)

DrainStep(t) ==
  \/ ReadQueue(t) \/ MarkLive(t) \/ Stop(t) \/ Pass(t) \/ Claim(t) \/ Replay(t)
  \/ Answered(t) \/ EndPass(t)

Sent    == \E c \in Commands : LiveStep(c)
Drained == \E t \in Tabs : DrainStep(t)

Next ==
  \/ Sent \/ Drained \/ Orphan
  \/ \E c \in Commands : Unsaved(c) \/ GiveUp(c) \/ Unsure(c)
  \/ \E t \in Tabs :
       \/ Uncertain(t) \/ Reload(t)
       \/ \E c \in Commands : Begin(t, c) \/ Press(t, c)

Spec == Init /\ [][Next]_vars

(* Code runs on and the server answers; the sanity timer is a ReadQueue.   *)
(* No more is needed: a send takes few steps, and a drain that goes round  *)
(* and round has a live send to wait for.                                  *)
FairSpec == Spec /\ WF_vars(Sent) /\ WF_vars(Drained)
-----------------------------------------------------------------------------
(* Every variable has its type, and no command has two rows, whoever       *)
(* admits it again (admitCommand).                                         *)
TypeOK ==
  /\ side \in Sides
  /\ queue \in Seq(Commands) /\ IsInjective(queue)
  /\ line \in Seq(SUBSET (Commands \cup Tabs))
  /\ op \in [Commands ->
             [at : {"idle", "begun", "wait", "behind", "look", "posted", "hold", "done"},
              tab : Tabs \cup {Nobody}, earlier : SUBSET Commands,
              ahead : SUBSET Edits, behindRun : BOOLEAN, saved : BOOLEAN, head : Nat]]
  /\ drain \in [Tabs ->
                [at : {"idle", "read", "gate", "claim", "posted", "end"}, again : BOOLEAN,
                 rest : Seq(Commands), live : SUBSET Commands, recheck : BOOLEAN,
                 news : BOOLEAN, present : SUBSET Commands, done : SUBSET Commands,
                 awaited : SUBSET Commands]]
  /\ wire \subseteq [cmd : Commands, by : Tabs \cup {Live, Gone}]
  /\ log \in Seq(Commands) /\ IsInjective(log)
  /\ told \subseteq Edits /\ faults \in 0..MaxFaults

(* No command lands before an edit that was queued ahead of it, or that    *)
(* its tab had in flight when Undo was pressed, unless that edit's sender  *)
(* was told it did not land: whatever is sent live, given up, replayed by  *)
(* two tabs at once, lost or reloaded in between.                          *)
NoOvertaking ==
  \A i \in DOMAIN log : \A e \in op[log[i]].ahead \ told :
    \E j \in 1..(i - 1) : log[j] = e

(* No send, undo or row waits for ever on the lock, an earlier send, a     *)
(* drain or another tab: every call ends, an edit once queued has landed   *)
(* in the end or its sender has been told it did not, and the queue is     *)
(* empty again and again.  (Not for good: two guest tabs with stale        *)
(* snapshots may admit a row for each other that has landed already.)      *)
Settled(c) ==
  /\ op[c].at \in {"idle", "done"}
  /\ c \in Edits /\ op[c].saved => Contains(log, c) \/ c \in told

EverySendSettles ==
  /\ <>[](\A c \in Commands : Settled(c))
  /\ []<>(queue = <<>>)
=============================================================================
