--------------------------- MODULE DocumentJournal ---------------------------
(***************************************************************************)
(* DocumentSyncService: how a document command reaches episode.sharecut    *)
(* and its row in document.db exactly once.                                *)
(*                                                                         *)
(* submit, publish_document_changed and document_snapshot each run as one  *)
(* critical section under the project lock, which every process shares, so *)
(* one variable holds the section in progress.  The project commit and the *)
(* sqlite COMMIT are two separate writes: the server may die, or either    *)
(* may fail, between them.  Clients retry with the same command, or (older *)
(* clients) with a new command_id at the same client_seq.                  *)
(*                                                                         *)
(* The project is abstracted to the commands it has absorbed and to        *)
(* document_sync.last_command; ProjectStore models its commit.             *)
(***************************************************************************)
EXTENDS Naturals, Sequences, FiniteSets

CONSTANTS Servers,      \* services: one DocumentSyncService each, reused
          Commands,     \* what clients may send: [client, client_seq, id, edit]
          NoSeq,        \* client_seq None: the server assigns a number
          NoCommand,    \* no last_command
          Unread,       \* a service that must re-read the project
          Quiet,        \* may a command change nothing?
          MaxExternal,  \* bound: ExternalMutate rows
          MaxLost,      \* bound: times document.db is deleted
          MaxFaults     \* bound: crashes, raised errors and lost replies

ASSUME JournalBounds == {MaxExternal, MaxLost, MaxFaults} \subseteq Nat /\ Quiet \in BOOLEAN

(* publish_document_changed's own command: a fresh id, numbered by the server *)
External(n) ==
  [client |-> "server:external", client_seq |-> NoSeq, id |-> n, edit |-> "ExternalMutate"]

Externals == {External(n) : n \in 1..MaxExternal}

(* A client does not reuse a command_id for another command, and none is   *)
(* the server or guesses the ids it generates.                             *)
ASSUME JournalCommands ==
  /\ NoCommand \notin Commands \cup Externals
  /\ \A c, d \in Commands : c.id = d.id /\ c.client = d.client => c = d
  /\ \A c \in Commands : c.client # "server:external" /\ c.id \notin 1..MaxExternal

VARIABLES
  saved,      \* the last_command episode.sharecut holds, with its base_server_seq
  applied,    \* the commands episode.sharecut has absorbed, oldest first
  journal,    \* document.db: its committed rows; server_seq is the index
  mem,        \* service -> the last_command it holds in memory, while its
              \* certificate is the project file's; else Unread
  call,       \* the critical section in progress
  published,  \* Applied events handed to a hub
  replied,    \* commands whose client holds an Applied reply
  refused,    \* commands whose client was told of a sequence conflict
  quiet,      \* commands that ran to their end and changed nothing
  spent       \* how much of each bound is used

vars == <<saved, applied, journal, mem, call, published, replied, refused,
          quiet, spent>>

project == <<saved, applied>>
clients == <<replied, refused>>

Idle == [at |-> "idle"]

Rowed == Commands \cup Externals

Saves == [command : Commands, base : Nat]
None  == [command |-> NoCommand, base |-> 0]
NoOne == [s \in Servers |-> Unread]

(* Unread is no record a project could hold.                               *)
ASSUME JournalMarkers == Unread \notin Saves \cup {None}

(* Two commands are attempts at one edit when they share client and client_seq *)
(* or, where the server numbers them, the command_id.                          *)
Numbered(c) == c.client_seq # NoSeq

Intent(c) == <<c.client, c.client_seq, IF Numbered(c) THEN "any" ELSE c.id>>

Rows    == {journal[i] : i \in DOMAIN journal}
ById(c) == {r \in Rows : r.id = c.id}

(* the row at (client_id, client_seq), looked for only when the client     *)
(* named a client_seq                                                      *)
SlotRow(c) ==
  {r \in Rows : Numbered(c) /\ r.client = c.client /\ r.client_seq = c.client_seq}

SameEdit(r, c) == r.edit = c.edit

-----------------------------------------------------------------------------
(* existing_document_command: the row a retry names, or a conflict.        *)
Conflicts(c) ==
  IF SlotRow(c) # {}
  THEN \E r \in SlotRow(c) : r.id # c.id /\ ~SameEdit(r, c)
  ELSE \E r \in ById(c) : r.client # c.client \/ ~SameEdit(r, c)

(* Mutant: a retry is known by its command_id alone.                       *)
ExistingById(c) == ~Conflicts(c) /\ ById(c) # {}

Existing(c) == ~Conflicts(c) /\ SlotRow(c) \cup ById(c) # {}

(* append_and_apply finds the row instead of inserting one *)
Claimed(c) == (IF Numbered(c) THEN SlotRow(c) ELSE ById(c)) # {}

(* journal_saved_command: a saved command the journal has not moved past   *)
(* and does not hold.                                                      *)
Unjournaled(last) ==
  /\ last # None
  /\ last.base = Len(journal)
  /\ ById(last.command) = {}

-----------------------------------------------------------------------------
Init ==
  /\ saved = None /\ applied = << >> /\ journal = << >>
  /\ mem = NoOne
  /\ call = Idle
  /\ published = {} /\ replied = {} /\ refused = {} /\ quiet = {}
  /\ spent = [external |-> 0, lost |-> 0, faults |-> 0]

Spend(what) == spent' = [spent EXCEPT ![what] = @ + 1]

Fault == spent.faults < MaxFaults /\ Spend("faults")

(* _project_ownership: take the project lock; re-read the project unless   *)
(* this service's certificate is the file's.                               *)
Enter(s, kind, c) ==
  /\ call = Idle
  /\ call' = [at |-> "recover", server |-> s, kind |-> kind, command |-> c, previous |-> None]
  /\ mem' = [mem EXCEPT ![s] = IF @ = Unread THEN saved ELSE @]
  /\ UNCHANGED <<project, journal, published, clients, quiet>>

Submit(s, c) == c \in Commands /\ Enter(s, "submit", c) /\ UNCHANGED spent

Notify(s) ==
  /\ spent.external < MaxExternal
  /\ Enter(s, "notify", External(spent.external + 1))
  /\ Spend("external")

Snapshot(s) == Enter(s, "read", NoCommand) /\ UNCHANGED spent

(* The section ends and the project lock is released.                      *)
Leave == call' = Idle

-----------------------------------------------------------------------------
(* journal_saved_command, committed in a transaction of its own.           *)
(* Mutant: only reads recover; a submit or a notification goes straight on.*)
RecoverInReads ==
  LET last == mem[call.server]
  IN  /\ call.at = "recover"
      /\ journal' = IF call.kind = "read" /\ Unjournaled(last) /\ ~Claimed(last.command)
                    THEN Append(journal, last.command) ELSE journal
      /\ call' = CASE call.kind = "submit" -> [call EXCEPT !.at = "check"]
                   [] call.kind = "notify" -> [call EXCEPT !.at = "append"]
                   [] call.kind = "read"   -> Idle
      /\ UNCHANGED <<project, mem, published, clients, quiet, spent>>

Recover ==
  LET last == mem[call.server]
  IN  /\ call.at = "recover"
      /\ journal' = IF Unjournaled(last) /\ ~Claimed(last.command)
                    THEN Append(journal, last.command) ELSE journal
      /\ call' = CASE call.kind = "submit" -> [call EXCEPT !.at = "check"]
                   [] call.kind = "notify" -> [call EXCEPT !.at = "append"]
                   [] call.kind = "read"   -> Idle
      /\ UNCHANGED <<project, mem, published, clients, quiet, spent>>

(* Mutant: only the very command the row holds is answered from it.        *)
RetryOfSameId ==
  /\ call.at = "check"
  /\ Existing(call.command)
  /\ replied' = IF call.command \in Rows THEN replied \cup {call.command} ELSE replied
  /\ Leave
  /\ UNCHANGED <<project, journal, mem, published, refused, quiet, spent>>

(* Under BEGIN IMMEDIATE: a retry gets the row it names (its reply may be  *)
(* lost) ...                                                               *)
Retry ==
  /\ call.at = "check"
  /\ Existing(call.command)
  /\ \/ replied' = replied \cup {call.command} /\ UNCHANGED spent
     \/ UNCHANGED replied /\ Fault
  /\ Leave
  /\ UNCHANGED <<project, journal, mem, published, refused, quiet>>

(* ... another edit at that place is refused ...                           *)
Refuse ==
  /\ call.at = "check"
  /\ Conflicts(call.command)
  /\ refused' = refused \cup {call.command}
  /\ Leave
  /\ UNCHANGED <<project, journal, mem, published, replied, quiet, spent>>

(* ... and a new one is set as last_command in memory before it is applied.*)
Prepare ==
  LET s == call.server
  IN  /\ call.at = "check"
      /\ ~Existing(call.command) /\ ~Conflicts(call.command)
      /\ call' = [call EXCEPT !.at = "apply", !.previous = mem[s]]
      /\ mem' = [mem EXCEPT ![s] =
                   [command |-> call.command, base |-> Len(journal)]]
      /\ UNCHANGED <<project, journal, published, clients, quiet, spent>>

-----------------------------------------------------------------------------
(* One atomic replacement of the project file, with the command in it.     *)
CommitsProject ==
  /\ saved' = mem[call.server]
  /\ applied' = Append(applied, call.command)

ApplyLands ==
  /\ call.at = "apply"
  /\ CommitsProject
  /\ mem' = NoOne
  /\ call' = [call EXCEPT !.at = "append"]
  /\ UNCHANGED <<journal, published, clients, quiet, spent>>

(* The handler commits nothing (it asks, or finds nothing to do); a result *)
(* marked unchanged also puts the previous record back.                    *)
ApplyQuiet ==
  LET s == call.server
  IN  /\ call.at = "apply"
      /\ Quiet
      /\ mem' \in {mem, [mem EXCEPT ![s] = call.previous]}
      /\ quiet' = quiet \cup {call.command}
      /\ call' = [call EXCEPT !.at = "append"]
      /\ UNCHANGED <<project, journal, published, clients, spent>>

(* Mutant: a handler that raised leaves its record in memory.              *)
ApplyRaisesKeepingRecord ==
  /\ call.at = "apply"
  /\ Leave /\ Fault
  /\ UNCHANGED <<project, journal, mem, published, clients, quiet>>

(* The handler raises and its commit did not land: the previous record is  *)
(* back, and a failed save has also made the workspace forget the file.    *)
ApplyRaises ==
  LET s == call.server
  IN  /\ call.at = "apply"
      /\ \E left \in {call.previous, Unread} : mem' = [mem EXCEPT ![s] = left]
      /\ Leave /\ Fault
      /\ UNCHANGED <<project, journal, published, clients, quiet>>

(* It raises after its commit landed: the record stays.                    *)
ApplyRaisesLanded ==
  /\ call.at = "apply"
  /\ CommitsProject
  /\ mem' = NoOne
  /\ Leave /\ Fault
  /\ UNCHANGED <<journal, published, clients, quiet>>

(* It raises and the project file cannot be stat'ed: the workspace forgets *)
(* what it holds, whichever file is there.                                 *)
ApplyUnknown ==
  /\ call.at = "apply"
  /\ \/ CommitsProject    /\ mem' = NoOne
     \/ UNCHANGED project /\ mem' = [mem EXCEPT ![call.server] = Unread]
  /\ Leave /\ Fault
  /\ UNCHANGED <<journal, published, clients, quiet>>

-----------------------------------------------------------------------------
(* append_and_apply inside the open transaction: the row is not durable    *)
(* yet.  A row found there instead raises.                                 *)
AppendRow ==
  /\ call.at = "append"
  /\ call' = IF Claimed(call.command) THEN Idle ELSE [call EXCEPT !.at = "publish"]
  /\ UNCHANGED <<project, journal, mem, published, clients, quiet, spent>>

(* Mutant: the client is answered before COMMIT.                           *)
PublishReplying ==
  /\ call.at = "publish"
  /\ published' = published \cup {[seq |-> Len(journal) + 1, command |-> call.command]}
  /\ replied' = IF call.kind = "submit" THEN replied \cup {call.command} ELSE replied
  /\ call' = [call EXCEPT !.at = "commit"]
  /\ UNCHANGED <<project, journal, mem, refused, quiet, spent>>

PublishApplied ==
  /\ call.at = "publish"
  /\ published' = published \cup {[seq |-> Len(journal) + 1, command |-> call.command]}
  /\ call' = [call EXCEPT !.at = "commit"]
  /\ UNCHANGED <<project, journal, mem, clients, quiet, spent>>

(* Mutant: every section answers a client, notifications too.              *)
CommitReplyingAll ==
  /\ call.at = "commit"
  /\ journal' = Append(journal, call.command)
  /\ replied' = replied \cup {call.command}
  /\ Leave
  /\ UNCHANGED <<project, mem, published, refused, quiet, spent>>

(* COMMIT, and the reply (which may be lost).                              *)
CommitJournal ==
  /\ call.at = "commit"
  /\ journal' = Append(journal, call.command)
  /\ \/ /\ replied' = IF call.kind = "submit" THEN replied \cup {call.command} ELSE replied
        /\ UNCHANGED spent
     \/ UNCHANGED replied /\ Fault
  /\ Leave
  /\ UNCHANGED <<project, mem, published, refused, quiet>>

(* A step on document.db raises (busy, disk full, I/O): its transaction is *)
(* rolled back, and the client is told to retry.                           *)
JournalFails ==
  /\ call.at \in {"recover", "check", "append", "publish", "commit"}
  /\ Leave /\ Fault
  /\ UNCHANGED <<project, journal, mem, published, clients, quiet>>

-----------------------------------------------------------------------------
(* The process of s dies; sqlite rolls its transaction back.               *)
Crash(s) ==
  /\ call # Idle => call.server = s
  /\ call # Idle \/ mem[s] # Unread
  /\ mem' = [mem EXCEPT ![s] = Unread]
  /\ Leave /\ Fault
  /\ UNCHANGED <<project, journal, published, clients, quiet>>

(* A request ends and its service with it.                                 *)
Drop(s) ==
  /\ call = Idle
  /\ mem[s] # Unread
  /\ mem' = [mem EXCEPT ![s] = Unread]
  /\ UNCHANGED <<project, journal, call, published, clients, quiet, spent>>

(* Another workspace commits the project without a command (ws.mutate).    *)
CommitOutside ==
  /\ call = Idle
  /\ mem' = NoOne
  /\ UNCHANGED <<project, journal, call, published, clients, quiet, spent>>

(* document.db is deleted or restored empty by hand.                       *)
LoseJournal ==
  /\ call = Idle
  /\ spent.lost < MaxLost
  /\ journal # << >>
  /\ journal' = << >>
  /\ Spend("lost")
  /\ UNCHANGED <<project, mem, call, published, clients, quiet>>

-----------------------------------------------------------------------------
Section ==
  \/ Recover \/ Retry \/ Refuse \/ Prepare
  \/ ApplyLands \/ ApplyQuiet
  \/ AppendRow \/ PublishApplied \/ CommitJournal

Faults ==
  \/ ApplyRaises \/ ApplyRaisesLanded \/ ApplyUnknown \/ JournalFails
  \/ \E s \in Servers : Crash(s)

Next ==
  \/ \E s \in Servers :
        \/ \E c \in Commands : Submit(s, c)
        \/ Notify(s) \/ Snapshot(s) \/ Drop(s)
  \/ Section \/ Faults \/ CommitOutside \/ LoseJournal

Spec == Init /\ [][Next]_vars

-----------------------------------------------------------------------------
Sections == [at : {"recover", "check", "apply", "append", "publish", "commit"},
             server : Servers, kind : {"submit", "notify", "read"},
             command : Rowed \cup {NoCommand}, previous : Saves \cup {None}]

TypeOK ==
  /\ saved \in Saves \cup {None}
  /\ applied \in Seq(Commands)
  /\ journal \in Seq(Rowed)
  /\ mem \in [Servers -> Saves \cup {None, Unread}]
  /\ call \in {Idle} \cup Sections
  /\ published \subseteq [seq : Nat \ {0}, command : Rowed]
  /\ replied \subseteq Commands /\ refused \subseteq Commands /\ quiet \subseteq Commands
  /\ spent \in [external : Nat, lost : Nat, faults : Nat]

-----------------------------------------------------------------------------
(* The log clients may rely on: the journal and, while the crash that left *)
(* it out is not yet repaired, the command saved in the project.           *)
Pending == Unjournaled(saved) /\ ~Claimed(saved.command)

Effective ==
  LET rows == IF Pending THEN Append(journal, saved.command) ELSE journal
  IN  [i \in DOMAIN rows |-> Intent(rows[i])]

Log == INSTANCE CommandLog WITH Intents <- {Intent(c) : c \in Rowed}, log <- Effective

(* Through retries, raised handlers, failed COMMITs and crashes, the       *)
(* journal with its pending recovery is a log each edit enters at most     *)
(* once and never leaves (docs/session-sync.md, crash recovery).           *)
ExactlyOnceLog == Log!Spec

(* No edit is applied to the project twice, however its command is retried *)
(* and wherever the server died (#377, #575).                              *)
AppliedOnce ==
  \A i, j \in DOMAIN applied : Intent(applied[i]) = Intent(applied[j]) => i = j

(* Whatever the project has absorbed is in the journal or is the one       *)
(* command the next section journals: no later row can bury a command that *)
(* a crash left out.                                                       *)
NothingAppliedIsLost ==
  \A i \in DOMAIN applied :
    \/ applied[i] \in Rows
    \/ i = Len(applied) /\ Pending /\ saved.command = applied[i]

(* Peers replay the journal in the order the project absorbed the edits.   *)
JournalKeepsApplyOrder ==
  \A i, j \in DOMAIN applied : \A m, n \in DOMAIN journal :
    (i < j /\ journal[m] = applied[i] /\ journal[n] = applied[j]) => m < n

(* No row for an edit that never ran: a command whose handler failed       *)
(* before its commit is not journaled by a later recovery.                 *)
RowsRan ==
  \A r \in Rows \ Externals :
    r \in quiet \/ \E i \in DOMAIN applied : applied[i] = r

(* _submit: the row is never claimed between the retry check and the       *)
(* append ("unreachable while the write lock is held from the check").     *)
NeverClaimed ==
  (call.at = "append" /\ call.kind = "submit") => ~Claimed(call.command)

(* A client that holds a reply holds it for good: the edit it names is in  *)
(* the journal after any later crash, and was never also refused.          *)
RepliesHold ==
  \A c \in replied : c \notin refused /\ \E r \in Rows : Intent(r) = Intent(c)

(* Applied goes out before the COMMIT, which is safe because the project    *)
(* commit saved the command first (docs/session-sync.md): once peers have   *)
(* seen an edit at a server_seq, the journal has it there, or the next      *)
(* section puts it there.  Edits that saved nothing have no such record.    *)
PublishedSeqKeepsCommand ==
  \A e \in published : e.command \in Commands \ quiet =>
    \/ e.seq \in DOMAIN journal /\ journal[e.seq] = e.command
    \/ e.seq = Len(journal) + 1 /\ Pending /\ saved.command = e.command

-----------------------------------------------------------------------------
(* A client resends a command until it is told its fate, and some attempt  *)
(* gets the lock; a section in progress takes its next step.  MaxFaults    *)
(* makes failures finite.                                                  *)
Settled(c) == c \in replied \cup refused

Resend(c) == ~Settled(c) /\ \E s \in Servers : Submit(s, c)

FairSpec ==
  Spec /\ WF_vars(Section) /\ \A c \in Commands : SF_vars(Resend(c))

(* Every command is answered in the end: whatever died or raised on the    *)
(* way, recovery never leaves a command no retry can settle.               *)
EveryCommandSettles == \A c \in Commands : <>Settled(c)
=============================================================================
