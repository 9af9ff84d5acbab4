------------------------ MODULE DocumentJournalProofs ------------------------
(***************************************************************************)
(* Proofs about DocumentJournal, for any services, commands and bounds:    *)
(* type correctness, and, while nobody deletes document.db, that no edit   *)
(* is applied twice and none that was applied is missing from the journal. *)
(***************************************************************************)
EXTENDS DocumentJournal, TLAPS

-----------------------------------------------------------------------------
(* What the section in progress holds, phase by phase.                     *)
SectionOK ==
  /\ call.at \in {"recover", "check", "apply"} =>
       mem[call.server] \in Saves \cup {None}
  /\ call.at \in {"check", "apply"} => call.kind = "submit"
  /\ call.at \in {"append", "publish", "commit"} => call.kind \in {"submit", "notify"}
  /\ call # Idle => /\ call.kind = "submit" => call.command \in Commands
                    /\ call.kind = "notify" => call.command \in Externals

Typed == TypeOK /\ SectionOK

LEMMA TypedInit == Init => Typed
BY JournalBounds DEF Init, Typed, TypeOK, SectionOK, NoOne, Idle

LEMMA InSection ==
  ASSUME TypeOK, call.at # "idle"
  PROVE  call \in Sections /\ call # Idle
BY DEF TypeOK, Idle

LEMMA Landing ==
  ASSUME Typed, call.at = "apply", CommitsProject
  PROVE  saved' \in Saves \cup {None} /\ applied' \in Seq(Commands)
<1>1. call \in Sections /\ call # Idle
  BY InSection DEF Typed
<1>2. mem[call.server] \in Saves \cup {None} /\ call.command \in Commands
  BY <1>1 DEF Typed, SectionOK
<1> QED BY <1>2 DEF CommitsProject, Typed, TypeOK

LEMMA FaultTyped ==
  ASSUME TypeOK, Fault
  PROVE  spent' \in [external : Nat, lost : Nat, faults : Nat]
BY DEF TypeOK, Fault, Spend

LEMMA LeaveTyped == Leave => SectionOK' /\ call' \in {Idle} \cup Sections
BY DEF Leave, SectionOK, Idle

LEMMA TypedNext == Typed /\ [Next]_vars => Typed'
<1> SUFFICES ASSUME Typed, [Next]_vars PROVE Typed'
  OBVIOUS
<1> USE DEF Typed
<1>e. ASSUME NEW s \in Servers, NEW kind \in {"submit", "notify", "read"},
             NEW c \in Rowed \cup {NoCommand}, Enter(s, kind, c),
             kind = "submit" => c \in Commands, kind = "notify" => c \in Externals,
             spent' \in [external : Nat, lost : Nat, faults : Nat]
      PROVE  Typed'
  BY <1>e DEF Enter, TypeOK, SectionOK, Sections, Idle, project, clients
<1>1. ASSUME NEW s \in Servers, NEW c \in Commands, Submit(s, c) PROVE Typed'
  BY <1>1, <1>e DEF Submit, Rowed, TypeOK
<1>2. ASSUME NEW s \in Servers, Notify(s) PROVE Typed'
  <2>1. External(spent.external + 1) \in Externals
    BY <1>2, JournalBounds DEF Notify, Externals, TypeOK
  <2> QED BY <1>2, <1>e, <2>1 DEF Notify, Rowed, Spend, TypeOK
<1>3. ASSUME NEW s \in Servers, Snapshot(s) PROVE Typed'
  BY <1>3, <1>e DEF Snapshot, TypeOK
<1>4. ASSUME NEW s \in Servers, Drop(s) PROVE Typed'
  BY <1>4 DEF Drop, TypeOK, SectionOK, Idle, project, clients
<1>5. CASE Recover
  <2>1. call \in Sections /\ call # Idle
    BY <1>5, InSection DEF Recover
  <2>2. journal' \in Seq(Rowed)
    BY <1>5, <2>1 DEF Recover, TypeOK, SectionOK, Unjournaled, Saves, Rowed
  <2>3. call' \in {Idle} \cup Sections
    BY <1>5, <2>1 DEF Recover, Sections
  <2> QED BY <1>5, <2>1, <2>2, <2>3
       DEF Recover, TypeOK, SectionOK, Sections, Idle, project, clients
<1>6. CASE Retry
  BY <1>6, InSection, FaultTyped, LeaveTyped DEF Retry, TypeOK, SectionOK, project
<1>7. CASE Refuse
  BY <1>7, InSection, LeaveTyped DEF Refuse, TypeOK, SectionOK, project
<1>8. CASE Prepare
  <2>1. call \in Sections /\ call # Idle
    BY <1>8, InSection DEF Prepare
  <2>2. /\ mem[call.server] \in Saves \cup {None}
        /\ call.kind = "submit" /\ call.command \in Commands /\ call.server \in Servers
    BY <1>8, <2>1 DEF Prepare, SectionOK, Sections
  <2>3. [command |-> call.command, base |-> Len(journal)] \in Saves
    BY <2>2 DEF Saves, TypeOK
  <2>4. mem' \in [Servers -> Saves \cup {None, Unread}]
    BY <1>8, <2>2, <2>3 DEF Prepare, TypeOK
  <2>5. call' \in Sections /\ call'.at = "apply" /\ call'.kind = "submit"
        /\ call'.command \in Commands /\ call'.server = call.server
    BY <1>8, <2>1, <2>2 DEF Prepare, Sections
  <2>6. mem'[call'.server] \in Saves
    BY <1>8, <2>2, <2>3, <2>5 DEF Prepare, TypeOK
  <2> QED BY <1>8, <2>4, <2>5, <2>6 DEF Prepare, TypeOK, SectionOK, project, clients
<1>9. CASE ApplyLands
  <2>1. call \in Sections /\ call # Idle
    BY <1>9, InSection DEF ApplyLands
  <2>2. saved' \in Saves \cup {None} /\ applied' \in Seq(Commands)
    BY <1>9, Landing DEF ApplyLands
  <2>3. call' \in Sections /\ call'.at = "append" /\ call'.kind = "submit"
        /\ call'.command \in Commands
    BY <1>9, <2>1 DEF ApplyLands, SectionOK, Sections
  <2> QED BY <1>9, <2>2, <2>3 DEF ApplyLands, NoOne, TypeOK, SectionOK, clients
<1>10. CASE ApplyQuiet
  BY <1>10, InSection DEF ApplyQuiet, TypeOK, SectionOK, Sections, Idle, project, clients
<1>11. CASE AppendRow
  <2>1. call \in Sections /\ call # Idle
    BY <1>11, InSection DEF AppendRow
  <2>2. CASE call' = Idle
    BY <1>11, <2>2 DEF AppendRow, TypeOK, SectionOK, Idle, project, clients
  <2>3. CASE call' = [call EXCEPT !.at = "publish"]
    <3>1. /\ call' \in Sections /\ call'.at = "publish"
          /\ call'.kind = call.kind /\ call'.command = call.command
      BY <2>1, <2>3 DEF Sections
    <3> QED BY <1>11, <2>1, <3>1 DEF AppendRow, TypeOK, SectionOK, project, clients
  <2> QED BY <1>11, <2>2, <2>3 DEF AppendRow
<1>12. CASE PublishApplied
  <2>1. call \in Sections /\ call # Idle
    BY <1>12, InSection DEF PublishApplied
  <2>2. /\ call' \in Sections /\ call'.at = "commit"
        /\ call'.kind = call.kind /\ call'.command = call.command
    BY <1>12, <2>1 DEF PublishApplied, Sections
  <2>3. call.command \in Rowed
    BY <1>12, <2>1 DEF PublishApplied, SectionOK, Rowed
  <2>4. [seq |-> Len(journal) + 1, command |-> call.command]
          \in [seq : Nat \ {0}, command : Rowed]
    BY <2>3 DEF TypeOK
  <2> QED BY <1>12, <2>1, <2>2, <2>4
       DEF PublishApplied, TypeOK, SectionOK, project, clients
<1>13. CASE CommitJournal
  BY <1>13, InSection, FaultTyped, LeaveTyped
     DEF CommitJournal, TypeOK, SectionOK, project, Rowed
<1>14. CASE ApplyRaises
  <2>1. call.previous \in Saves \cup {None}
    BY <1>14, InSection DEF ApplyRaises, Sections
  <2>2. mem' \in [Servers -> Saves \cup {None, Unread}]
    BY <1>14, <2>1 DEF ApplyRaises, TypeOK
  <2> QED BY <1>14, <2>2, FaultTyped, LeaveTyped DEF ApplyRaises, TypeOK, project, clients
<1>15. CASE ApplyRaisesLanded
  <2>1. saved' \in Saves \cup {None} /\ applied' \in Seq(Commands)
    BY <1>15, Landing DEF ApplyRaisesLanded
  <2> QED BY <1>15, <2>1, FaultTyped, LeaveTyped DEF ApplyRaisesLanded, NoOne, TypeOK, clients
<1>16. CASE ApplyUnknown
  <2>1. saved' \in Saves \cup {None} /\ applied' \in Seq(Commands)
    BY <1>16, Landing DEF ApplyUnknown, TypeOK, project
  <2>2. mem' \in [Servers -> Saves \cup {None, Unread}]
    BY <1>16 DEF ApplyUnknown, NoOne, TypeOK
  <2> QED BY <1>16, <2>1, <2>2, FaultTyped, LeaveTyped DEF ApplyUnknown, TypeOK, clients
<1>17. CASE JournalFails
  BY <1>17, FaultTyped, LeaveTyped DEF JournalFails, TypeOK, project, clients
<1>18. ASSUME NEW s \in Servers, Crash(s) PROVE Typed'
  BY <1>18, FaultTyped, LeaveTyped DEF Crash, TypeOK, project, clients
<1>19. CASE CommitOutside
  BY <1>19 DEF CommitOutside, NoOne, TypeOK, SectionOK, Idle, project, clients
<1>20. CASE LoseJournal
  BY <1>20 DEF LoseJournal, Spend, TypeOK, SectionOK, Idle, Rows, project, clients
<1>21. CASE UNCHANGED vars
  BY <1>21 DEF vars, TypeOK, SectionOK
<1> QED
  BY <1>1, <1>2, <1>3, <1>4, <1>5, <1>6, <1>7, <1>8, <1>9, <1>10, <1>11, <1>12, <1>13,
     <1>14, <1>15, <1>16, <1>17, <1>18, <1>19, <1>20, <1>21 DEF Next, Section, Faults

(* Every variable keeps its type, and the section in progress holds what   *)
(* its phase says: a project that was read, a client's command to apply.   *)
THEOREM TypeCorrect == Spec => []TypeOK
<1>1. Typed => TypeOK  BY DEF Typed
<1> QED BY TypedInit, TypedNext, <1>1, PTL DEF Spec

-----------------------------------------------------------------------------
(* From here on nobody deletes document.db.                                *)

(* The saved record is of the command absorbed last, at a journal position *)
(* already reached.                                                        *)
SavedIsLast ==
  /\ saved.base <= Len(journal)
  /\ saved = None => applied = << >>
  /\ saved # None => applied # << >> /\ saved.command = applied[Len(applied)]

NoRow(c) == SlotRow(c) = {} /\ ById(c) = {}

(* Until a record is journaled nobody holds another one, and no section    *)
(* gets past its recovery.                                                 *)
PendingHeld == Pending => \A s \in Servers : mem[s] \in {Unread, saved}

SectionSees ==
  /\ (call.at = "recover" /\ Pending) => mem[call.server] = saved
  /\ call.at \in {"check", "apply"} => ~Pending
  /\ call.at \in {"append", "publish", "commit"} =>
       (Pending => saved.command = call.command)
  /\ call.at = "apply" =>
       mem[call.server] = [command |-> call.command, base |-> Len(journal)]
  /\ (call.at \in {"apply", "append"} /\ call.kind = "submit") => NoRow(call.command)

IInv ==
  /\ Typed
  /\ SavedIsLast /\ PendingHeld /\ SectionSees
  /\ NothingAppliedIsLost /\ AppliedOnce

Recorded == SavedIsLast /\ NothingAppliedIsLost /\ AppliedOnce

LEMMA IInvInit == Init => IInv
<1> SUFFICES ASSUME Init PROVE IInv
  OBVIOUS
<1>1. Typed
  BY TypedInit
<1>2. ~Pending /\ SavedIsLast
  BY DEF Init, Pending, Unjournaled, SavedIsLast, None
<1> QED BY <1>1, <1>2 DEF Init, IInv, PendingHeld, SectionSees, Idle,
                          NothingAppliedIsLost, AppliedOnce

(* Steps that touch neither the project nor the journal.                   *)
LEMMA Still ==
  ASSUME UNCHANGED <<saved, applied, journal>>
  PROVE  /\ Recorded => Recorded'
         /\ Pending' <=> Pending
         /\ \A c : (NoRow(c))' <=> NoRow(c)
BY DEF Recorded, SavedIsLast, NothingAppliedIsLost, AppliedOnce, Pending, Unjournaled,
       Claimed, NoRow, SlotRow, ById, Rows

LEMMA LeaveSees == Leave => SectionSees'
BY DEF Leave, SectionSees, Idle

(* A row joins the journal: what was journaled stays, and nothing is left  *)
(* for recovery.                                                           *)
LEMMA RowJoins ==
  ASSUME IInv, UNCHANGED <<saved, applied>>,
         NEW r \in Rowed, journal' = Append(journal, r),
         Pending => saved.command = r
  PROVE  Recorded' /\ ~Pending'
<1>1. /\ Len(journal') = Len(journal) + 1
      /\ Rows' = Rows \cup {r}
  <2>1. journal \in Seq(Rowed)
    BY DEF IInv, Typed, TypeOK
  <2>2. /\ Len(journal') = Len(journal) + 1
        /\ DOMAIN journal' = DOMAIN journal \cup {Len(journal) + 1}
        /\ \A k \in DOMAIN journal : journal'[k] = journal[k]
        /\ journal'[Len(journal) + 1] = r
    BY <2>1
  <2> QED BY <2>2 DEF Rows
<1>2. saved.base \in Nat /\ saved.base <= Len(journal) /\ Len(journal) \in Nat
  BY DEF IInv, SavedIsLast, Typed, TypeOK, Saves, None
<1>3. ~Pending'
  BY <1>1, <1>2 DEF Pending, Unjournaled
<1>4. SavedIsLast'
  BY <1>1, <1>2 DEF IInv, SavedIsLast
<1>5. NothingAppliedIsLost'
  BY <1>1 DEF IInv, NothingAppliedIsLost
<1> QED BY <1>3, <1>4, <1>5 DEF IInv, AppliedOnce, Recorded

(* The command at "apply" joins the project, for good.                     *)
LEMMA CommandLands ==
  ASSUME IInv, call.at = "apply", CommitsProject, UNCHANGED journal
  PROVE  Recorded' /\ saved'.command = call.command
<1> DEFINE c == call.command
<1>1. c \in Commands /\ applied \in Seq(Commands) /\ journal \in Seq(Rowed)
  BY InSection DEF IInv, Typed, TypeOK, SectionOK
<1>2. saved' = [command |-> c, base |-> Len(journal)] /\ applied' = Append(applied, c)
  BY DEF CommitsProject, IInv, SectionSees
<1>3. /\ NoRow(c) /\ ~Pending
  BY InSection DEF IInv, SectionSees, Typed, SectionOK
<1>4. \A k \in DOMAIN applied : applied[k] \in Rows
  BY <1>3 DEF IInv, NothingAppliedIsLost
<1>5. Rows' = Rows
  BY DEF Rows
<1>6. Len(applied') = Len(applied) + 1 /\ applied'[Len(applied')] = c
      /\ \A k \in DOMAIN applied : applied'[k] = applied[k]
      /\ DOMAIN applied' = DOMAIN applied \cup {Len(applied')}
  BY <1>1, <1>2
<1>7. Pending'
  BY <1>1, <1>2, <1>3, <1>5, JournalCommands
     DEF Pending, Unjournaled, Claimed, NoRow, ById, SlotRow, None
<1>8. SavedIsLast'
  BY <1>1, <1>2, <1>6, JournalCommands DEF SavedIsLast, None
<1>9. NothingAppliedIsLost'
  BY <1>2, <1>4, <1>5, <1>6, <1>7 DEF NothingAppliedIsLost
<1>10. \A k \in DOMAIN applied : Intent(applied[k]) # Intent(c)
  <2> SUFFICES ASSUME NEW k \in DOMAIN applied, Intent(applied[k]) = Intent(c) PROVE FALSE
    OBVIOUS
  <2>1. applied[k] \in Rows
    BY <1>4
  <2>2. /\ applied[k].client = c.client /\ applied[k].client_seq = c.client_seq
        /\ ~Numbered(c) => applied[k].id = c.id
    BY DEF Intent, Numbered
  <2> QED BY <1>3, <2>1, <2>2 DEF NoRow, SlotRow, ById
<1>11. AppliedOnce'
  BY <1>6, <1>10 DEF IInv, AppliedOnce
<1> QED BY <1>2, <1>8, <1>9, <1>11 DEF Recorded

LEMMA IInvNext ==
  ASSUME MaxLost = 0, IInv, [Next]_vars
  PROVE  IInv'
<1>t. Typed'
  BY TypedNext DEF IInv
<1>r. Recorded
  BY DEF IInv, Recorded
<1>n. ASSUME mem' = NoOne PROVE PendingHeld'
  BY <1>n DEF NoOne, PendingHeld
<1>k. ASSUME UNCHANGED <<saved, applied, journal>>,
             \A s \in Servers : mem'[s] \in {mem[s], Unread}
      PROVE  PendingHeld'
  BY <1>k, Still DEF IInv, PendingHeld
<1>q. ASSUME Recorded', PendingHeld', SectionSees' PROVE IInv'
  BY <1>t, <1>q DEF IInv, Recorded
<1>m. mem \in [Servers -> Saves \cup {None, Unread}]
  BY DEF IInv, Typed, TypeOK
<1>e. ASSUME NEW s \in Servers, NEW kind, NEW c, Enter(s, kind, c) PROVE IInv'
  <2>1. UNCHANGED <<saved, applied, journal>>
    BY <1>e DEF Enter, project
  <2>2. /\ mem' = [mem EXCEPT ![s] = IF @ = Unread THEN saved ELSE @]
        /\ call'.at = "recover" /\ call'.server = s
    BY <1>e DEF Enter
  <2>3. PendingHeld' /\ SectionSees'
    BY <1>m, <2>1, <2>2, Still DEF IInv, PendingHeld, SectionSees
  <2> QED BY <1>r, <1>q, <2>1, <2>3, Still
<1>1. ASSUME NEW s \in Servers, NEW c \in Commands, Submit(s, c) PROVE IInv'
  BY <1>1, <1>e DEF Submit
<1>2. ASSUME NEW s \in Servers, Notify(s) PROVE IInv'
  BY <1>2, <1>e DEF Notify
<1>3. ASSUME NEW s \in Servers, Snapshot(s) PROVE IInv'
  BY <1>3, <1>e DEF Snapshot
<1>4. ASSUME NEW s \in Servers, Drop(s) PROVE IInv'
  <2>1. UNCHANGED <<saved, applied, journal>> /\ call' = Idle
    BY <1>4 DEF Drop, project
  <2>2. PendingHeld'
    BY <1>4, <1>k, <1>m, <2>1 DEF Drop
  <2> QED BY <1>r, <1>q, <2>1, <2>2, Still, LeaveSees DEF Leave
<1>5. CASE Recover
  <2> DEFINE last == mem[call.server]
  <2>1. /\ call \in Sections /\ last \in Saves \cup {None}
        /\ call.kind \in {"submit", "notify", "read"} /\ call.server \in Servers
    BY <1>5, InSection DEF Recover, IInv, Typed, SectionOK, Sections
  <2>2. UNCHANGED <<saved, applied, mem>>
    BY <1>5 DEF Recover, project
  <2>3. Recorded' /\ ~Pending'
    <3>1. CASE Unjournaled(last) /\ ~Claimed(last.command)
      <4>1. journal' = Append(journal, last.command)
        BY <1>5, <3>1 DEF Recover
      <4>2. last.command \in Rowed
        BY <2>1, <3>1 DEF Unjournaled, Saves, Rowed
      <4>3. Pending => saved.command = last.command
        BY <1>5 DEF Recover, IInv, SectionSees
      <4> QED BY <2>2, <4>1, <4>2, <4>3, RowJoins
    <3>2. CASE ~(Unjournaled(last) /\ ~Claimed(last.command))
      <4>1. journal' = journal
        BY <1>5, <3>2 DEF Recover
      <4>2. ~Pending
        BY <1>5, <3>2 DEF Recover, IInv, SectionSees, Pending
      <4> QED BY <1>r, <2>2, <4>1, <4>2, Still
    <3> QED BY <3>1, <3>2
  <2>4. \/ call'.at = "check" /\ call'.kind = "submit"
        \/ call'.at = "append" /\ call'.kind = "notify"
        \/ call' = Idle
    BY <1>5, <2>1 DEF Recover, Sections
  <2>5. SectionSees'
    BY <2>3, <2>4 DEF SectionSees, Idle
  <2> QED BY <1>q, <2>3, <2>5 DEF PendingHeld
<1>6. CASE Retry
  <2>1. UNCHANGED <<saved, applied, journal, mem>> /\ Leave
    BY <1>6 DEF Retry, project
  <2> QED BY <1>r, <1>q, <1>k, <2>1, Still, LeaveSees
<1>7. CASE Refuse
  <2>1. UNCHANGED <<saved, applied, journal, mem>> /\ Leave
    BY <1>7 DEF Refuse, project
  <2> QED BY <1>r, <1>q, <1>k, <2>1, Still, LeaveSees
<1>8. CASE Prepare
  <2>1. UNCHANGED <<saved, applied, journal>> /\ ~Pending
    BY <1>8 DEF Prepare, project, IInv, SectionSees
  <2>2. call \in Sections /\ call.server \in Servers
    BY <1>8, InSection DEF Prepare, IInv, Typed, Sections
  <2>3. NoRow(call.command)
    BY <1>8 DEF Prepare, Existing, NoRow
  <2>4. /\ call'.at = "apply" /\ call'.server = call.server /\ call'.command = call.command
        /\ mem'[call.server] = [command |-> call.command, base |-> Len(journal)]
    BY <1>8, <1>m, <2>2 DEF Prepare, Sections
  <2>5. SectionSees' /\ PendingHeld'
    BY <2>1, <2>3, <2>4, Still DEF SectionSees, PendingHeld
  <2> QED BY <1>r, <1>q, <2>1, <2>5, Still
<1>9. CASE ApplyLands
  <2>1. Recorded' /\ saved'.command = call.command /\ UNCHANGED journal /\ mem' = NoOne
    BY <1>9, CommandLands DEF ApplyLands
  <2>2. /\ call \in Sections /\ call.kind = "submit" /\ NoRow(call.command)
    BY <1>9, InSection DEF ApplyLands, IInv, Typed, SectionOK, SectionSees
  <2>3. call'.at = "append" /\ call'.command = call.command
    BY <1>9, <2>2 DEF ApplyLands, Sections
  <2>4. SectionSees'
    BY <2>1, <2>2, <2>3 DEF SectionSees, NoRow, SlotRow, ById, Rows
  <2> QED BY <1>q, <1>n, <2>1, <2>4
<1>10. CASE ApplyQuiet
  <2>1. UNCHANGED <<saved, applied, journal>> /\ ~Pending
    BY <1>10 DEF ApplyQuiet, project, IInv, SectionSees
  <2>2. call \in Sections /\ call.kind = "submit" /\ NoRow(call.command)
    BY <1>10, InSection DEF ApplyQuiet, IInv, Typed, SectionOK, SectionSees
  <2>3. call'.at = "append" /\ call'.command = call.command
    BY <1>10, <2>2 DEF ApplyQuiet, Sections
  <2>4. SectionSees' /\ PendingHeld'
    BY <2>1, <2>2, <2>3, Still DEF SectionSees, PendingHeld
  <2> QED BY <1>r, <1>q, <2>1, <2>4, Still
<1>11. CASE AppendRow
  <2>1. UNCHANGED <<saved, applied, journal, mem>> /\ call \in Sections
    BY <1>11, InSection DEF AppendRow, project, IInv, Typed
  <2>2. \/ call' = Idle
        \/ call'.at = "publish" /\ call'.command = call.command
    BY <1>11, <2>1 DEF AppendRow, Sections
  <2>3. SectionSees'
    BY <1>11, <2>1, <2>2, Still DEF AppendRow, IInv, SectionSees, Idle
  <2> QED BY <1>r, <1>q, <1>k, <2>1, <2>3, Still
<1>12. CASE PublishApplied
  <2>1. UNCHANGED <<saved, applied, journal, mem>> /\ call \in Sections
    BY <1>12, InSection DEF PublishApplied, project, IInv, Typed
  <2>2. call'.at = "commit" /\ call'.command = call.command
    BY <1>12, <2>1 DEF PublishApplied, Sections
  <2>3. SectionSees'
    BY <1>12, <2>1, <2>2, Still DEF PublishApplied, IInv, SectionSees
  <2> QED BY <1>r, <1>q, <1>k, <2>1, <2>3, Still
<1>13. CASE CommitJournal
  <2>1. UNCHANGED <<saved, applied>> /\ journal' = Append(journal, call.command) /\ Leave
    BY <1>13 DEF CommitJournal, project
  <2>2. call.command \in Rowed
    BY <1>13, InSection DEF CommitJournal, IInv, Typed, SectionOK, Rowed
  <2>3. Pending => saved.command = call.command
    BY <1>13 DEF CommitJournal, IInv, SectionSees
  <2>4. Recorded' /\ ~Pending'
    BY <2>1, <2>2, <2>3, RowJoins
  <2> QED BY <1>q, <2>1, <2>4, LeaveSees DEF PendingHeld
<1>14. CASE ApplyRaises
  <2>1. UNCHANGED <<saved, applied, journal>> /\ ~Pending /\ Leave
    BY <1>14 DEF ApplyRaises, project, IInv, SectionSees
  <2>2. PendingHeld'
    BY <2>1, Still DEF PendingHeld
  <2> QED BY <1>r, <1>q, <2>1, <2>2, Still, LeaveSees
<1>15. CASE ApplyRaisesLanded
  <2>1. Recorded' /\ mem' = NoOne /\ Leave
    BY <1>15, CommandLands DEF ApplyRaisesLanded
  <2> QED BY <1>q, <1>n, <2>1, LeaveSees
<1>16. CASE ApplyUnknown
  <2>1. CASE CommitsProject /\ mem' = NoOne
    <3>1. Recorded' /\ Leave
      BY <1>16, <2>1, CommandLands DEF ApplyUnknown
    <3> QED BY <1>q, <1>n, <2>1, <3>1, LeaveSees
  <2>2. CASE UNCHANGED project /\ mem' = [mem EXCEPT ![call.server] = Unread]
    <3>1. UNCHANGED <<saved, applied, journal>> /\ Leave
      BY <1>16, <2>2 DEF ApplyUnknown, project
    <3>2. PendingHeld'
      BY <1>k, <1>m, <2>2, <3>1
    <3> QED BY <1>r, <1>q, <3>1, <3>2, Still, LeaveSees
  <2> QED BY <1>16, <2>1, <2>2 DEF ApplyUnknown
<1>17. CASE JournalFails
  <2>1. UNCHANGED <<saved, applied, journal, mem>> /\ Leave
    BY <1>17 DEF JournalFails, project
  <2> QED BY <1>r, <1>q, <1>k, <2>1, Still, LeaveSees
<1>18. ASSUME NEW s \in Servers, Crash(s) PROVE IInv'
  <2>1. UNCHANGED <<saved, applied, journal>> /\ Leave
    BY <1>18 DEF Crash, project
  <2>2. PendingHeld'
    BY <1>18, <1>k, <1>m, <2>1 DEF Crash
  <2> QED BY <1>r, <1>q, <2>1, <2>2, Still, LeaveSees
<1>19. CASE CommitOutside
  <2>1. UNCHANGED <<saved, applied, journal>> /\ mem' = NoOne /\ Leave
    BY <1>19 DEF CommitOutside, project, Leave
  <2> QED BY <1>r, <1>q, <1>n, <2>1, Still, LeaveSees
<1>20. CASE LoseJournal
  BY <1>20 DEF LoseJournal, IInv, Typed, TypeOK
<1>21. CASE UNCHANGED vars
  <2>1. UNCHANGED <<saved, applied, journal, mem, call>>
    BY <1>21 DEF vars
  <2>2. SectionSees'
    BY <2>1, Still DEF IInv, SectionSees
  <2> QED BY <1>r, <1>q, <1>k, <2>1, <2>2, Still
<1> QED
  BY <1>1, <1>2, <1>3, <1>4, <1>5, <1>6, <1>7, <1>8, <1>9, <1>10, <1>11, <1>12, <1>13,
     <1>14, <1>15, <1>16, <1>17, <1>18, <1>19, <1>20, <1>21 DEF Next, Section, Faults

LEMMA IInvAlways == ASSUME MaxLost = 0 PROVE Spec => []IInv
<1>1. Init => IInv
  BY IInvInit
<1>2. IInv /\ [Next]_vars => IInv'
  BY IInvNext
<1> QED BY <1>1, <1>2, PTL DEF Spec

(* No edit enters the project twice, however often and under whichever     *)
(* command_id its client retries, and wherever a server died or a step     *)
(* raised: for any number of services, clients, commands and failures.     *)
THEOREM NoEditTwice == ASSUME MaxLost = 0 PROVE Spec => []AppliedOnce
<1>1. IInv => AppliedOnce
  BY DEF IInv
<1> QED BY <1>1, IInvAlways, PTL

(* Every edit the project holds is in the journal, or is the saved command *)
(* the next section journals before anything else.                         *)
THEOREM NoEditLost == ASSUME MaxLost = 0 PROVE Spec => []NothingAppliedIsLost
<1>1. IInv => NothingAppliedIsLost
  BY DEF IInv
<1> QED BY <1>1, IInvAlways, PTL

(* The RuntimeError of _submit on a claimed row is unreachable, as its     *)
(* comment says: the retry check and the append see the same journal.      *)
THEOREM RowNeverClaimed == ASSUME MaxLost = 0 PROVE Spec => []NeverClaimed
<1>1. IInv => NeverClaimed
  BY DEF IInv, SectionSees, NeverClaimed, NoRow, Claimed
<1> QED BY <1>1, IInvAlways, PTL
-----------------------------------------------------------------------------
(* Rows come from edits that ran.  This needs no bound on deletions of     *)
(* document.db: whatever a service still holds was carried out once.       *)
Ran(c) == c \in quiet \/ \E i \in DOMAIN applied : applied[i] = c

RanRecord(m) == m \in Saves => Ran(m.command)

(* Only the section that has prepared its command and not yet run it holds *)
(* a record of something that never ran.                                   *)
RecordsRan ==
  /\ RanRecord(saved)
  /\ \A s \in Servers : (call.at = "apply" => call.server # s) => RanRecord(mem[s])
  /\ call.at = "apply" => /\ RanRecord(call.previous)
                          /\ mem[call.server].command = call.command
  /\ (call.at \in {"append", "publish", "commit"} /\ call.kind = "submit") => Ran(call.command)

RanInv == Typed /\ RowsRan /\ RecordsRan

LEMMA RanInvInit == Init => RanInv
<1> SUFFICES ASSUME Init PROVE RanInv
  OBVIOUS
<1>1. None \notin Saves /\ Unread \notin Saves
  BY JournalCommands, JournalMarkers DEF None, Saves
<1>2. Rows = {} /\ call.at = "idle"
  BY DEF Init, Rows, Idle
<1>3. RecordsRan
  BY <1>1, <1>2 DEF Init, NoOne, RecordsRan, RanRecord
<1> QED BY <1>2, <1>3, TypedInit DEF RanInv, RowsRan

(* What ran is never forgotten: the project and the quiet commands grow.   *)
LEMMA QuietGrows == [Next]_vars => quiet \subseteq quiet'
BY DEF Next, vars, Enter, Submit, Notify, Snapshot, Drop, Section, Recover, Retry,
       Refuse, Prepare, ApplyLands, ApplyQuiet, AppendRow, PublishApplied,
       CommitJournal, Faults, ApplyRaises, ApplyRaisesLanded, ApplyUnknown,
       JournalFails, Crash, CommitOutside, LoseJournal

LEMMA RanStays ==
  ASSUME Typed, [Next]_vars
  PROVE  \A c : Ran(c) => Ran(c)'
<1>1. quiet \subseteq quiet'
  BY QuietGrows
<1>2. applied' = applied \/ applied' = Append(applied, call.command)
  BY DEF Next, vars, Enter, Submit, Notify, Snapshot, Drop, Section, Recover, Retry,
         Refuse, Prepare, ApplyLands, ApplyQuiet, AppendRow, PublishApplied,
         CommitJournal, Faults, ApplyRaises, ApplyRaisesLanded, ApplyUnknown,
         JournalFails, Crash, CommitOutside, LoseJournal, CommitsProject, project
<1>3. applied \in Seq(Commands)
  BY DEF Typed, TypeOK
<1>4. \A i \in DOMAIN applied : i \in DOMAIN applied' /\ applied'[i] = applied[i]
  BY <1>2, <1>3
<1> QED BY <1>1, <1>4 DEF Ran

LEMMA RanInvNext == RanInv /\ [Next]_vars => RanInv'
<1> SUFFICES ASSUME RanInv, [Next]_vars PROVE RanInv'
  OBVIOUS
<1> USE DEF RanRecord
<1>g. \A c : Ran(c) => Ran(c)'
  BY RanStays DEF RanInv
<1>m. /\ Typed' /\ mem \in [Servers -> Saves \cup {None, Unread}]
      /\ journal \in Seq(Rowed) /\ applied \in Seq(Commands)
  BY TypedNext DEF RanInv, Typed, TypeOK
<1>u. Unread \notin Saves /\ None \notin Saves
  BY JournalMarkers, JournalCommands DEF Saves, None
(* rows that stay, or lose some *)
<1>s. ASSUME Rows' \subseteq Rows PROVE RowsRan'
  BY <1>g, <1>s DEF RanInv, RowsRan, Ran
(* the new row is of something that ran *)
<1>j. ASSUME NEW r, journal' = Append(journal, r), r \in Externals \/ Ran(r)
      PROVE  RowsRan'
  <2>1. Rows' \subseteq Rows \cup {r}
    BY <1>m, <1>j DEF Rows
  <2> QED BY <1>g, <1>j, <2>1 DEF RanInv, RowsRan, Ran
(* the section ends, and nobody holds anything new *)
<1>l. ASSUME Leave, saved' = saved,
             \A s \in Servers : mem'[s] \in {mem[s], Unread},
             call.at = "apply" => mem'[call.server] \in {call.previous, Unread}
      PROVE  RecordsRan'
  BY <1>g, <1>u, <1>l DEF RanInv, RecordsRan, Leave, Idle
<1>i. call = Idle => call.at = "idle"
  BY DEF Idle
<1>e. ASSUME NEW s \in Servers, NEW kind, NEW c, Enter(s, kind, c) PROVE RanInv'
  <2>1. RecordsRan'
    BY <1>e, <1>g, <1>m, <1>u, <1>i DEF Enter, project, RanInv, RecordsRan
  <2> QED BY <1>e, <1>s, <1>m, <2>1 DEF RanInv, Enter, Rows
<1>1. ASSUME NEW s \in Servers, NEW c \in Commands, Submit(s, c) PROVE RanInv'
  BY <1>1, <1>e DEF Submit
<1>2. ASSUME NEW s \in Servers, Notify(s) PROVE RanInv'
  BY <1>2, <1>e DEF Notify
<1>3. ASSUME NEW s \in Servers, Snapshot(s) PROVE RanInv'
  BY <1>3, <1>e DEF Snapshot
<1>4. ASSUME NEW s \in Servers, Drop(s) PROVE RanInv'
  <2>1. RecordsRan'
    BY <1>4, <1>l, <1>m, <1>i DEF Drop, Leave, project
  <2> QED BY <1>4, <1>s, <1>m, <2>1 DEF RanInv, Drop, Rows
<1>5. CASE Recover
  <2>0. call \in Sections
    BY <1>5, InSection DEF Recover, RanInv, Typed
  <2>1. mem[call.server] \in Saves \cup {None} /\ call.server \in Servers
    BY <1>5, <2>0, InSection DEF Recover, RanInv, Typed, SectionOK, Sections
  <2>2. RowsRan'
    <3>1. CASE journal' = journal
      BY <1>s, <3>1 DEF Rows
    <3>2. CASE /\ journal' = Append(journal, mem[call.server].command)
               /\ mem[call.server] # None
      BY <1>5, <1>j, <2>1, <3>2 DEF Recover, RanInv, RecordsRan
    <3> QED BY <1>5, <3>1, <3>2 DEF Recover, Unjournaled
  <2>3. call'.at \in {"check", "idle"} \/ (call'.at = "append" /\ call'.kind = "notify")
    BY <1>5, <2>0 DEF Recover, Sections, Idle
  <2>4. RecordsRan'
    BY <1>5, <1>g, <2>3 DEF Recover, RanInv, RecordsRan, project
  <2> QED BY <1>m, <2>2, <2>4 DEF RanInv
<1>6. CASE Retry
  <2>1. RecordsRan'
    BY <1>6, <1>l, <1>m DEF Retry, project
  <2> QED BY <1>6, <1>s, <1>m, <2>1 DEF RanInv, Retry, Rows
<1>7. CASE Refuse
  <2>1. RecordsRan'
    BY <1>7, <1>l, <1>m DEF Refuse, project
  <2> QED BY <1>7, <1>s, <1>m, <2>1 DEF RanInv, Refuse, Rows
<1>8. CASE Prepare
  <2>1. call \in Sections /\ call.server \in Servers
    BY <1>8, InSection DEF Prepare, RanInv, Typed, Sections
  <2>2. /\ call'.at = "apply" /\ call'.server = call.server
        /\ call'.previous = mem[call.server]
        /\ mem'[call.server].command = call'.command
        /\ \A s \in Servers \ {call.server} : mem'[s] = mem[s]
    BY <1>8, <1>m, <2>1 DEF Prepare, Sections
  <2>3. RecordsRan'
    BY <1>8, <1>g, <2>1, <2>2 DEF Prepare, RanInv, RecordsRan, project
  <2> QED BY <1>8, <1>s, <1>m, <2>3 DEF RanInv, Prepare, Rows
<1>c. ASSUME call.at = "apply", CommitsProject, mem' = NoOne,
             NEW c \in Commands, c = call.command
      PROVE  Ran(c)' /\ RanRecord(saved)' /\ \A s \in Servers : RanRecord(mem[s])'
  <2>1. applied'[Len(applied) + 1] = c /\ Len(applied) + 1 \in DOMAIN applied'
    BY <1>m, <1>c DEF CommitsProject
  <2>2. Ran(c)'
    BY <2>1 DEF Ran
  <2>3. saved'.command = c
    BY <1>c DEF CommitsProject, RanInv, RecordsRan
  <2> QED BY <1>c, <1>u, <2>2, <2>3 DEF NoOne
<1>a. ASSUME call.at = "apply"
      PROVE  call \in Sections /\ call.server \in Servers /\ call.command \in Commands
  BY <1>a, InSection DEF RanInv, Typed, SectionOK, Sections
<1>9. CASE ApplyLands
  <2>1. call \in Sections
    BY <1>9, InSection DEF ApplyLands, RanInv, Typed
  <2>2. call'.at = "append" /\ call'.command = call.command
    BY <1>9, <2>1 DEF ApplyLands, Sections
  <2>3. RecordsRan'
    BY <1>9, <1>a, <1>c, <2>2 DEF ApplyLands, RecordsRan
  <2> QED BY <1>9, <1>s, <1>m, <2>3 DEF RanInv, ApplyLands, Rows
<1>10. CASE ApplyQuiet
  <2>1. call \in Sections /\ call.server \in Servers
    BY <1>10, InSection DEF ApplyQuiet, RanInv, Typed, Sections
  <2>2. call'.at = "append" /\ call'.command = call.command
    BY <1>10, <2>1 DEF ApplyQuiet, Sections
  <2>3. Ran(call.command)'
    BY <1>10 DEF ApplyQuiet, Ran
  <2>4. \A s \in Servers : RanRecord(mem[s])'
    <3> SUFFICES ASSUME NEW s \in Servers PROVE RanRecord(mem[s])'
      OBVIOUS
    <3>1. CASE s # call.server
      <4>1. mem'[s] = mem[s]
        BY <1>10, <1>m, <3>1 DEF ApplyQuiet
      <4> QED BY <1>g, <3>1, <4>1 DEF RanInv, RecordsRan
    <3>2. CASE s = call.server
      <4>1. mem'[s] = call.previous \/ mem'[s].command = call.command
        BY <1>10, <1>m, <3>2 DEF ApplyQuiet, RanInv, RecordsRan
      <4> QED BY <1>10, <1>g, <2>3, <4>1 DEF ApplyQuiet, RanInv, RecordsRan
    <3> QED BY <3>1, <3>2
  <2>5. RecordsRan'
    BY <1>10, <1>g, <2>2, <2>3, <2>4 DEF ApplyQuiet, RanInv, RecordsRan, project
  <2> QED BY <1>10, <1>s, <1>m, <2>5 DEF RanInv, ApplyQuiet, Rows
<1>11. CASE AppendRow
  <2>1. call \in Sections
    BY <1>11, InSection DEF AppendRow, RanInv, Typed
  <2>2. \/ call'.at = "idle"
        \/ call'.at = "publish" /\ call'.command = call.command /\ call'.kind = call.kind
    BY <1>11, <2>1 DEF AppendRow, Sections, Idle
  <2>3. RecordsRan'
    BY <1>11, <1>g, <2>2 DEF AppendRow, RanInv, RecordsRan, project
  <2> QED BY <1>11, <1>s, <1>m, <2>3 DEF RanInv, AppendRow, Rows
<1>12. CASE PublishApplied
  <2>1. call \in Sections
    BY <1>12, InSection DEF PublishApplied, RanInv, Typed
  <2>2. call'.at = "commit" /\ call'.command = call.command /\ call'.kind = call.kind
    BY <1>12, <2>1 DEF PublishApplied, Sections
  <2>3. RecordsRan'
    BY <1>12, <1>g, <2>2 DEF PublishApplied, RanInv, RecordsRan, project
  <2> QED BY <1>12, <1>s, <1>m, <2>3 DEF RanInv, PublishApplied, Rows
<1>13. CASE CommitJournal
  <2>1. call.command \in Externals \/ Ran(call.command)
    BY <1>13, InSection DEF CommitJournal, RanInv, Typed, SectionOK, RecordsRan
  <2>2. RowsRan'
    BY <1>13, <1>j, <2>1 DEF CommitJournal
  <2>3. RecordsRan'
    BY <1>13, <1>l, <1>m DEF CommitJournal, project
  <2> QED BY <1>m, <2>2, <2>3 DEF RanInv
<1>14. CASE ApplyRaises
  <2>1. call.server \in Servers
    BY <1>14, InSection DEF ApplyRaises, RanInv, Typed, Sections
  <2>2. /\ mem'[call.server] \in {call.previous, Unread}
        /\ \A s \in Servers \ {call.server} : mem'[s] = mem[s]
    BY <1>14, <1>m, <2>1 DEF ApplyRaises
  <2>3. RecordsRan'
    BY <1>14, <1>g, <1>u, <2>2 DEF ApplyRaises, RanInv, RecordsRan, Leave, Idle, project
  <2> QED BY <1>14, <1>s, <1>m, <2>3 DEF RanInv, ApplyRaises, Rows
<1>15. CASE ApplyRaisesLanded
  <2>1. RecordsRan'
    BY <1>15, <1>a, <1>c DEF ApplyRaisesLanded, RecordsRan, Leave, Idle
  <2> QED BY <1>15, <1>s, <1>m, <2>1 DEF RanInv, ApplyRaisesLanded, Rows
<1>16. CASE ApplyUnknown
  <2>1. ASSUME CommitsProject /\ mem' = NoOne PROVE RecordsRan'
    BY <1>16, <1>a, <1>c, <2>1 DEF ApplyUnknown, RecordsRan, Leave, Idle
  <2>2. ASSUME UNCHANGED project /\ mem' = [mem EXCEPT ![call.server] = Unread]
        PROVE  RecordsRan'
    <3>1. call.server \in Servers
      BY <1>16, InSection DEF ApplyUnknown, RanInv, Typed, Sections
    <3> QED BY <1>16, <1>l, <1>m, <2>2, <3>1 DEF ApplyUnknown, project
  <2>3. RecordsRan'
    BY <1>16, <2>1, <2>2 DEF ApplyUnknown
  <2> QED BY <1>16, <1>s, <1>m, <2>3 DEF RanInv, ApplyUnknown, Rows
<1>17. CASE JournalFails
  <2>1. RecordsRan'
    BY <1>17, <1>l, <1>m DEF JournalFails, project
  <2> QED BY <1>17, <1>s, <1>m, <2>1 DEF RanInv, JournalFails, Rows
<1>18. ASSUME NEW s \in Servers, Crash(s) PROVE RanInv'
  <2>1. /\ \A x \in Servers : mem'[x] \in {mem[x], Unread}
        /\ call.at = "apply" => mem'[call.server] = Unread
    BY <1>18, <1>m DEF Crash, Idle
  <2>2. RecordsRan'
    BY <1>18, <1>l, <2>1 DEF Crash, project
  <2> QED BY <1>18, <1>s, <1>m, <2>2 DEF RanInv, Crash, Rows
<1>19. CASE CommitOutside
  <2>1. RecordsRan'
    BY <1>19, <1>l, <1>i DEF CommitOutside, NoOne, Leave, project
  <2> QED BY <1>19, <1>s, <1>m, <2>1 DEF RanInv, CommitOutside, Rows
<1>20. CASE LoseJournal
  <2>1. RecordsRan'
    BY <1>20, <1>l, <1>i, <1>m DEF LoseJournal, Leave, project
  <2> QED BY <1>20, <1>s, <1>m, <2>1 DEF RanInv, LoseJournal, Rows
<1>21. CASE UNCHANGED vars
  <2>1. RecordsRan'
    BY <1>21, <1>g DEF vars, RanInv, RecordsRan
  <2> QED BY <1>21, <1>s, <1>m, <2>1 DEF RanInv, vars, Rows
<1> QED
  BY <1>1, <1>2, <1>3, <1>4, <1>5, <1>6, <1>7, <1>8, <1>9, <1>10, <1>11, <1>12, <1>13,
     <1>14, <1>15, <1>16, <1>17, <1>18, <1>19, <1>20, <1>21 DEF Next, Section, Faults

(* A row is only ever of an edit that ran: one the project absorbed, one   *)
(* that found nothing to do, or a notification; whatever failed, died or   *)
(* was deleted before.                                                     *)
THEOREM RowsOnlyOfEditsRun == Spec => []RowsRan
<1>1. RanInv => RowsRan
  BY DEF RanInv
<1> QED BY RanInvInit, RanInvNext, <1>1, PTL DEF Spec

-----------------------------------------------------------------------------
(* What peers and clients may rely on, while nobody deletes document.db.   *)

RowsDistinct ==
  \A i, j \in DOMAIN journal : Intent(journal[i]) = Intent(journal[j]) => i = j

(* Notifications are numbered, and only the one in progress is without a   *)
(* row.                                                                    *)
ExternalsFresh ==
  /\ \A r \in Rows \cap Externals : r.id <= spent.external
  /\ (call # Idle /\ call.kind = "notify") =>
       call.command = External(spent.external) /\ NoRow(call.command)

(* Between its COMMIT-ed project and its row, a section's command is the   *)
(* pending one, unless it changed nothing.                                 *)
SectionOwes ==
  call.at \in {"append", "publish", "commit"} =>
    /\ NoRow(call.command)
    /\ (call.kind = "submit" /\ call.command \notin quiet) =>
         Pending /\ saved.command = call.command

LogInv ==
  /\ IInv
  /\ RowsDistinct /\ ExternalsFresh /\ SectionOwes
  /\ JournalKeepsApplyOrder /\ PublishedSeqKeepsCommand

(* How a step may change the project and the journal: not at all, by a row *)
(* for something that has none, or by the command of the section.          *)
StepKind ==
  \/ UNCHANGED <<saved, applied, journal>>
  \/ /\ UNCHANGED <<saved, applied>>
     /\ \E r \in Rowed : /\ journal' = Append(journal, r)
                         /\ NoRow(r)
                         /\ Pending => saved.command = r
  \/ /\ UNCHANGED journal
     /\ ~Pending /\ NoRow(call.command) /\ Pending'
     /\ saved'.command = call.command /\ call.command \in Commands
     /\ applied' = Append(applied, call.command)

LEMMA RowAppended ==
  ASSUME journal \in Seq(Rowed), NEW r, journal' = Append(journal, r)
  PROVE  /\ Len(journal) \in Nat /\ Len(journal') = Len(journal) + 1
         /\ DOMAIN journal = 1..Len(journal)
         /\ DOMAIN journal' = DOMAIN journal \cup {Len(journal) + 1}
         /\ \A k \in DOMAIN journal : journal'[k] = journal[k]
         /\ journal'[Len(journal) + 1] = r
         /\ Rows' = Rows \cup {r}
<1>1. /\ Len(journal) \in Nat /\ Len(journal') = Len(journal) + 1
      /\ DOMAIN journal = 1..Len(journal)
      /\ DOMAIN journal' = DOMAIN journal \cup {Len(journal) + 1}
      /\ \A k \in DOMAIN journal : journal'[k] = journal[k]
      /\ journal'[Len(journal) + 1] = r
  OBVIOUS
<1> QED BY <1>1 DEF Rows

(* A command without a row has no other attempt at its edit there either.  *)
LEMMA NoRowNoIntent ==
  ASSUME NEW c, NoRow(c), NEW r \in Rows
  PROVE  Intent(r) # Intent(c)
<1> SUFFICES ASSUME Intent(r) = Intent(c) PROVE FALSE
  OBVIOUS
<1>1. /\ r.client = c.client /\ r.client_seq = c.client_seq
      /\ ~Numbered(c) => r.id = c.id
  BY DEF Intent, Numbered
<1> QED BY <1>1 DEF NoRow, SlotRow, ById

(* Rows of clients leave a notification's place free.                      *)
LEMMA ClientRowApart ==
  ASSUME NEW r \in Commands, NEW e \in Externals, NoRow(e),
         Rows' \subseteq Rows \cup {r}
  PROVE  NoRow(e)'
<1>1. r.id \notin 1..MaxExternal /\ e.id \in 1..MaxExternal /\ ~Numbered(e)
  BY JournalCommands DEF Externals, External, Numbered
<1> QED BY <1>1 DEF NoRow, ById, SlotRow

LEMMA SectionCommand ==
  ASSUME IInv, call.at # "idle", call.kind # "read"
  PROVE  call \in Sections /\ call.server \in Servers /\ call.command \in Rowed
BY InSection DEF IInv, Typed, SectionOK, Sections, Rowed

(* A command that lands is pending from then on.                           *)
LEMMA CommandPends ==
  ASSUME IInv, call.at = "apply", CommitsProject, UNCHANGED journal
  PROVE  /\ ~Pending /\ NoRow(call.command) /\ Pending'
         /\ saved'.command = call.command /\ call.command \in Commands
         /\ applied' = Append(applied, call.command)
<1>1. /\ call.command \in Commands /\ NoRow(call.command) /\ ~Pending
      /\ mem[call.server] = [command |-> call.command, base |-> Len(journal)]
  BY InSection DEF IInv, Typed, SectionOK, SectionSees
<1>2. /\ saved' = [command |-> call.command, base |-> Len(journal)]
      /\ applied' = Append(applied, call.command)
  BY <1>1 DEF CommitsProject
<1>3. Rows' = Rows
  BY DEF Rows
<1>4. Pending'
  BY <1>1, <1>2, <1>3, JournalCommands
     DEF Pending, Unjournaled, Claimed, NoRow, ById, SlotRow, None
<1> QED BY <1>1, <1>2, <1>4

LEMMA StepIsKind ==
  ASSUME MaxLost = 0, IInv, ExternalsFresh, SectionOwes, [Next]_vars
  PROVE  StepKind
<1>0. journal \in Seq(Rowed)
  BY DEF IInv, Typed, TypeOK
<1>l. ASSUME call.at = "apply", CommitsProject, UNCHANGED journal PROVE StepKind
  BY <1>l, CommandPends DEF StepKind
<1>1. CASE Recover
  <2> DEFINE last == mem[call.server]
  <2>1. CASE Unjournaled(last) /\ ~Claimed(last.command)
    <3>1. journal' = Append(journal, last.command) /\ UNCHANGED <<saved, applied>>
      BY <1>1, <2>1 DEF Recover, project
    <3>2. last \in Saves
      BY <1>1, <2>1, InSection DEF Recover, IInv, Typed, SectionOK, Unjournaled
    <3>3. last.command \in Rowed
      BY <3>2 DEF Saves, Rowed
    <3>4. NoRow(last.command)
      BY <2>1 DEF Unjournaled, Claimed, NoRow, SlotRow
    <3>5. Pending => saved.command = last.command
      BY <1>1 DEF Recover, IInv, SectionSees
    <3> QED BY <3>1, <3>3, <3>4, <3>5 DEF StepKind
  <2>2. CASE ~(Unjournaled(last) /\ ~Claimed(last.command))
    BY <1>1, <2>2 DEF Recover, project, StepKind
  <2> QED BY <2>1, <2>2
<1>2. CASE ApplyLands
  BY <1>2, <1>l DEF ApplyLands
<1>3. CASE ApplyRaisesLanded
  BY <1>3, <1>l DEF ApplyRaisesLanded
<1>4. CASE ApplyUnknown
  BY <1>4, <1>l DEF ApplyUnknown, project, StepKind
<1>5. CASE CommitJournal
  <2>1. call.command \in Rowed /\ NoRow(call.command)
    BY <1>5, SectionCommand DEF CommitJournal, SectionOwes, IInv, Typed, SectionOK
  <2>2. Pending => saved.command = call.command
    BY <1>5 DEF CommitJournal, IInv, SectionSees
  <2> QED BY <1>5, <2>1, <2>2 DEF CommitJournal, project, StepKind
<1>6. CASE LoseJournal
  BY <1>6 DEF LoseJournal, IInv, Typed, TypeOK
<1>7. CASE \/ \E s \in Servers : \/ \E c \in Commands : Submit(s, c)
                                 \/ Notify(s) \/ Snapshot(s) \/ Drop(s) \/ Crash(s)
           \/ Retry \/ Refuse \/ Prepare \/ ApplyQuiet \/ AppendRow \/ PublishApplied
           \/ ApplyRaises \/ JournalFails \/ CommitOutside \/ UNCHANGED vars
  BY <1>7 DEF Submit, Notify, Snapshot, Enter, Drop, Crash, Retry, Refuse, Prepare, ApplyQuiet,
     AppendRow, PublishApplied, ApplyRaises, JournalFails, CommitOutside, vars, project, StepKind
<1> QED
  BY <1>1, <1>2, <1>3, <1>4, <1>5, <1>6, <1>7 DEF Next, Section, Faults

LEMMA RowsDistinctNext ==
  ASSUME IInv, RowsDistinct, StepKind
  PROVE  RowsDistinct'
<1>1. CASE UNCHANGED journal
  BY <1>1 DEF RowsDistinct
<1>2. ASSUME NEW r \in Rowed, journal' = Append(journal, r), NoRow(r)
      PROVE  RowsDistinct'
  <2>1. \A k \in DOMAIN journal : Intent(journal[k]) # Intent(r)
    BY <1>2, NoRowNoIntent DEF Rows
  <2> QED BY <1>2, <2>1, RowAppended DEF RowsDistinct, IInv, Typed, TypeOK
<1> QED BY <1>1, <1>2 DEF StepKind

LEMMA ApplyOrderNext ==
  ASSUME IInv, JournalKeepsApplyOrder, StepKind
  PROVE  JournalKeepsApplyOrder'
<1>t. journal \in Seq(Rowed) /\ applied \in Seq(Commands)
  BY DEF IInv, Typed, TypeOK
<1>1. CASE UNCHANGED <<saved, applied, journal>>
  BY <1>1 DEF JournalKeepsApplyOrder
<1>2. ASSUME UNCHANGED applied, NEW r \in Rowed, journal' = Append(journal, r), NoRow(r)
      PROVE  JournalKeepsApplyOrder'
  <2>1. \A i, j \in DOMAIN applied : i < j => applied[i] # r
    <3> SUFFICES ASSUME NEW i \in DOMAIN applied, NEW j \in DOMAIN applied, i < j,
                        applied[i] = r
                 PROVE  FALSE
      OBVIOUS
    <3>1. r \notin Rows
      BY <1>2 DEF NoRow, ById
    <3>2. i = Len(applied)
      BY <3>1 DEF IInv, NothingAppliedIsLost
    <3> QED BY <1>t, <3>2
  <2>2. \A k \in DOMAIN journal : journal'[k] = journal[k] /\ k < Len(journal) + 1
    BY <1>t, <1>2, RowAppended
  <2>3. /\ DOMAIN journal' = DOMAIN journal \cup {Len(journal) + 1}
        /\ journal'[Len(journal) + 1] = r
    BY <1>t, <1>2, RowAppended
  <2> QED BY <1>2, <2>1, <2>2, <2>3 DEF JournalKeepsApplyOrder
<1>3. ASSUME UNCHANGED journal, NEW c \in Commands, applied' = Append(applied, c), NoRow(c)
      PROVE  JournalKeepsApplyOrder'
  <2>1. \A k \in DOMAIN journal : journal[k] # c
    BY <1>3 DEF NoRow, ById, Rows
  <2>2. /\ DOMAIN applied' = DOMAIN applied \cup {Len(applied) + 1}
        /\ applied'[Len(applied) + 1] = c
        /\ \A k \in DOMAIN applied : applied'[k] = applied[k] /\ k < Len(applied) + 1
        /\ Len(applied) \in Nat
    BY <1>t, <1>3
  <2> QED BY <1>3, <2>1, <2>2 DEF JournalKeepsApplyOrder
<1> QED BY <1>1, <1>2, <1>3 DEF StepKind

LEMMA PublishedNext ==
  ASSUME IInv, PublishedSeqKeepsCommand, SectionOwes, StepKind, [Next]_vars
  PROVE  PublishedSeqKeepsCommand'
<1>q. quiet \subseteq quiet'
  BY QuietGrows
<1>t. journal \in Seq(Rowed)
  BY DEF IInv, Typed, TypeOK
<1>1. CASE PublishApplied
  <2>1. /\ UNCHANGED <<saved, applied, journal, quiet>>
        /\ published' = published \cup {[seq |-> Len(journal) + 1, command |-> call.command]}
    BY <1>1 DEF PublishApplied, project
  <2>2. call.command \in Commands \ quiet => Pending /\ saved.command = call.command
    <3>1. call.kind = "notify" => call.command \notin Commands
      BY <1>1, InSection, JournalCommands
         DEF PublishApplied, IInv, Typed, SectionOK, Externals, External
    <3>2. call.kind \in {"submit", "notify"}
      BY <1>1 DEF PublishApplied, IInv, Typed, SectionOK
    <3> QED BY <1>1, <3>1, <3>2 DEF PublishApplied, SectionOwes
  <2> QED BY <2>1, <2>2, Still DEF PublishedSeqKeepsCommand
<1>2. ASSUME published' = published PROVE PublishedSeqKeepsCommand'
  <2>1. CASE UNCHANGED <<saved, applied, journal>>
    BY <1>q, <1>2, <2>1, Still DEF PublishedSeqKeepsCommand
  <2>2. ASSUME NEW r \in Rowed, journal' = Append(journal, r), Pending => saved.command = r
        PROVE  PublishedSeqKeepsCommand'
    BY <1>q, <1>t, <1>2, <2>2, RowAppended DEF PublishedSeqKeepsCommand
  <2>3. CASE UNCHANGED journal /\ ~Pending
    BY <1>q, <1>2, <2>3 DEF PublishedSeqKeepsCommand
  <2> QED BY <2>1, <2>2, <2>3 DEF StepKind
<1>3. PublishApplied \/ published' = published
  BY DEF Next, vars, Enter, Submit, Notify, Snapshot, Drop, Section, Recover, Retry,
         Refuse, Prepare, ApplyLands, ApplyQuiet, AppendRow, CommitJournal, Faults,
         ApplyRaises, ApplyRaisesLanded, ApplyUnknown, JournalFails, Crash,
         CommitOutside, LoseJournal
<1> QED BY <1>1, <1>2, <1>3

LEMMA ExternalsFreshNext ==
  ASSUME MaxLost = 0, IInv, ExternalsFresh, SectionOwes, [Next]_vars
  PROVE  ExternalsFresh'
<1>t. /\ journal \in Seq(Rowed) /\ Rows \subseteq Rowed
      /\ spent \in [external : Nat, lost : Nat, faults : Nat]
  BY DEF IInv, Typed, TypeOK, Rows
<1>x. Commands \cap Externals = {}
  BY JournalCommands DEF Externals, External
<1>k. StepKind
  BY StepIsKind
<1>1. ASSUME NEW s \in Servers, Notify(s) PROVE ExternalsFresh'
  <2> DEFINE n == spent.external + 1
  <2>1. /\ UNCHANGED journal /\ spent'.external = n /\ n \in 1..MaxExternal
        /\ call'.kind = "notify" /\ call'.command = External(n)
    BY <1>1, <1>t, JournalBounds DEF Notify, Enter, Spend
  <2>2. \A r \in Rows : r.id # n
    BY <1>t, <2>1, JournalCommands DEF ExternalsFresh, Rowed
  <2>3. Rows' = Rows /\ NoRow(External(n))
    BY <2>1, <2>2 DEF Rows, NoRow, ById, SlotRow, Numbered, External
  <2>4. \A r \in Rows \cap Externals : r.id <= n
    BY <1>t DEF ExternalsFresh, Externals, External
  <2> QED BY <2>1, <2>3, <2>4 DEF ExternalsFresh, NoRow, ById, SlotRow
<1>2. ASSUME spent'.external = spent.external,
             Rows' = Rows,
             call' = Idle \/ call'.kind # "notify"
               \/ (call # Idle /\ call'.kind = call.kind /\ call'.command = call.command)
      PROVE  ExternalsFresh'
  BY <1>2 DEF ExternalsFresh, NoRow, ById, SlotRow
<1>3. CASE Recover
  <2>1. call \in Sections /\ call # Idle
    BY <1>3, InSection DEF Recover, IInv, Typed
  <2>2. /\ spent' = spent
        /\ call' = Idle \/ (call'.kind = call.kind /\ call'.command = call.command)
    BY <1>3, <2>1 DEF Recover, Sections
  <2>3. ASSUME NEW r \in Commands, journal' = Append(journal, r) PROVE ExternalsFresh'
    <3>1. Rows' = Rows \cup {r}
      BY <1>t, <2>3, RowAppended
    <3>2. \A x \in Rows' \cap Externals : x.id <= spent.external
      BY <1>x, <3>1 DEF ExternalsFresh
    <3>3. ASSUME NEW e \in Externals, NoRow(e) PROVE NoRow(e)'
      BY <3>1, <3>3, ClientRowApart
    <3>4. call.kind = "notify" => call.command \in Externals
      BY <2>1 DEF IInv, Typed, SectionOK
    <3> QED BY <2>1, <2>2, <3>2, <3>3, <3>4 DEF ExternalsFresh
  <2>4. CASE journal' = journal
    BY <1>2, <2>1, <2>2, <2>4 DEF Rows
  <2>5. mem[call.server] \in Saves \cup {None}
    BY <1>3 DEF Recover, IInv, Typed, SectionOK
  <2> QED BY <1>3, <2>3, <2>4, <2>5 DEF Recover, Unjournaled, Saves
<1>4. CASE CommitJournal
  <2>1. call.command \in Rowed /\ call # Idle /\ call.kind \in {"submit", "notify"}
        /\ (call.kind = "submit" => call.command \in Commands)
    BY <1>4, SectionCommand, InSection DEF CommitJournal, IInv, Typed, SectionOK
  <2>2. Rows' = Rows \cup {call.command} /\ call' = Idle /\ spent'.external = spent.external
    BY <1>4, <1>t, RowAppended DEF CommitJournal, Leave, Fault, Spend
  <2>3. call.command \in Externals => call.command.id <= spent.external
    BY <1>t, <1>x, <2>1 DEF ExternalsFresh, External
  <2> QED BY <2>2, <2>3 DEF ExternalsFresh
<1>5. CASE LoseJournal
  BY <1>5 DEF LoseJournal, IInv, Typed, TypeOK
<1>6. CASE \/ \E s \in Servers : \/ \E c \in Commands : Submit(s, c)
                                 \/ Snapshot(s) \/ Drop(s) \/ Crash(s)
           \/ Retry \/ Refuse \/ ApplyRaises \/ JournalFails \/ CommitOutside
           \/ ApplyRaisesLanded \/ ApplyUnknown \/ UNCHANGED vars
  BY <1>2, <1>6, <1>t DEF Submit, Snapshot, Enter, Drop, Crash, Retry, Refuse, ApplyRaises,
     JournalFails, CommitOutside, ApplyRaisesLanded, ApplyUnknown, vars, Leave, Fault, Spend, Rows
<1>7. CASE Prepare \/ ApplyLands \/ ApplyQuiet \/ AppendRow \/ PublishApplied
  <2>1. call \in Sections /\ call # Idle
    BY <1>7, InSection DEF Prepare, ApplyLands, ApplyQuiet, AppendRow, PublishApplied, IInv, Typed
  <2> QED BY <1>2, <1>7, <2>1
       DEF Prepare, ApplyLands, ApplyQuiet, AppendRow, PublishApplied, Sections, Rows
<1> QED
  BY <1>1, <1>3, <1>4, <1>5, <1>6, <1>7 DEF Next, Section, Faults

LEMMA SectionOwesNext ==
  ASSUME MaxLost = 0, IInv, ExternalsFresh, SectionOwes, [Next]_vars
  PROVE  SectionOwes'
<1>1. CASE Recover
  <2>1. call \in Sections
    BY <1>1, InSection DEF Recover, IInv, Typed
  <2>2. \/ call' = Idle \/ call'.at = "check"
        \/ call'.at = "append" /\ call'.kind = "notify" /\ call' # Idle
    BY <1>1, <2>1 DEF Recover, Sections, Idle
  <2> QED BY <2>2, ExternalsFreshNext DEF ExternalsFresh, SectionOwes, Idle
<1>2. CASE ApplyLands
  <2>1. call \in Sections
    BY <1>2, InSection DEF ApplyLands, IInv, Typed
  <2>2. /\ UNCHANGED journal /\ NoRow(call.command) /\ Pending'
        /\ saved'.command = call.command
    BY <1>2, CommandPends DEF ApplyLands
  <2>3. call'.at = "append" /\ call'.command = call.command
    BY <1>2, <2>1 DEF ApplyLands, Sections
  <2> QED BY <2>2, <2>3 DEF SectionOwes, NoRow, SlotRow, ById, Rows
<1>3. CASE ApplyQuiet
  <2>1. call \in Sections /\ NoRow(call.command) /\ UNCHANGED <<saved, applied, journal>>
    BY <1>3, InSection DEF ApplyQuiet, project, IInv, Typed, SectionOK, SectionSees
  <2>2. call'.at = "append" /\ call'.command = call.command /\ call.command \in quiet'
    BY <1>3, <2>1 DEF ApplyQuiet, Sections
  <2> QED BY <2>1, <2>2, Still DEF SectionOwes
<1>4. CASE AppendRow \/ PublishApplied
  <2>1. call \in Sections /\ UNCHANGED <<saved, applied, journal, quiet>>
    BY <1>4, InSection DEF AppendRow, PublishApplied, project, IInv, Typed
  <2>2. \/ call' = Idle
        \/ call'.command = call.command /\ call'.kind = call.kind
    BY <1>4, <2>1 DEF AppendRow, PublishApplied, Sections
  <2> QED BY <1>4, <2>1, <2>2, Still DEF SectionOwes, AppendRow, PublishApplied, Idle
<1>5. CASE UNCHANGED vars
  BY <1>5, Still DEF vars, SectionOwes
<1>6. CASE \/ \E s \in Servers : \/ \E c \in Commands : Submit(s, c)
                                 \/ Notify(s) \/ Snapshot(s) \/ Drop(s) \/ Crash(s)
           \/ Retry \/ Refuse \/ CommitJournal \/ ApplyRaises \/ ApplyRaisesLanded
           \/ ApplyUnknown \/ JournalFails \/ CommitOutside \/ LoseJournal
  <2>1. call' = Idle \/ call'.at = "recover"
    BY <1>6 DEF Submit, Notify, Snapshot, Enter, Drop, Crash, Retry, Refuse,
       CommitJournal, ApplyRaises, ApplyRaisesLanded, ApplyUnknown, JournalFails,
       CommitOutside, LoseJournal, Leave
  <2> QED BY <2>1 DEF SectionOwes, Idle
<1>7. CASE Prepare
  <2>1. call'.at = "apply"
    BY <1>7, InSection DEF Prepare, IInv, Typed, Sections
  <2> QED BY <2>1 DEF SectionOwes
<1> QED
  BY <1>1, <1>2, <1>3, <1>4, <1>5, <1>6, <1>7 DEF Next, Section, Faults

LEMMA LogInvInit == Init => LogInv
<1> SUFFICES ASSUME Init PROVE LogInv
  OBVIOUS
<1>1. Rows = {} /\ DOMAIN journal = {} /\ DOMAIN applied = {} /\ call.at = "idle"
  BY DEF Init, Rows, Idle
<1> QED BY <1>1, IInvInit DEF Init, LogInv, RowsDistinct, ExternalsFresh, SectionOwes,
           JournalKeepsApplyOrder, PublishedSeqKeepsCommand

LEMMA LogInvNext == ASSUME MaxLost = 0 PROVE LogInv /\ [Next]_vars => LogInv'
<1> SUFFICES ASSUME LogInv, [Next]_vars PROVE LogInv'
  OBVIOUS
<1>1. StepKind
  BY StepIsKind DEF LogInv
<1> QED BY <1>1, IInvNext, RowsDistinctNext, ExternalsFreshNext, SectionOwesNext,
           ApplyOrderNext, PublishedNext DEF LogInv

LEMMA LogInvAlways == ASSUME MaxLost = 0 PROVE Spec => []LogInv
BY LogInvInit, LogInvNext, PTL DEF Spec

(* Peers that replay the journal do so in the order in which the project   *)
(* absorbed the edits, recovered rows included.                            *)
THEOREM JournalInApplyOrder == ASSUME MaxLost = 0 PROVE Spec => []JournalKeepsApplyOrder
<1>1. LogInv => JournalKeepsApplyOrder
  BY DEF LogInv
<1> QED BY <1>1, LogInvAlways, PTL

(* Publishing before the COMMIT is safe for what was saved: the server_seq *)
(* a tab has seen an edit at is the edit's for good.                       *)
THEOREM PublishedSeqKept == ASSUME MaxLost = 0 PROVE Spec => []PublishedSeqKeepsCommand
<1>1. LogInv => PublishedSeqKeepsCommand
  BY DEF LogInv
<1> QED BY <1>1, LogInvAlways, PTL

-----------------------------------------------------------------------------
(* The refinement of CommandLog.                                           *)

Intents(rows) == [i \in DOMAIN rows |-> Intent(rows[i])]

LEMMA IntentsOfAppend ==
  ASSUME NEW rows \in Seq(Rowed), NEW r \in Rowed
  PROVE  Intents(Append(rows, r)) = Append(Intents(rows), Intent(r))
<1> DEFINE more == Append(rows, r)
<1>1. /\ DOMAIN rows = 1..Len(rows) /\ Len(rows) \in Nat
      /\ DOMAIN more = 1..(Len(rows) + 1)
      /\ \A k \in 1..Len(rows) : more[k] = rows[k]
      /\ more[Len(rows) + 1] = r
  OBVIOUS
<1> HIDE DEF more
<1>2. Intents(more) = [k \in 1..(Len(rows) + 1) |-> Intent(more[k])]
  BY <1>1 DEF Intents
<1>3. Intents(rows) \in Seq({Intent(c) : c \in Rowed}) /\ Len(Intents(rows)) = Len(rows)
  BY <1>1 DEF Intents
<1>4. /\ Append(Intents(rows), Intent(r)) \in Seq({Intent(c) : c \in Rowed})
      /\ Len(Append(Intents(rows), Intent(r))) = Len(rows) + 1
  BY <1>3
<1>5. \A k \in 1..(Len(rows) + 1) : Append(Intents(rows), Intent(r))[k] = Intent(more[k])
  BY <1>1, <1>3 DEF Intents
<1> DEFINE joined == Append(Intents(rows), Intent(r))
<1>6. joined = [k \in 1..(Len(rows) + 1) |-> joined[k]]
  <2>1. joined \in Seq({Intent(c) : c \in Rowed}) /\ Len(joined) = Len(rows) + 1
    BY <1>4
  <2> HIDE DEF joined
  <2>2. joined \in [1..Len(joined) -> {Intent(c) : c \in Rowed}]
    BY <2>1
  <2> QED BY <2>1, <2>2
<1> HIDE DEF joined
<1>7. joined = Intents(more)
  BY <1>2, <1>5, <1>6 DEF joined
<1> QED BY <1>7 DEF joined, more

LEMMA EffectiveIs ==
  Effective = Intents(IF Pending THEN Append(journal, saved.command) ELSE journal)
BY DEF Effective, Intents

(* One new intent enters the log.                                          *)
LEMMA Taking ==
  ASSUME journal \in Seq(Rowed), NEW r \in Rowed, NoRow(r), ~Pending,
         Effective' = Intents(Append(journal, r))
  PROVE  Log!Next
<1>1. Effective = Intents(journal)
  BY EffectiveIs
<1>2. Effective' = Append(Effective, Intent(r))
  BY <1>1, IntentsOfAppend
<1>3. Intent(r) \notin Log!Taken
  BY <1>1, NoRowNoIntent DEF Log!Taken, Intents, Rows
<1> QED BY <1>2, <1>3 DEF Log!Next, Log!Take

(* Each step of the service lets one new intent into the log, or none.     *)
LEMMA StepRefines ==
  ASSUME IInv, StepKind
  PROVE  Log!Next \/ Effective' = Effective
<1>t. journal \in Seq(Rowed)
  BY DEF IInv, Typed, TypeOK
<1>1. CASE UNCHANGED <<saved, applied, journal>>
  BY <1>1, Still DEF Effective
<1>2. ASSUME UNCHANGED <<saved, applied>>, NEW r \in Rowed, journal' = Append(journal, r),
             NoRow(r), Pending => saved.command = r
      PROVE  Log!Next \/ Effective' = Effective
  <2>1. ~Pending'
    BY <1>2, RowJoins
  <2>2. Effective' = Intents(Append(journal, r))
    BY <1>2, <2>1 DEF Effective, Intents
  <2>3. Pending => Effective = Intents(Append(journal, r))
    BY <1>2, EffectiveIs
  <2> QED BY <1>t, <1>2, <2>2, <2>3, Taking
<1>3. ASSUME UNCHANGED journal, ~Pending, Pending',
             NEW r \in Commands, r = call.command, NoRow(r), saved'.command = r
      PROVE  Log!Next
  <2>1. Effective' = Intents(Append(journal, r))
    BY <1>3 DEF Effective, Intents
  <2> QED BY <1>t, <1>3, <2>1, Taking DEF Rowed
<1> QED BY <1>1, <1>2, <1>3 DEF StepKind

(* The journal, with the record a crash left for the next section, is the  *)
(* log of CommandLog: whatever is retried, raised, rolled back or killed,  *)
(* every intent to edit enters it at most once, at its end, for good.      *)
THEOREM JournalImplementsLog == ASSUME MaxLost = 0 PROVE Spec => ExactlyOnceLog
<1>1. Init => Log!Init
  BY DEF Init, Log!Init, Effective, Pending, Unjournaled
<1>2. LogInv /\ [Next]_vars => [Log!Next]_Effective
  BY StepIsKind, StepRefines DEF LogInv
<1> QED BY <1>1, <1>2, LogInvAlways, PTL DEF Spec, ExactlyOnceLog, Log!Spec

-----------------------------------------------------------------------------
(* Answers to clients.                                                     *)

(* command_id is a uuid4, on the server and in the browser.                *)
UniqueIds == \A c, d \in Commands : c.id = d.id => c = d

(* A row answers c: one of its own edit, under its own id or with its edit.*)
Answers(r, c) == Intent(r) = Intent(c) /\ (r.id = c.id \/ SameEdit(r, c))

(* A row bars c: another edit took its place.                              *)
Bars(r, c) == r \in SlotRow(c) /\ r.id # c.id /\ ~SameEdit(r, c)

AnswersStand ==
  /\ \A c \in replied : \E r \in Rows : Answers(r, c)
  /\ \A c \in refused : \E r \in Rows : Bars(r, c)

(* A row found under the id of a command is that command's.                *)
LEMMA OwnId ==
  ASSUME IInv, UniqueIds, NEW c \in Commands, NEW r \in ById(c)
  PROVE  r = c
<1>1. r \in Rowed /\ r.id = c.id
  BY DEF ById, Rows, IInv, Typed, TypeOK
<1>2. c.id \notin 1..MaxExternal /\ \A e \in Externals : e.id \in 1..MaxExternal
  BY JournalCommands DEF Externals, External
<1> QED BY <1>1, <1>2 DEF Rowed, UniqueIds

LEMMA ExistingAnswers ==
  ASSUME IInv, UniqueIds, NEW c \in Commands, Existing(c)
  PROVE  \E r \in Rows : Answers(r, c)
<1>1. CASE SlotRow(c) # {}
  <2>1. PICK r \in SlotRow(c) : TRUE
    BY <1>1
  <2>2. Intent(r) = Intent(c) /\ r \in Rows
    BY <2>1 DEF SlotRow, Intent, Numbered
  <2>3. r.id = c.id \/ SameEdit(r, c)
    BY <1>1, <2>1 DEF Existing, Conflicts
  <2> QED BY <2>2, <2>3 DEF Answers
<1>2. CASE SlotRow(c) = {}
  <2>1. PICK r \in ById(c) : TRUE
    BY <1>2 DEF Existing
  <2>2. r = c /\ r \in Rows
    BY <2>1, OwnId DEF ById
  <2> QED BY <2>2 DEF Answers
<1> QED BY <1>1, <1>2

LEMMA ConflictBars ==
  ASSUME IInv, UniqueIds, NEW c \in Commands, Conflicts(c)
  PROVE  \E r \in Rows : Bars(r, c)
<1>1. SlotRow(c) # {}
  BY OwnId DEF Conflicts, SameEdit
<1> QED BY <1>1 DEF Conflicts, Bars, SlotRow

(* The journal has one row at a place, so what it answers it does not bar. *)
LEMMA AnsweredNotBarred ==
  ASSUME RowsDistinct, NEW c, NEW r \in Rows, Answers(r, c), NEW s \in Rows, Bars(s, c)
  PROVE  FALSE
<1>1. Intent(s) = Intent(c)
  BY DEF Bars, SlotRow, Intent, Numbered
<1>2. r = s
  BY <1>1 DEF RowsDistinct, Answers, Rows
<1> QED BY <1>2 DEF Answers, Bars

LEMMA AnswersStandNext ==
  ASSUME UniqueIds, IInv, AnswersStand, StepKind, [Next]_vars
  PROVE  AnswersStand'
<1>r. Rows \subseteq Rows'
  <2>1. journal \in Seq(Rowed)
    BY DEF IInv, Typed, TypeOK
  <2>2. journal' = journal => Rows' = Rows
    BY DEF Rows
  <2>3. ASSUME NEW r \in Rowed, journal' = Append(journal, r) PROVE Rows \subseteq Rows'
    BY <2>1, <2>3, RowAppended
  <2> QED BY <2>2, <2>3 DEF StepKind
<1>b. \A c, r : r \in Rows /\ Bars(r, c) => Bars(r, c)'
  BY <1>r DEF Bars, SlotRow
<1>1. CASE UNCHANGED clients
  BY <1>1, <1>r, <1>b DEF clients, AnswersStand
<1>2. CASE Retry
  <2>1. call.command \in Commands
    BY <1>2, InSection DEF Retry, IInv, Typed, SectionOK
  <2>2. \E r \in Rows : Answers(r, call.command)
    BY <1>2, <2>1, ExistingAnswers DEF Retry
  <2> QED BY <1>2, <1>r, <1>b, <2>2 DEF Retry, AnswersStand
<1>3. CASE Refuse
  <2>1. call.command \in Commands
    BY <1>3, InSection DEF Refuse, IInv, Typed, SectionOK
  <2>2. \E r \in Rows : Bars(r, call.command)
    BY <1>3, <2>1, ConflictBars DEF Refuse
  <2> QED BY <1>3, <1>r, <1>b, <2>2 DEF Refuse, AnswersStand
<1>4. CASE CommitJournal
  <2>1. call.command \in Rows'
    BY <1>4, RowAppended DEF CommitJournal, IInv, Typed, TypeOK
  <2>2. Answers(call.command, call.command)
    BY DEF Answers
  <2> QED BY <1>4, <1>r, <1>b, <2>1, <2>2 DEF CommitJournal, AnswersStand
<1> QED
  BY <1>1, <1>2, <1>3, <1>4 DEF Next, vars, clients, Enter, Submit, Notify, Snapshot, Drop,
     Section, Recover, Prepare, ApplyLands, ApplyQuiet, AppendRow, PublishApplied, Faults,
     ApplyRaises, ApplyRaisesLanded, ApplyUnknown, JournalFails, Crash, CommitOutside,
     LoseJournal

(* Who holds a reply holds it for good: the edit has its row after any     *)
(* later crash, and no attempt at it was or will be refused.               *)
THEOREM RepliesForGood == ASSUME MaxLost = 0, UniqueIds PROVE Spec => []RepliesHold
<1>1. Init => AnswersStand
  BY DEF Init, AnswersStand
<1>2. LogInv /\ AnswersStand /\ [Next]_vars => AnswersStand'
  BY AnswersStandNext, StepIsKind DEF LogInv
<1>3. LogInv /\ AnswersStand => RepliesHold
  <2> SUFFICES ASSUME LogInv, AnswersStand, NEW c \in replied
               PROVE  c \notin refused /\ \E r \in Rows : Intent(r) = Intent(c)
    BY DEF RepliesHold
  <2>1. PICK r \in Rows : Answers(r, c)
    BY DEF AnswersStand
  <2>2. c \notin refused
    BY <2>1, AnsweredNotBarred DEF LogInv, AnswersStand
  <2> QED BY <2>1, <2>2 DEF Answers
<1> QED BY <1>1, <1>2, <1>3, LogInvAlways, PTL DEF Spec
=============================================================================
