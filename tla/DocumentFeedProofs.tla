-------------------------- MODULE DocumentFeedProofs --------------------------
(***************************************************************************)
(* What an open tab may rely on, for any number of sockets, kinds of       *)
(* event, faults and bounds: it claims a file only while it shows that     *)
(* file, a seq it was told of comes back after a rollback, the watcher its *)
(* socket has leased runs, and once nothing is on its way it has missed no *)
(* row of the journal.  And the hub's memory and queues stay bounded.      *)
(***************************************************************************)
EXTENDS DocumentFeed, FiniteSetTheorems, TLAPS

-----------------------------------------------------------------------------
(* An event carries a whole project, or the one change that follows the    *)
(* file it was made for.                                                   *)
Sound ==
  {e \in Events : /\ e.kind \in {"delta", "comments"} => e.v # 0
                  /\ e.before # NoFile => e.v = e.before + 1}

SoundUpTo(n) == {e \in Sound : e.seq <= n}

Marker(e) == [e EXCEPT !.kind = "resync"]

(* A set of sound events that holds the marker a full queue puts in place  *)
(* of any of them.                                                         *)
Stock(E) == E \subseteq Sound /\ \A e \in E : Marker(e) \in E

LEMMA Stocks == Stock(Sound) /\ \A n \in Nat : Stock(SoundUpTo(n))
<1>1. ASSUME NEW e \in Sound
      PROVE  Marker(e) \in Sound /\ Marker(e).seq = e.seq
  BY DEF Sound, Marker, Events
<1> QED BY <1>1 DEF Stock, SoundUpTo

(* A tab claims a file only while it shows all of it and nothing else.     *)
Tabs == [phase : {"starting", "ready", "recovering"}, min : Nat, seq : Nat,
         token : Nat \cup {NoFile}, file : Nat \cup {NoFile}, shown : SUBSET Nat]

Truthful(t) == t \in Tabs /\ (t.file # NoFile => t.shown = 1..t.file)

(* the newest seq a tab has been told of *)
Told(t, n) == t.seq <= n /\ t.min <= n

LEMMA ShowsTruthfully ==
  ASSUME NEW t, Truthful(t), NEW e \in Sound, Fits(t, e)
  PROVE  Truthful(Showing(t, e)) /\ \A n \in Nat : e.seq <= n => Told(Showing(t, e), n)
<1>1. /\ e.kind \in {"whole", "delta", "comments"} /\ e.seq \in Nat /\ e.v \in Nat
      /\ e.before \in Nat \cup {NoFile}
  BY DEF Fits, Sound, Events
<1>2. NoFile \notin Nat
  BY FeedAssumption
<1>3. CASE e.kind = "whole"
  <2>1. FileAfter(t, e) = e.v
    BY <1>3 DEF FileAfter
  <2> QED BY <1>1, <1>3, <2>1 DEF Showing, Truthful, Tabs, Told
<1>4. CASE e.kind # "whole"
  <2> DEFINE shown == t.shown \cup {e.v}
             held  == FileAfter(t, e)
  <2>1. e.v \in Nat \ {0} /\ e.kind \in {"delta", "comments"}
    BY <1>1, <1>4 DEF Sound
  <2>2. held = IF e.v = t.file THEN e.v
               ELSE IF e.before # NoFile /\ e.before = t.file THEN e.v ELSE NoFile
    BY <1>4 DEF FileAfter
  <2>3. t \in Tabs /\ (t.file # NoFile => t.shown = 1..t.file)
    BY DEF Truthful
  <2>4. CASE e.v = t.file
    <3>1. shown = 1..e.v
      BY <2>1, <2>3, <2>4, <1>2
    <3>2. held = e.v
      BY <2>2, <2>4
    <3> QED BY <3>1, <3>2, <1>1, <2>3, <1>4 DEF Showing, Truthful, Tabs, Told
  <2>5. CASE e.v # t.file /\ e.before # NoFile /\ e.before = t.file
    <3>1. e.v = t.file + 1 /\ t.file \in Nat
      BY <2>5, <1>1 DEF Sound
    <3>2. shown = 1..e.v
      BY <3>1, <2>3, <2>5
    <3>3. held = e.v
      BY <2>2, <2>5
    <3> QED BY <3>2, <3>3, <1>1, <2>3, <1>4 DEF Showing, Truthful, Tabs, Told
  <2>6. CASE e.v # t.file /\ ~(e.before # NoFile /\ e.before = t.file)
    <3>1. held = NoFile
      BY <2>2, <2>6
    <3> QED BY <3>1, <1>1, <2>3, <1>4 DEF Showing, Truthful, Tabs, Told
  <2> QED BY <2>4, <2>5, <2>6
<1> QED BY <1>3, <1>4

(* Whatever reaches a tab, it stays truthful, and is told of no seq but    *)
(* the event's.                                                            *)
LEMMA AppliesTruthfully ==
  ASSUME NEW t, Truthful(t), NEW e \in Sound
  PROVE  /\ Truthful(Applied(t, e))
         /\ \A n \in Nat : Told(t, n) /\ e.seq <= n => Told(Applied(t, e), n)
<1>1. CASE Ignores(t, e)
  <2>1. Applied(t, e) = t
    BY <1>1 DEF Applied, Invalidates
  <2> QED BY <2>1
<1>2. CASE Invalidates(t, e)
  <2>1. Applied(t, e) = Recovering(t, e.seq)
    BY <1>2 DEF Applied, Invalidates
  <2>2. e.seq \in Nat
    BY DEF Sound, Events
  <2>3. PICK m \in Nat : /\ Recovering(t, e.seq) = [t EXCEPT !.phase = "recovering", !.min = m]
                         /\ m \in {e.seq, t.min, t.seq}
    BY <2>2 DEF Recovering, Larger, Truthful, Tabs
  <2> DEFINE u == [t EXCEPT !.phase = "recovering", !.min = m]
  <2>4. t \in Tabs /\ (t.file # NoFile => t.shown = 1..t.file)
    BY DEF Truthful
  <2>5. u \in Tabs /\ u.seq = t.seq /\ u.min = m /\ u.file = t.file /\ u.shown = t.shown
    BY <2>4 DEF Tabs
  <2> QED BY <2>1, <2>3, <2>4, <2>5 DEF Truthful, Told
<1>3. CASE ~Ignores(t, e) /\ Fits(t, e)
  <2>1. Applied(t, e) = Showing(t, e)
    BY <1>3 DEF Applied, Invalidates
  <2> QED BY <2>1, <1>3, ShowsTruthfully
<1> QED BY <1>1, <1>2, <1>3 DEF Invalidates

-----------------------------------------------------------------------------
(* The server's own state, and what the next section finds in the journal. *)
Ledger ==
  /\ file \in Nat /\ journal \in Seq(Nat)
  /\ saved = NoRow \/ saved \in [v : Nat, base : Nat]
  /\ notice = NoRow \/ notice \in 1..file

(* a saved command of which the journal has no row, at the journal's head  *)
Pending == saved # NoRow /\ saved.base = JournalHead /\ saved.v \notin Rows

LEMMA RecoversAtMostOne ==
  ASSUME Ledger
  PROVE  /\ Recovered \in Seq(Nat) /\ JournalHead \in Nat /\ Len(Recovered) \in Nat
         /\ Recovered = IF Pending THEN Append(journal, saved.v) ELSE journal
         /\ Len(Recovered) = IF Pending THEN JournalHead + 1 ELSE JournalHead
<1>1. Recovered = IF Pending THEN Append(journal, saved.v) ELSE journal
  BY DEF Recovered, Pending
<1>2. journal \in Seq(Nat) /\ (Pending => saved.v \in Nat)
  BY DEF Ledger, Pending
<1>3. CASE Pending
  BY <1>1, <1>2, <1>3 DEF JournalHead
<1>4. CASE ~Pending
  BY <1>1, <1>2, <1>4 DEF JournalHead
<1> QED BY <1>1, <1>3, <1>4

(* The same of the state a step leads to.                                  *)
LEMMA RecoversAfter ==
  ASSUME Ledger'
  PROVE  /\ Len(Recovered') \in Nat /\ JournalHead' \in Nat
         /\ Len(Recovered') >= JournalHead'
<1>1. journal' \in Seq(Nat) /\ (Pending' => saved'.v \in Nat)
  BY DEF Ledger, Pending
<1>2. Recovered' = IF Pending' THEN Append(journal', saved'.v) ELSE journal'
  BY DEF Recovered, Pending
<1>3. Len(journal') \in Nat /\ Len(Append(journal', saved'.v)) = Len(journal') + 1
  BY <1>1
<1> QED BY <1>1, <1>2, <1>3 DEF JournalHead

(* The events a section can make.                                          *)
Command(kind) == Event(kind, Len(Recovered) + 1, file + 1, file)
Changed == Whole(Len(Recovered) + 1, file)
Comments ==
  Event("comments", Len(Recovered) + 1, file, IF file = notice THEN file - 1 ELSE NoFile)

LEMMA SectionsAreSound ==
  ASSUME Ledger
  PROVE  /\ Snapshot \in Sound /\ Snapshot.seq = Len(Recovered)
         /\ Changed \in Sound /\ Changed.seq = Len(Recovered) + 1 /\ Changed.v = file
         /\ \A kind \in Kinds :
              /\ Command(kind) \in Sound /\ Command(kind).seq = Len(Recovered) + 1
              /\ Command(kind).v = file + 1
         /\ notice # NoRow => /\ Comments \in Sound /\ Comments.seq = Len(Recovered) + 1
                              /\ Comments.v = file
<1>1. Len(Recovered) \in Nat /\ file \in Nat
  BY RecoversAtMostOne DEF Ledger
<1>2. NoFile \notin Nat /\ Kinds \subseteq {"delta", "whole", "resync"}
  BY FeedAssumption
<1>3. Snapshot \in Sound /\ Snapshot.seq = Len(Recovered)
  BY <1>1, <1>2 DEF Snapshot, Whole, Event, Sound, Events
<1>4. Changed \in Sound /\ Changed.seq = Len(Recovered) + 1 /\ Changed.v = file
  BY <1>1, <1>2 DEF Changed, Whole, Event, Sound, Events
<1>5. ASSUME NEW kind \in Kinds
      PROVE  /\ Command(kind) \in Sound /\ Command(kind).seq = Len(Recovered) + 1
             /\ Command(kind).v = file + 1
  BY <1>1, <1>2 DEF Command, Event, Sound, Events
<1>6. ASSUME notice # NoRow
      PROVE  /\ Comments \in Sound /\ Comments.seq = Len(Recovered) + 1 /\ Comments.v = file
  <2>1. file \in Nat \ {0}
    BY <1>1, <1>6 DEF Ledger
  <2>2. file - 1 \in Nat /\ file = (file - 1) + 1
    BY <2>1
  <2> DEFINE before == IF file = notice THEN file - 1 ELSE NoFile
  <2>3. before \in Nat \cup {NoFile} /\ (before # NoFile => file = before + 1)
    BY <2>2
  <2> HIDE DEF before
  <2>4. Event("comments", Len(Recovered) + 1, file, before) \in Sound
    BY <1>1, <2>1, <2>3 DEF Event, Sound, Events
  <2> QED BY <2>4, <1>1 DEF Comments, Event, before
<1> QED BY <1>3, <1>4, <1>5, <1>6

-----------------------------------------------------------------------------
(* Where an event can be on its way, and that each of them is in E.        *)
SocketOf(E) ==
  [pc : {"closed", "subscribed", "live", "left"},
   queue : Seq(E) \cup {NoRow}, wire : Seq(E),
   lease : {"none", "asked", "held", "joining"},
   watcher : Sockets \cup {Nobody}]

SocketsOf(E) == [Sockets -> SocketOf(E)]

PollsOf(E) == [ref : [v : Nat, seq : Nat] \cup {NoRow}, req : E \cup {Off, Asked}]

OpensOf(E) == [what : {"command", "notice"}, event : E, mine : BOOLEAN]

Flight(E) ==
  /\ open = NoRow \/ open \in OpensOf(E)
  /\ socket \in SocketsOf(E) /\ conn \in Sockets \cup {Nobody}
  /\ fetch \in E \cup {Off, Asked} /\ reply \in E \cup {NoRow}
  /\ poll \in PollsOf(E)

LEMMA FlightGrows ==
  ASSUME NEW E, NEW F, E \subseteq F, Flight(E)
  PROVE  Flight(F)
<1>1. Seq(E) \subseteq Seq(F)
  OBVIOUS
<1>2. SocketsOf(E) \subseteq SocketsOf(F)
  BY <1>1 DEF SocketsOf, SocketOf
<1> QED BY <1>2 DEF Flight, OpensOf, PollsOf

LEMMA SocketChanges ==
  ASSUME NEW E, socket \in SocketsOf(E), NEW k \in Sockets, NEW r \in SocketOf(E)
  PROVE  [socket EXCEPT ![k] = r] \in SocketsOf(E)
BY DEF SocketsOf

LEMMA PublishKeepsFlight ==
  ASSUME NEW E, Stock(E), socket \in SocketsOf(E), NEW e \in E, NEW seqs, Publish(e, seqs)
  PROVE  socket' \in SocketsOf(E)
<1>1. ASSUME NEW k \in Listening
      PROVE  Put(socket[k].queue, e) \in Seq(E)
  <2>1. socket[k].queue \in Seq(E)
    BY DEF Listening, SocketsOf, SocketOf
  <2>2. <<Marker(e)>> \in Seq(E)
    BY DEF Stock
  <2> QED BY <2>1, <2>2 DEF Put, Marker
<1>2. socket' = [k \in Sockets |->
         IF k \in Listening THEN [socket[k] EXCEPT !.queue = Put(socket[k].queue, e)]
         ELSE socket[k]]
  BY DEF Publish
<1>3. ASSUME NEW k \in Listening
      PROVE  [socket[k] EXCEPT !.queue = Put(socket[k].queue, e)] \in SocketOf(E)
  <2> DEFINE q == Put(socket[k].queue, e)
  <2>1. q \in Seq(E) /\ socket[k] \in SocketOf(E)
    BY <1>1 DEF SocketsOf, Listening
  <2> HIDE DEF q
  <2>2. [socket[k] EXCEPT !.queue = q] \in SocketOf(E)
    BY <2>1 DEF SocketOf
  <2> QED BY <2>2 DEF q
<1> QED BY <1>2, <1>3 DEF SocketsOf

(* A project's sections: those of this process, and another's.             *)
LEMMA WriteKeepsFlight ==
  ASSUME NEW E, Stock(E), Flight(E), Write,
         \A kind \in Kinds, mine \in BOOLEAN : Submit(kind, mine) => Command(kind) \in E,
         Announce("whole") => Changed \in E,
         Announce("comments") => Comments \in E
  PROVE  Flight(E)'
<1>1. ASSUME NEW kind \in Kinds, NEW mine \in BOOLEAN, Submit(kind, mine)
      PROVE  Flight(E)'
  <2>1. /\ Command(kind) \in E
        /\ Publish(Command(kind), <<Command(kind).seq>>)
        /\ open' = [what |-> "command", event |-> Command(kind), mine |-> mine]
        /\ UNCHANGED <<conn, fetch, reply, poll>>
    BY <1>1 DEF Submit, Command, client
  <2>2. socket' \in SocketsOf(E)
    BY <2>1, PublishKeepsFlight DEF Flight
  <2> QED BY <2>1, <2>2 DEF Flight, OpensOf
<1>2. ASSUME NEW kind \in {"whole", "comments"}, Announce(kind)
      PROVE  Flight(E)'
  <2>1. PICK e \in E : /\ Publish(e, <<e.seq>>)
                       /\ open' = [what |-> "notice", event |-> e, mine |-> FALSE]
    BY <1>2 DEF Announce, Changed, Comments
  <2>2. socket' \in SocketsOf(E)
    BY <2>1, PublishKeepsFlight DEF Flight
  <2>3. UNCHANGED <<conn, fetch, reply, poll>>
    BY <1>2 DEF Announce, client
  <2> QED BY <2>1, <2>2, <2>3 DEF Flight, OpensOf
<1>3. CASE Commit
  BY <1>3 DEF Commit, Flight, Unlocked, OpensOf
<1>4. CASE Rollback
  BY <1>4 DEF Rollback, Flight, client
<1>5. CASE SaveUnannounced \/ StaySilent \/ \E dies \in BOOLEAN : SubmitElsewhere(dies)
  BY <1>5 DEF SaveUnannounced, StaySilent, SubmitElsewhere, Flight, client
<1> QED BY <1>1, <1>2, <1>3, <1>4, <1>5 DEF Write

LEMMA WatchKeepsFlight ==
  ASSUME NEW E, Stock(E), Flight(E), Watch, Unlocked => Snapshot \in E
  PROVE  Flight(E)'
<1>1. ASSUME NEW w \in Sockets, Tick(w) \/ PublishFails(w)
      PROVE  Flight(E)'
  BY <1>1 DEF Tick, PublishFails, Flight, server, client
<1>2. ASSUME NEW w \in Sockets, PublishHead(w)
      PROVE  Flight(E)'
  <2>1. UNCHANGED <<open, conn, fetch, reply, poll>> /\ Unlocked
    BY <1>2 DEF PublishHead, client
  <2>2. socket' = socket \/ \E seqs : Publish(Snapshot, seqs)
    BY <1>2 DEF PublishHead, Snapshot
  <2>3. socket' \in SocketsOf(E)
    BY <2>1, <2>2, PublishKeepsFlight DEF Flight
  <2> QED BY <2>1, <2>3 DEF Flight
<1>3. ASSUME NEW k \in Sockets, Acquire(k) \/ AcquireFails(k) \/ Release(k) \/ Join(k)
      PROVE  Flight(E)'
  <2>1. UNCHANGED <<open, conn, fetch, reply, poll>>
    BY <1>3 DEF Acquire, AcquireFails, Release, Join, server, client
  <2>2. socket \in SocketsOf(E)
    BY DEF Flight
  <2>3. CASE Acquire(k)
    <3>1. PICK w \in Sockets : socket' = [socket EXCEPT ![k].lease = "held", ![k].watcher = w]
      BY <2>3 DEF Acquire
    <3>2. socket' = [socket EXCEPT ![k] = [socket[k] EXCEPT !.lease = "held", !.watcher = w]]
      BY <2>2, <3>1 DEF SocketsOf, SocketOf
    <3>3. [socket[k] EXCEPT !.lease = "held", !.watcher = w] \in SocketOf(E)
      BY <2>2 DEF SocketsOf, SocketOf
    <3>4. socket' \in SocketsOf(E)
      BY <2>2, <3>2, <3>3, SocketChanges
    <3> QED BY <2>1, <3>4 DEF Flight
  <2>4. CASE AcquireFails(k)
    <3>1. socket' = [socket EXCEPT ![k] = [socket[k] EXCEPT !.lease = "held", !.watcher = Nobody]]
      BY <2>2, <2>4 DEF AcquireFails, SocketsOf, SocketOf
    <3>2. [socket[k] EXCEPT !.lease = "held", !.watcher = Nobody] \in SocketOf(E)
      BY <2>2 DEF SocketsOf, SocketOf
    <3>3. socket' \in SocketsOf(E)
      BY <2>2, <3>1, <3>2, SocketChanges
    <3> QED BY <2>1, <3>3 DEF Flight
  <2>5. CASE Release(k) \/ Join(k)
    <3>1. PICK lease \in {"joining", "none"} : socket' = [socket EXCEPT ![k].lease = lease]
      BY <2>5 DEF Release, Join
    <3>2. socket' = [socket EXCEPT ![k] = [socket[k] EXCEPT !.lease = lease]]
      BY <3>1
    <3>3. [socket[k] EXCEPT !.lease = lease] \in SocketOf(E)
      BY <2>2 DEF SocketsOf, SocketOf
    <3>4. socket' \in SocketsOf(E)
      BY <2>2, <3>2, <3>3, SocketChanges
    <3> QED BY <2>1, <3>4 DEF Flight
  <2> QED BY <1>3, <2>3, <2>4, <2>5
<1> QED BY <1>1, <1>2, <1>3 DEF Watch

LEMMA ServeKeepsFlight ==
  ASSUME NEW E, Stock(E), Flight(E), Serve, Unlocked => Snapshot \in E
  PROVE  Flight(E)'
<1>1. PICK k \in Sockets : Connect(k) \/ Hello(k) \/ Pump(k) \/ Leave(k) \/ Gone(k)
  BY DEF Serve
<1>2. socket \in SocketsOf(E) /\ socket[k] \in SocketOf(E)
  BY DEF Flight, SocketsOf
<1>3. \E r \in SocketOf(E) : socket' = [socket EXCEPT ![k] = r]
  <2>1. CASE Connect(k)
    <3>1. socket' = [socket EXCEPT ![k] = [socket[k] EXCEPT !.pc = "subscribed", !.queue = << >>,
                                                            !.lease = "asked"]]
      BY <2>1 DEF Connect
    <3>2. << >> \in Seq(E)
      OBVIOUS
    <3>3. [socket[k] EXCEPT !.pc = "subscribed", !.queue = << >>, !.lease = "asked"]
          \in SocketOf(E)
      BY <1>2, <3>2 DEF SocketOf
    <3> QED BY <3>1, <3>3
  <2>2. CASE Hello(k)
    <3> DEFINE wire == Append(socket[k].wire, Snapshot)
    <3>1. wire \in Seq(E)
      BY <1>2, <2>2 DEF Hello, SocketOf
    <3>2. socket' = [socket EXCEPT ![k] = [socket[k] EXCEPT !.pc = "live", !.wire = wire]]
      BY <1>2, <2>2 DEF Hello, SocketsOf, SocketOf
    <3> HIDE DEF wire
    <3>3. [socket[k] EXCEPT !.pc = "live", !.wire = wire] \in SocketOf(E)
      BY <1>2, <3>1 DEF SocketOf
    <3> QED BY <3>2, <3>3
  <2>3. CASE Pump(k)
    <3> DEFINE rest == Tail(socket[k].queue)
               wire == Append(socket[k].wire, Head(socket[k].queue))
    <3>1. socket[k].queue \in Seq(E) /\ socket[k].queue # << >>
      BY <1>2, <2>3 DEF Pump, SocketOf
    <3>2. rest \in Seq(E) /\ Head(socket[k].queue) \in E
      BY <3>1
    <3>3. wire \in Seq(E)
      BY <1>2, <3>2 DEF SocketOf
    <3>4. socket' = [socket EXCEPT ![k] = [socket[k] EXCEPT !.queue = rest, !.wire = wire]]
      BY <1>2, <2>3 DEF Pump, SocketsOf, SocketOf
    <3> HIDE DEF rest, wire
    <3>5. [socket[k] EXCEPT !.queue = rest, !.wire = wire] \in SocketOf(E)
      BY <1>2, <3>2, <3>3 DEF SocketOf
    <3> QED BY <3>4, <3>5
  <2>4. CASE Leave(k)
    <3>1. socket' = [socket EXCEPT ![k] = [socket[k] EXCEPT !.pc = "left", !.queue = NoRow]]
      BY <1>2, <2>4 DEF Leave, SocketsOf, SocketOf
    <3>2. [socket[k] EXCEPT !.pc = "left", !.queue = NoRow] \in SocketOf(E)
      BY <1>2 DEF SocketOf
    <3> QED BY <3>1, <3>2
  <2>5. CASE Gone(k)
    <3>1. NoSocket \in SocketOf(E)
      BY DEF NoSocket, SocketOf
    <3> QED BY <2>5, <3>1 DEF Gone
  <2> QED BY <1>1, <2>1, <2>2, <2>3, <2>4, <2>5
<1>4. socket' \in SocketsOf(E)
  BY <1>2, <1>3, SocketChanges
<1>5. UNCHANGED <<open, fetch, reply, poll>> /\ conn' \in {conn, k}
  BY <1>1 DEF Connect, Hello, Pump, Leave, Gone, server, client
<1> QED BY <1>4, <1>5 DEF Flight

(* The tab takes only what is on its way.                                  *)
LEMMA ReactKeepsFlight ==
  ASSUME Ledger, NEW E, Stock(E), Flight(E), React, Unlocked => Snapshot \in E
  PROVE  /\ Flight(E)'
         /\ tab' = tab \/ \E e \in E : tab' = Applied(tab, e)
<1>1. CASE Deliver
  <2>1. /\ conn \in Sockets /\ socket[conn].wire \in Seq(E) /\ socket[conn].wire # << >>
    BY <1>1 DEF Deliver, Flight, SocketsOf, SocketOf
  <2>2. Head(socket[conn].wire) \in E /\ Tail(socket[conn].wire) \in Seq(E)
    BY <2>1
  <2>3. socket' = [socket EXCEPT ![conn].wire = Tail(socket[conn].wire)]
    BY <1>1 DEF Deliver
  <2>4. socket' \in SocketsOf(E)
    <3>1. socket \in SocketsOf(E) /\ socket[conn] \in SocketOf(E)
      BY <2>1 DEF Flight, SocketsOf
    <3> DEFINE wire == Tail(socket[conn].wire)
    <3>2. socket' = [socket EXCEPT ![conn] = [socket[conn] EXCEPT !.wire = wire]]
      BY <2>3
    <3>3. wire \in Seq(E)
      BY <2>2
    <3> HIDE DEF wire
    <3>4. [socket[conn] EXCEPT !.wire = wire] \in SocketOf(E)
      BY <3>1, <3>3 DEF SocketOf
    <3> QED BY <2>1, <3>1, <3>2, <3>4, SocketChanges
  <2>5. /\ tab' = Applied(tab, Head(socket[conn].wire))
        /\ fetch' \in {fetch, Asked}
        /\ UNCHANGED <<open, conn, reply, poll>>
    BY <1>1 DEF Deliver, Receive, server
  <2> QED BY <2>2, <2>4, <2>5 DEF Flight
<1>2. CASE TakeReply
  <2>1. /\ tab' = Applied(tab, reply) /\ fetch' \in {fetch, Asked} /\ reply' = NoRow
        /\ reply # NoRow /\ UNCHANGED <<open, socket, conn, poll>>
    BY <1>2 DEF TakeReply, Receive, server
  <2> QED BY <2>1 DEF Flight
<1>3. CASE ServeFetch \/ LoseFetch
  BY <1>3 DEF ServeFetch, LoseFetch, Flight, server
<1>4. CASE TakeFetch
  <2>1. /\ fetch \in E /\ fetch' \in {Off, Asked} /\ tab' \in {tab, Applied(tab, fetch)}
        /\ UNCHANGED <<open, socket, conn, reply, poll>>
    BY <1>4 DEF TakeFetch, Flight, server
  <2> QED BY <2>1 DEF Flight
<1>5. CASE PollRead
  <2>1. /\ poll'.ref = Meta /\ poll'.req \in {Off, Asked}
        /\ poll' = [ref |-> poll'.ref, req |-> poll'.req]
        /\ UNCHANGED <<open, socket, conn, fetch, reply, tab>>
    BY <1>5 DEF PollRead, server
  <2>2. Meta \in [v : Nat, seq : Nat]
    BY RecoversAtMostOne DEF Meta, Ledger
  <2>3. poll' \in PollsOf(E)
    BY <2>1, <2>2 DEF PollsOf
  <2> QED BY <2>1, <2>3 DEF Flight
<1>6. CASE ServePoll \/ LosePoll
  BY <1>6 DEF ServePoll, LosePoll, Flight, PollsOf, server
<1>7. CASE TakePoll
  <2>1. /\ poll.req \in E /\ poll' = [poll EXCEPT !.req = Off]
        /\ tab' \in {tab, Applied(tab, poll.req)} /\ fetch' \in {fetch, Asked}
        /\ UNCHANGED <<open, socket, conn, reply>>
    BY <1>7 DEF TakePoll, Receive, Flight, PollsOf, server
  <2> QED BY <2>1 DEF Flight, PollsOf
<1> QED BY <1>1, <1>2, <1>3, <1>4, <1>5, <1>6, <1>7 DEF React

LEMMA LossesKeepFlight ==
  ASSUME NEW E, Flight(E), Drop \/ Restart
  PROVE  Flight(E)'
<1>1. CASE Drop
  <2>1. socket' = [socket EXCEPT ![conn].wire = << >>] /\ conn \in Sockets
    BY <1>1 DEF Drop, Flight
  <2>2. << >> \in Seq(E)
    OBVIOUS
  <2>3. socket' \in SocketsOf(E)
    <3>1. socket \in SocketsOf(E) /\ socket[conn] \in SocketOf(E)
      BY <2>1 DEF Flight, SocketsOf
    <3>2. [socket[conn] EXCEPT !.wire = << >>] \in SocketOf(E)
      BY <2>2, <3>1 DEF SocketOf
    <3>3. socket' = [socket EXCEPT ![conn] = [socket[conn] EXCEPT !.wire = << >>]]
      BY <2>1
    <3>4. PICK r \in SocketOf(E) : r = [socket[conn] EXCEPT !.wire = << >>]
      BY <3>2
    <3>5. socket' = [socket EXCEPT ![conn] = r]
      BY <3>3, <3>4
    <3>6. conn \in Sockets
      BY <2>1
    <3>7. [socket EXCEPT ![conn] = r] \in SocketsOf(E)
      BY <3>1, <3>4, <3>6, SocketChanges
    <3> QED BY <3>5, <3>7
  <2> QED BY <1>1, <2>3 DEF Drop, Flight, server
<1>2. CASE Restart
  <2>1. socket' \in SocketsOf(E)
    BY <1>2 DEF Restart, SocketsOf, SocketOf, NoSocket
  <2>2. poll' \in PollsOf(E)
    BY <1>2 DEF Restart, Flight, PollsOf
  <2> QED BY <1>2, <2>1, <2>2 DEF Restart, Flight
<1> QED BY <1>1, <1>2

-----------------------------------------------------------------------------
(* What a step does to the journal: all but the writes, and the end of the *)
(* process, leave the server's state, except that a section recovers.      *)
OnlyRecovers ==
  /\ journal' = journal \/ (Unlocked /\ journal' = Recovered)
  /\ UNCHANGED <<file, saved, open, notice>>

LEMMA OthersOnlyRecover ==
  ASSUME Watch \/ Serve \/ React \/ Drop \/ UNCHANGED vars
  PROVE  OnlyRecovers
<1>1. CASE Watch
  BY <1>1 DEF Watch, Tick, PublishHead, PublishFails, Acquire, AcquireFails, Release, Join,
              OnlyRecovers, server
<1>2. CASE Serve
  BY <1>2 DEF Serve, Connect, Hello, Pump, Leave, Gone, OnlyRecovers, server
<1>3. CASE React
  BY <1>3 DEF React, Deliver, TakeReply, ServeFetch, TakeFetch, LoseFetch, PollRead,
              ServePoll, TakePoll, LosePoll, OnlyRecovers, server
<1>4. CASE Drop \/ UNCHANGED vars
  BY <1>4 DEF Drop, vars, OnlyRecovers, server
<1> QED BY <1>1, <1>2, <1>3, <1>4

LEMMA WriteKeepsLedger ==
  ASSUME Ledger, NEW E, Stock(E), Flight(E), Write
  PROVE  Ledger'
<1>1. Recovered \in Seq(Nat) /\ Len(Recovered) \in Nat /\ file \in Nat
  BY RecoversAtMostOne DEF Ledger
<1>2. ASSUME NEW kind, NEW mine, Submit(kind, mine) PROVE Ledger'
  BY <1>1, <1>2 DEF Submit, Ledger
<1>3. ASSUME NEW dies, SubmitElsewhere(dies) PROVE Ledger'
  BY <1>1, <1>3 DEF SubmitElsewhere, Ledger
<1>4. CASE SaveUnannounced
  BY <1>1, <1>4 DEF SaveUnannounced, Ledger
<1>5. ASSUME NEW kind, Announce(kind) PROVE Ledger'
  BY <1>1, <1>5 DEF Announce, Ledger
<1>6. CASE Commit
  <2>1. open.event.v \in Nat
    BY <1>6 DEF Commit, Unlocked, Flight, OpensOf, Stock, Sound, Events
  <2> QED BY <1>6, <2>1 DEF Commit, Ledger
<1>7. CASE StaySilent \/ Rollback
  BY <1>7 DEF StaySilent, Rollback, Ledger
<1> QED BY <1>2, <1>3, <1>4, <1>5, <1>6, <1>7 DEF Write

LEMMA StepKeepsLedger ==
  ASSUME Ledger, NEW E, Stock(E), Flight(E), [Next]_vars
  PROVE  Ledger'
<1>1. CASE OnlyRecovers
  BY <1>1, RecoversAtMostOne DEF OnlyRecovers, Ledger
<1>2. CASE Restart
  BY <1>2 DEF Restart, Ledger
<1> QED BY <1>1, <1>2, OthersOnlyRecover, WriteKeepsLedger DEF Next

(* Whatever the step, what is on its way stays in E when what a section    *)
(* makes is, and the tab takes at most one event of E.                     *)
LEMMA StepKeepsFlight ==
  ASSUME Ledger, NEW E, Stock(E), Flight(E), [Next]_vars,
         Unlocked => Snapshot \in E,
         \A kind \in Kinds, mine \in BOOLEAN : Submit(kind, mine) => Command(kind) \in E,
         Announce("whole") => Changed \in E,
         Announce("comments") => Comments \in E
  PROVE  /\ Flight(E)'
         /\ tab' = tab \/ \E e \in E : tab' = Applied(tab, e)
<1>1. CASE Write
  <2>1. tab' = tab
    BY <1>1 DEF Write, Submit, SubmitElsewhere, SaveUnannounced, Announce, StaySilent, Commit,
                Rollback, client
  <2> QED BY <1>1, <2>1, WriteKeepsFlight
<1>2. CASE Watch
  <2>1. tab' = tab
    BY <1>2 DEF Watch, Tick, PublishHead, PublishFails, Acquire, AcquireFails, Release, Join,
                client
  <2> QED BY <1>2, <2>1, WatchKeepsFlight
<1>3. CASE Serve
  <2>1. tab' = tab
    BY <1>3 DEF Serve, Connect, Hello, Pump, Leave, Gone, client
  <2> QED BY <1>3, <2>1, ServeKeepsFlight
<1>4. CASE React
  BY <1>4, ReactKeepsFlight
<1>5. CASE Drop \/ Restart
  <2>1. tab' = tab
    BY <1>5 DEF Drop, Restart
  <2> QED BY <1>5, <2>1, LossesKeepFlight
<1>6. CASE UNCHANGED vars
  BY <1>6 DEF vars, server, client, Flight
<1> QED BY <1>1, <1>2, <1>3, <1>4, <1>5, <1>6 DEF Next

-----------------------------------------------------------------------------
(* Wherever an event was made, however long it was on its way and in what  *)
(* order events arrive, it is sound, and so is the tab's claim.            *)
ClaimInv == Ledger /\ Flight(Sound) /\ Truthful(tab)

LEMMA InitClaim == Init => ClaimInv
<1> SUFFICES ASSUME Init PROVE ClaimInv
  OBVIOUS
<1>1. Ledger
  BY DEF Init, Ledger
<1>2. socket \in SocketsOf(Sound)
  <2>1. << >> \in Seq(Sound)
    OBVIOUS
  <2> QED BY <2>1 DEF Init, SocketsOf, SocketOf, NoSocket
<1>3. Flight(Sound)
  BY <1>2 DEF Init, Flight, PollsOf
<1>4. Truthful(tab)
  BY DEF Init, Starting, Truthful, Tabs
<1> QED BY <1>1, <1>3, <1>4 DEF ClaimInv

LEMMA ClaimKept ==
  ASSUME ClaimInv, [Next]_vars
  PROVE  ClaimInv'
<1>1. Ledger /\ Stock(Sound) /\ Flight(Sound) /\ Truthful(tab)
  BY Stocks DEF ClaimInv
<1>2. /\ Snapshot \in Sound /\ Changed \in Sound
      /\ \A kind \in Kinds : Command(kind) \in Sound
      /\ notice # NoRow => Comments \in Sound
  BY <1>1, SectionsAreSound
<1>3. Announce("comments") => Comments \in Sound
  BY <1>2 DEF Announce
<1>4. /\ Flight(Sound)'
      /\ tab' = tab \/ \E e \in Sound : tab' = Applied(tab, e)
  BY <1>1, <1>2, <1>3, StepKeepsFlight
<1>5. Truthful(tab')
  BY <1>1, <1>4, AppliesTruthfully
<1>6. Ledger'
  BY <1>1, StepKeepsLedger
<1> QED BY <1>4, <1>5, <1>6 DEF ClaimInv, Truthful

(* A tab that claims a file shows all of it and nothing else: whatever was *)
(* dropped, collapsed, delayed, sent twice or overtaken, by its own reply, *)
(* its recovery or its poll, with any number of saves and faults.          *)
THEOREM TabsClaimWhatTheyShow == Spec => []ClaimsWhatItShows
<1>1. ClaimInv /\ [Next]_vars => ClaimInv'
  BY ClaimKept
<1>2. ClaimInv => ClaimsWhatItShows
  BY DEF ClaimInv, Truthful, ClaimsWhatItShows
<1> QED BY InitClaim, <1>1, <1>2, PTL DEF Spec

-----------------------------------------------------------------------------
(* The newest seq anybody may have been told of: the row of the section    *)
(* that has published and not yet committed, or else the last the next     *)
(* section finds or recovers.                                              *)
Reach == IF Unlocked THEN Len(Recovered) ELSE JournalHead + 1

(* Only saves are journaled, and an open section's event announces one; if *)
(* it is a command, the project names it as the one saved at this head, so *)
(* that a rollback leaves it to be recovered.                              *)
RowsSaved ==
  /\ Rows \subseteq 1..file
  /\ saved # NoRow => saved.v \in 1..file

SectionOpen ==
  ~Unlocked => open.event.v \in 1..file /\ (open.what = "command" => Pending)

(* whatever is on its way, or was taken by the tab, is within reach *)
WithinReach ==
  \E n \in Nat : n = Reach /\ Flight(SoundUpTo(n)) /\ Told(tab, n)

SeenInv == ClaimInv /\ RowsSaved /\ SectionOpen /\ WithinReach

LEMMA InitSeen == Init => SeenInv
<1> SUFFICES ASSUME Init PROVE SeenInv
  OBVIOUS
<1>1. ClaimInv
  BY InitClaim
<1>2. RowsSaved /\ SectionOpen
  BY DEF Init, RowsSaved, Rows, SectionOpen, Unlocked
<1>3. Reach = 0
  BY DEF Init, Reach, Unlocked, Recovered
<1>4. Told(tab, 0)
  BY DEF Init, Starting, Told
<1>5. socket \in SocketsOf(SoundUpTo(0))
  <2>1. << >> \in Seq(SoundUpTo(0))
    OBVIOUS
  <2> QED BY <2>1 DEF Init, SocketsOf, SocketOf, NoSocket
<1>6. Flight(SoundUpTo(0))
  BY <1>5 DEF Init, Flight, PollsOf
<1> QED BY <1>1, <1>2, <1>3, <1>4, <1>6 DEF SeenInv, WithinReach

Elements(s) == {s[i] : i \in DOMAIN s}

LEMMA AppendedElements ==
  ASSUME NEW s \in Seq(Nat), NEW x \in Nat
  PROVE  Elements(Append(s, x)) = Elements(s) \cup {x}
<1>1. /\ DOMAIN Append(s, x) = 1..(Len(s) + 1) /\ DOMAIN s = 1..Len(s) /\ Len(s) \in Nat
      /\ \A i \in 1..Len(s) : Append(s, x)[i] = s[i]
      /\ Append(s, x)[Len(s) + 1] = x
  OBVIOUS
<1>2. 1..(Len(s) + 1) = (1..Len(s)) \cup {Len(s) + 1}
  BY <1>1
<1> QED BY <1>1, <1>2 DEF Elements

(* A recovered journal has nothing left to recover, and holds saves only.  *)
LEMMA RecoversSaves ==
  ASSUME Ledger, RowsSaved
  PROVE  /\ Elements(Recovered) \subseteq 1..file
         /\ Pending => saved.v \in Elements(Recovered)
<1>1. journal \in Seq(Nat) /\ JournalHead = Len(journal)
  BY DEF Ledger, JournalHead
<1>2. CASE Pending
  <2>1. Recovered = Append(journal, saved.v) /\ saved.v \in 1..file /\ saved.v \in Nat
    BY <1>2, RecoversAtMostOne DEF RowsSaved, Pending, Ledger
  <2>2. Elements(Recovered) = Rows \cup {saved.v}
    BY <1>1, <2>1, AppendedElements DEF Elements, Rows
  <2> QED BY <2>1, <2>2 DEF RowsSaved
<1>3. CASE ~Pending
  BY <1>3, RecoversAtMostOne DEF RowsSaved, Rows, Elements
<1> QED BY <1>2, <1>3

(* A step that only recovers moves neither the reach nor what it rests on. *)
LEMMA RecoveringKeepsReach ==
  ASSUME Ledger, RowsSaved, SectionOpen, OnlyRecovers
  PROVE  RowsSaved' /\ SectionOpen' /\ Reach' = Reach
<1>1. CASE journal' = journal
  BY <1>1 DEF OnlyRecovers, RowsSaved, SectionOpen, Reach, Rows, Unlocked, Recovered,
              JournalHead, Pending
<1>2. CASE Unlocked /\ journal' = Recovered
  <2>1. UNCHANGED <<file, saved, open>> /\ Unlocked'
    BY <1>2 DEF OnlyRecovers, Unlocked
  <2>2. RowsSaved'
    BY <1>2, <2>1, RecoversSaves DEF RowsSaved, Rows, Elements
  <2>3. ~Pending'
    <3>1. CASE Pending
      BY <3>1, <1>2, <2>1, RecoversSaves DEF Pending, Rows, Elements
    <3>2. CASE ~Pending
      <4>1. journal' = journal
        BY <3>2, <1>2, RecoversAtMostOne
      <4> QED BY <3>2, <4>1, <2>1 DEF Pending, JournalHead, Rows
    <3> QED BY <3>1, <3>2
  <2>4. Recovered' = journal'
    BY <2>3 DEF Recovered, Pending
  <2> QED BY <1>2, <2>1, <2>2, <2>4 DEF Reach, SectionOpen
<1> QED BY <1>1, <1>2 DEF OnlyRecovers

(* A section that opens, commits or rolls back never moves the reach back; *)
(* what it publishes is within it.  Here a rolled back command has to be   *)
(* the saved one, and a rolled back notification could not be recovered.   *)
LEMMA WritesMoveOn ==
  ASSUME Ledger, RowsSaved, SectionOpen, NEW E, Stock(E), Flight(E), Write,
         "notice" \notin Faults
  PROVE  /\ RowsSaved' /\ SectionOpen'
         /\ Reach' \in Nat /\ Reach <= Reach'
         /\ \A kind \in Kinds, mine \in BOOLEAN :
              Submit(kind, mine) => Len(Recovered) + 1 <= Reach'
         /\ \A kind : Announce(kind) => Len(Recovered) + 1 <= Reach'
<1>1. /\ Recovered \in Seq(Nat) /\ Len(Recovered) \in Nat /\ JournalHead \in Nat
      /\ file \in Nat /\ journal \in Seq(Nat)
      /\ Len(Recovered) = IF Pending THEN JournalHead + 1 ELSE JournalHead
  BY RecoversAtMostOne DEF Ledger
<1>2. Elements(Recovered) \subseteq 1..file
  BY RecoversSaves
<1>3. ASSUME NEW kind \in Kinds, NEW mine \in BOOLEAN, Submit(kind, mine)
      PROVE  /\ RowsSaved' /\ SectionOpen'
             /\ Reach' = Len(Recovered) + 1 /\ Reach = Len(Recovered)
  <2>1. /\ Unlocked /\ file' = file + 1 /\ journal' = Recovered
        /\ saved' = [v |-> file + 1, base |-> Len(Recovered)]
        /\ open' = [what |-> "command", event |-> Command(kind), mine |-> mine]
    BY <1>3 DEF Submit, Command
  <2>2. saved' # NoRow /\ open' # NoRow
    <3>1. Command(kind) \in Events
      BY SectionsAreSound DEF Sound
    <3>2. saved' \in [v : Nat, base : Nat]
      BY <2>1, <1>1
    <3>3. open' \in [what : {"command", "notice"}, event : Events, mine : BOOLEAN]
      BY <2>1, <3>1
    <3> QED BY <3>2, <3>3, FeedAssumption
  <2>3. file + 1 \notin 1..file /\ file + 1 \in 1..(file + 1) /\ 1..file \subseteq 1..(file + 1)
    BY <1>1
  <2>4. RowsSaved'
    BY <1>2, <2>1, <2>3 DEF RowsSaved, Rows, Elements
  <2>5. Pending'
    BY <1>2, <2>1, <2>2, <2>3 DEF Pending, JournalHead, Rows, Elements
  <2>6. Command(kind).v = file + 1
    BY SectionsAreSound
  <2>7. SectionOpen'
    BY <2>1, <2>3, <2>5, <2>6 DEF SectionOpen
  <2>8. Reach' = Len(Recovered) + 1
    BY <2>1, <2>2 DEF Reach, Unlocked, JournalHead
  <2> QED BY <2>1, <2>4, <2>7, <2>8 DEF Reach
<1>4. ASSUME NEW kind, Announce(kind)
      PROVE  /\ RowsSaved' /\ SectionOpen'
             /\ Reach' = Len(Recovered) + 1 /\ Reach = Len(Recovered)
  <2>1. /\ Unlocked /\ file' = file /\ journal' = Recovered /\ saved' = saved
        /\ notice # NoRow
        /\ \E e \in {Changed, Comments} :
              open' = [what |-> "notice", event |-> e, mine |-> FALSE]
    BY <1>4 DEF Announce, Changed, Comments
  <2>2. PICK e \in {Changed, Comments} :
          open' = [what |-> "notice", event |-> e, mine |-> FALSE]
    BY <2>1
  <2>3. e \in Events /\ e.v = file
    BY <2>1, SectionsAreSound DEF Sound
  <2>4. open' # NoRow
    <3>1. open' \in [what : {"command", "notice"}, event : Events, mine : BOOLEAN]
      BY <2>2, <2>3
    <3> QED BY <3>1, FeedAssumption
  <2>5. file \in 1..file
    BY <1>1, <2>1 DEF Ledger
  <2>6. RowsSaved'
    BY <1>2, <2>1 DEF RowsSaved, Rows, Elements
  <2>7. SectionOpen'
    BY <2>1, <2>2, <2>3, <2>5 DEF SectionOpen
  <2>8. Reach' = Len(Recovered) + 1
    BY <2>1, <2>4 DEF Reach, Unlocked, JournalHead
  <2> QED BY <2>1, <2>6, <2>7, <2>8 DEF Reach
<1>5. ASSUME NEW dies \in BOOLEAN, SubmitElsewhere(dies)
      PROVE  RowsSaved' /\ SectionOpen' /\ Reach' \in Nat /\ Reach <= Reach'
  <2>1. /\ Unlocked /\ Unlocked' /\ file' = file + 1
        /\ saved' = [v |-> file + 1, base |-> Len(Recovered)]
        /\ journal' = IF dies THEN Recovered ELSE Append(Recovered, file + 1)
    BY <1>5 DEF SubmitElsewhere, Unlocked
  <2>2. file + 1 \in 1..(file + 1) /\ 1..file \subseteq 1..(file + 1)
    BY <1>1
  <2>3. RowsSaved'
    <3>1. CASE dies
      BY <1>2, <2>1, <2>2, <3>1 DEF RowsSaved, Rows, Elements
    <3>2. CASE ~dies
      <4>1. Elements(Append(Recovered, file + 1)) = Elements(Recovered) \cup {file + 1}
        BY <1>1, AppendedElements
      <4>2. Rows' = Elements(Append(Recovered, file + 1))
        BY <2>1, <3>2 DEF Rows, Elements
      <4> QED BY <1>2, <2>1, <2>2, <4>1, <4>2 DEF RowsSaved
    <3> QED BY <3>1, <3>2
  <2>4. Ledger'
    BY StepKeepsLedger DEF Next
  <2>5. /\ Len(Recovered') \in Nat
        /\ Len(Recovered') >= JournalHead' /\ JournalHead' \in Nat
    BY <2>4, RecoversAfter
  <2>6. JournalHead' >= Len(Recovered)
    BY <2>1, <1>1 DEF JournalHead
  <2>7. Reach = Len(Recovered) /\ Reach' = Len(Recovered')
    BY <2>1 DEF Reach
  <2>8. SectionOpen'
    BY <2>1 DEF SectionOpen
  <2> QED BY <2>3, <2>5, <2>6, <2>7, <2>8, <1>1
<1>6. ASSUME SaveUnannounced
      PROVE  RowsSaved' /\ SectionOpen' /\ Reach' \in Nat /\ Reach <= Reach'
  <2>1. Unlocked /\ file' = file + 1 /\ UNCHANGED <<saved, journal, open>>
    BY <1>6 DEF SaveUnannounced
  <2>2. 1..file \subseteq 1..(file + 1)
    BY <1>1
  <2>3. RowsSaved'
    BY <2>1, <2>2 DEF RowsSaved, Rows
  <2>4. Unlocked' /\ Recovered' = Recovered
    BY <2>1 DEF Unlocked, Recovered, JournalHead, Rows
  <2> QED BY <1>1, <2>1, <2>3, <2>4 DEF SectionOpen, Reach
<1>7. ASSUME StaySilent
      PROVE  RowsSaved' /\ SectionOpen' /\ Reach' \in Nat /\ Reach <= Reach'
  <2>1. UNCHANGED <<file, saved, journal, open>>
    BY <1>7 DEF StaySilent
  <2>2. RowsSaved' /\ SectionOpen' /\ Reach' = Reach
    BY <2>1 DEF RowsSaved, Rows, SectionOpen, Reach, Unlocked, Recovered,
                JournalHead, Pending
  <2> QED BY <1>1, <2>2 DEF Reach
<1>8. ASSUME Commit
      PROVE  RowsSaved' /\ SectionOpen' /\ Reach' \in Nat /\ Reach <= Reach'
  <2>1. /\ ~Unlocked /\ Unlocked' /\ journal' = Append(journal, open.event.v)
        /\ UNCHANGED <<file, saved>>
    BY <1>8 DEF Commit, Unlocked
  <2>2. open.event.v \in 1..file /\ open.event.v \in Nat
    BY <2>1, <1>1 DEF SectionOpen
  <2>3. RowsSaved'
    <3>1. Rows' = Rows \cup {open.event.v}
      <4>1. Elements(Append(journal, open.event.v)) = Elements(journal) \cup {open.event.v}
        BY <1>1, <2>2, AppendedElements
      <4> QED BY <2>1, <4>1 DEF Rows, Elements
    <3> QED BY <2>1, <2>2, <3>1 DEF RowsSaved
  <2>4. Ledger'
    BY <1>8, StepKeepsLedger DEF Next
  <2>5. Len(Recovered') \in Nat /\ Len(Recovered') >= JournalHead' /\ JournalHead' \in Nat
    BY <2>4, RecoversAfter
  <2>6. JournalHead' = JournalHead + 1
    BY <1>1, <2>1, <2>2 DEF JournalHead
  <2>7. SectionOpen' /\ Reach' = Len(Recovered') /\ Reach = JournalHead + 1
    BY <2>1 DEF Reach, SectionOpen
  <2> QED BY <2>3, <2>5, <2>6, <2>7
<1>9. ASSUME Rollback
      PROVE  RowsSaved' /\ SectionOpen' /\ Reach' \in Nat /\ Reach <= Reach'
  <2>1. /\ ~Unlocked /\ Unlocked' /\ UNCHANGED <<file, saved, journal>>
        /\ open.what \in Faults
    BY <1>9 DEF Rollback, Unlocked, Fault
  <2>2. open.what = "command"
    BY <2>1 DEF Flight, OpensOf, Unlocked
  <2>3. Pending
    BY <2>1, <2>2 DEF SectionOpen
  <2>4. Recovered' = Recovered
    BY <2>1 DEF Recovered, JournalHead, Rows
  <2>5. RowsSaved' /\ SectionOpen'
    BY <2>1 DEF RowsSaved, Rows, SectionOpen
  <2>6. Reach' = JournalHead + 1 /\ Reach = JournalHead + 1
    BY <1>1, <2>1, <2>3, <2>4 DEF Reach
  <2> QED BY <1>1, <2>5, <2>6
<1>10. \A kind \in Kinds, mine \in BOOLEAN :
         Submit(kind, mine) => Len(Recovered) + 1 <= Reach'
  BY <1>1, <1>3
<1>11. \A kind : Announce(kind) => Len(Recovered) + 1 <= Reach'
  BY <1>1, <1>4
<1>12. RowsSaved' /\ SectionOpen' /\ Reach' \in Nat /\ Reach <= Reach'
  BY <1>1, <1>3, <1>4, <1>5, <1>6, <1>7, <1>8, <1>9 DEF Write
<1> QED BY <1>10, <1>11, <1>12

(* The process dies inside a section: only inside a command's, which the   *)
(* next section recovers.                                                  *)
LEMMA RestartKeepsReach ==
  ASSUME Ledger, RowsSaved, SectionOpen, NEW E, Flight(E), Restart,
         "notice" \notin Faults
  PROVE  RowsSaved' /\ SectionOpen' /\ Reach' = Reach
<1>1. Unlocked' /\ UNCHANGED <<file, saved, journal>>
  BY DEF Restart, Unlocked
<1>2. ~Unlocked => Pending
  BY DEF Restart, Flight, OpensOf, Unlocked, SectionOpen
<1>3. Recovered' = Recovered
  BY <1>1 DEF Recovered, JournalHead, Rows
<1>4. ~Unlocked => Len(Recovered) = JournalHead + 1
  BY <1>2, RecoversAtMostOne
<1> QED BY <1>1, <1>3, <1>4 DEF RowsSaved, Rows, SectionOpen, Reach

LEMMA SeenKept ==
  ASSUME SeenInv, [Next]_vars, "notice" \notin Faults
  PROVE  SeenInv'
<1>1. Ledger /\ RowsSaved /\ SectionOpen /\ Truthful(tab) /\ Flight(Sound) /\ Stock(Sound)
  BY Stocks DEF SeenInv, ClaimInv
<1>2. PICK m \in Nat : m = Reach /\ Flight(SoundUpTo(m)) /\ Told(tab, m)
  BY DEF SeenInv, WithinReach
<1>3. /\ RowsSaved' /\ SectionOpen'
      /\ Reach' \in Nat /\ Reach <= Reach'
      /\ \A kind \in Kinds, mine \in BOOLEAN :
           Submit(kind, mine) => Len(Recovered) + 1 <= Reach'
      /\ \A kind \in {"whole", "comments"} : Announce(kind) => Len(Recovered) + 1 <= Reach'
  <2>1. CASE Write
    BY <1>1, <2>1, WritesMoveOn
  <2>2. ASSUME ~Write
        PROVE  /\ \A kind \in Kinds, mine \in BOOLEAN : ~Submit(kind, mine)
               /\ \A kind \in {"whole", "comments"} : ~Announce(kind)
    BY <2>2 DEF Write
  <2>3. CASE ~Write /\ Restart
    BY <1>1, <1>2, <2>2, <2>3, RestartKeepsReach
  <2>4. CASE ~Write /\ ~Restart
    <3>1. OnlyRecovers
      BY <2>4, OthersOnlyRecover DEF Next
    <3> QED BY <1>1, <1>2, <2>2, <2>4, <3>1, RecoveringKeepsReach
  <2> QED BY <2>1, <2>3, <2>4
<1>4. PICK n \in Nat : n = Reach' /\ m <= n
  BY <1>2, <1>3
<1>5. Stock(SoundUpTo(n)) /\ Flight(SoundUpTo(n)) /\ Told(tab, n)
  <2>1. SoundUpTo(m) \subseteq SoundUpTo(n)
    BY <1>4 DEF SoundUpTo, Sound, Events
  <2>2. Told(tab, n)
    BY <1>1, <1>2, <1>4 DEF Told, Truthful, Tabs
  <2> QED BY <1>2, <2>1, <2>2, FlightGrows, Stocks
<1>6. Len(Recovered) \in Nat /\ (Unlocked => Len(Recovered) <= n)
  BY <1>1, <1>2, <1>4, RecoversAtMostOne DEF Reach
<1>7. /\ Unlocked => Snapshot \in SoundUpTo(n)
      /\ \A kind \in Kinds, mine \in BOOLEAN :
           Submit(kind, mine) => Command(kind) \in SoundUpTo(n)
      /\ Announce("whole") => Changed \in SoundUpTo(n)
      /\ Announce("comments") => Comments \in SoundUpTo(n)
  <2>1. Announce("comments") => notice # NoRow
    BY DEF Announce
  <2> QED BY <1>1, <1>3, <1>4, <1>6, <2>1, SectionsAreSound DEF SoundUpTo
<1>8. /\ Flight(SoundUpTo(n))'
      /\ tab' = tab \/ \E e \in SoundUpTo(n) : tab' = Applied(tab, e)
  BY <1>1, <1>5, <1>7, StepKeepsFlight
<1>9. Told(tab', n)
  <2>1. CASE tab' = tab
    BY <1>5, <2>1
  <2>2. ASSUME NEW e \in SoundUpTo(n), tab' = Applied(tab, e)
        PROVE  Told(tab', n)
    BY <1>1, <1>5, <2>2, AppliesTruthfully DEF SoundUpTo
  <2> QED BY <1>8, <2>1, <2>2
<1>10. ClaimInv'
  BY ClaimKept DEF SeenInv
<1> QED BY <1>3, <1>4, <1>8, <1>9, <1>10 DEF SeenInv, WithinReach

(* A seq that reached the tab comes back: outside a section no tab is      *)
(* ahead of what the next section journals, or waits for what never comes. *)
(* Where the COMMIT of a notification can fail this is false (README).     *)
THEOREM SeenSeqsAreKept ==
  ASSUME "notice" \notin Faults
  PROVE  Spec => []SeenSeqsComeBack
<1>1. SeenInv /\ [Next]_vars => SeenInv'
  BY SeenKept
<1>2. SeenInv => SeenSeqsComeBack
  BY DEF SeenInv, WithinReach, Reach, Told, SeenSeqsComeBack, Larger
<1> QED BY InitSeen, <1>1, <1>2, PTL DEF Spec

-----------------------------------------------------------------------------
(* The leases.  A watcher is counted by the sockets that hold it; a        *)
(* stopped one is reset by the one socket that waits for its thread.       *)
Holds(k, w) == socket[k].lease = "held" /\ socket[k].watcher = w
Joins(k, w) == socket[k].lease = "joining" /\ socket[k].watcher = w

Holders(w) == {k \in Sockets : Holds(k, w)}

Watchers ==
  [state : {"none", "running", "stopping"}, refs : Nat, seen : Nat \cup {NoRow},
   tick : {"idle", "publish"}, after : Nat \cup {NoRow}, failures : Nat]

WatchTyped == watcher \in [Sockets -> Watchers] /\ entry \in Sockets \cup {Nobody}

OneWatched ==
  /\ \A k, w \in Sockets : Holds(k, w) => w = entry
  /\ entry # Nobody => watcher[entry].state = "running"

Counted ==
  \A w \in Sockets : IsFiniteSet(Holders(w)) /\ watcher[w].refs = Cardinality(Holders(w))

OneJoins ==
  \A k, w \in Sockets : Joins(k, w) =>
    /\ watcher[w].state = "stopping"
    /\ \A l \in Sockets : Joins(l, w) => l = k

LeaseInv == ClaimInv /\ WatchTyped /\ OneWatched /\ Counted /\ OneJoins

LEMMA InitLeases == Init => LeaseInv
<1> SUFFICES ASSUME Init PROVE LeaseInv
  OBVIOUS
<1>1. ClaimInv
  BY InitClaim
<1>2. WatchTyped
  BY DEF Init, WatchTyped, Watchers, NoWatcher
<1>3. \A k, w \in Sockets : ~Holds(k, w) /\ ~Joins(k, w)
  BY DEF Init, NoSocket, Holds, Joins
<1>4. OneWatched /\ OneJoins
  BY <1>3 DEF Init, OneWatched, OneJoins
<1>5. Counted
  <2>1. ASSUME NEW w \in Sockets PROVE Holders(w) = {} /\ watcher[w].refs = 0
    BY <1>3 DEF Init, NoWatcher, Holders
  <2> QED BY <2>1, FS_EmptySet DEF Counted
<1> QED BY <1>1, <1>2, <1>4, <1>5 DEF LeaseInv

(* Steps by which no lease on a watcher is taken or let go.                *)
Steady ==
  /\ \A k, w \in Sockets : (Holds(k, w)' <=> Holds(k, w)) /\ (Joins(k, w)' <=> Joins(k, w))
  /\ \A w \in Sockets : watcher'[w].state = watcher[w].state /\ watcher'[w].refs = watcher[w].refs
  /\ entry' = entry

LEMMA SteadyKeepsLeases ==
  ASSUME Steady, WatchTyped, OneWatched, Counted, OneJoins
  PROVE  OneWatched' /\ Counted' /\ OneJoins'
<1>1. ASSUME NEW w \in Sockets PROVE Holders(w)' = Holders(w)
  BY DEF Steady, Holders
<1>2. OneWatched'
  BY DEF Steady, OneWatched, WatchTyped
<1>3. Counted'
  BY <1>1 DEF Steady, Counted
<1>4. OneJoins'
  BY DEF Steady, OneJoins
<1> QED BY <1>2, <1>3, <1>4

LEMMA PublishIsSteady ==
  ASSUME NEW E, socket \in SocketsOf(E), NEW e, NEW seqs, Publish(e, seqs)
  PROVE  \A k \in Sockets : /\ socket'[k].lease = socket[k].lease
                            /\ socket'[k].watcher = socket[k].watcher
<1> SUFFICES ASSUME NEW k \in Sockets
             PROVE  /\ socket'[k].lease = socket[k].lease
                    /\ socket'[k].watcher = socket[k].watcher
  OBVIOUS
<1>1. PICK q : socket'[k] = [socket[k] EXCEPT !.queue = q] \/ socket'[k] = socket[k]
  BY DEF Publish
<1> QED BY <1>1 DEF SocketsOf, SocketOf

(* Same leases and watchers of each socket, same watchers: nothing moved.  *)
LEMMA SameIsSteady ==
  ASSUME \A k \in Sockets : /\ socket'[k].lease = socket[k].lease
                            /\ socket'[k].watcher = socket[k].watcher,
         UNCHANGED bridge
  PROVE  Steady
BY DEF Steady, Holds, Joins, bridge

LEMMA WriteIsSteady ==
  ASSUME NEW E, Flight(E), Write
  PROVE  Steady /\ UNCHANGED bridge
<1>1. UNCHANGED bridge
  BY DEF Write, Submit, SubmitElsewhere, SaveUnannounced, Announce, StaySilent, Commit, Rollback,
         bridge
<1>2. socket' = socket \/ \E e, seqs : Publish(e, seqs)
  BY DEF Write, Submit, SubmitElsewhere, SaveUnannounced, Announce, StaySilent, Commit, Rollback
<1>3. socket \in SocketsOf(E)
  BY DEF Flight
<1>4. \A k \in Sockets : /\ socket'[k].lease = socket[k].lease
                         /\ socket'[k].watcher = socket[k].watcher
  BY <1>2, <1>3, PublishIsSteady
<1> QED BY <1>1, <1>4, SameIsSteady

LEMMA ReactIsSteady ==
  ASSUME NEW E, Flight(E), React \/ Drop \/ UNCHANGED vars
  PROVE  Steady /\ UNCHANGED bridge
<1>1. UNCHANGED bridge
  BY DEF React, Deliver, TakeReply, ServeFetch, TakeFetch, LoseFetch, PollRead, ServePoll,
         TakePoll, LosePoll, Drop, vars, bridge
<1>2. socket' = socket \/ \E wire : socket' = [socket EXCEPT ![conn].wire = wire]
  BY DEF React, Deliver, TakeReply, ServeFetch, TakeFetch, LoseFetch, PollRead, ServePoll,
         TakePoll, LosePoll, Drop, vars
<1>3. socket \in SocketsOf(E)
  BY DEF Flight
<1>4. \A k \in Sockets : /\ socket'[k].lease = socket[k].lease
                         /\ socket'[k].watcher = socket[k].watcher
  BY <1>2, <1>3 DEF SocketsOf, SocketOf
<1> QED BY <1>1, <1>4, SameIsSteady

LEMMA ServeIsSteady ==
  ASSUME NEW E, Flight(E), Serve
  PROVE  Steady /\ UNCHANGED bridge
<1>1. PICK k \in Sockets : Connect(k) \/ Hello(k) \/ Pump(k) \/ Leave(k) \/ Gone(k)
  BY DEF Serve
<1>2. UNCHANGED bridge
  BY <1>1 DEF Connect, Hello, Pump, Leave, Gone, bridge
<1>3. socket \in SocketsOf(E)
  BY DEF Flight
<1>4. CASE Hello(k) \/ Pump(k) \/ Leave(k)
  <2>1. PICK pc, queue, wire :
          socket' = [socket EXCEPT ![k] =
            [socket[k] EXCEPT !.pc = pc, !.queue = queue, !.wire = wire]]
    <3>1. CASE Hello(k)
      <4>1. socket' = [socket EXCEPT ![k] =
              [socket[k] EXCEPT !.pc = "live", !.queue = socket[k].queue,
                                !.wire = Append(socket[k].wire, Snapshot)]]
        BY <1>3, <3>1 DEF Hello, SocketsOf, SocketOf
      <4> QED BY <4>1
    <3>2. CASE Pump(k)
      <4>1. socket' = [socket EXCEPT ![k] =
              [socket[k] EXCEPT !.pc = socket[k].pc, !.queue = Tail(socket[k].queue),
                                !.wire = Append(socket[k].wire, Head(socket[k].queue))]]
        BY <1>3, <3>2 DEF Pump, SocketsOf, SocketOf
      <4> QED BY <4>1
    <3>3. CASE Leave(k)
      <4>1. socket' = [socket EXCEPT ![k] =
              [socket[k] EXCEPT !.pc = "left", !.queue = NoRow, !.wire = socket[k].wire]]
        BY <1>3, <3>3 DEF Leave, SocketsOf, SocketOf
      <4> QED BY <4>1
    <3> QED BY <1>4, <3>1, <3>2, <3>3
  <2>2. \A l \in Sockets : /\ socket'[l].lease = socket[l].lease
                           /\ socket'[l].watcher = socket[l].watcher
    BY <1>3, <2>1 DEF SocketsOf, SocketOf
  <2> QED BY <1>2, <2>2, SameIsSteady
<1>5. CASE Connect(k) \/ Gone(k)
  <2>1. /\ socket[k].lease = "none" /\ socket'[k].lease \in {"none", "asked"}
        /\ \A l \in Sockets \ {k} : socket'[l] = socket[l]
    <3>1. CASE Connect(k)
      <4>1. socket' = [socket EXCEPT ![k] = [NoSocket EXCEPT !.pc = "subscribed",
                                               !.queue = << >>, !.lease = "asked"]]
        BY <3>1 DEF Connect
      <4>2. socket[k].lease = "none"
        BY <3>1 DEF Connect, NoSocket
      <4>3. [NoSocket EXCEPT !.pc = "subscribed", !.queue = << >>, !.lease = "asked"].lease
            = "asked"
        BY DEF NoSocket
      <4> QED BY <1>3, <4>1, <4>2, <4>3 DEF SocketsOf, SocketOf
    <3>2. CASE Gone(k)
      <4>1. socket' = [socket EXCEPT ![k] = NoSocket] /\ socket[k].lease = "none"
        BY <3>2 DEF Gone
      <4>2. NoSocket.lease = "none"
        BY DEF NoSocket
      <4> QED BY <1>3, <4>1, <4>2 DEF SocketsOf, SocketOf
    <3> QED BY <1>5, <3>1, <3>2
  <2>2. \A l, w \in Sockets : (Holds(l, w)' <=> Holds(l, w)) /\ (Joins(l, w)' <=> Joins(l, w))
    BY <2>1 DEF Holds, Joins
  <2> QED BY <1>2, <2>2 DEF Steady, bridge
<1> QED BY <1>1, <1>4, <1>5

(* The watcher's thread changes its cursor and its failures.               *)
LEMMA ThreadIsSteady ==
  ASSUME Ledger, NEW E, Flight(E), WatchTyped, NEW w \in Sockets,
         Tick(w) \/ PublishHead(w) \/ PublishFails(w)
  PROVE  Steady /\ WatchTyped'
<1>1. watcher \in [Sockets -> Watchers] /\ JournalHead \in Nat
  BY RecoversAtMostOne DEF WatchTyped
<1>2. PICK seen \in Nat \cup {NoRow}, tick \in {"idle", "publish"},
           after \in Nat \cup {NoRow}, failures \in Nat :
        watcher' = [watcher EXCEPT ![w] =
          [watcher[w] EXCEPT !.seen = seen, !.tick = tick, !.after = after,
                             !.failures = failures]]
  <2>1. watcher[w] \in Watchers
    BY <1>1
  <2>2. CASE Tick(w)
    <3> DEFINE looked == [watcher[w] EXCEPT !.seen = JournalHead]
    <3>1. \/ watcher' = [watcher EXCEPT ![w] = looked]
          \/ watcher' = [watcher EXCEPT ![w] =
               [looked EXCEPT !.tick = "publish", !.after = watcher[w].seen]]
      BY <2>2 DEF Tick
    <3>2. looked = [watcher[w] EXCEPT !.seen = JournalHead, !.tick = watcher[w].tick,
                      !.after = watcher[w].after, !.failures = watcher[w].failures]
      BY <2>1 DEF Watchers
    <3>3. [looked EXCEPT !.tick = "publish", !.after = watcher[w].seen]
          = [watcher[w] EXCEPT !.seen = JournalHead, !.tick = "publish",
                               !.after = watcher[w].seen, !.failures = watcher[w].failures]
      BY <2>1 DEF Watchers
    <3>4. watcher[w].seen \in Nat \cup {NoRow} /\ watcher[w].tick \in {"idle", "publish"}
          /\ watcher[w].after \in Nat \cup {NoRow} /\ watcher[w].failures \in Nat
      BY <2>1 DEF Watchers
    <3>5. CASE watcher' = [watcher EXCEPT ![w] = looked]
      <4>1. watcher' = [watcher EXCEPT ![w] =
              [watcher[w] EXCEPT !.seen = JournalHead, !.tick = watcher[w].tick,
                 !.after = watcher[w].after, !.failures = watcher[w].failures]]
        BY <3>2, <3>5
      <4> QED BY <1>1, <3>4, <4>1
    <3>6. CASE watcher' = [watcher EXCEPT ![w] =
                 [looked EXCEPT !.tick = "publish", !.after = watcher[w].seen]]
      <4>1. watcher' = [watcher EXCEPT ![w] =
              [watcher[w] EXCEPT !.seen = JournalHead, !.tick = "publish",
                 !.after = watcher[w].seen, !.failures = watcher[w].failures]]
        BY <3>3, <3>6
      <4> QED BY <1>1, <3>4, <4>1
    <3> QED BY <3>1, <3>5, <3>6
  <2>3. CASE PublishHead(w)
    <3>1. watcher' = [watcher EXCEPT ![w] = [Idle(watcher[w]) EXCEPT !.failures = 0]]
      BY <2>3 DEF PublishHead
    <3>2. [Idle(watcher[w]) EXCEPT !.failures = 0]
          = [watcher[w] EXCEPT !.seen = watcher[w].seen, !.tick = "idle", !.after = NoRow,
                               !.failures = 0]
      BY <2>1 DEF Watchers, Idle
    <3>3. watcher[w].seen \in Nat \cup {NoRow}
      BY <2>1 DEF Watchers
    <3>4. watcher' = [watcher EXCEPT ![w] =
            [watcher[w] EXCEPT !.seen = watcher[w].seen, !.tick = "idle", !.after = NoRow,
                               !.failures = 0]]
      BY <3>1, <3>2
    <3> QED BY <3>3, <3>4
  <2>4. CASE PublishFails(w)
    <3>1. PICK seen \in {watcher[w].seen, watcher[w].after},
               failures \in {0, watcher[w].failures + 1} :
            watcher' = [watcher EXCEPT ![w] =
              [Idle(watcher[w]) EXCEPT !.failures = failures, !.seen = seen]]
      <4>1. watcher' = [watcher EXCEPT ![w] =
              IF watcher[w].failures + 1 < Attempts
              THEN [Idle(watcher[w]) EXCEPT !.failures = watcher[w].failures + 1,
                                            !.seen = watcher[w].after]
              ELSE [Idle(watcher[w]) EXCEPT !.failures = 0]]
        BY <2>1, <2>4 DEF PublishFails, Idle, Watchers
      <4>2. [Idle(watcher[w]) EXCEPT !.failures = 0]
            = [Idle(watcher[w]) EXCEPT !.failures = 0, !.seen = watcher[w].seen]
        BY <2>1 DEF Idle, Watchers
      <4> QED BY <4>1, <4>2
    <3>2. [Idle(watcher[w]) EXCEPT !.failures = failures, !.seen = seen]
          = [watcher[w] EXCEPT !.seen = seen, !.tick = "idle", !.after = NoRow,
                               !.failures = failures]
      BY <2>1 DEF Watchers, Idle
    <3>3. seen \in Nat \cup {NoRow} /\ failures \in Nat
      BY <2>1 DEF Watchers
    <3> QED BY <3>1, <3>2, <3>3
  <2> QED BY <2>2, <2>3, <2>4
<1>3. /\ watcher' \in [Sockets -> Watchers]
      /\ \A x \in Sockets : /\ watcher'[x].state = watcher[x].state
                             /\ watcher'[x].refs = watcher[x].refs
  <2>1. PICK r : r = [watcher[w] EXCEPT !.seen = seen, !.tick = tick, !.after = after,
                                        !.failures = failures]
    OBVIOUS
  <2>2. watcher[w] \in Watchers
    BY <1>1
  <2>3. r \in Watchers /\ r.state = watcher[w].state /\ r.refs = watcher[w].refs
    BY <2>1, <2>2 DEF Watchers
  <2>4. watcher' = [watcher EXCEPT ![w] = r]
    BY <1>2, <2>1
  <2> QED BY <1>1, <2>3, <2>4
<1>4. entry' = entry /\ (socket' = socket \/ \E e, seqs : Publish(e, seqs))
  BY DEF Tick, PublishHead, PublishFails
<1>5. socket \in SocketsOf(E)
  BY DEF Flight
<1>6. \A k \in Sockets : /\ socket'[k].lease = socket[k].lease
                         /\ socket'[k].watcher = socket[k].watcher
  BY <1>4, <1>5, PublishIsSteady
<1> QED BY <1>3, <1>4, <1>6 DEF Steady, WatchTyped, Holds, Joins

LEMMA TakingKeepsLeases ==
  ASSUME LeaseInv, NEW k \in Sockets, Acquire(k)
  PROVE  WatchTyped' /\ OneWatched' /\ Counted' /\ OneJoins'
<1>1. /\ watcher \in [Sockets -> Watchers] /\ entry \in Sockets \cup {Nobody}
      /\ Nobody \notin Sockets /\ JournalHead \in Nat
      /\ OneWatched /\ Counted /\ OneJoins
  BY FeedAssumption, RecoversAtMostOne DEF LeaseInv, ClaimInv, WatchTyped
<1>2. socket \in SocketsOf(Sound) /\ socket[k].lease = "asked"
  BY DEF LeaseInv, ClaimInv, Flight, Acquire
<1>3. PICK w \in Sockets, seen \in {JournalHead, NoRow} :
       /\ IF entry = Nobody THEN watcher[w].state = "none" ELSE w = entry
       /\ entry' = w
       /\ \/ entry # Nobody /\ seen = JournalHead
             /\ watcher' = [watcher EXCEPT ![w].refs = watcher[w].refs + 1]
          \/ entry = Nobody
             /\ watcher' = [watcher EXCEPT ![w] =
                  [watcher[w] EXCEPT !.refs = 1, !.state = "running", !.seen = seen]]
       /\ socket' = [socket EXCEPT ![k].lease = "held", ![k].watcher = w]
  BY DEF Acquire
<1>4. /\ Holds(k, w)' /\ ~Holds(k, w)
      /\ \A x \in Sockets : x # w => ~Holds(k, x)' /\ ~Holds(k, x)
      /\ \A x \in Sockets : ~Joins(k, x)' /\ ~Joins(k, x)
      /\ \A l, x \in Sockets : l # k => (Holds(l, x)' <=> Holds(l, x)) /\ (Joins(l, x)' <=> Joins(l, x))
  <2>1. /\ socket'[k].lease = "held" /\ socket'[k].watcher = w
        /\ \A l \in Sockets : l # k => socket'[l] = socket[l]
    BY <1>2, <1>3 DEF SocketsOf, SocketOf
  <2> QED BY <1>2, <2>1 DEF Holds, Joins
<1>5. entry = Nobody => Holders(w) = {} /\ watcher[w].state = "none"
  BY <1>1, <1>3 DEF OneWatched, Holders
<1>6. watcher' \in [Sockets -> Watchers]
  <2>1. CASE watcher' = [watcher EXCEPT ![w].refs = watcher[w].refs + 1]
    <3>1. watcher[w] \in Watchers
      BY <1>1
    <3>2. watcher[w].refs + 1 \in Nat
      BY <3>1 DEF Watchers
    <3>3. PICK n \in Nat : n = watcher[w].refs + 1
      BY <3>2
    <3>4. [watcher[w] EXCEPT !.refs = n] \in Watchers
      BY <3>1 DEF Watchers
    <3>5. watcher' = [watcher EXCEPT ![w] = [watcher[w] EXCEPT !.refs = n]]
      BY <2>1, <3>3
    <3> QED BY <1>1, <3>4, <3>5
  <2>2. CASE watcher' = [watcher EXCEPT ![w] =
                  [watcher[w] EXCEPT !.refs = 1, !.state = "running", !.seen = seen]]
    <3>1. watcher[w] \in Watchers /\ seen \in Nat \cup {NoRow}
      BY <1>1
    <3>2. [watcher[w] EXCEPT !.refs = 1, !.state = "running", !.seen = seen] \in Watchers
      BY <3>1 DEF Watchers
    <3> QED BY <1>1, <2>2, <3>2
  <2> QED BY <1>3, <2>1, <2>2
<1>7. /\ watcher'[w].state = "running"
      /\ watcher'[w].refs = Cardinality(Holders(w)) + 1
      /\ \A x \in Sockets : x # w => watcher'[x] = watcher[x]
      /\ \A x \in Sockets : watcher[x].state = "stopping" => watcher'[x].state = "stopping" /\ x # w
  <2>1. watcher[w].refs = Cardinality(Holders(w))
    BY <1>1 DEF Counted
  <2>2. CASE entry = Nobody
    <3>1. Cardinality(Holders(w)) = 0
      BY <1>5, <2>2, FS_EmptySet
    <3>2. watcher' = [watcher EXCEPT ![w] =
                  [watcher[w] EXCEPT !.refs = 1, !.state = "running", !.seen = seen]]
      BY <1>3, <2>2
    <3> QED BY <1>1, <1>5, <2>2, <3>1, <3>2 DEF Watchers
  <2>3. CASE entry # Nobody
    <3>1. w = entry /\ watcher[w].state = "running"
      BY <1>1, <1>3, <2>3 DEF OneWatched
    <3>2. watcher' = [watcher EXCEPT ![w].refs = watcher[w].refs + 1]
      BY <1>3, <2>3
    <3> QED BY <1>1, <2>1, <3>1, <3>2 DEF Watchers
  <2> QED BY <2>2, <2>3
<1>8. OneWatched'
  <2>1. ASSUME NEW l \in Sockets, NEW x \in Sockets, Holds(l, x)' PROVE x = w
    <3>1. CASE l = k
      BY <1>4, <2>1, <3>1
    <3>2. CASE l # k
      <4>1. Holds(l, x)
        BY <1>4, <2>1, <3>2
      <4>2. x = entry
        BY <1>1, <4>1 DEF OneWatched
      <4> QED BY <1>1, <1>3, <4>2
    <3> QED BY <3>1, <3>2
  <2> QED BY <1>3, <1>7, <2>1 DEF OneWatched
<1>9. Counted'
  <2>1. Holders(w)' = Holders(w) \cup {k} /\ k \notin Holders(w)
    BY <1>4 DEF Holders
  <2>2. IsFiniteSet(Holders(w))
    BY <1>1 DEF Counted
  <2>3. IsFiniteSet(Holders(w)') /\ Cardinality(Holders(w)') = Cardinality(Holders(w)) + 1
    BY <2>1, <2>2, FS_AddElement
  <2>4. ASSUME NEW x \in Sockets, x # w PROVE Holders(x)' = Holders(x)
    BY <1>4, <2>4 DEF Holders
  <2> QED BY <1>1, <1>7, <2>3, <2>4 DEF Counted
<1>10. OneJoins'
  BY <1>1, <1>4, <1>7 DEF OneJoins
<1> QED BY <1>3, <1>6, <1>8, <1>9, <1>10 DEF WatchTyped

(* A lease let go, the last one or not: the watcher that is stopped has no *)
(* holder left and one socket to wait for it.                              *)
LEMMA LettingGoKeepsLeases ==
  ASSUME LeaseInv, NEW k \in Sockets, Release(k)
  PROVE  WatchTyped' /\ OneWatched' /\ Counted' /\ OneJoins'
<1>0. PICK w : w = socket[k].watcher
  OBVIOUS
<1> DEFINE last == w # Nobody /\ entry = w /\ watcher[w].refs = 1
<1>1. /\ watcher \in [Sockets -> Watchers] /\ entry \in Sockets \cup {Nobody}
      /\ Nobody \notin Sockets /\ OneWatched /\ Counted /\ OneJoins
  BY FeedAssumption DEF LeaseInv, WatchTyped
<1>2. socket \in SocketsOf(Sound) /\ socket[k].lease = "held"
  BY DEF LeaseInv, ClaimInv, Flight, Release
<1>3. /\ entry' = IF last THEN Nobody ELSE entry
      /\ watcher' = [x \in Sockets |-> IF x # w \/ x # entry THEN watcher[x] ELSE
             [watcher[x] EXCEPT !.refs = watcher[x].refs - 1,
                                !.state = IF last THEN "stopping" ELSE watcher[x].state]]
      /\ socket' = [socket EXCEPT ![k].lease = IF last THEN "joining" ELSE "none"]
  BY <1>0 DEF Release
<1>4. /\ socket'[k].lease = (IF last THEN "joining" ELSE "none")
      /\ socket'[k].watcher = w
      /\ \A l \in Sockets : l # k => socket'[l] = socket[l]
  BY <1>0, <1>2, <1>3 DEF SocketsOf, SocketOf
<1>5. \A x \in Sockets : ~Holds(k, x)' /\ ~Joins(k, x) /\ (Joins(k, x)' <=> last /\ x = w)
  BY <1>0, <1>2, <1>4 DEF Holds, Joins
<1>6. \A l, x \in Sockets : l # k => (Holds(l, x)' <=> Holds(l, x)) /\ (Joins(l, x)' <=> Joins(l, x))
  BY <1>4 DEF Holds, Joins
<1>7. CASE w \notin Sockets
  <2>1. w = Nobody /\ ~last
    BY <1>0, <1>2, <1>7 DEF SocketsOf, SocketOf
  <2>2. \A x \in Sockets : ~Holds(k, x)
    BY <1>0, <1>7 DEF Holds
  <2>3. watcher' = watcher /\ entry' = entry
    BY <1>1, <1>3, <1>7, <2>1
  <2>4. Steady
    BY <1>5, <1>6, <2>1, <2>2, <2>3 DEF Steady
  <2> QED BY <1>1, <2>3, <2>4, SteadyKeepsLeases DEF WatchTyped, LeaseInv
<1>8. CASE w \in Sockets
  <2>1. Holds(k, w) /\ w = entry /\ watcher[w].state = "running"
    BY <1>0, <1>1, <1>2, <1>8 DEF Holds, OneWatched
  <2>2. last <=> watcher[w].refs = 1
    BY <1>1, <1>8, <2>1
  <2>3. /\ Holders(w)' = Holders(w) \ {k} /\ k \in Holders(w)
        /\ \A x \in Sockets : x # w => Holders(x)' = Holders(x)
    <3>1. ~Holds(k, w)' /\ \A x \in Sockets : x # w => ~Holds(k, x) /\ ~Holds(k, x)'
      BY <1>0, <1>5, <1>8 DEF Holds
    <3> QED BY <1>6, <1>8, <2>1, <3>1 DEF Holders
  <2>4. /\ IsFiniteSet(Holders(w)) /\ watcher[w].refs = Cardinality(Holders(w))
    BY <1>1, <1>8 DEF Counted
  <2>5. /\ IsFiniteSet(Holders(w)') /\ Cardinality(Holders(w)') = Cardinality(Holders(w)) - 1
        /\ Cardinality(Holders(w)) \in Nat \ {0}
    <3>1. Cardinality(Holders(w)) # 0
      BY <2>3, <2>4, FS_EmptySet
    <3> QED BY <2>3, <2>4, <3>1, FS_RemoveElement, FS_CardinalityType
  <2> HIDE DEF last
  <2>6. watcher' = [watcher EXCEPT ![w] =
          [watcher[w] EXCEPT !.refs = watcher[w].refs - 1,
                             !.state = IF last THEN "stopping" ELSE "running"]]
    BY <1>1, <1>3, <2>1
  <2>7. watcher[w].refs - 1 \in Nat
    BY <2>4, <2>5
  <2>8. /\ watcher' \in [Sockets -> Watchers]
        /\ watcher'[w].refs = watcher[w].refs - 1
        /\ watcher'[w].state = IF last THEN "stopping" ELSE "running"
        /\ \A x \in Sockets : x # w => watcher'[x] = watcher[x]
    <3> DEFINE stopped == [watcher[w] EXCEPT !.refs = watcher[w].refs - 1,
                             !.state = IF last THEN "stopping" ELSE "running"]
    <3>1. /\ stopped \in Watchers /\ stopped.refs = watcher[w].refs - 1
          /\ stopped.state = IF last THEN "stopping" ELSE "running"
      BY <1>1, <1>8, <2>7 DEF Watchers
    <3>2. watcher' = [watcher EXCEPT ![w] = stopped]
      BY <2>6
    <3> HIDE DEF stopped
    <3> QED BY <1>1, <1>8, <3>1, <3>2
  <2>9. last => \A l, x \in Sockets : ~Holds(l, x)'
    <3> SUFFICES ASSUME last, NEW l \in Sockets, NEW x \in Sockets, Holds(l, x)'
                 PROVE  FALSE
      OBVIOUS
    <3>1. l # k /\ Holds(l, x)
      BY <1>5, <1>6
    <3>2. x = w /\ l \in Holders(w)'
      <4>1. x = w
        BY <1>1, <2>1, <3>1 DEF OneWatched
      <4>2. l \in Holders(w)
        BY <3>1, <4>1 DEF Holders
      <4> QED BY <2>3, <3>1, <4>1, <4>2
    <3>3. Cardinality(Holders(w)') = 0
      BY <2>2, <2>4, <2>5
    <3>4. Holders(w)' = {}
      BY <2>5, <3>3, FS_EmptySet
    <3> QED BY <3>2, <3>4
  <2>10. OneWatched'
    <3>1. CASE last
      <4>1. entry' = Nobody
        BY <1>3, <3>1
      <4> QED BY <2>9, <3>1, <4>1 DEF OneWatched
    <3>2. CASE ~last
      <4>1. entry' = w
        BY <1>3, <2>1, <3>2
      <4>2. \A l, x \in Sockets : Holds(l, x)' => Holds(l, x)
        BY <1>5, <1>6
      <4>3. \A l, x \in Sockets : Holds(l, x)' => x = w
        BY <1>1, <2>1, <4>2 DEF OneWatched
      <4> QED BY <2>8, <3>2, <4>1, <4>3 DEF OneWatched
    <3> QED BY <3>1, <3>2
  <2>11. Counted'
    <3>1. IsFiniteSet(Holders(w)') /\ watcher'[w].refs = Cardinality(Holders(w)')
      BY <2>4, <2>5, <2>8
    <3>2. ASSUME NEW x \in Sockets, x # w
          PROVE  IsFiniteSet(Holders(x)') /\ watcher'[x].refs = Cardinality(Holders(x)')
      BY <1>1, <2>3, <2>8, <3>2 DEF Counted
    <3> QED BY <3>1, <3>2 DEF Counted
  <2>12. OneJoins'
    <3>1. \A l \in Sockets : ~Joins(l, w)
      BY <1>1, <1>8, <2>1 DEF OneJoins
    <3> QED BY <1>1, <1>5, <1>6, <1>8, <2>8, <3>1 DEF OneJoins
  <2>13. WatchTyped'
    BY <1>1, <1>3, <2>8 DEF WatchTyped
  <2> QED BY <2>10, <2>11, <2>12, <2>13
<1> QED BY <1>7, <1>8

(* The socket that stopped the watcher resets it once its thread is done.  *)
LEMMA JoiningKeepsLeases ==
  ASSUME LeaseInv, NEW k \in Sockets, Join(k)
  PROVE  WatchTyped' /\ OneWatched' /\ Counted' /\ OneJoins'
<1> DEFINE w == socket[k].watcher
<1>1. /\ watcher \in [Sockets -> Watchers] /\ entry \in Sockets \cup {Nobody}
      /\ Nobody \notin Sockets /\ OneWatched /\ Counted /\ OneJoins
  BY FeedAssumption DEF LeaseInv, WatchTyped
<1>2. socket \in SocketsOf(Sound) /\ socket[k].lease = "joining"
  BY DEF LeaseInv, ClaimInv, Flight, Join
<1>3. /\ watcher' = [watcher EXCEPT ![w] = NoWatcher] /\ entry' = entry
      /\ socket' = [socket EXCEPT ![k].lease = "none"]
  BY DEF Join
<1>4. /\ socket'[k].lease = "none"
      /\ \A l \in Sockets : l # k => socket'[l] = socket[l]
  BY <1>2, <1>3 DEF SocketsOf, SocketOf
<1>5. \A x \in Sockets : ~Holds(k, x)' /\ ~Holds(k, x) /\ ~Joins(k, x)' /\ (Joins(k, x) <=> x = w)
  BY <1>2, <1>4 DEF Holds, Joins
<1>6. \A l, x \in Sockets : l # k => (Holds(l, x)' <=> Holds(l, x)) /\ (Joins(l, x)' <=> Joins(l, x))
  BY <1>4 DEF Holds, Joins
<1>7. \A x \in Sockets : Holders(x)' = Holders(x)
  BY <1>5, <1>6 DEF Holders
<1>8. NoWatcher \in Watchers /\ NoWatcher.refs = 0
  BY DEF NoWatcher, Watchers
<1>9. /\ watcher' \in [Sockets -> Watchers]
      /\ \A x \in Sockets : watcher'[x] = IF x = w THEN NoWatcher ELSE watcher[x]
  BY <1>1, <1>3, <1>8
<1>10. w \in Sockets => w # entry /\ Holders(w) = {}
  <2> SUFFICES ASSUME w \in Sockets PROVE w # entry /\ Holders(w) = {}
    OBVIOUS
  <2>1. watcher[w].state = "stopping"
    BY <1>1, <1>5 DEF OneJoins
  <2>2. w # entry
    BY <1>1, <2>1 DEF OneWatched
  <2> QED BY <1>1, <2>2 DEF OneWatched, Holders
<1>11. OneWatched'
  <2>1. entry \in Sockets => watcher'[entry] = watcher[entry]
    BY <1>9, <1>10
  <2>2. \A l, x \in Sockets : Holds(l, x)' => Holds(l, x)
    BY <1>5, <1>6
  <2> QED BY <1>1, <1>3, <2>1, <2>2 DEF OneWatched
<1>12. Counted'
  <2>1. w \in Sockets => Cardinality(Holders(w)) = 0
    BY <1>10, FS_EmptySet
  <2> QED BY <1>1, <1>7, <1>8, <1>9, <2>1 DEF Counted
<1>13. OneJoins'
  <2>1. ASSUME NEW l \in Sockets, NEW x \in Sockets, Joins(l, x)'
        PROVE  l # k /\ Joins(l, x) /\ x # w
    <3>1. l # k /\ Joins(l, x)
      BY <1>5, <1>6, <2>1
    <3> QED BY <1>1, <1>5, <3>1 DEF OneJoins
  <2> QED BY <1>1, <1>9, <2>1 DEF OneJoins
<1> QED BY <1>1, <1>3, <1>9, <1>11, <1>12, <1>13 DEF WatchTyped

LEMMA LeasesKept ==
  ASSUME LeaseInv, [Next]_vars
  PROVE  LeaseInv'
<1>1. /\ Ledger /\ Flight(Sound) /\ WatchTyped /\ OneWatched /\ Counted /\ OneJoins
  BY DEF LeaseInv, ClaimInv
<1>2. ClaimInv'
  BY ClaimKept DEF LeaseInv
<1>3. CASE Write \/ Serve \/ React \/ Drop \/ UNCHANGED vars
  <2>1. Steady /\ UNCHANGED bridge
    BY <1>1, <1>3, WriteIsSteady, ServeIsSteady, ReactIsSteady
  <2>2. WatchTyped'
    BY <1>1, <2>1 DEF WatchTyped, bridge
  <2> QED BY <1>1, <1>2, <2>1, <2>2, SteadyKeepsLeases DEF LeaseInv
<1>4. ASSUME NEW w \in Sockets, Tick(w) \/ PublishHead(w) \/ PublishFails(w)
      PROVE  LeaseInv'
  BY <1>1, <1>2, <1>4, ThreadIsSteady, SteadyKeepsLeases DEF LeaseInv
<1>5. ASSUME NEW k \in Sockets, AcquireFails(k)
      PROVE  LeaseInv'
  <2>1. socket' = [socket EXCEPT ![k].lease = "held", ![k].watcher = Nobody]
        /\ socket[k].lease = "asked" /\ UNCHANGED bridge
    BY <1>5 DEF AcquireFails
  <2>2. socket \in SocketsOf(Sound) /\ Nobody \notin Sockets
    BY <1>1, FeedAssumption DEF Flight
  <2>3. /\ socket'[k].lease = "held" /\ socket'[k].watcher = Nobody
        /\ \A l \in Sockets : l # k => socket'[l] = socket[l]
    BY <2>1, <2>2 DEF SocketsOf, SocketOf
  <2>4. \A l, x \in Sockets : (Holds(l, x)' <=> Holds(l, x)) /\ (Joins(l, x)' <=> Joins(l, x))
    BY <2>1, <2>2, <2>3 DEF Holds, Joins
  <2>5. Steady /\ WatchTyped'
    BY <1>1, <2>1, <2>4 DEF Steady, WatchTyped, bridge
  <2> QED BY <1>1, <1>2, <2>5, SteadyKeepsLeases DEF LeaseInv
<1>6. ASSUME NEW k \in Sockets, Acquire(k) \/ Release(k) \/ Join(k)
      PROVE  LeaseInv'
  BY <1>2, <1>6, TakingKeepsLeases, LettingGoKeepsLeases, JoiningKeepsLeases DEF LeaseInv
<1>7. CASE Restart
  <2>1. /\ entry' = Nobody
        /\ watcher' = [w \in Sockets |-> NoWatcher] /\ socket' = [k \in Sockets |-> NoSocket]
    BY <1>7 DEF Restart
  <2>2. WatchTyped'
    BY <2>1 DEF WatchTyped, Watchers, NoWatcher
  <2>3. \A k, w \in Sockets : ~Holds(k, w)' /\ ~Joins(k, w)'
    BY <2>1 DEF NoSocket, Holds, Joins
  <2>4. OneWatched' /\ OneJoins'
    BY <2>1, <2>3 DEF OneWatched, OneJoins
  <2>5. ASSUME NEW w \in Sockets PROVE Holders(w)' = {} /\ watcher'[w].refs = 0
    BY <2>1, <2>3 DEF NoWatcher, Holders
  <2>6. Counted'
    BY <2>5, FS_EmptySet DEF Counted
  <2> QED BY <1>2, <2>2, <2>4, <2>6 DEF LeaseInv
<1> QED BY <1>3, <1>4, <1>5, <1>6, <1>7 DEF Next, Watch

(* Every live socket that got a lease is watched for, by the running       *)
(* watcher in the bridge, and the count of a watcher is the number of      *)
(* sockets that hold it, for any number of sockets and reconnections.      *)
THEOREM LeasesAreWatched == Spec => []LeasedSocketIsWatched
<1>1. LeaseInv /\ [Next]_vars => LeaseInv'
  BY LeasesKept
<1>2. LeaseInv => LeasedSocketIsWatched
  <2> SUFFICES ASSUME LeaseInv PROVE LeasedSocketIsWatched
    OBVIOUS
  <2>1. socket \in SocketsOf(Sound) /\ Nobody \notin Sockets /\ OneWatched /\ Counted
    BY FeedAssumption DEF LeaseInv, ClaimInv, Flight
  <2>2. ASSUME NEW k \in Sockets, socket[k].lease = "held", socket[k].watcher # Nobody
        PROVE  entry = socket[k].watcher /\ watcher[entry].state = "running"
    <3>1. socket[k].watcher \in Sockets
      BY <2>1, <2>2 DEF SocketsOf, SocketOf
    <3>2. Holds(k, socket[k].watcher)
      BY <2>2 DEF Holds
    <3> QED BY <2>1, <2>2, <3>1, <3>2 DEF OneWatched
  <2>3. ASSUME NEW w \in Sockets
        PROVE  watcher[w].refs = Cardinality(
                 {k \in Sockets : socket[k].watcher = w /\ socket[k].lease = "held"})
    <3>1. Holders(w) = {k \in Sockets : socket[k].watcher = w /\ socket[k].lease = "held"}
      BY DEF Holders, Holds
    <3> QED BY <2>1, <3>1 DEF Counted
  <2> QED BY <2>2, <2>3 DEF LeasedSocketIsWatched
<1> QED BY InitLeases, <1>1, <1>2, PTL DEF Spec

-----------------------------------------------------------------------------
(* What Picked picks, and that it picks something if there is something.   *)
LEMMA PickedFrom ==
  ASSUME NEW keep \in SUBSET Nat, IsFiniteSet(keep), NEW f
  PROVE  /\ Cardinality(keep) \in Nat /\ DOMAIN Picked(f, keep) = 1..Cardinality(keep)
         /\ \A n \in DOMAIN Picked(f, keep) : \E i \in keep : Picked(f, keep)[n] = f[i]
         /\ keep # {} => Cardinality(keep) # 0
<1> DEFINE rank(i) == Cardinality(UpTo(keep, i))
           size == Cardinality(keep)
<1>1. size \in Nat /\ (keep # {} => size # 0)
  BY FS_CardinalityType, FS_EmptySet
<1>2. ASSUME NEW i \in keep
      PROVE  IsFiniteSet(UpTo(keep, i)) /\ rank(i) \in 1..size
  <2>1. UpTo(keep, i) \in SUBSET keep /\ i \in UpTo(keep, i)
    BY DEF UpTo
  <2>2. /\ IsFiniteSet(UpTo(keep, i)) /\ rank(i) \in Nat /\ rank(i) <= size
    BY <2>1, FS_Subset, FS_CardinalityType
  <2>3. rank(i) # 0
    BY <2>1, <2>2, FS_EmptySet
  <2> QED BY <1>1, <2>2, <2>3
<1>3. ASSUME NEW i \in keep, NEW k \in keep, i < k
      PROVE  rank(i) < rank(k)
  <2>1. ~(k <= i) /\ k <= k /\ \A j \in keep : j <= i => j <= k
    BY <1>3
  <2> DEFINE lower == UpTo(keep, i)
             upper == UpTo(keep, k)
  <2>2. lower \in SUBSET upper /\ lower # upper
    <3>1. \A j \in lower : j \in upper
      BY <2>1, Zenon DEF UpTo
    <3>2. k \in upper /\ k \notin lower
      BY <2>1, Zenon DEF UpTo
    <3> QED BY <3>1, <3>2
  <2>3. IsFiniteSet(upper) /\ Cardinality(lower) \in Nat /\ Cardinality(upper) \in Nat
    BY <1>1, <1>2
  <2> HIDE DEF lower, upper
  <2>4. Cardinality(lower) < Cardinality(upper)
    BY <2>2, <2>3, FS_Subset
  <2> QED BY <2>4 DEF lower, upper
<1>4. \A i, k \in keep : rank(i) = rank(k) => i = k
  BY <1>1, <1>2, <1>3
<1>5. ASSUME NEW n \in 1..size PROVE Nth(keep, n) \in keep
  <2> SUFFICES ASSUME \A i \in keep : rank(i) # n PROVE FALSE
    BY DEF Nth
  <2> DEFINE all    == 1..size
             others == all \ {n}
             g      == [i \in keep |-> rank(i)]
  <2>1. IsFiniteSet(all) /\ Cardinality(all) = size /\ n \in all
    BY <1>1, FS_Interval
  <2>2. g \in [keep -> others]
    BY <1>2
  <2>3. \A x, y \in keep : g[x] = g[y] => x = y
    BY <1>4
  <2> HIDE DEF g, all, size
  <2>4. IsFiniteSet(others) /\ Cardinality(others) = size - 1
    BY <2>1, FS_RemoveElement
  <2> HIDE DEF others
  <2>5. Cardinality(others) < Cardinality(keep)
    BY <1>1, <2>4 DEF size
  <2>6. \E x, y \in keep : x # y /\ g[x] = g[y]
    BY <2>2, <2>4, <2>5, FS_PigeonHole
  <2> QED BY <2>3, <2>6
<1> HIDE DEF rank, size
<1>6. Picked(f, keep) = [n \in 1..size |-> f[Nth(keep, n)]]
  BY DEF Picked, size
<1> QED BY <1>1, <1>5, <1>6 DEF size

(* The hub remembers nothing but what it was told, and finds the head      *)
(* among what it has not published unless it did publish it.               *)
LEMMA RememberingHas ==
  ASSUME NEW mem \in Seq(Nat), NEW seqs \in Seq(Nat)
  PROVE  /\ Remembering(mem, seqs) \in Seq(Nat)
         /\ Elements(Remembering(mem, seqs)) \subseteq Elements(mem) \cup Elements(seqs)
         /\ Len(Remembering(mem, seqs)) <= Memory
<1> DEFINE new == {i \in DOMAIN seqs : seqs[i] \notin {mem[j] : j \in DOMAIN mem}}
           p   == Picked(seqs, new)
           all == mem \o p
           from == Larger(Len(all) - Memory, 0) + 1
<1>1. new \in SUBSET Nat /\ IsFiniteSet(new)
  <2>1. IsFiniteSet(DOMAIN seqs) /\ DOMAIN seqs \subseteq Nat
    BY FS_Interval
  <2>2. new \in SUBSET DOMAIN seqs
    OBVIOUS
  <2> QED BY <2>1, <2>2, FS_Subset
<1>2. /\ Cardinality(new) \in Nat /\ DOMAIN p = 1..Cardinality(new)
      /\ \A n \in DOMAIN p : \E i \in new : p[n] = seqs[i]
  BY <1>1, PickedFrom
<1>3. \A n \in DOMAIN p : p[n] \in Elements(seqs) /\ p[n] \in Nat
  <2>1. \A i \in new : seqs[i] \in Elements(seqs) /\ seqs[i] \in Nat
    BY DEF Elements
  <2> HIDE DEF new, p
  <2> QED BY <1>2, <2>1
<1>4. p \in Seq(Nat)
  <2>1. p = [n \in 1..Cardinality(new) |-> p[n]]
    BY <1>2 DEF Picked
  <2> QED BY <1>2, <1>3, <2>1
<1> HIDE DEF p
<1>5. /\ all \in Seq(Nat) /\ Len(all) \in Nat
      /\ \A n \in 1..Len(all) : all[n] \in Elements(mem) \cup Elements(seqs)
  <2>1. /\ all \in Seq(Nat) /\ Len(all) = Len(mem) + Len(p)
        /\ \A n \in 1..Len(all) : all[n] = IF n <= Len(mem) THEN mem[n] ELSE p[n - Len(mem)]
    BY <1>4
  <2>2. ASSUME NEW n \in 1..Len(all) PROVE all[n] \in Elements(mem) \cup Elements(seqs)
    <3>1. CASE n <= Len(mem)
      BY <2>1, <2>2, <3>1 DEF Elements
    <3>2. CASE ~(n <= Len(mem))
      <4>1. n - Len(mem) \in DOMAIN p
        BY <1>4, <2>1, <2>2, <3>2
      <4> QED BY <1>3, <2>1, <2>2, <3>2, <4>1
    <3> QED BY <3>1, <3>2
  <2> QED BY <2>1, <2>2
<1> HIDE DEF all
<1>6. from \in Nat /\ 1 <= from
  BY <1>5, FeedAssumption DEF Larger
<1>7. Remembering(mem, seqs) = SubSeq(all, from, Len(all))
  BY DEF Remembering, all, p
<1> HIDE DEF from
<1>8. /\ SubSeq(all, from, Len(all)) \in Seq(Nat)
      /\ \A n \in DOMAIN SubSeq(all, from, Len(all)) :
           \E k \in 1..Len(all) : SubSeq(all, from, Len(all))[n] = all[k]
      /\ Len(SubSeq(all, from, Len(all))) <= Memory
  <2>1. from \in 1..(Len(all) + 1)
    BY <1>5, <1>6, FeedAssumption DEF from, Larger
  <2> DEFINE q == SubSeq(all, from, Len(all))
  <2>2. from \in Int /\ Len(all) \in Int /\ \A i \in from..Len(all) : all[i] \in Nat
    BY <1>5, <2>1
  <2>3. /\ q \in Seq(Nat)
        /\ Len(q) = IF from <= Len(all) THEN Len(all) - from + 1 ELSE 0
        /\ \A i \in 1..(Len(all) - from + 1) : q[i] = all[from + i - 1]
    BY <2>2
  <2> HIDE DEF q
  <2>4. ASSUME NEW n \in DOMAIN q PROVE \E k \in 1..Len(all) : q[n] = all[k]
    <3>1. n \in 1..(Len(all) - from + 1)
      BY <2>2, <2>3
    <3>2. from + n - 1 \in 1..Len(all)
      BY <1>5, <2>1, <3>1
    <3> QED BY <2>3, <3>1, <3>2
  <2>5. Len(q) <= Memory
    BY <2>2, <2>3, FeedAssumption DEF from, Larger
  <2> QED BY <2>3, <2>4, <2>5 DEF q
<1> QED BY <1>5, <1>7, <1>8 DEF Elements

LEMMA UnpublishedHas ==
  ASSUME NEW head \in Nat, NEW after \in Nat \cup {NoRow}
  PROVE  /\ Unpublished(after, head) \in Seq(Nat)
         /\ \A n \in Elements(Unpublished(after, head)) : n <= head
         /\ (after # NoRow => after < head) /\ Unpublished(after, head) = << >>
            => head = 0 \/ head \in Elements(published)
<1> DEFINE start == IF after = NoRow THEN head ELSE Larger(after + 1, head - Memory + 1)
           range == [i \in 1..Larger(head - start + 1, 0) |-> start + i - 1]
           unknown == {i \in DOMAIN range : range[i] \notin {published[j] : j \in DOMAIN published}}
<1>1. CASE head = 0
  BY <1>1 DEF Unpublished, Elements
<1>2. CASE head # 0
  <2>1. Unpublished(after, head) = Picked(range, unknown)
    BY <1>2 DEF Unpublished
  <2>2. start \in Nat /\ (after # NoRow /\ after < head => start <= head)
    BY <1>2, FeedAssumption DEF Larger
  <2>3. Larger(head - start + 1, 0) \in Nat
    BY <2>2 DEF Larger
  <2>4. ASSUME NEW i \in DOMAIN range PROVE range[i] \in Nat /\ range[i] <= head
    BY <2>2, <2>3 DEF Larger
  <2>5. unknown \in SUBSET Nat /\ IsFiniteSet(unknown)
    <3>1. IsFiniteSet(DOMAIN range) /\ DOMAIN range \subseteq Nat
      BY <2>3, FS_Interval
    <3>2. unknown \in SUBSET DOMAIN range
      OBVIOUS
    <3> QED BY <3>1, <3>2, FS_Subset
  <2> DEFINE p == Picked(range, unknown)
  <2>6. /\ Cardinality(unknown) \in Nat /\ DOMAIN p = 1..Cardinality(unknown)
        /\ \A n \in DOMAIN p : \E i \in unknown : p[n] = range[i]
        /\ unknown # {} => Cardinality(unknown) # 0
    <3> HIDE DEF range, unknown
    <3> QED BY <2>5, PickedFrom
  <2>7. \A n \in DOMAIN p : p[n] \in Nat /\ p[n] <= head
    BY <2>4, <2>6
  <2>8. p \in Seq(Nat)
    <3>1. p = [n \in 1..Cardinality(unknown) |-> p[n]]
      BY <2>6 DEF Picked
    <3> QED BY <2>6, <2>7, <3>1
  <2>9. ASSUME after # NoRow => after < head, p = << >>
        PROVE  head \in Elements(published)
    <3>1. unknown = {}
      <4>1. DOMAIN p = {}
        BY <2>9
      <4> QED BY <2>6, <4>1
    <3>2. start <= head
      BY <2>2, <2>9
    <3>3. head - start + 1 \in DOMAIN range /\ range[head - start + 1] = head
      <4> HIDE DEF start
      <4>1. head - start + 1 \in 1..Larger(head - start + 1, 0)
        BY <2>2, <3>2 DEF Larger
      <4>2. start + (head - start + 1) - 1 = head
        BY <2>2
      <4> QED BY <4>1, <4>2
    <3> QED BY <3>1, <3>3 DEF Elements
  <2> HIDE DEF p
  <2> QED BY <2>1, <2>7, <2>8, <2>9 DEF Elements, p
<1> QED BY <1>1, <1>2

-----------------------------------------------------------------------------
(* The rows anybody may have been told of: the journal with the one the    *)
(* open section, or the next one, adds.  A step only ever adds to them.    *)
Book == IF Unlocked THEN Recovered ELSE Append(journal, open.event.v)

(* the command of an open section is the one the project names as saved *)
Named == ~Unlocked /\ open.what = "command" => open.event.v = saved.v

Extends(p, q) == Len(p) <= Len(q) /\ \A i \in 1..Len(p) : q[i] = p[i]

LEMMA ExtendsOn ==
  ASSUME NEW p \in Seq(Nat), NEW q \in Seq(Nat), NEW r \in Seq(Nat)
  PROVE  /\ Extends(p, p) /\ \A x \in Nat : Extends(p, Append(p, x))
         /\ Extends(p, q) /\ Extends(q, r) => Extends(p, r)
<1>1. Len(p) \in Nat /\ Len(q) \in Nat /\ Len(r) \in Nat
  OBVIOUS
<1>2. ASSUME NEW x \in Nat PROVE Extends(p, Append(p, x))
  BY DEF Extends
<1> QED BY <1>1, <1>2 DEF Extends

LEMMA BookHas ==
  ASSUME SeenInv
  PROVE  /\ Book \in Seq(Nat) /\ Len(Book) = Reach /\ Len(Book) \in Nat
         /\ Elements(Book) \subseteq 1..file
         /\ journal \in Seq(Nat) /\ Extends(journal, Book)
<1>1. /\ Ledger /\ RowsSaved /\ SectionOpen /\ journal \in Seq(Nat) /\ file \in Nat
  BY DEF SeenInv, ClaimInv, Ledger
<1>2. CASE Unlocked
  <2>1. /\ Recovered \in Seq(Nat) /\ Len(Recovered) \in Nat
        /\ Recovered = IF Pending THEN Append(journal, saved.v) ELSE journal
        /\ Elements(Recovered) \subseteq 1..file
    BY <1>1, RecoversAtMostOne, RecoversSaves
  <2>2. Pending => saved.v \in Nat
    BY <1>1 DEF Pending, Ledger
  <2>3. Extends(journal, Recovered)
    BY <1>1, <2>1, <2>2, ExtendsOn
  <2> QED BY <1>1, <1>2, <2>1, <2>3 DEF Book, Reach
<1>3. CASE ~Unlocked
  <2>1. open.event.v \in 1..file /\ open.event.v \in Nat
    BY <1>1, <1>3 DEF SectionOpen
  <2>2. Elements(Append(journal, open.event.v)) = Elements(journal) \cup {open.event.v}
    BY <1>1, <2>1, AppendedElements
  <2>3. Elements(journal) \subseteq 1..file
    BY <1>1 DEF RowsSaved, Rows, Elements
  <2>4. Extends(journal, Append(journal, open.event.v))
    BY <1>1, <2>1, ExtendsOn
  <2> QED BY <1>1, <1>3, <2>1, <2>2, <2>3, <2>4 DEF Book, Reach, JournalHead
<1> QED BY <1>2, <1>3

(* The same of the state a step leads to, where no section is open.        *)
LEMMA RecoveredExtends ==
  ASSUME Ledger'
  PROVE  /\ journal' \in Seq(Nat) /\ Recovered' \in Seq(Nat)
         /\ Extends(journal', Recovered')
<1>1. journal' \in Seq(Nat) /\ (Pending' => saved'.v \in Nat)
  BY DEF Ledger, Pending
<1>2. Recovered' = IF Pending' THEN Append(journal', saved'.v) ELSE journal'
  BY DEF Recovered, Pending
<1> QED BY <1>1, <1>2, ExtendsOn

(* What a section that opens appends, and its event.                       *)
LEMMA SectionsOpen ==
  ASSUME SeenInv, NEW e \in Events, NEW mine \in BOOLEAN, NEW what \in {"command", "notice"},
         open' = [what |-> what, event |-> e, mine |-> mine], Unlocked,
         journal' = Recovered
  PROVE  ~Unlocked' /\ Book = Recovered /\ Book' = Append(Book, e.v)
<1>1. open' # NoRow
  <2>1. open' \in [what : {"command", "notice"}, event : Events, mine : BOOLEAN]
    OBVIOUS
  <2> QED BY <2>1, FeedAssumption
<1> QED BY <1>1 DEF Unlocked, Book

LEMMA BookMovesOn ==
  ASSUME SeenInv, Named, [Next]_vars, "notice" \notin Faults
  PROVE  Named' /\ Extends(Book, Book') /\ Extends(journal, journal')
<1>1. /\ Ledger /\ Ledger' /\ Flight(Sound) /\ Stock(Sound) /\ file \in Nat
      /\ SeenInv' /\ SectionOpen
  BY SeenKept, Stocks DEF SeenInv, ClaimInv, Ledger
<1>2. /\ Book \in Seq(Nat) /\ journal \in Seq(Nat) /\ Extends(journal, Book)
      /\ Book' \in Seq(Nat) /\ Recovered \in Seq(Nat)
      /\ journal' \in Seq(Nat) /\ Recovered' \in Seq(Nat) /\ Extends(journal', Recovered')
      /\ Unlocked => Book = Recovered
  <2>1. Book \in Seq(Nat) /\ journal \in Seq(Nat) /\ Extends(journal, Book)
    BY BookHas
  <2>2. Book' \in Seq(Nat)
    <3>1. Unlocked' \/ open'.event.v \in Nat
      BY <1>1 DEF SeenInv, SectionOpen, Ledger
    <3>2. journal' \in Seq(Nat) /\ Recovered' \in Seq(Nat)
      BY <1>1, RecoveredExtends
    <3> QED BY <3>1, <3>2 DEF Book
  <2>3. Recovered \in Seq(Nat) /\ (Unlocked => Book = Recovered)
    BY <1>1, RecoversAtMostOne DEF Book
  <2>4. journal' \in Seq(Nat) /\ Recovered' \in Seq(Nat) /\ Extends(journal', Recovered')
    BY <1>1, RecoveredExtends
  <2> QED BY <2>1, <2>2, <2>3, <2>4
<1>3. ASSUME NEW kind \in Kinds, NEW mine \in BOOLEAN, Submit(kind, mine)
      PROVE  Named' /\ Extends(Book, Book') /\ Extends(journal, journal')
  <2>1. /\ Unlocked /\ journal' = Recovered
        /\ saved' = [v |-> file + 1, base |-> Len(Recovered)]
        /\ open' = [what |-> "command", event |-> Command(kind), mine |-> mine]
    BY <1>3 DEF Submit, Command
  <2>2. Command(kind) \in Events /\ Command(kind).v = file + 1
    BY <1>1, SectionsAreSound DEF Sound
  <2>3. Book' = Append(Book, file + 1) /\ Book = Recovered
    BY <2>1, <2>2, SectionsOpen
  <2>4. Named'
    BY <2>1, <2>2 DEF Named
  <2> QED BY <1>1, <1>2, <2>1, <2>3, <2>4, ExtendsOn
<1>4. ASSUME NEW kind, Announce(kind)
      PROVE  Named' /\ Extends(Book, Book') /\ Extends(journal, journal')
  <2>1. /\ Unlocked /\ journal' = Recovered /\ notice # NoRow
        /\ \E e \in {Changed, Comments} :
              open' = [what |-> "notice", event |-> e, mine |-> FALSE]
    BY <1>4 DEF Announce, Changed, Comments
  <2>2. PICK e \in {Changed, Comments} :
          open' = [what |-> "notice", event |-> e, mine |-> FALSE]
    BY <2>1
  <2>3. e \in Events /\ e.v = file
    BY <1>1, <2>1, SectionsAreSound DEF Sound
  <2>4. Book' = Append(Book, file) /\ Book = Recovered
    BY <2>1, <2>2, <2>3, SectionsOpen
  <2>5. Named'
    BY <2>2 DEF Named
  <2> QED BY <1>1, <1>2, <2>1, <2>4, <2>5, ExtendsOn
<1>5. CASE \E dies \in BOOLEAN : SubmitElsewhere(dies)
  <2>1. /\ Unlocked /\ Unlocked'
        /\ journal' = Recovered \/ journal' = Append(Recovered, file + 1)
    BY <1>5 DEF SubmitElsewhere, Unlocked
  <2>2. Extends(Book, journal') /\ Book' = Recovered'
    <3>1. Book = Recovered /\ Book' = Recovered' /\ file + 1 \in Nat
      BY <1>1, <1>2, <2>1 DEF Book
    <3>2. Extends(Recovered, Recovered) /\ Extends(Recovered, Append(Recovered, file + 1))
      BY <1>2, <3>1, ExtendsOn
    <3> QED BY <2>1, <3>1, <3>2
  <2>3. Extends(Book, Book') /\ Extends(journal, journal')
    BY <1>2, <2>2, ExtendsOn
  <2> QED BY <2>1, <2>3 DEF Named
<1>6. CASE SaveUnannounced \/ StaySilent
  <2>1. UNCHANGED <<saved, journal, open>>
    BY <1>6 DEF SaveUnannounced, StaySilent
  <2>2. Book' = Book /\ Named'
    BY <2>1 DEF Book, Named, Unlocked, Recovered, JournalHead, Rows
  <2> QED BY <1>2, <2>1, <2>2, ExtendsOn
<1>7. CASE Commit
  <2>1. /\ ~Unlocked /\ Unlocked' /\ journal' = Append(journal, open.event.v)
        /\ Book = journal' /\ Book' = Recovered'
    BY <1>7 DEF Commit, Unlocked, Book
  <2> QED BY <1>2, <2>1, ExtendsOn DEF Named
<1>8. CASE Rollback \/ Restart
  <2>1. Unlocked' /\ UNCHANGED <<file, saved, journal>>
    BY <1>8 DEF Rollback, Restart, Unlocked
  <2>2. Recovered' = Recovered /\ Book' = Recovered
    BY <2>1 DEF Recovered, JournalHead, Rows, Book
  <2>3. ~Unlocked => open.what \in Faults
    BY <1>8 DEF Rollback, Restart, Unlocked, Fault
  <2>4. ~Unlocked => open.what = "command"
    BY <1>1, <2>3 DEF Flight, OpensOf, Unlocked
  <2>5. Book = Recovered
    BY <1>1, <2>4, RecoversAtMostOne DEF Book, SectionOpen, Named
  <2> QED BY <1>2, <2>1, <2>2, <2>5, ExtendsOn DEF Named
<1>9. CASE OnlyRecovers
  <2>1. CASE journal' = journal
    <3>1. Book' = Book /\ Named'
      BY <1>9, <2>1 DEF OnlyRecovers, Book, Named, Unlocked, Recovered, JournalHead, Rows
    <3> QED BY <1>2, <2>1, <3>1, ExtendsOn
  <2>2. CASE Unlocked /\ journal' = Recovered
    <3>1. Unlocked' /\ Book = journal' /\ Book' = Recovered'
      BY <1>9, <2>2 DEF OnlyRecovers, Unlocked, Book
    <3> QED BY <1>2, <3>1, ExtendsOn DEF Named
  <2> QED BY <1>9, <2>1, <2>2 DEF OnlyRecovers
<1> QED BY <1>3, <1>4, <1>5, <1>6, <1>7, <1>8, <1>9, OthersOnlyRecover DEF Next, Write

(* An event agrees with the rows: a whole project has all up to its seq, a *)
(* patch is the change of the row it announces.                            *)
Agreeing(b) ==
  {e \in SoundUpTo(Len(b)) :
     /\ e.kind = "whole" => \A i \in 1..e.seq : b[i] \in 1..e.v
     /\ e.kind \in {"delta", "comments"} => e.seq # 0 /\ b[e.seq] = e.v}

(* a tab shows every row up to its seq *)
Has(t, b) == t.seq <= Len(b) /\ \A i \in 1..t.seq : b[i] \in t.shown

LEMMA AgreeingGrows ==
  ASSUME NEW b \in Seq(Nat), NEW c \in Seq(Nat), Extends(b, c)
  PROVE  /\ Stock(Agreeing(b)) /\ Agreeing(b) \subseteq Agreeing(c)
         /\ \A t \in Tabs : Has(t, b) => Has(t, c)
<1>1. Len(b) \in Nat /\ Len(c) \in Nat /\ Len(b) <= Len(c)
      /\ \A i \in 1..Len(b) : c[i] = b[i]
  BY DEF Extends
<1>2. \A e \in SoundUpTo(Len(b)) : e.seq \in Nat /\ e.seq <= Len(b) /\ e \in Sound
  BY DEF SoundUpTo, Sound, Events
<1>3. ASSUME NEW e \in Agreeing(b) PROVE Marker(e) \in Agreeing(b) /\ e \in Sound
  <2>1. Marker(e) \in SoundUpTo(Len(b)) /\ Marker(e).kind = "resync"
    BY <1>1, <1>2, Stocks DEF Agreeing, Stock, Marker, SoundUpTo, Sound, Events
  <2> QED BY <1>2, <2>1 DEF Agreeing
<1>4. ASSUME NEW e \in Agreeing(b) PROVE e \in Agreeing(c)
  <2>1. e.seq \in Nat /\ e.seq <= Len(b) /\ e \in Sound
    BY <1>2 DEF Agreeing
  <2>2. e \in SoundUpTo(Len(c))
    BY <1>1, <2>1 DEF SoundUpTo
  <2>3. \A i \in 1..e.seq : c[i] = b[i]
    BY <1>1, <2>1
  <2>4. e.kind = "whole" => \A i \in 1..e.seq : c[i] \in 1..e.v
    BY <2>3 DEF Agreeing
  <2>5. e.kind \in {"delta", "comments"} => e.seq # 0 /\ c[e.seq] = e.v
    <3>1. e.seq # 0 => e.seq \in 1..e.seq
      BY <2>1
    <3> QED BY <2>3, <3>1 DEF Agreeing
  <2> QED BY <2>2, <2>4, <2>5 DEF Agreeing
<1>5. ASSUME NEW t \in Tabs, Has(t, b) PROVE Has(t, c)
  <2>1. t.seq \in Nat /\ t.seq <= Len(b)
    BY <1>5 DEF Has, Tabs
  <2>2. \A i \in 1..t.seq : c[i] = b[i]
    BY <1>1, <2>1
  <2> QED BY <1>1, <1>5, <2>1, <2>2 DEF Has
<1> QED BY <1>3, <1>4, <1>5 DEF Stock

(* A tab that takes such an event still shows all rows up to its seq.      *)
LEMMA AppliesRows ==
  ASSUME NEW b \in Seq(Nat), NEW e \in Agreeing(b), NEW t \in Tabs, Has(t, b)
  PROVE  Has(Applied(t, e), b)
<1>1. e.seq \in Nat /\ e.seq <= Len(b) /\ t.seq \in Nat
  BY DEF Agreeing, SoundUpTo, Sound, Events, Tabs
<1>2. CASE Ignores(t, e)
  BY <1>2 DEF Applied, Invalidates
<1>3. CASE Invalidates(t, e)
  <2>1. Applied(t, e) = Recovering(t, e.seq)
    BY <1>3 DEF Applied, Invalidates
  <2>2. Applied(t, e).seq = t.seq /\ Applied(t, e).shown = t.shown
    BY <2>1 DEF Recovering, Tabs
  <2> QED BY <2>2 DEF Has
<1>4. CASE ~Ignores(t, e) /\ Fits(t, e)
  <2>1. Applied(t, e) = Showing(t, e)
    BY <1>4 DEF Applied, Invalidates
  <2>2. /\ Applied(t, e).seq = e.seq
        /\ Applied(t, e).shown = IF e.kind = "whole" THEN 1..e.v ELSE t.shown \cup {e.v}
    BY <2>1 DEF Showing
  <2>3. CASE e.kind = "whole"
    BY <1>1, <2>2, <2>3 DEF Agreeing, Has
  <2>4. CASE e.kind # "whole"
    <3>1. /\ e.kind \in {"delta", "comments"}
          /\ e.seq = t.seq \/ e.seq = t.seq + 1
      BY <1>4, <2>4 DEF Fits, DeltaFits, CommentsFit, Agreeing, SoundUpTo, Sound, Events
    <3>2. b[e.seq] = e.v
      BY <3>1 DEF Agreeing
    <3>3. ASSUME NEW i \in 1..e.seq PROVE b[i] \in t.shown \cup {e.v}
      <4>1. CASE i = e.seq
        BY <3>2, <4>1
      <4>2. CASE i # e.seq
        <5>1. i \in 1..t.seq
          BY <1>1, <3>1, <4>2
        <5> QED BY <5>1 DEF Has
      <4> QED BY <4>1, <4>2
    <3> QED BY <1>1, <2>2, <2>4, <3>3 DEF Has
  <2> QED BY <2>3, <2>4
<1> QED BY <1>2, <1>3, <1>4 DEF Invalidates

LEMMA OpensAgreeing ==
  ASSUME NEW r \in Seq(Nat), NEW n \in Nat, Elements(r) \subseteq 1..n,
         NEW e \in Sound, e.seq = Len(r) + 1, n <= e.v, e.v # 0
  PROVE  e \in Agreeing(Append(r, e.v))
<1> DEFINE b == Append(r, e.v)
<1>1. e.v \in Nat /\ e.seq \in Nat /\ Len(r) \in Nat
  BY DEF Sound, Events
<1>2. /\ Len(b) = Len(r) + 1 /\ b[e.seq] = e.v
      /\ \A i \in 1..Len(r) : b[i] = r[i]
  BY <1>1
<1> HIDE DEF b
<1>3. \A i \in 1..e.seq : b[i] \in 1..e.v
  <2> SUFFICES ASSUME NEW i \in 1..e.seq PROVE b[i] \in 1..e.v
    OBVIOUS
  <2>1. CASE i = e.seq
    BY <1>1, <1>2, <2>1
  <2>2. CASE i # e.seq
    <3>1. i \in 1..Len(r) /\ i \in DOMAIN r
      BY <1>1, <2>2
    <3>2. r[i] \in 1..n
      BY <3>1 DEF Elements
    <3> QED BY <1>1, <1>2, <3>1, <3>2
  <2> QED BY <2>1, <2>2
<1>4. e \in SoundUpTo(Len(b))
  BY <1>1, <1>2 DEF SoundUpTo
<1> QED BY <1>1, <1>2, <1>3, <1>4 DEF Agreeing, b

RowsAgree == \E b \in Seq(Nat) : b = Book /\ Flight(Agreeing(b)) /\ Has(tab, b)

RowsInv == SeenInv /\ Named /\ RowsAgree

LEMMA InitRows == Init => RowsInv
<1> SUFFICES ASSUME Init PROVE RowsInv
  OBVIOUS
<1>1. SeenInv
  BY InitSeen
<1>2. Named /\ Book = << >>
  BY DEF Init, Named, Book, Unlocked, Recovered
<1>3. Has(tab, << >>)
  BY DEF Init, Starting, Has
<1>4. socket \in SocketsOf(Agreeing(<< >>))
  <2>1. << >> \in Seq(Agreeing(<< >>))
    OBVIOUS
  <2> QED BY <2>1 DEF Init, SocketsOf, SocketOf, NoSocket
<1>5. Flight(Agreeing(<< >>))
  BY <1>4 DEF Init, Flight, PollsOf
<1>6. << >> \in Seq(Nat)
  OBVIOUS
<1> QED BY <1>1, <1>2, <1>3, <1>5, <1>6 DEF RowsInv, RowsAgree

LEMMA RowsKept ==
  ASSUME RowsInv, [Next]_vars, "notice" \notin Faults
  PROVE  /\ RowsInv' /\ Extends(Book, Book') /\ Extends(journal, journal')
         /\ \E b \in Seq(Nat) :
              /\ b = Book' /\ Flight(Agreeing(b)) /\ Stock(Agreeing(b))
              /\ tab' = tab \/ \E e \in Agreeing(b) : tab' = Applied(tab, e)
              /\ Unlocked => Snapshot \in Agreeing(b)
<1>1. /\ SeenInv /\ Named /\ SeenInv' /\ Ledger /\ tab \in Tabs /\ file \in Nat
      /\ Ledger' /\ SectionOpen'
  BY SeenKept DEF RowsInv, SeenInv, ClaimInv, Truthful, Ledger
<1>2. Named' /\ Extends(Book, Book') /\ Extends(journal, journal')
  BY <1>1, BookMovesOn
<1>3. PICK a \in Seq(Nat) : a = Book /\ Flight(Agreeing(a)) /\ Has(tab, a)
  BY DEF RowsInv, RowsAgree
<1>4. PICK b \in Seq(Nat) : b = Book'
  <2>1. Unlocked' \/ open'.event.v \in Nat
    BY <1>1 DEF SectionOpen, Ledger
  <2>2. journal' \in Seq(Nat) /\ Recovered' \in Seq(Nat)
    BY <1>1, RecoveredExtends
  <2>3. Book' \in Seq(Nat)
    BY <2>1, <2>2 DEF Book
  <2> QED BY <2>3
<1>5. Extends(a, b)
  BY <1>2, <1>3, <1>4
<1>6. /\ Stock(Agreeing(b)) /\ Flight(Agreeing(b)) /\ Has(tab, b)
  <2>1. /\ Agreeing(a) \subseteq Agreeing(b) /\ Has(tab, b)
    BY <1>1, <1>3, <1>5, AgreeingGrows
  <2>2. Stock(Agreeing(b))
    BY AgreeingGrows, ExtendsOn
  <2> QED BY <1>3, <2>1, <2>2, FlightGrows
<1>7. /\ Recovered \in Seq(Nat) /\ Len(Recovered) \in Nat
      /\ Elements(Recovered) \subseteq 1..file
      /\ Unlocked => a = Recovered
  BY <1>1, <1>3, RecoversAtMostOne, RecoversSaves DEF Book, SeenInv
<1>8. ASSUME Unlocked PROVE Snapshot \in Agreeing(b)
  <2>1. Snapshot \in Sound /\ Snapshot.seq = Len(Recovered)
    BY <1>1, SectionsAreSound
  <2>2. Snapshot.kind = "whole" /\ Snapshot.v = file
    BY DEF Snapshot, Whole, Event
  <2>3. \A i \in 1..Len(Recovered) : Recovered[i] \in 1..file
    BY <1>7 DEF Elements
  <2>4. Snapshot \in Agreeing(a)
    BY <1>7, <1>8, <2>1, <2>2, <2>3 DEF Agreeing, SoundUpTo
  <2> QED BY <1>5, <2>4, AgreeingGrows
<1>9. ASSUME NEW kind \in Kinds, NEW mine \in BOOLEAN, Submit(kind, mine)
      PROVE  Command(kind) \in Agreeing(b)
  <2>1. /\ Unlocked /\ journal' = Recovered
        /\ open' = [what |-> "command", event |-> Command(kind), mine |-> mine]
    BY <1>9 DEF Submit, Command
  <2>2. /\ Command(kind) \in Sound /\ Command(kind).v = file + 1
        /\ Command(kind).seq = Len(Recovered) + 1 /\ Command(kind) \in Events
    BY <1>1, SectionsAreSound DEF Sound
  <2>3. b = Append(Recovered, file + 1)
    BY <1>1, <1>4, <2>1, <2>2, SectionsOpen
  <2>4. Command(kind) \in Agreeing(Append(Recovered, Command(kind).v))
    <3>1. file <= file + 1 /\ file + 1 # 0
      BY <1>1
    <3> QED BY <1>1, <1>7, <2>2, <3>1, OpensAgreeing
  <2> QED BY <2>2, <2>3, <2>4
<1>10. ASSUME NEW kind \in {"whole", "comments"}, Announce(kind)
       PROVE  (IF kind = "whole" THEN Changed ELSE Comments) \in Agreeing(b)
  <2> DEFINE e == IF kind = "whole" THEN Changed ELSE Comments
  <2>1. /\ Unlocked /\ journal' = Recovered /\ notice # NoRow
        /\ open' = [what |-> "notice", event |-> e, mine |-> FALSE]
    BY <1>10 DEF Announce, Changed, Comments
  <2>2. /\ e \in Sound /\ e.v = file /\ e.seq = Len(Recovered) + 1 /\ e \in Events
    BY <1>1, <2>1, SectionsAreSound DEF Sound
  <2>3. file # 0
    BY <1>1, <2>1 DEF Ledger
  <2> HIDE DEF e
  <2>4. b = Append(Recovered, file)
    BY <1>1, <1>4, <2>1, <2>2, SectionsOpen
  <2>5. e \in Agreeing(Append(Recovered, e.v))
    <3>1. file <= e.v /\ e.v # 0
      BY <1>1, <2>2, <2>3
    <3> QED BY <1>1, <1>7, <2>2, <3>1, OpensAgreeing
  <2> QED BY <2>2, <2>4, <2>5 DEF e
<1>11. /\ Flight(Agreeing(b))'
       /\ tab' = tab \/ \E e \in Agreeing(b) : tab' = Applied(tab, e)
  <2>1. /\ Announce("whole") => Changed \in Agreeing(b)
        /\ Announce("comments") => Comments \in Agreeing(b)
    BY <1>10
  <2> QED BY <1>1, <1>6, <1>8, <1>9, <2>1, StepKeepsFlight
<1>12. Has(tab', b)
  BY <1>1, <1>6, <1>11, AppliesRows
<1>13. RowsInv'
  BY <1>1, <1>2, <1>4, <1>11, <1>12 DEF RowsInv, RowsAgree
<1> QED BY <1>2, <1>4, <1>6, <1>8, <1>11, <1>13

-----------------------------------------------------------------------------
(* What the tab has been told of, or will be by what is on its way to it   *)
(* over the socket it has open.  What is told is never forgotten: a seq    *)
(* the tab has shown, or asks for, or an event of the same seq or a later  *)
(* one.                                                                    *)
Tells(t, n) == n <= t.seq \/ (t.phase = "recovering" /\ n <= t.min)

Coming(q, n) == \E i \in DOMAIN q : n <= q[i].seq

Live == conn # Nobody /\ socket[conn].pc = "live"

Heard(n) == Tells(tab, n) \/ Coming(socket[conn].wire, n) \/ Coming(socket[conn].queue, n)

LEMMA AppliesTold ==
  ASSUME NEW t \in Tabs, NEW e \in Sound, NEW n \in Nat, Tells(t, n) \/ n <= e.seq
  PROVE  Tells(Applied(t, e), n)
<1>1. e.seq \in Nat /\ t.seq \in Nat /\ t.min \in Nat
  BY DEF Sound, Events, Tabs
<1>2. CASE Ignores(t, e)
  <2>1. Applied(t, e) = t
    BY <1>2 DEF Applied, Invalidates
  <2> QED BY <1>1, <1>2, <2>1 DEF Ignores, Tells
<1>3. CASE Invalidates(t, e)
  <2>1. Applied(t, e) = Recovering(t, e.seq)
    BY <1>3 DEF Applied, Invalidates
  <2> DEFINE m == Larger(e.seq, IF t.phase = "recovering" THEN t.min ELSE t.seq)
  <2>2. /\ Applied(t, e).phase = "recovering" /\ Applied(t, e).seq = t.seq
        /\ Applied(t, e).min = m
    BY <2>1 DEF Recovering, Tabs
  <2>3. e.seq <= m /\ (t.phase = "recovering" => t.min <= m)
    BY <1>1 DEF Larger
  <2>4. m \in Nat
    BY <1>1 DEF Larger
  <2> HIDE DEF m
  <2> QED BY <1>1, <2>2, <2>3, <2>4 DEF Tells
<1>4. CASE ~Ignores(t, e) /\ Fits(t, e)
  <2>1. Applied(t, e) = Showing(t, e)
    BY <1>4 DEF Applied, Invalidates
  <2>2. Applied(t, e).seq = e.seq
    BY <2>1 DEF Showing
  <2>3. t.seq <= e.seq
    BY <1>1, <1>4 DEF Ignores
  <2>4. t.phase = "recovering" => t.min <= e.seq
    BY <1>1, <1>4 DEF Ignores, Fits, DeltaFits, CommentsFit
  <2> QED BY <1>1, <2>2, <2>3, <2>4 DEF Tells
<1> QED BY <1>2, <1>3, <1>4 DEF Invalidates

(* A tab that is not ready after an event is waiting for an answer, or is  *)
(* as before; a whole project that is new enough makes it ready.           *)
LEMMA AppliesAnswers ==
  ASSUME NEW t \in Tabs, NEW e \in Sound, t.phase # "ready" => t.seq <= t.min
  PROVE  /\ Applied(t, e).phase # "ready" => Applied(t, e).seq <= Applied(t, e).min
         /\ Applied(t, e).phase # "ready" =>
              Applied(t, e) = t
              \/ (Invalidates(t, e) /\ Applied(t, e).phase = "recovering")
         /\ e.kind = "whole" /\ t.phase # "ready" /\ t.min <= e.seq
            => Applied(t, e).phase = "ready"
<1>1. e.seq \in Nat /\ t.seq \in Nat /\ t.min \in Nat
  BY DEF Sound, Events, Tabs
<1>2. CASE Ignores(t, e)
  <2>1. Applied(t, e) = t
    BY <1>2 DEF Applied, Invalidates
  <2>2. ~(e.kind = "whole" /\ t.phase # "ready" /\ t.min <= e.seq)
    BY <1>1, <1>2 DEF Ignores
  <2> QED BY <2>1, <2>2
<1>3. CASE Invalidates(t, e)
  <2>1. Applied(t, e) = Recovering(t, e.seq)
    BY <1>3 DEF Applied, Invalidates
  <2> DEFINE m == Larger(e.seq, IF t.phase = "recovering" THEN t.min ELSE t.seq)
  <2>2. /\ Applied(t, e).phase = "recovering" /\ Applied(t, e).seq = t.seq
        /\ Applied(t, e).min = m
    BY <2>1 DEF Recovering, Tabs
  <2>3. t.seq <= m
    BY <1>1 DEF Larger
  <2> HIDE DEF m
  <2>4. e.kind # "whole"
    BY <1>3 DEF Invalidates, Fits
  <2> QED BY <1>3, <2>2, <2>3, <2>4
<1>4. CASE ~Ignores(t, e) /\ Fits(t, e)
  <2>1. Applied(t, e).phase = "ready"
    BY <1>4 DEF Applied, Invalidates, Showing
  <2> QED BY <2>1
<1> QED BY <1>2, <1>3, <1>4 DEF Invalidates

(* A queue takes an event newer than those it has; if it is full, the      *)
(* marker has the newest seq.                                              *)
LEMMA PutComes ==
  ASSUME NEW m \in Nat, NEW q \in Seq(SoundUpTo(m)), NEW e \in Events, m <= e.seq
  PROVE  /\ Put(q, e) \in Seq(Events)
         /\ \A n \in Nat : Coming(q, n) \/ n <= e.seq => Coming(Put(q, e), n)
<1>1. /\ \A i \in DOMAIN q : q[i] \in Events /\ q[i].seq \in Nat /\ q[i].seq <= m
      /\ e.seq \in Nat /\ q \in Seq(Events) /\ Marker(e) \in Events /\ Marker(e).seq = e.seq
  <2>1. SoundUpTo(m) \subseteq Events
    BY DEF SoundUpTo, Sound
  <2>2. \A x \in SoundUpTo(m) : x.seq \in Nat /\ x.seq <= m
    BY DEF SoundUpTo, Sound, Events
  <2>3. Marker(e) \in Events /\ Marker(e).seq = e.seq /\ e.seq \in Nat
    BY DEF Marker, Events
  <2> QED BY <2>1, <2>2, <2>3
<1>2. CASE Len(q) < Capacity
  <2>1. Put(q, e) = Append(q, e)
    BY <1>2 DEF Put
  <2>2. /\ Append(q, e) \in Seq(Events) /\ Len(q) + 1 \in DOMAIN Append(q, e)
        /\ Append(q, e)[Len(q) + 1] = e
        /\ \A i \in DOMAIN q : i \in DOMAIN Append(q, e) /\ Append(q, e)[i] = q[i]
    BY <1>1
  <2> QED BY <2>1, <2>2 DEF Coming
<1>3. CASE ~(Len(q) < Capacity)
  <2>1. Put(q, e) = <<Marker(e)>>
    BY <1>3 DEF Put, Marker
  <2>2. <<Marker(e)>> \in Seq(Events) /\ 1 \in DOMAIN <<Marker(e)>> /\ <<Marker(e)>>[1] = Marker(e)
    BY <1>1
  <2>3. \A n \in Nat : Coming(q, n) => n <= e.seq
    BY <1>1 DEF Coming
  <2>4. \A n \in Nat : n <= e.seq => Coming(<<Marker(e)>>, n)
    BY <1>1, <2>2 DEF Coming
  <2> QED BY <2>1, <2>2, <2>3, <2>4
<1> QED BY <1>2, <1>3

(* The head of a queue, or the rest, has what the queue had.               *)
LEMMA HeadComes ==
  ASSUME NEW q \in Seq(Events), q # << >>
  PROVE  /\ Head(q) \in Events /\ Tail(q) \in Seq(Events)
         /\ \A n : Coming(q, n) => n <= Head(q).seq \/ Coming(Tail(q), n)
<1>1. /\ Head(q) = q[1] /\ Head(q) \in Events /\ Tail(q) \in Seq(Events)
      /\ Len(q) \in Nat /\ Len(Tail(q)) = Len(q) - 1
      /\ \A i \in 1..(Len(q) - 1) : Tail(q)[i] = q[i + 1]
  OBVIOUS
<1>2. ASSUME NEW n, NEW i \in DOMAIN q, n <= q[i].seq
      PROVE  n <= Head(q).seq \/ Coming(Tail(q), n)
  <2>1. CASE i = 1
    BY <1>1, <1>2, <2>1
  <2>2. CASE i # 1
    <3>1. i - 1 \in DOMAIN Tail(q) /\ Tail(q)[i - 1] = q[i]
      BY <1>1, <2>2
    <3> QED BY <1>2, <3>1 DEF Coming
  <2> QED BY <2>1, <2>2
<1> QED BY <1>1, <1>2 DEF Coming

LEMMA LoneComes ==
  ASSUME NEW e \in Events
  PROVE  /\ << >> \in Seq(Events) /\ Append(<< >>, e) \in Seq(Events)
         /\ Append(<< >>, e) # << >> /\ Head(Append(<< >>, e)) = e
         /\ \A n \in Nat : n <= e.seq => Coming(Append(<< >>, e), n)
         /\ \A n : ~Coming(<< >>, n)
<1>1. /\ << >> \in Seq(Events) /\ Append(<< >>, e) \in Seq(Events)
      /\ Append(<< >>, e) # << >> /\ Head(Append(<< >>, e)) = e
      /\ 1 \in DOMAIN Append(<< >>, e) /\ Append(<< >>, e)[1] = e
  OBVIOUS
<1> QED BY <1>1 DEF Coming

-----------------------------------------------------------------------------
(* The socket a tab has open: its handler is subscribed, sends nothing     *)
(* before the hello snapshot, and has its lease when it pumps.             *)
Seated ==
  conn # Nobody =>
    /\ socket[conn].pc \in {"subscribed", "live"} /\ socket[conn].queue # NoRow
    /\ socket[conn].pc = "subscribed" => socket[conn].wire = << >>
    /\ socket[conn].pc = "live" => socket[conn].lease = "held"

(* What the hub remembers as published, a live tab has heard of.           *)
PublishedHeard ==
  /\ published \in Seq(Nat)
  /\ \A n \in Elements(published) : n <= Len(Book) /\ (Live => Heard(n))

(* A watcher has seen no head but the journal's or an older one, and is    *)
(* about to publish only for a row its baseline does not cover.            *)
LookedBy(w) ==
  /\ w.seen # NoRow => w.seen <= JournalHead
  /\ w.tick = "publish" => JournalHead # 0 /\ (w.after # NoRow => w.after < JournalHead)
  /\ w.failures # 0 => "publish" \in faults

Looked == \A w \in Sockets : LookedBy(watcher[w])

(* Once the watcher of a live tab has seen the head, the tab has heard of  *)
(* it, unless the watcher is about to publish it.                          *)
Caught(w) == w.tick = "idle" /\ w.seen = JournalHead

HeadHeard ==
  Live /\ socket[conn].watcher # Nobody /\ Caught(watcher[socket[conn].watcher])
    => Heard(JournalHead)

(* A tab that is not ready has asked for the document, or the next frame   *)
(* of its socket is one that makes it ready.                               *)
Answered ==
  /\ tab.phase = "starting" => fetch = Off
  /\ tab.phase # "ready" => tab.seq <= tab.min
  /\ fetch \notin {Off, Asked} => fetch.kind = "whole"
  /\ Live /\ tab.phase # "ready" /\ fetch = Off /\ "request" \notin faults =>
       /\ socket[conn].wire # << >>
       /\ Head(socket[conn].wire).kind = "whole" /\ tab.min <= Head(socket[conn].wire).seq

HearInv ==
  RowsInv /\ LeaseInv /\ Seated /\ PublishedHeard /\ Looked /\ HeadHeard /\ Answered

LEMMA InitHears == Init => HearInv
<1> SUFFICES ASSUME Init PROVE HearInv
  OBVIOUS
<1>1. RowsInv /\ LeaseInv
  BY InitRows, InitLeases
<1>2. Seated /\ ~Live /\ HeadHeard
  BY DEF Init, Seated, Live, HeadHeard
<1>3. PublishedHeard
  BY DEF Init, PublishedHeard, Elements
<1>4. Looked
  BY DEF Init, Looked, LookedBy, NoWatcher
<1>5. Answered
  BY <1>2 DEF Init, Answered, Starting
<1> QED BY <1>1, <1>2, <1>3, <1>4, <1>5 DEF HearInv

(* What the invariant says of the types, in one place.                     *)
LEMMA HearTypes ==
  ASSUME HearInv
  PROVE  /\ conn \in Sockets \cup {Nobody} /\ Nobody \notin Sockets
         /\ socket \in SocketsOf(Sound) /\ \A k \in Sockets : socket[k] \in SocketOf(Sound)
         /\ tab \in Tabs /\ tab.seq \in Nat /\ tab.min \in Nat
         /\ fetch \in Sound \cup {Off, Asked} /\ reply \in Sound \cup {NoRow}
         /\ poll \in PollsOf(Sound) /\ Sound \subseteq Events
         /\ watcher \in [Sockets -> Watchers] /\ entry \in Sockets \cup {Nobody}
         /\ Book \in Seq(Nat) /\ Len(Book) \in Nat /\ JournalHead \in Nat
         /\ JournalHead <= Len(Book) /\ NoRow \notin Nat
         /\ Ledger /\ SeenInv
<1>1. SeenInv /\ ClaimInv /\ WatchTyped /\ Ledger
  BY DEF HearInv, RowsInv, LeaseInv, ClaimInv
<1>2. Book \in Seq(Nat) /\ Len(Book) \in Nat /\ JournalHead \in Nat /\ JournalHead <= Len(Book)
  BY <1>1, BookHas DEF JournalHead, Extends
<1>3. tab \in Tabs /\ Sound \subseteq Events
  BY <1>1 DEF ClaimInv, Truthful, Sound
<1>4. tab.seq \in Nat /\ tab.min \in Nat
  BY <1>3 DEF Tabs
<1>5. Nobody \notin Sockets /\ NoRow \notin Nat
  BY FeedAssumption
<1>6. /\ conn \in Sockets \cup {Nobody} /\ socket \in SocketsOf(Sound)
      /\ fetch \in Sound \cup {Off, Asked} /\ reply \in Sound \cup {NoRow}
      /\ poll \in PollsOf(Sound)
  BY <1>1 DEF ClaimInv, Flight
<1>7. \A k \in Sockets : socket[k] \in SocketOf(Sound)
  BY <1>6 DEF SocketsOf
<1> QED BY <1>1, <1>2, <1>3, <1>4, <1>5, <1>6, <1>7 DEF WatchTyped

-----------------------------------------------------------------------------
(* Heads and rows only grow, and faults are not taken back.                *)
Onward ==
  /\ Len(Book') \in Nat /\ JournalHead' \in Nat
  /\ Len(Book) <= Len(Book') /\ JournalHead <= JournalHead' /\ faults \subseteq faults'

(* A step after which the tab is not live, or still is on the same socket, *)
(* with the same watcher, and has heard of all it had heard of.            *)
Remembers ==
  Live' => /\ Live /\ conn' = conn /\ socket'[conn].watcher = socket[conn].watcher
           /\ \A n \in Nat : Heard(n) => Heard(n)'

LEMMA GoesOnward ==
  ASSUME HearInv, [Next]_vars, "notice" \notin Faults
  PROVE  Onward /\ RowsInv' /\ LeaseInv'
<1>1. RowsInv' /\ Extends(Book, Book') /\ Extends(journal, journal') /\ LeaseInv'
  BY RowsKept, LeasesKept DEF HearInv
<1>2. Len(Book') \in Nat /\ JournalHead' \in Nat
  <2>1. SeenInv' /\ Ledger'
    BY <1>1 DEF RowsInv, LeaseInv, ClaimInv
  <2>2. JournalHead' \in Nat /\ journal' \in Seq(Nat) /\ Recovered' \in Seq(Nat)
    BY <2>1, RecoveredExtends, RecoversAfter
  <2>3. Unlocked' \/ open'.event.v \in Nat
    BY <2>1 DEF SeenInv, SectionOpen, Ledger
  <2>4. Book' \in Seq(Nat)
    BY <2>2, <2>3 DEF Book
  <2> QED BY <2>2, <2>4
<1>3. faults \subseteq faults'
  BY DEF Next, Write, Submit, SubmitElsewhere, SaveUnannounced, Announce, StaySilent, Commit,
         Rollback, Watch, Tick, PublishHead, PublishFails, Acquire, AcquireFails, Release, Join,
         Serve, Connect, Hello, Pump, Leave, Gone, React, Deliver, TakeReply, ServeFetch,
         TakeFetch, LoseFetch, PollRead, ServePoll, TakePoll, LosePoll, Drop, Restart, vars,
         trouble, Fault, LoseConnection
<1> QED BY <1>1, <1>2, <1>3 DEF Onward, Extends, JournalHead

(* A watcher that does not look again is at an older head once the head    *)
(* has moved.                                                              *)
SameLook(w) ==
  /\ watcher'[w].seen = watcher[w].seen /\ watcher'[w].after = watcher[w].after
  /\ watcher'[w].tick = watcher[w].tick /\ watcher'[w].failures = watcher[w].failures

LEMMA StaysLooked ==
  ASSUME HearInv, Onward, NEW w \in Sockets, SameLook(w)
  PROVE  /\ LookedBy(watcher[w])'
         /\ Caught(watcher[w])' => Caught(watcher[w]) /\ JournalHead' = JournalHead
<1>1. LookedBy(watcher[w]) /\ watcher[w] \in Watchers /\ JournalHead \in Nat /\ NoRow \notin Nat
  BY HearTypes DEF HearInv, Looked
<1>2. /\ watcher[w].seen \in Nat \cup {NoRow} /\ watcher[w].after \in Nat \cup {NoRow}
      /\ JournalHead' \in Nat /\ JournalHead <= JournalHead' /\ faults \subseteq faults'
  BY <1>1 DEF Watchers, Onward
<1>3. LookedBy(watcher[w])'
  BY <1>1, <1>2 DEF LookedBy, SameLook
<1>4. Caught(watcher[w])' => Caught(watcher[w]) /\ JournalHead' = JournalHead
  BY <1>1, <1>2 DEF LookedBy, Caught, SameLook
<1> QED BY <1>3, <1>4

(* What was published stays heard of by a tab that forgets nothing.        *)
LEMMA KeepsPublished ==
  ASSUME HearInv, Onward, Remembers, published' \in {published, << >>}
  PROVE  PublishedHeard'
<1>1. PublishedHeard
  BY DEF HearInv
<1>2. Elements(published') \subseteq Elements(published) /\ published' \in Seq(Nat)
  <2>1. Elements(<< >>) = {} /\ << >> \in Seq(Nat)
    BY DEF Elements
  <2> QED BY <1>1, <2>1 DEF PublishedHeard
<1>3. Elements(published) \subseteq Nat
  BY <1>1 DEF PublishedHeard, Elements
<1> SUFFICES ASSUME NEW n \in Elements(published')
             PROVE  n <= Len(Book') /\ (Live' => Heard(n)')
  BY <1>2 DEF PublishedHeard
<1>4. n \in Nat /\ n <= Len(Book) /\ (Live => Heard(n))
  BY <1>1, <1>2, <1>3 DEF PublishedHeard
<1> QED BY <1>4, HearTypes DEF Onward, Remembers

(* No watcher looks, and the tab forgets nothing.                          *)
LEMMA KeepsHead ==
  ASSUME HearInv, Onward, Remembers, \A w \in Sockets : SameLook(w)
  PROVE  Looked' /\ HeadHeard'
<1>1. HeadHeard
  BY DEF HearInv
<1>2. /\ JournalHead \in Nat /\ conn \in Sockets \cup {Nobody}
      /\ \A k \in Sockets : socket[k] \in SocketOf(Sound)
  BY HearTypes
<1>3. Looked'
  BY StaysLooked DEF Looked
<1>4. HeadHeard'
  <2> SUFFICES ASSUME Live', socket'[conn'].watcher # Nobody,
                      Caught(watcher[socket[conn].watcher])'
               PROVE  Heard(JournalHead)'
    BY DEF HeadHeard, Caught, Live, Heard
  <2> DEFINE w == socket[conn].watcher
  <2>1. Live /\ conn' = conn /\ socket'[conn].watcher = w
    BY DEF Remembers
  <2>2. conn \in Sockets /\ w \in Sockets
    BY <1>2, <2>1 DEF Live, SocketOf
  <2>3. Caught(watcher[w]) /\ JournalHead' = JournalHead
    BY <2>1, <2>2, StaysLooked DEF Caught
  <2>4. Heard(JournalHead)
    BY <1>1, <2>1, <2>3 DEF HeadHeard
  <2> QED BY <1>2, <2>3, <2>4 DEF Remembers, Heard
<1> QED BY <1>3, <1>4

-----------------------------------------------------------------------------
(* Steps that leave the tab alone, and of its socket at most the queue,    *)
(* which grows or is replaced by its marker, and a lease still to come.    *)
CarriedOver(k) ==
  /\ socket'[k].pc = socket[k].pc /\ socket'[k].wire = socket[k].wire
  /\ socket'[k].queue # NoRow
  /\ \A n \in Nat : Coming(socket[k].queue, n) => Coming(socket'[k].queue, n)
  /\ socket[k].pc = "live" => /\ socket'[k].lease = socket[k].lease
                              /\ socket'[k].watcher = socket[k].watcher

Calm ==
  /\ UNCHANGED <<conn, tab, fetch>> /\ faults \subseteq faults'
  /\ conn # Nobody => CarriedOver(conn)

LEMMA CalmKeeps ==
  ASSUME HearInv, Calm
  PROVE  Seated' /\ Answered' /\ Remembers
<1>1. Seated /\ Answered
  BY DEF HearInv
<1>2. Live' <=> Live
  BY DEF Calm, Live, CarriedOver
<1>3. Seated'
  BY <1>1 DEF Calm, CarriedOver, Seated
<1>4. Answered'
  BY <1>1, <1>2 DEF Calm, CarriedOver, Answered, Live
<1>5. ASSUME Live, NEW n \in Nat, Heard(n) PROVE Heard(n)'
  BY <1>5 DEF Calm, CarriedOver, Heard, Live
<1>6. Live => socket'[conn].watcher = socket[conn].watcher
  BY DEF Calm, CarriedOver, Live
<1> QED BY <1>2, <1>3, <1>4, <1>5, <1>6 DEF Remembers, Calm

LEMMA SameIsCalm ==
  ASSUME HearInv, UNCHANGED <<conn, tab, fetch>>, faults \subseteq faults',
         conn # Nobody => socket'[conn] = socket[conn]
  PROVE  Calm
BY DEF HearInv, Seated, Calm, CarriedOver

(* A publish reaches the queue of the tab's socket, which has nothing      *)
(* newer.                                                                  *)
LEMMA PublishTells ==
  ASSUME HearInv, Onward, NEW e \in Sound, NEW seqs \in Seq(Nat), Publish(e, seqs),
         Len(Book) <= e.seq, e.seq <= Len(Book'), \A n \in Elements(seqs) : n <= e.seq,
         UNCHANGED <<conn, tab, fetch>>
  PROVE  /\ Calm /\ PublishedHeard'
         /\ \A n \in Nat : Live' /\ n <= e.seq => Heard(n)'
<1>1. /\ PublishedHeard /\ Seated /\ Len(Book) \in Nat /\ Nobody \notin Sockets
      /\ conn \in Sockets \cup {Nobody} /\ e \in Events /\ SeenInv /\ e.seq \in Nat
  BY HearTypes DEF HearInv, Events
<1>2. ASSUME conn # Nobody
      PROVE  /\ CarriedOver(conn)
             /\ \A n \in Nat : n <= e.seq => Coming(socket'[conn].queue, n)
  <2> DEFINE q == socket[conn].queue
  <2>1. Flight(SoundUpTo(Len(Book)))
    BY <1>1, BookHas DEF SeenInv, WithinReach
  <2>2. conn \in Sockets /\ socket[conn] \in SocketOf(SoundUpTo(Len(Book)))
    BY <1>1, <1>2, <2>1 DEF Flight, SocketsOf
  <2>3. q # NoRow /\ q \in Seq(SoundUpTo(Len(Book)))
    BY <1>1, <1>2, <2>2 DEF Seated, SocketOf
  <2>4. /\ Put(q, e) \in Seq(Events)
        /\ \A n \in Nat : Coming(q, n) \/ n <= e.seq => Coming(Put(q, e), n)
    BY <1>1, <2>3, PutComes
  <2>5. socket'[conn] = [socket[conn] EXCEPT !.queue = Put(q, e)]
    BY <2>2, <2>3 DEF Publish, Listening
  <2> DEFINE p == Put(q, e)
  <2>6. p # NoRow
    BY <2>4, FeedMarkers
  <2> HIDE DEF p
  <2>7. /\ socket'[conn].pc = socket[conn].pc /\ socket'[conn].wire = socket[conn].wire
        /\ socket'[conn].lease = socket[conn].lease
        /\ socket'[conn].watcher = socket[conn].watcher /\ socket'[conn].queue = p
    BY <2>2, <2>5 DEF SocketOf, p
  <2> QED BY <2>4, <2>6, <2>7 DEF CarriedOver, p
<1>3. Calm
  BY <1>2 DEF Calm, Onward
<1>4. Remembers
  BY <1>3, CalmKeeps
<1>5. ASSUME NEW n \in Nat, Live', n <= e.seq PROVE Heard(n)'
  BY <1>2, <1>5 DEF Heard, Live
<1>6. /\ published' \in Seq(Nat)
      /\ Elements(published') \subseteq Elements(published) \cup Elements(seqs)
  BY <1>1, RememberingHas DEF Publish, PublishedHeard
<1>7. Elements(published) \subseteq Nat /\ Elements(seqs) \subseteq Nat
  BY <1>1 DEF PublishedHeard, Elements
<1>8. PublishedHeard'
  <2> SUFFICES ASSUME NEW n \in Elements(published')
               PROVE  n <= Len(Book') /\ (Live' => Heard(n)')
    BY <1>6 DEF PublishedHeard
  <2>1. CASE n \in Elements(published)
    <3>1. n \in Nat /\ n <= Len(Book) /\ (Live => Heard(n))
      BY <1>1, <1>7, <2>1 DEF PublishedHeard
    <3> QED BY <1>1, <1>4, <3>1 DEF Onward, Remembers
  <2>2. CASE n \in Elements(seqs)
    <3>1. n \in Nat /\ n <= e.seq
      BY <1>7, <2>2
    <3> QED BY <1>1, <1>5, <3>1 DEF Onward
  <2> QED BY <1>6, <2>1, <2>2
<1> QED BY <1>3, <1>5, <1>8

(* What every step has to keep of what a tab hears.                        *)
HearsOn == Seated' /\ PublishedHeard' /\ Looked' /\ HeadHeard' /\ Answered'

LEMMA CalmHearsOn ==
  ASSUME HearInv, Onward, Calm, UNCHANGED watcher, published' \in {published, << >>}
  PROVE  HearsOn
BY CalmKeeps, KeepsPublished, KeepsHead DEF HearsOn, SameLook

(* A section publishes its row before anybody can find it in the journal;  *)
(* what another process writes is left to the watcher.                     *)
LEMMA WriteHearsOn ==
  ASSUME HearInv, Onward, Write
  PROVE  HearsOn
<1>1. UNCHANGED <<conn, tab, fetch, watcher>>
  BY DEF Write, Submit, SubmitElsewhere, SaveUnannounced, Announce, StaySilent, Commit, Rollback,
         client, bridge
<1>2. Ledger /\ SeenInv /\ Len(Book) \in Nat
  BY HearTypes
<1>3. ASSUME NEW e \in Sound, NEW what \in {"command", "notice"}, NEW mine \in BOOLEAN,
             Publish(e, <<e.seq>>), Unlocked, journal' = Recovered,
             open' = [what |-> what, event |-> e, mine |-> mine],
             e.seq = Len(Recovered) + 1
      PROVE  HearsOn
  <2>1. e \in Events /\ e.v \in Nat /\ e.seq \in Nat
    BY DEF Sound, Events
  <2>2. Book = Recovered /\ Book' = Append(Book, e.v)
    BY <1>2, <1>3, <2>1, SectionsOpen
  <2>3. Len(Book') = Len(Book) + 1 /\ Len(Book) = Len(Recovered)
    <3>1. Book \in Seq(Nat)
      BY HearTypes
    <3> QED BY <2>1, <2>2, <3>1
  <2>4. <<e.seq>> \in Seq(Nat) /\ \A n \in Elements(<<e.seq>>) : n <= e.seq
    BY <2>1 DEF Elements
  <2>5. Calm /\ PublishedHeard'
    <3>1. Len(Book) <= e.seq /\ e.seq <= Len(Book')
      BY <1>2, <1>3, <2>3
    <3>2. PICK seqs \in Seq(Nat) : Publish(e, seqs) /\ \A n \in Elements(seqs) : n <= e.seq
      BY <1>3, <2>4
    <3> QED BY <1>1, <3>1, <3>2, PublishTells
  <2> QED BY <1>1, <2>5, CalmKeeps, KeepsHead DEF HearsOn, SameLook
<1>4. ASSUME NEW kind \in Kinds, NEW mine \in BOOLEAN, Submit(kind, mine)
      PROVE  HearsOn
  <2>1. Command(kind) \in Sound /\ Command(kind).seq = Len(Recovered) + 1
    BY <1>2, SectionsAreSound
  <2>2. /\ Publish(Command(kind), <<Command(kind).seq>>) /\ Unlocked /\ journal' = Recovered
        /\ open' = [what |-> "command", event |-> Command(kind), mine |-> mine]
    BY <1>4 DEF Submit, Command
  <2> QED BY <1>3, <2>1, <2>2
<1>5. ASSUME NEW kind \in {"whole", "comments"}, Announce(kind)
      PROVE  HearsOn
  <2> DEFINE e == IF kind = "whole" THEN Changed ELSE Comments
  <2>1. /\ Publish(e, <<e.seq>>) /\ Unlocked /\ journal' = Recovered /\ notice # NoRow
        /\ open' = [what |-> "notice", event |-> e, mine |-> FALSE]
    BY <1>5 DEF Announce, Changed, Comments
  <2>2. e \in Sound /\ e.seq = Len(Recovered) + 1
    BY <1>2, <2>1, SectionsAreSound
  <2> HIDE DEF e
  <2> QED BY <1>3, <2>1, <2>2
<1>6. CASE (\E dies \in BOOLEAN : SubmitElsewhere(dies)) \/ SaveUnannounced \/ StaySilent
           \/ Commit \/ Rollback
  <2>1. UNCHANGED <<socket, published>>
    BY <1>6 DEF SubmitElsewhere, SaveUnannounced, StaySilent, Commit, Rollback
  <2>2. Calm
    BY <1>1, <2>1, SameIsCalm DEF Onward
  <2> QED BY <1>1, <2>1, <2>2, CalmHearsOn
<1> QED BY <1>4, <1>5, <1>6 DEF Write

-----------------------------------------------------------------------------
(* The watcher's thread.  It sees a head only when it has published it, or *)
(* is about to, or finds it published; when publishing fails it goes back. *)
LEMMA TickHearsOn ==
  ASSUME HearInv, Onward, NEW w \in Sockets, Tick(w)
  PROVE  HearsOn
<1> DEFINE v == watcher[w]
           unpublished == Unpublished(v.seen, JournalHead)
<1>1. /\ UNCHANGED <<conn, tab, fetch, published, socket, journal>> /\ JournalHead' = JournalHead
  BY DEF Tick, server, client, JournalHead
<1>2. /\ JournalHead \in Nat /\ watcher \in [Sockets -> Watchers] /\ NoRow \notin Nat
      /\ conn \in Sockets \cup {Nobody} /\ \A k \in Sockets : socket[k] \in SocketOf(Sound)
      /\ tab.seq \in Nat
  BY HearTypes
<1>3. v \in Watchers /\ v.seen \in Nat \cup {NoRow} /\ LookedBy(v) /\ v.seen # JournalHead
      /\ v.tick = "idle"
  BY <1>2 DEF Watchers, HearInv, Looked, Tick
<1>4. v.seen # NoRow => v.seen < JournalHead
  BY <1>2, <1>3 DEF LookedBy
<1>5. /\ \A x \in Sockets : x # w => watcher'[x] = watcher[x]
      /\ watcher'[w].seen = JournalHead /\ watcher'[w].failures = v.failures
      /\ \/ unpublished = << >> /\ watcher'[w].tick = v.tick /\ watcher'[w].after = v.after
         \/ unpublished # << >> /\ watcher'[w].tick = "publish" /\ watcher'[w].after = v.seen
  BY <1>2 DEF Tick, Watchers
<1>6. JournalHead = 0 => unpublished = << >>
  BY DEF Unpublished
<1> HIDE DEF unpublished
<1>7. Calm
  BY <1>1, SameIsCalm DEF Onward
<1>8. Seated' /\ Answered' /\ PublishedHeard' /\ Remembers
  BY <1>1, <1>7, CalmKeeps, KeepsPublished
<1>9. Looked'
  <2> SUFFICES ASSUME NEW x \in Sockets PROVE LookedBy(watcher[x])'
    BY DEF Looked
  <2>1. CASE x # w
    BY <1>5, <2>1, StaysLooked DEF SameLook
  <2>2. CASE x = w
    BY <1>1, <1>2, <1>3, <1>4, <1>5, <1>6, <2>2 DEF LookedBy, Onward
  <2> QED BY <2>1, <2>2
<1>10. HeadHeard'
  <2> SUFFICES ASSUME Live', socket'[conn'].watcher # Nobody,
                      Caught(watcher[socket[conn].watcher])'
               PROVE  Heard(JournalHead)'
    BY DEF HeadHeard, Caught, Live, Heard
  <2> DEFINE x == socket[conn].watcher
  <2>1. Live /\ conn \in Sockets /\ x \in Sockets /\ Caught(watcher[x])'
    BY <1>1, <1>2 DEF Live, SocketOf, Caught
  <2>2. Heard(JournalHead)
    <3>1. CASE x # w
      BY <1>1, <1>5, <2>1, <3>1 DEF Caught, HearInv, HeadHeard
    <3>2. CASE x = w
      <4>1. unpublished = << >>
        BY <1>1, <1>5, <2>1, <3>2 DEF Caught
      <4>2. JournalHead = 0 \/ JournalHead \in Elements(published)
        BY <1>2, <1>3, <1>4, <4>1, UnpublishedHas DEF unpublished
      <4> QED BY <1>2, <2>1, <4>2 DEF Heard, Tells, HearInv, PublishedHeard
    <3> QED BY <3>1, <3>2
  <2> QED BY <1>1, <2>2 DEF Heard
<1> QED BY <1>8, <1>9, <1>10 DEF HearsOn

(* The rows are looked for again under the lock: either the tab has heard  *)
(* of the head by now, or it is told of everything up to it.               *)
LEMMA PublishHeadHearsOn ==
  ASSUME HearInv, Onward, NEW w \in Sockets, PublishHead(w)
  PROVE  HearsOn
<1> DEFINE v == watcher[w]
<1>1. /\ UNCHANGED <<conn, tab, fetch>> /\ Unlocked /\ v.tick = "publish"
  BY DEF PublishHead, client
<1>2. /\ JournalHead \in Nat /\ watcher \in [Sockets -> Watchers] /\ NoRow \notin Nat
      /\ conn \in Sockets \cup {Nobody} /\ \A k \in Sockets : socket[k] \in SocketOf(Sound)
      /\ Book = Recovered /\ Len(Book) \in Nat /\ Ledger /\ JournalHead <= Len(Book)
  BY <1>1, HearTypes DEF Book
<1>3. v \in Watchers /\ v.after \in Nat \cup {NoRow} /\ LookedBy(v)
  BY <1>2 DEF Watchers, HearInv, Looked
<1>4. /\ \A x \in Sockets : x # w => watcher'[x] = watcher[x]
      /\ watcher'[w].seen = v.seen /\ watcher'[w].failures = 0
      /\ watcher'[w].tick = "idle"
  BY <1>2 DEF PublishHead, Idle, Watchers
<1>5. Looked'
  <2> SUFFICES ASSUME NEW x \in Sockets PROVE LookedBy(watcher[x])'
    BY DEF Looked
  <2>1. CASE x # w
    BY <1>4, <2>1, StaysLooked DEF SameLook
  <2>2. CASE x = w
    <3>1. v.seen \in Nat \cup {NoRow}
      BY <1>3 DEF Watchers
    <3> QED BY <1>2, <1>3, <1>4, <2>2, <3>1 DEF LookedBy, Onward
  <2> QED BY <2>1, <2>2
<1>6. CASE Unpublished(v.after, JournalHead) = << >>
  <2>1. UNCHANGED <<journal, published, socket>> /\ JournalHead' = JournalHead
    BY <1>6 DEF PublishHead, JournalHead
  <2>2. Calm
    BY <1>1, <2>1, SameIsCalm DEF Onward
  <2>3. Seated' /\ Answered' /\ PublishedHeard' /\ Remembers
    BY <2>1, <2>2, CalmKeeps, KeepsPublished
  <2>4. JournalHead \in Elements(published)
    BY <1>1, <1>2, <1>3, <1>6, UnpublishedHas DEF LookedBy
  <2>5. Live => Heard(JournalHead)
    BY <2>4 DEF HearInv, PublishedHeard
  <2>6. HeadHeard'
    BY <1>1, <2>1, <2>5 DEF HeadHeard, Heard, Live
  <2> QED BY <1>5, <2>3, <2>6 DEF HearsOn
<1>7. CASE Unpublished(v.after, JournalHead) # << >>
  <2>1. PICK seqs : seqs = Unpublished(v.after, Len(Recovered))
    OBVIOUS
  <2>2. journal' = Recovered /\ Publish(Snapshot, seqs)
    BY <1>7, <2>1 DEF PublishHead, Snapshot
  <2>3. seqs \in Seq(Nat) /\ \A n \in Elements(seqs) : n <= Len(Recovered)
    BY <1>2, <1>3, <2>1, UnpublishedHas
  <2>4. Snapshot \in Sound /\ Snapshot.seq = Len(Recovered)
    BY <1>2, SectionsAreSound
  <2>5. /\ Calm /\ PublishedHeard'
        /\ \A n \in Nat : Live' /\ n <= Snapshot.seq => Heard(n)'
    <3>1. Len(Book) <= Snapshot.seq /\ Snapshot.seq <= Len(Book')
      BY <1>2, <2>4 DEF Onward
    <3> QED BY <1>1, <2>2, <2>3, <2>4, <3>1, PublishTells
  <2>6. Seated' /\ Answered'
    BY <2>5, CalmKeeps
  <2>7. JournalHead' = Len(Recovered)
    BY <2>2 DEF JournalHead
  <2>8. \A n \in Nat : Live' /\ n <= JournalHead' => Heard(n)'
    BY <2>4, <2>5, <2>7
  <2>9. JournalHead' \in Nat
    BY DEF Onward
  <2>10. HeadHeard'
    BY <2>8, <2>9 DEF HeadHeard, Heard
  <2> QED BY <1>5, <2>5, <2>6, <2>10 DEF HearsOn
<1> QED BY <1>6, <1>7

(* The cursor goes back to before the head.                                *)
LEMMA PublishFailsHearsOn ==
  ASSUME HearInv, Onward, NEW w \in Sockets, PublishFails(w), Attempts >= 2
  PROVE  HearsOn
<1> DEFINE v == watcher[w]
<1>1. /\ UNCHANGED <<conn, tab, fetch, published, socket, journal>> /\ JournalHead' = JournalHead
      /\ "publish" \notin faults /\ "publish" \in faults' /\ v.tick = "publish"
  BY DEF PublishFails, server, client, JournalHead, Fault
<1>2. /\ JournalHead \in Nat /\ watcher \in [Sockets -> Watchers] /\ NoRow \notin Nat
      /\ conn \in Sockets \cup {Nobody} /\ \A k \in Sockets : socket[k] \in SocketOf(Sound)
  BY HearTypes
<1>3. v \in Watchers /\ LookedBy(v) /\ v.after \in Nat \cup {NoRow} /\ v.failures \in Nat
  BY <1>2 DEF Watchers, HearInv, Looked
<1>4. v.failures = 0 /\ v.failures + 1 < Attempts
  BY <1>1, <1>3, FeedAssumption DEF LookedBy
<1>5. /\ \A x \in Sockets : x # w => watcher'[x] = watcher[x]
      /\ watcher'[w].seen = v.after /\ watcher'[w].tick = "idle"
  BY <1>2, <1>4 DEF PublishFails, Idle, Watchers
<1>6. Calm
  BY <1>1, SameIsCalm DEF Onward
<1>7. Seated' /\ Answered' /\ PublishedHeard' /\ Remembers
  BY <1>1, <1>6, CalmKeeps, KeepsPublished
<1>8. v.after # NoRow => v.after < JournalHead
  BY <1>1, <1>3 DEF LookedBy
<1>9. Looked'
  <2> SUFFICES ASSUME NEW x \in Sockets PROVE LookedBy(watcher[x])'
    BY DEF Looked
  <2>1. CASE x # w
    BY <1>5, <2>1, StaysLooked DEF SameLook
  <2>2. CASE x = w
    BY <1>1, <1>2, <1>3, <1>5, <1>8, <2>2 DEF LookedBy
  <2> QED BY <2>1, <2>2
<1>10. HeadHeard'
  <2> SUFFICES ASSUME Live', socket'[conn'].watcher # Nobody,
                      Caught(watcher[socket[conn].watcher])'
               PROVE  Heard(JournalHead)'
    BY DEF HeadHeard, Caught, Live, Heard
  <2> DEFINE x == socket[conn].watcher
  <2>1. Live /\ conn \in Sockets /\ x \in Sockets /\ Caught(watcher[x])'
    BY <1>1, <1>2 DEF Live, SocketOf, Caught
  <2>2. x # w
    BY <1>1, <1>2, <1>3, <1>5, <1>8, <2>1 DEF Caught
  <2>3. Heard(JournalHead)
    BY <1>1, <1>5, <2>1, <2>2 DEF Caught, HearInv, HeadHeard
  <2> QED BY <1>1, <2>3 DEF Heard
<1> QED BY <1>7, <1>9, <1>10 DEF HearsOn

-----------------------------------------------------------------------------
(* Leases.  Nobody takes or lets go the one of a live tab, and its watcher *)
(* is neither started anew nor reset.                                      *)
LEMMA AcquireHearsOn ==
  ASSUME HearInv, Onward, NEW k \in Sockets, Acquire(k) \/ AcquireFails(k)
  PROVE  HearsOn
<1>1. /\ UNCHANGED <<conn, tab, fetch, published, journal>> /\ JournalHead' = JournalHead
      /\ socket[k].lease = "asked"
      /\ \E x : socket' = [socket EXCEPT ![k].lease = "held", ![k].watcher = x]
  BY DEF Acquire, AcquireFails, server, client, JournalHead
<1>2. /\ JournalHead \in Nat /\ watcher \in [Sockets -> Watchers] /\ Nobody \notin Sockets
      /\ conn \in Sockets \cup {Nobody} /\ socket \in SocketsOf(Sound)
      /\ \A l \in Sockets : socket[l] \in SocketOf(Sound)
  BY HearTypes
<1>3. Live => conn # k /\ conn \in Sockets
  BY <1>1, <1>2 DEF HearInv, Seated, Live
<1>4. /\ \A l \in Sockets : l # k => socket'[l] = socket[l]
      /\ socket'[k].pc = socket[k].pc /\ socket'[k].queue = socket[k].queue
      /\ socket'[k].wire = socket[k].wire
  BY <1>1, <1>2 DEF SocketsOf, SocketOf
<1>5. Calm
  <2>1. conn # Nobody => CarriedOver(conn)
    <3>1. CASE conn = k
      BY <1>2, <1>3, <1>4, <3>1 DEF CarriedOver, HearInv, Seated, Live
    <3>2. CASE conn # k
      BY <1>2, <1>4, <3>2 DEF CarriedOver, HearInv, Seated
    <3> QED BY <3>1, <3>2
  <2> QED BY <1>1, <2>1 DEF Calm, Onward
<1>6. Seated' /\ Answered' /\ PublishedHeard' /\ Remembers
  BY <1>1, <1>5, CalmKeeps, KeepsPublished
<1>7. CASE UNCHANGED watcher
  BY <1>6, <1>7, KeepsHead DEF HearsOn, SameLook
<1>8. CASE entry # Nobody /\ Acquire(k)
  <2>1. watcher' = [watcher EXCEPT ![entry].refs = @ + 1] /\ entry \in Sockets
    BY <1>8 DEF Acquire
  <2>2. \A x \in Sockets : /\ watcher'[x].seen = watcher[x].seen
                           /\ watcher'[x].tick = watcher[x].tick
                           /\ watcher'[x].after = watcher[x].after
                           /\ watcher'[x].failures = watcher[x].failures
    BY <1>2, <2>1 DEF Watchers
  <2> QED BY <1>6, <2>2, KeepsHead DEF HearsOn, SameLook
<1>9. CASE entry = Nobody /\ Acquire(k)
  <2>1. PICK w \in Sockets, seen \in {JournalHead, NoRow} :
          watcher' = [watcher EXCEPT ![w] =
                        [watcher[w] EXCEPT !.refs = 1, !.state = "running", !.seen = seen]]
    BY <1>9 DEF Acquire
  <2>2. /\ \A x \in Sockets : x # w => watcher'[x] = watcher[x]
        /\ watcher'[w].seen = seen /\ watcher'[w].tick = watcher[w].tick
        /\ watcher'[w].after = watcher[w].after
        /\ watcher'[w].failures = watcher[w].failures
    BY <1>2, <2>1 DEF Watchers
  <2>3. Looked'
    <3> SUFFICES ASSUME NEW x \in Sockets PROVE LookedBy(watcher[x])'
      BY DEF Looked
    <3>1. CASE x # w
      BY <2>2, <3>1, StaysLooked DEF SameLook
    <3>2. CASE x = w
      <4>1. LookedBy(watcher[w])
        BY DEF HearInv, Looked
      <4> QED BY <1>1, <1>2, <2>2, <3>2, <4>1 DEF LookedBy, Onward
    <3> QED BY <3>1, <3>2
  <2>4. Live => socket[conn].watcher \notin Sockets
    BY <1>2, <1>3, <1>9 DEF HearInv, LeaseInv, OneWatched, Holds, Seated, Live
  <2>5. Live => socket[conn].watcher = Nobody
    BY <1>2, <1>3, <2>4 DEF SocketOf
  <2>6. HeadHeard'
    BY <1>6, <2>5 DEF HeadHeard, Remembers
  <2> QED BY <1>6, <2>3, <2>6 DEF HearsOn
<1> QED BY <1>7, <1>8, <1>9 DEF AcquireFails, bridge

(* Only sockets the tab has left let go of a lease, and the watcher they   *)
(* wait for is another one's no more.                                      *)
LEMMA LetGoHearsOn ==
  ASSUME HearInv, Onward, NEW k \in Sockets, Release(k) \/ Join(k)
  PROVE  HearsOn
<1> DEFINE w == socket[k].watcher
<1>1. /\ UNCHANGED <<conn, tab, fetch, published, journal>> /\ JournalHead' = JournalHead
      /\ \/ socket[k].pc = "left" /\ Release(k)
         \/ socket[k].lease = "joining" /\ Join(k)
      /\ \E x : socket' = [socket EXCEPT ![k].lease = x]
  BY DEF Release, Join, server, client, JournalHead
<1>2. /\ JournalHead \in Nat /\ watcher \in [Sockets -> Watchers] /\ Nobody \notin Sockets
      /\ conn \in Sockets \cup {Nobody} /\ socket \in SocketsOf(Sound) /\ NoRow \notin Nat
      /\ \A l \in Sockets : socket[l] \in SocketOf(Sound)
  BY HearTypes
<1>3. Live => conn # k /\ conn \in Sockets
  BY <1>1, <1>2 DEF HearInv, Seated, Live
<1>4. /\ \A l \in Sockets : l # k => socket'[l] = socket[l]
      /\ socket'[k].pc = socket[k].pc /\ socket'[k].queue = socket[k].queue
      /\ socket'[k].wire = socket[k].wire
  BY <1>1, <1>2 DEF SocketsOf, SocketOf
<1>5. Calm
  <2>1. conn # Nobody => CarriedOver(conn)
    <3>1. CASE conn = k
      BY <1>2, <1>3, <1>4, <3>1 DEF CarriedOver, HearInv, Seated, Live
    <3>2. CASE conn # k
      BY <1>2, <1>4, <3>2 DEF CarriedOver, HearInv, Seated
    <3> QED BY <3>1, <3>2
  <2> QED BY <1>1, <2>1 DEF Calm, Onward
<1>6. Seated' /\ Answered' /\ PublishedHeard' /\ Remembers
  BY <1>1, <1>5, CalmKeeps, KeepsPublished
<1>7. CASE Release(k)
  <2>1. watcher' = [x \in Sockets |-> IF x # w \/ x # entry THEN watcher[x] ELSE
             [watcher[x] EXCEPT !.refs = @ - 1,
                                !.state = IF w # Nobody /\ entry = w /\ watcher[w].refs = 1
                                          THEN "stopping" ELSE @]]
    BY <1>7 DEF Release
  <2>2. \A x \in Sockets : /\ watcher'[x].seen = watcher[x].seen
                           /\ watcher'[x].tick = watcher[x].tick
                           /\ watcher'[x].after = watcher[x].after
                           /\ watcher'[x].failures = watcher[x].failures
    BY <1>2, <2>1 DEF Watchers
  <2> QED BY <1>6, <2>2, KeepsHead DEF HearsOn, SameLook
<1>8. CASE socket[k].lease = "joining" /\ Join(k)
  <2>1. watcher' = [watcher EXCEPT ![w] = NoWatcher]
    BY <1>8 DEF Join
  <2>2. /\ \A x \in Sockets : x # w => watcher'[x] = watcher[x]
        /\ w \in Sockets => watcher'[w] = NoWatcher
    BY <1>2, <2>1
  <2>3. Looked'
    <3> SUFFICES ASSUME NEW x \in Sockets PROVE LookedBy(watcher[x])'
      BY DEF Looked
    <3>1. CASE x # w
      BY <2>2, <3>1, StaysLooked DEF SameLook
    <3>2. CASE x = w
      BY <2>2, <3>2 DEF LookedBy, NoWatcher
    <3> QED BY <3>1, <3>2
  <2>4. ASSUME Live, socket[conn].watcher \in Sockets PROVE socket[conn].watcher # w
    <3>1. socket[conn].watcher = entry /\ watcher[entry].state = "running"
      BY <1>3, <2>4, <1>2 DEF HearInv, LeaseInv, OneWatched, Holds, Seated, Live
    <3>2. w \in Sockets => watcher[w].state = "stopping"
      BY <1>8 DEF HearInv, LeaseInv, OneJoins, Joins
    <3> QED BY <2>4, <3>1, <3>2
  <2>5. HeadHeard'
    <3> SUFFICES ASSUME Live', socket'[conn'].watcher # Nobody,
                        Caught(watcher[socket[conn].watcher])'
                 PROVE  Heard(JournalHead)'
      BY DEF HeadHeard, Caught, Live, Heard
    <3> DEFINE x == socket[conn].watcher
    <3>1. Live /\ conn' = conn /\ socket'[conn].watcher = x
      BY <1>6 DEF Remembers
    <3>2. x \in Sockets /\ conn \in Sockets
      BY <1>2, <1>3, <3>1 DEF SocketOf
    <3>3. watcher'[x] = watcher[x]
      BY <2>2, <2>4, <3>1, <3>2
    <3>4. Caught(watcher[x])
      BY <1>1, <3>1, <3>3 DEF Caught
    <3>5. Heard(JournalHead)
      BY <1>2, <3>1, <3>2, <3>4 DEF HearInv, HeadHeard
    <3> QED BY <1>1, <1>2, <1>6, <3>5 DEF Remembers, Heard
  <2> QED BY <1>6, <2>3, <2>5 DEF HearsOn
<1> QED BY <1>1, <1>7, <1>8

-----------------------------------------------------------------------------
(* The socket.  The hello snapshot has every row the hub published before  *)
(* the handler subscribed; the pump moves an event on.                     *)
LEMMA HelloHearsOn ==
  ASSUME HearInv, Onward, NEW k \in Sockets, Hello(k)
  PROVE  HearsOn
<1>1. /\ UNCHANGED <<conn, tab, fetch, published, watcher>> /\ journal' = Recovered
      /\ Unlocked /\ conn = k /\ socket[k].pc = "subscribed" /\ socket[k].lease = "held"
  BY DEF Hello, bridge, client
<1>2. /\ JournalHead \in Nat /\ Nobody \notin Sockets /\ Ledger /\ SeenInv
      /\ socket \in SocketsOf(Sound) /\ \A l \in Sockets : socket[l] \in SocketOf(Sound)
      /\ Book = Recovered /\ Len(Book) \in Nat /\ Sound \subseteq Events
      /\ tab.seq \in Nat /\ tab.min \in Nat
  BY <1>1, HearTypes DEF Book
<1>3. /\ Snapshot \in Sound /\ Snapshot.seq = Len(Book) /\ Snapshot.kind = "whole"
      /\ Snapshot \in Events
  BY <1>2, SectionsAreSound DEF Snapshot, Whole, Event
<1>4. socket[k].wire = << >> /\ socket[k].queue # NoRow
  BY <1>1, <1>2 DEF HearInv, Seated
<1>5. /\ socket'[k].pc = "live" /\ socket'[k].wire = Append(<< >>, Snapshot)
      /\ socket'[k].lease = "held" /\ socket'[k].queue = socket[k].queue
  BY <1>1, <1>2, <1>4 DEF Hello, SocketsOf, SocketOf
<1>6. /\ socket'[k].wire # << >> /\ Head(socket'[k].wire) = Snapshot
      /\ \A n \in Nat : n <= Len(Book) => Coming(socket'[k].wire, n)
  BY <1>3, <1>5, LoneComes
<1>7. \A n \in Nat : n <= Len(Book) => Heard(n)'
  BY <1>1, <1>6 DEF Heard
<1>8. Seated'
  BY <1>1, <1>4, <1>5 DEF Seated
<1>9. PublishedHeard'
  <2>1. published \in Seq(Nat) /\ Elements(published) \subseteq Nat
        /\ \A n \in Elements(published) : n <= Len(Book)
    BY DEF HearInv, PublishedHeard, Elements
  <2>2. \A n \in Elements(published) : n <= Len(Book')
    BY <1>2, <2>1 DEF Onward
  <2> QED BY <1>1, <1>7, <2>1, <2>2 DEF PublishedHeard, Heard
<1>10. Looked'
  BY <1>1, StaysLooked DEF Looked, SameLook
<1>11. HeadHeard'
  <2>1. JournalHead' = Len(Book)
    BY <1>1, <1>2 DEF JournalHead
  <2> QED BY <1>2, <1>7, <2>1 DEF HeadHeard, Heard
<1>12. Answered'
  <2>1. tab.min <= Len(Book)
    BY <1>2, BookHas DEF SeenInv, WithinReach, Told
  <2>2. Answered
    BY DEF HearInv
  <2> QED BY <1>1, <1>3, <1>6, <2>1, <2>2 DEF Answered, Live
<1> QED BY <1>8, <1>9, <1>10, <1>11, <1>12 DEF HearsOn

(* An event the pump takes from the queue is on the wire.                  *)
LEMMA PumpHearsOn ==
  ASSUME HearInv, Onward, NEW k \in Sockets, Pump(k)
  PROVE  HearsOn
<1> DEFINE q == socket[k].queue
<1>1. /\ UNCHANGED <<conn, tab, fetch, published, watcher>>
      /\ conn = k /\ socket[k].pc = "live" /\ socket[k].wire = << >>
      /\ q # NoRow /\ q # << >>
  BY DEF Pump, bridge, client
<1>2. /\ socket \in SocketsOf(Sound) /\ socket[k] \in SocketOf(Sound) /\ Nobody \notin Sockets
      /\ Seq(Sound) \subseteq Seq(Events)
  BY HearTypes
<1>3. q \in Seq(Events)
  BY <1>1, <1>2 DEF SocketOf
<1>4. /\ Head(q) \in Events /\ Tail(q) \in Seq(Events)
      /\ \A n : Coming(q, n) => n <= Head(q).seq \/ Coming(Tail(q), n)
  BY <1>1, <1>3, HeadComes
<1>5. socket' = [socket EXCEPT ![k].queue = Tail(q),
                               ![k].wire = Append(socket[k].wire, Head(q))]
  BY DEF Pump
<1> HIDE DEF q
<1>6. /\ socket'[k].queue = Tail(q) /\ socket'[k].wire = Append(<< >>, Head(q))
      /\ socket'[k].pc = "live" /\ socket'[k].lease = socket[k].lease
      /\ socket'[k].watcher = socket[k].watcher
  BY <1>1, <1>2, <1>5 DEF SocketsOf, SocketOf
<1>7. Tail(q) # NoRow
  BY <1>4, FeedMarkers
<1>8. Seated'
  BY <1>1, <1>2, <1>6, <1>7 DEF Seated, HearInv
<1>9. Live /\ Live'
  BY <1>1, <1>2, <1>6 DEF Live
<1>10. ASSUME NEW n \in Nat, Heard(n) PROVE Heard(n)'
  <2>1. CASE Tells(tab, n)
    BY <1>1, <2>1 DEF Heard
  <2>2. CASE Coming(q, n)
    <3>1. Coming(Tail(q), n) \/ Coming(Append(<< >>, Head(q)), n)
      BY <1>4, <2>2, LoneComes
    <3> QED BY <1>1, <1>6, <3>1 DEF Heard
  <2>3. ~Coming(socket[conn].wire, n)
    BY <1>1, <1>4, LoneComes
  <2> QED BY <1>1, <1>10, <2>1, <2>2, <2>3 DEF Heard, q
<1>11. Remembers
  BY <1>1, <1>6, <1>9, <1>10 DEF Remembers
<1>12. Answered'
  <2>1. Answered
    BY DEF HearInv
  <2>2. ~(tab.phase # "ready" /\ fetch = Off /\ "request" \notin faults)
    BY <1>1, <1>9, <2>1 DEF Answered
  <2> QED BY <1>1, <2>1, <2>2 DEF Answered, Onward
<1> QED BY <1>1, <1>8, <1>11, <1>12, KeepsPublished, KeepsHead DEF HearsOn, SameLook

LEMMA ServeHearsOn ==
  ASSUME HearInv, Onward, Serve
  PROVE  HearsOn
<1>1. PICK k \in Sockets : Connect(k) \/ Hello(k) \/ Pump(k) \/ Leave(k) \/ Gone(k)
  BY DEF Serve
<1>2. UNCHANGED <<tab, fetch, watcher>> /\ published' \in {published, << >>}
  BY <1>1 DEF Connect, Hello, Pump, Leave, Gone, bridge, client
<1>3. /\ socket \in SocketsOf(Sound) /\ socket[k] \in SocketOf(Sound) /\ Nobody \notin Sockets
      /\ conn \in Sockets \cup {Nobody}
  BY HearTypes
<1>4. CASE Connect(k)
  <2>1. /\ conn' = k /\ socket'[k].pc = "subscribed" /\ socket'[k].wire = << >>
        /\ socket'[k].queue = << >>
    BY <1>3, <1>4 DEF Connect, NoSocket, SocketsOf, SocketOf
  <2>2. << >> # NoRow
    <3>1. << >> \in Seq(Events)
      OBVIOUS
    <3> QED BY <3>1, FeedMarkers
  <2>3. Seated' /\ ~Live'
    BY <2>1, <2>2 DEF Seated, Live
  <2>4. Answered'
    BY <1>2, <2>3 DEF HearInv, Answered
  <2>5. Remembers
    BY <2>3 DEF Remembers
  <2> QED BY <1>2, <2>3, <2>4, <2>5, KeepsPublished, KeepsHead DEF HearsOn, SameLook
<1>5. CASE Leave(k) \/ Gone(k)
  <2>1. conn' = conn /\ conn # k
    BY <1>3, <1>5 DEF Leave, Gone, client, HearInv, Seated
  <2>2. conn # Nobody => socket'[conn] = socket[conn]
    BY <1>3, <1>5, <2>1 DEF Leave, Gone, SocketsOf
  <2>3. Calm
    BY <1>2, <2>1, <2>2, SameIsCalm DEF Onward
  <2> QED BY <1>2, <2>3, CalmHearsOn
<1> QED BY <1>1, <1>4, <1>5, HelloHearsOn, PumpHearsOn

-----------------------------------------------------------------------------
(* The tab.  What it takes it keeps: it has shown that seq, or asks for a  *)
(* document at least as new.                                               *)
LEMMA ReceiveHearsOn ==
  ASSUME HearInv, Onward, NEW e \in Sound, Receive(e), UNCHANGED <<conn, published, watcher>>,
         \/ UNCHANGED socket
         \/ /\ conn # Nobody /\ socket[conn].wire # << >> /\ e = Head(socket[conn].wire)
            /\ socket' = [socket EXCEPT ![conn].wire = Tail(@)]
  PROVE  HearsOn
<1>1. /\ socket \in SocketsOf(Sound) /\ \A k \in Sockets : socket[k] \in SocketOf(Sound)
      /\ conn \in Sockets \cup {Nobody} /\ tab \in Tabs /\ Seq(Sound) \subseteq Seq(Events)
      /\ fetch \in Sound \cup {Off, Asked} /\ Seated /\ Answered
  BY HearTypes DEF HearInv
<1>2. tab' = Applied(tab, e)
  BY DEF Receive
<1>3. \A n \in Nat : Tells(tab, n) \/ n <= e.seq => Tells(tab', n)
  BY <1>1, <1>2, AppliesTold
<1>4. ASSUME conn # Nobody
      PROVE  /\ socket'[conn].pc = socket[conn].pc /\ socket'[conn].queue = socket[conn].queue
             /\ socket'[conn].lease = socket[conn].lease
             /\ socket'[conn].watcher = socket[conn].watcher
             /\ \/ socket'[conn].wire = socket[conn].wire
                \/ /\ socket[conn].wire # << >> /\ e = Head(socket[conn].wire)
                   /\ socket'[conn].wire = Tail(socket[conn].wire)
  BY <1>1, <1>4 DEF SocketsOf, SocketOf
<1>5. Live' <=> Live
  BY <1>4 DEF Live
<1>6. Seated'
  BY <1>1, <1>4 DEF Seated
<1>7. ASSUME Live, NEW n \in Nat, Heard(n) PROVE Heard(n)'
  <2>1. conn # Nobody /\ conn' = conn
    BY <1>7 DEF Live
  <2>2. CASE Tells(tab, n) \/ n <= e.seq
    BY <1>3, <2>2 DEF Heard
  <2>3. CASE Coming(socket[conn].queue, n)
    BY <1>4, <2>1, <2>3 DEF Heard
  <2>4. CASE Coming(socket[conn].wire, n)
    <3>1. CASE socket'[conn].wire = socket[conn].wire
      BY <2>1, <2>4, <3>1 DEF Heard
    <3>2. CASE /\ socket[conn].wire # << >> /\ e = Head(socket[conn].wire)
               /\ socket'[conn].wire = Tail(socket[conn].wire)
      <4>1. socket[conn].wire \in Seq(Events)
        BY <1>1, <2>1 DEF SocketOf
      <4>2. n <= e.seq \/ Coming(socket'[conn].wire, n)
        BY <2>4, <3>2, <4>1, HeadComes
      <4> QED BY <2>1, <2>2, <4>2 DEF Heard
    <3> QED BY <1>4, <2>1, <3>1, <3>2
  <2> QED BY <1>7, <2>2, <2>3, <2>4 DEF Heard
<1>8. Remembers
  BY <1>4, <1>5, <1>7 DEF Remembers, Live
<1>9. Answered'
  <2>1. /\ tab'.phase # "ready" => tab'.seq <= tab'.min
        /\ tab'.phase # "ready" => tab' = tab \/ (Invalidates(tab, e) /\ tab'.phase = "recovering")
        /\ e.kind = "whole" /\ tab.phase # "ready" /\ tab.min <= e.seq => tab'.phase = "ready"
    BY <1>1, <1>2, AppliesAnswers DEF Answered
  <2>2. Invalidates(tab, e) => tab'.phase = "recovering"
    BY <1>1, <1>2 DEF Applied, Invalidates, Recovering, Tabs
  <2>3. fetch' = IF Invalidates(tab, e) /\ fetch = Off THEN Asked ELSE fetch
    BY DEF Receive
  <2>4. Off # Asked
    BY FeedMarkers
  <2>5. tab'.phase = "starting" => fetch' = Off
    BY <1>1, <2>1, <2>2, <2>3 DEF Answered
  <2>6. fetch' \notin {Off, Asked} => fetch'.kind = "whole"
    BY <1>1, <2>3 DEF Answered
  <2>7. ASSUME Live', tab'.phase # "ready", fetch' = Off, "request" \notin faults'
        PROVE  /\ socket'[conn'].wire # << >>
               /\ Head(socket'[conn'].wire).kind = "whole"
               /\ tab'.min <= Head(socket'[conn'].wire).seq
    <3>1. ~Invalidates(tab, e) /\ fetch = Off /\ tab' = tab
      BY <2>1, <2>3, <2>4, <2>7
    <3>2. Live /\ "request" \notin faults /\ conn # Nobody /\ conn' = conn
      BY <1>5, <2>7 DEF Onward, Live
    <3>3. /\ socket[conn].wire # << >> /\ Head(socket[conn].wire).kind = "whole"
          /\ tab.min <= Head(socket[conn].wire).seq
      BY <1>1, <2>7, <3>1, <3>2 DEF Answered
    <3>4. socket'[conn].wire = socket[conn].wire
      BY <1>4, <2>1, <2>7, <3>1, <3>2, <3>3
    <3> QED BY <3>1, <3>2, <3>3, <3>4
  <2> QED BY <2>1, <2>5, <2>6, <2>7 DEF Answered
<1> QED BY <1>6, <1>8, <1>9, KeepsPublished, KeepsHead DEF HearsOn, SameLook

(* The recovery's request is answered with a whole project, and ends with  *)
(* a tab that is ready or with another request.                            *)
LEMMA FetchHearsOn ==
  ASSUME HearInv, Onward, ServeFetch \/ TakeFetch \/ LoseFetch
  PROVE  HearsOn
<1>1. UNCHANGED <<conn, socket, published, watcher>>
  BY DEF ServeFetch, TakeFetch, LoseFetch, bridge
<1>2. /\ tab \in Tabs /\ tab.min \in Nat /\ Answered /\ Seated /\ Ledger
      /\ fetch \in Sound \cup {Off, Asked} /\ Off \notin Events /\ Asked \notin Events
      /\ Off # Asked /\ Sound \subseteq Events
  BY HearTypes, FeedMarkers DEF HearInv
<1>3. Seated' /\ (Live' <=> Live)
  BY <1>1, <1>2 DEF Seated, Live
<1>4. CASE ServeFetch
  <2>1. fetch = Asked /\ fetch' = Snapshot /\ tab' = tab
    BY <1>4 DEF ServeFetch
  <2>2. Snapshot.kind = "whole" /\ Snapshot \in Events
    BY <1>2, SectionsAreSound DEF Snapshot, Whole, Event
  <2>3. Answered'
    BY <1>2, <2>1, <2>2 DEF Answered
  <2>4. Remembers
    BY <1>1, <1>3, <2>1 DEF Remembers, Heard
  <2> QED BY <1>1, <1>3, <2>3, <2>4, KeepsPublished, KeepsHead DEF HearsOn, SameLook
<1>5. CASE LoseFetch
  <2>1. fetch = Asked /\ fetch' = Off /\ tab' = tab /\ "request" \in faults'
    BY <1>5 DEF LoseFetch, Fault
  <2>2. Answered'
    BY <1>2, <2>1 DEF Answered
  <2>3. Remembers
    BY <1>1, <1>3, <2>1 DEF Remembers, Heard
  <2> QED BY <1>1, <1>3, <2>2, <2>3, KeepsPublished, KeepsHead DEF HearsOn, SameLook
<1>6. CASE TakeFetch
  <2>1. /\ fetch \in Sound /\ fetch \notin {Off, Asked} /\ fetch.kind = "whole"
        /\ tab.phase # "starting"
    BY <1>2, <1>6 DEF TakeFetch, Answered
  <2>2. \/ tab' = tab /\ tab.phase = "ready" /\ fetch' = Off
        \/ tab' = Applied(tab, fetch) /\ tab'.phase = "ready" /\ fetch' = Off
        \/ tab' = tab /\ tab.phase = "recovering" /\ fetch' = Asked
    <3>1. tab.phase = "recovering" /\ fetch.seq >= tab.min => Applied(tab, fetch).phase = "ready"
      <4>1. fetch.seq \in Nat
        BY <2>1 DEF Sound, Events
      <4> QED BY <1>2, <2>1, <4>1, AppliesAnswers DEF Answered
    <3>2. tab.phase \in {"starting", "ready", "recovering"}
      BY <1>2 DEF Tabs
    <3>3. CASE tab.phase # "recovering"
      BY <1>6, <2>1, <3>2, <3>3 DEF TakeFetch
    <3>4. CASE tab.phase = "recovering" /\ fetch.seq >= tab.min
      <4>1. ~(fetch.seq < tab.min)
        BY <1>2, <2>1, <3>4 DEF Sound, Events
      <4>2. tab' = Applied(tab, fetch) /\ fetch' = Off
        BY <1>6, <3>4, <4>1 DEF TakeFetch
      <4> QED BY <3>1, <3>4, <4>2
    <3>5. CASE tab.phase = "recovering" /\ ~(fetch.seq >= tab.min)
      BY <1>6, <3>5 DEF TakeFetch
    <3> QED BY <3>3, <3>4, <3>5
  <2>3. Answered'
    BY <1>2, <2>2 DEF Answered
  <2>4. \A n \in Nat : Tells(tab, n) => Tells(tab', n)
    BY <1>2, <2>1, <2>2, AppliesTold
  <2>5. Remembers
    BY <1>1, <1>3, <2>4 DEF Remembers, Heard
  <2> QED BY <1>1, <1>3, <2>3, <2>5, KeepsPublished, KeepsHead DEF HearsOn, SameLook
<1> QED BY <1>4, <1>5, <1>6

LEMMA ReactHearsOn ==
  ASSUME HearInv, Onward, React
  PROVE  HearsOn
<1>1. /\ socket \in SocketsOf(Sound) /\ \A k \in Sockets : socket[k] \in SocketOf(Sound)
      /\ conn \in Sockets \cup {Nobody} /\ reply \in Sound \cup {NoRow}
      /\ poll \in PollsOf(Sound)
  BY HearTypes
<1>2. CASE Deliver
  <2>1. /\ Receive(Head(socket[conn].wire)) /\ socket[conn].wire # << >> /\ conn # Nobody
        /\ UNCHANGED <<conn, published, watcher>>
        /\ socket' = [socket EXCEPT ![conn].wire = Tail(@)]
    BY <1>2 DEF Deliver, bridge
  <2>2. Head(socket[conn].wire) \in Sound
    <3>1. socket[conn].wire \in Seq(Sound)
      BY <1>1, <2>1 DEF SocketOf
    <3> QED BY <2>1, <3>1
  <2> QED BY <2>1, <2>2, ReceiveHearsOn
<1>3. CASE TakeReply
  <2>1. reply \in Sound /\ Receive(reply) /\ UNCHANGED <<conn, published, watcher, socket>>
    BY <1>1, <1>3 DEF TakeReply, bridge
  <2> QED BY <2>1, ReceiveHearsOn
<1>4. CASE TakePoll /\ ~AlreadyApplied(poll.ref)
  <2>1. poll.req \in Sound /\ Receive(poll.req) /\ UNCHANGED <<conn, published, watcher, socket>>
    BY <1>1, <1>4 DEF TakePoll, bridge, PollsOf
  <2> QED BY <2>1, ReceiveHearsOn
<1>5. CASE (TakePoll /\ AlreadyApplied(poll.ref)) \/ PollRead \/ ServePoll \/ LosePoll
  <2>1. UNCHANGED <<conn, tab, fetch, published, watcher, socket>>
    BY <1>5 DEF TakePoll, PollRead, ServePoll, LosePoll, bridge
  <2>2. Calm
    BY <2>1, SameIsCalm DEF Onward
  <2> QED BY <2>1, <2>2, CalmHearsOn
<1> QED BY <1>2, <1>3, <1>4, <1>5, FetchHearsOn DEF React

(* After a lost connection nobody is live.                                 *)
LEMMA LossesHearOn ==
  ASSUME HearInv, Onward, Drop \/ Restart
  PROVE  HearsOn
<1>1. conn' = Nobody /\ tab' = tab /\ published' \in {published, << >>}
      /\ (fetch' = fetch \/ (fetch = Asked /\ fetch' = Off))
  BY DEF Drop, Restart
<1>2. Seated' /\ ~Live' /\ Remembers
  BY <1>1 DEF Seated, Live, Remembers
<1>3. Answered'
  BY <1>1, <1>2 DEF HearInv, Answered
<1>4. Looked'
  <2>1. CASE Drop
    BY <2>1, StaysLooked DEF Drop, Looked, SameLook, bridge
  <2>2. CASE Restart
    BY <2>2 DEF Restart, Looked, LookedBy, NoWatcher
  <2> QED BY <2>1, <2>2
<1>5. HeadHeard'
  BY <1>2 DEF HeadHeard
<1> QED BY <1>1, <1>2, <1>3, <1>4, <1>5, KeepsPublished DEF HearsOn

LEMMA HearsKept ==
  ASSUME HearInv, [Next]_vars, "notice" \notin Faults, Attempts >= 2
  PROVE  HearInv'
<1>1. Onward /\ RowsInv' /\ LeaseInv'
  BY GoesOnward
<1>2. CASE UNCHANGED vars
  <2>1. UNCHANGED <<conn, tab, fetch, published, watcher, socket>>
    BY <1>2 DEF vars, bridge, client
  <2>2. HearsOn
    BY <1>1, <2>1, SameIsCalm, CalmHearsOn DEF Onward
  <2> QED BY <1>1, <2>2 DEF HearsOn, HearInv
<1>3. CASE Next
  <2>1. HearsOn
    BY <1>1, <1>3, WriteHearsOn, TickHearsOn, PublishHeadHearsOn, PublishFailsHearsOn,
       AcquireHearsOn, LetGoHearsOn, ServeHearsOn, ReactHearsOn, LossesHearOn DEF Next, Watch
  <2> QED BY <1>1, <2>1 DEF HearsOn, HearInv
<1> QED BY <1>2, <1>3

(* When nothing is on its way to a tab any more, and the watcher of its    *)
(* socket has looked at the head, the tab is ready and shows the change of *)
(* every row: no row of another process is missed, and no event that was   *)
(* dropped, collapsed or overtaken goes unnoticed.  A notification whose   *)
(* row is taken back after it was published leaves a tab ahead of the      *)
(* journal, so none is; and a publish that fails is tried again.           *)
THEOREM QuietTabsMissNothing ==
  ASSUME "notice" \notin Faults, Attempts >= 2
  PROVE  Spec => []QuietTabIsCurrent
<1>1. HearInv /\ [Next]_vars => HearInv'
  BY HearsKept
<1>2. HearInv => QuietTabIsCurrent
  <2> SUFFICES ASSUME HearInv, Quiet PROVE tab.phase = "ready" /\ Rows \subseteq tab.shown
    BY DEF QuietTabIsCurrent
  <2> DEFINE s == socket[conn]
  <2>1. /\ "request" \notin faults /\ Unlocked /\ conn # Nobody /\ fetch = Off /\ s.pc = "live"
        /\ s.queue = << >> /\ s.wire = << >> /\ s.watcher # Nobody
        /\ Caught(watcher[s.watcher]) /\ Live
    BY DEF Quiet, Caught, Live
  <2>2. /\ JournalHead \in Nat /\ Book \in Seq(Nat) /\ tab.seq \in Nat /\ SeenInv
    BY HearTypes
  <2>3. tab.phase = "ready"
    BY <2>1 DEF HearInv, Answered
  <2>4. JournalHead <= tab.seq
    <3>1. Heard(JournalHead)
      BY <2>1 DEF HearInv, HeadHeard
    <3>2. ~Coming(<< >>, JournalHead)
      BY DEF Coming
    <3> QED BY <2>1, <2>3, <3>1, <3>2 DEF Heard, Tells
  <2>5. Extends(journal, Book) /\ journal \in Seq(Nat) /\ Has(tab, Book)
    BY <2>2, BookHas DEF HearInv, RowsInv, RowsAgree
  <2>6. \A i \in DOMAIN journal : journal[i] \in tab.shown
    <3> SUFFICES ASSUME NEW i \in DOMAIN journal PROVE journal[i] \in tab.shown
      OBVIOUS
    <3>1. i \in 1..Len(journal) /\ Len(journal) \in Nat
      BY <2>5
    <3>2. Book[i] = journal[i] /\ i \in 1..tab.seq
      BY <2>2, <2>4, <2>5, <3>1 DEF Extends, JournalHead
    <3> QED BY <2>5, <3>2 DEF Has
  <2> QED BY <2>3, <2>6 DEF Rows
<1> QED BY InitHears, <1>1, <1>2, PTL DEF Spec

-----------------------------------------------------------------------------
(* The bounds of the hub: its memory of seqs, and the queue of a socket.   *)
Bounded ==
  /\ published \in Seq(Nat) /\ Len(published) <= Memory
  /\ \A k \in Sockets : socket[k].queue # NoRow => Len(socket[k].queue) <= Capacity
  /\ faults \subseteq AllFaults /\ drops \in Nat

(* Steps by which no queue grows: each is as it was, one event shorter,    *)
(* new or gone.                                                            *)
Drains ==
  /\ published' = published \/ published' = << >>
  /\ \A k \in Sockets :
       \/ socket'[k].queue \in {socket[k].queue, NoRow, << >>}
       \/ socket[k].queue \notin {NoRow, << >>} /\ socket'[k].queue = Tail(socket[k].queue)

(* The rest of the bounds: what went wrong.                                *)
TroubleKept == faults' \subseteq AllFaults /\ drops' \in Nat

LEMMA DrainingKeepsBounds ==
  ASSUME ClaimInv, Bounded, Drains, TroubleKept
  PROVE  Bounded'
<1>1. published' \in Seq(Nat) /\ Len(published') <= Memory
  <2>1. << >> \in Seq(Nat) /\ Len(<< >>) = 0 /\ Memory \in Nat
    BY FeedAssumption
  <2>2. CASE published' = published
    BY <2>2 DEF Bounded
  <2>3. CASE published' = << >>
    BY <2>1, <2>3
  <2> QED BY <2>2, <2>3 DEF Drains
<1>2. ASSUME NEW k \in Sockets, socket'[k].queue # NoRow
      PROVE  Len(socket'[k].queue) <= Capacity
  <2>1. socket[k].queue = NoRow \/ socket[k].queue \in Seq(Sound)
    BY DEF ClaimInv, Flight, SocketsOf, SocketOf
  <2>2. CASE socket'[k].queue = socket[k].queue
    BY <1>2, <2>2 DEF Bounded
  <2>3. CASE socket'[k].queue = << >>
    BY <2>3, FeedAssumption
  <2>4. CASE /\ socket[k].queue \notin {NoRow, << >>}
             /\ socket'[k].queue = Tail(socket[k].queue)
    <3>1. Len(socket[k].queue) <= Capacity /\ socket[k].queue \in Seq(Sound)
      BY <2>1, <2>4 DEF Bounded
    <3>2. Len(Tail(socket[k].queue)) = Len(socket[k].queue) - 1 /\ Len(socket[k].queue) \in Nat
      BY <2>4, <3>1
    <3> QED BY <2>4, <3>1, <3>2, FeedAssumption
  <2> QED BY <1>2, <2>2, <2>3, <2>4 DEF Drains
<1> QED BY <1>1, <1>2 DEF Bounded, TroubleKept

LEMMA PublishKeepsBounds ==
  ASSUME ClaimInv, Bounded, NEW e, NEW seqs \in Seq(Nat), Publish(e, seqs), TroubleKept
  PROVE  Bounded'
<1>1. published' \in Seq(Nat) /\ Len(published') <= Memory
  BY RememberingHas DEF Publish, Bounded
<1>2. ASSUME NEW k \in Sockets, socket'[k].queue # NoRow
      PROVE  Len(socket'[k].queue) <= Capacity
  <2>1. /\ socket[k] \in SocketOf(Sound)
        /\ socket'[k] = IF k \in Listening
             THEN [socket[k] EXCEPT !.queue = Put(socket[k].queue, e)] ELSE socket[k]
    BY DEF Publish, ClaimInv, Flight, SocketsOf
  <2>2. CASE k \in Listening
    <3> DEFINE q == socket[k].queue
    <3>1. q \in Seq(Sound) /\ socket'[k].queue = Put(q, e)
      BY <2>1, <2>2 DEF Listening, SocketOf
    <3>2. Len(q) \in Nat /\ Capacity \in Nat \ {0}
      BY <3>1, FeedAssumption
    <3>3. CASE Len(q) < Capacity
      <4>1. Len(Append(q, e)) = Len(q) + 1
        BY <3>1
      <4> HIDE DEF q
      <4> QED BY <3>1, <3>2, <3>3, <4>1 DEF Put
    <3>4. CASE ~(Len(q) < Capacity)
      <4> HIDE DEF q
      <4>1. socket'[k].queue = <<[e EXCEPT !.kind = "resync"]>>
        BY <3>1, <3>4 DEF Put
      <4>2. Len(<<[e EXCEPT !.kind = "resync"]>>) = 1
        OBVIOUS
      <4> QED BY <3>2, <4>1, <4>2
    <3> QED BY <3>3, <3>4
  <2>3. CASE k \notin Listening
    BY <1>2, <2>1, <2>3 DEF Listening
  <2> QED BY <2>2, <2>3
<1> QED BY <1>1, <1>2 DEF Bounded, TroubleKept

LEMMA TroubleStays ==
  ASSUME Bounded, [Next]_vars
  PROVE  TroubleKept
<1>1. faults \subseteq AllFaults /\ drops \in Nat /\ Faults \subseteq AllFaults
  BY FeedAssumption DEF Bounded
<1>2. ASSUME NEW what, Fault(what) PROVE TroubleKept
  BY <1>1, <1>2 DEF Fault, TroubleKept
<1>3. CASE LoseConnection
  BY <1>1, <1>3 DEF LoseConnection, TroubleKept
<1>4. CASE UNCHANGED trouble
  BY <1>1, <1>4 DEF trouble, TroubleKept
<1>5. CASE Write
  <2>1. ASSUME NEW dies \in BOOLEAN, SubmitElsewhere(dies) PROVE TroubleKept
    BY <1>2, <1>4, <2>1 DEF SubmitElsewhere
  <2>2. CASE StaySilent \/ Rollback
    BY <1>2, <2>2 DEF StaySilent, Rollback
  <2>3. CASE \/ \E kind \in Kinds, mine \in BOOLEAN : Submit(kind, mine)
             \/ SaveUnannounced \/ Commit
             \/ \E kind \in {"whole", "comments"} : Announce(kind)
    BY <1>4, <2>3 DEF Submit, SaveUnannounced, Commit, Announce
  <2> QED BY <1>5, <2>1, <2>2, <2>3 DEF Write
<1>6. CASE Watch
  <2>1. ASSUME NEW k \in Sockets, Acquire(k) PROVE TroubleKept
    <3>1. \E seen : IF seen = NoRow THEN Fault("baseline") ELSE UNCHANGED trouble
      BY <2>1 DEF Acquire
    <3> QED BY <1>2, <1>4, <3>1
  <2>2. ASSUME NEW k \in Sockets, PublishFails(k) \/ AcquireFails(k) PROVE TroubleKept
    BY <1>2, <2>2 DEF PublishFails, AcquireFails
  <2>3. ASSUME NEW k \in Sockets, Tick(k) \/ PublishHead(k) \/ Release(k) \/ Join(k)
        PROVE  TroubleKept
    BY <1>4, <2>3 DEF Tick, PublishHead, Release, Join
  <2> QED BY <1>6, <2>1, <2>2, <2>3 DEF Watch
<1>7. CASE Serve
  BY <1>4, <1>7 DEF Serve, Connect, Hello, Pump, Leave, Gone
<1>8. CASE React
  <2>1. CASE LoseFetch \/ LosePoll
    BY <1>2, <2>1 DEF LoseFetch, LosePoll
  <2>2. CASE \/ Deliver \/ TakeReply \/ ServeFetch \/ TakeFetch \/ PollRead
             \/ ServePoll \/ TakePoll
    BY <1>4, <2>2 DEF Deliver, TakeReply, ServeFetch, TakeFetch, PollRead, ServePoll, TakePoll
  <2> QED BY <1>8, <2>1, <2>2 DEF React
<1>9. CASE Drop \/ Restart
  BY <1>3, <1>9 DEF Drop, Restart
<1>10. CASE UNCHANGED vars
  BY <1>4, <1>10 DEF vars
<1> QED BY <1>5, <1>6, <1>7, <1>8, <1>9, <1>10 DEF Next

LEMMA BoundsKept ==
  ASSUME LeaseInv, Bounded, [Next]_vars
  PROVE  Bounded'
<1>1. /\ ClaimInv /\ Ledger /\ TroubleKept /\ NoRow \notin Nat
      /\ watcher \in [Sockets -> Watchers] /\ socket \in SocketsOf(Sound)
      /\ \A k \in Sockets : socket[k] \in SocketOf(Sound)
  BY TroubleStays, FeedAssumption DEF LeaseInv, ClaimInv, WatchTyped, Flight, SocketsOf
<1>2. Len(Recovered) \in Nat /\ Len(Recovered) + 1 \in Nat
  BY <1>1, RecoversAtMostOne
<1>3. ASSUME NEW e, e.seq \in Nat, Publish(e, <<e.seq>>) PROVE Bounded'
  <2>1. <<e.seq>> \in Seq(Nat)
    BY <1>3
  <2> QED BY <1>1, <1>3, <2>1, PublishKeepsBounds
<1>4. ASSUME UNCHANGED <<published, socket>> PROVE Bounded'
  BY <1>1, <1>4, DrainingKeepsBounds DEF Drains
<1>5. ASSUME UNCHANGED published, \A k \in Sockets : socket'[k].queue = socket[k].queue
      PROVE  Bounded'
  BY <1>1, <1>5, DrainingKeepsBounds DEF Drains
<1>6. CASE Write
  <2>1. ASSUME NEW kind \in Kinds, NEW mine \in BOOLEAN, Submit(kind, mine) PROVE Bounded'
    <3>1. Publish(Command(kind), <<Command(kind).seq>>)
      BY <2>1 DEF Submit, Command
    <3> QED BY <1>2, <1>3, <3>1 DEF Command, Event
  <2>2. ASSUME NEW kind \in {"whole", "comments"}, Announce(kind) PROVE Bounded'
    <3>1. PICK e : e \in {Changed, Comments} /\ Publish(e, <<e.seq>>)
      BY <2>2 DEF Announce, Changed, Comments
    <3>2. e.seq \in Nat
      BY <1>2, <3>1 DEF Changed, Comments, Whole, Event
    <3> QED BY <1>3, <3>1, <3>2
  <2>3. CASE \/ SaveUnannounced \/ StaySilent \/ Commit \/ Rollback
             \/ \E dies \in BOOLEAN : SubmitElsewhere(dies)
    <3>1. UNCHANGED <<published, socket>>
      BY <2>3 DEF SaveUnannounced, StaySilent, Commit, Rollback, SubmitElsewhere
    <3> QED BY <1>4, <3>1
  <2> QED BY <1>6, <2>1, <2>2, <2>3 DEF Write
<1>7. CASE Watch
  <2>1. ASSUME NEW w \in Sockets, PublishHead(w) PROVE Bounded'
    <3>1. \/ UNCHANGED <<published, socket>>
          \/ Publish(Whole(Len(Recovered), file), Unpublished(watcher[w].after, Len(Recovered)))
      BY <2>1 DEF PublishHead
    <3>2. watcher[w].after \in Nat \cup {NoRow}
      BY <1>1 DEF Watchers
    <3>3. Unpublished(watcher[w].after, Len(Recovered)) \in Seq(Nat)
      BY <1>2, <3>2, UnpublishedHas
    <3> QED BY <1>1, <1>4, <3>1, <3>3, PublishKeepsBounds
  <2>2. ASSUME NEW k \in Sockets, Tick(k) \/ PublishFails(k) PROVE Bounded'
    BY <1>4, <2>2 DEF Tick, PublishFails
  <2>3. ASSUME NEW k \in Sockets, Acquire(k) \/ AcquireFails(k) \/ Release(k) \/ Join(k)
        PROVE  Bounded'
    <3>1. PICK lease, w : \/ socket' = [socket EXCEPT ![k].lease = lease, ![k].watcher = w]
                         \/ socket' = [socket EXCEPT ![k].lease = lease]
      BY <2>3 DEF Acquire, AcquireFails, Release, Join
    <3>2. ASSUME NEW l \in Sockets PROVE socket'[l].queue = socket[l].queue
      <4> DEFINE once == [socket[k] EXCEPT !.lease = lease]
                 both == [once EXCEPT !.watcher = w]
      <4>1. once.queue = socket[k].queue /\ both.queue = socket[k].queue
        BY <1>1 DEF SocketOf
      <4>2. DOMAIN socket = Sockets
        BY <1>1 DEF SocketsOf
      <4>3. \/ socket' = [socket EXCEPT ![k] = both] \/ socket' = [socket EXCEPT ![k] = once]
        BY <3>1, <4>2
      <4> HIDE DEF once, both
      <4> QED BY <4>1, <4>2, <4>3
    <3>3. UNCHANGED published
      BY <2>3 DEF Acquire, AcquireFails, Release, Join
    <3> QED BY <1>5, <3>2, <3>3
  <2> QED BY <1>7, <2>1, <2>2, <2>3 DEF Watch
<1>8. CASE Serve
  <2> SUFFICES ASSUME NEW k \in Sockets,
                      Connect(k) \/ Hello(k) \/ Pump(k) \/ Leave(k) \/ Gone(k)
               PROVE  Bounded'
    BY <1>8 DEF Serve
  <2>1. Drains
    <3>1. CASE Connect(k)
      BY <1>1, <3>1 DEF Connect, Drains, SocketsOf, SocketOf
    <3>2. CASE Hello(k)
      BY <1>1, <3>2 DEF Hello, Drains, SocketsOf, SocketOf
    <3>3. CASE Pump(k)
      BY <1>1, <3>3 DEF Pump, Drains, SocketsOf, SocketOf
    <3>4. CASE Leave(k)
      BY <1>1, <3>4 DEF Leave, Drains, SocketsOf, SocketOf
    <3>5. CASE Gone(k)
      BY <1>1, <3>5 DEF Gone, Drains, SocketsOf, SocketOf, NoSocket
    <3> QED BY <3>1, <3>2, <3>3, <3>4, <3>5
  <2> QED BY <1>1, <2>1, DrainingKeepsBounds
<1>9. CASE React
  <2>1. CASE Deliver
    <3>1. /\ conn \in Sockets /\ UNCHANGED published
          /\ socket' = [socket EXCEPT ![conn].wire = Tail(socket[conn].wire)]
      BY <1>1, <2>1 DEF Deliver, ClaimInv, Flight
    <3>2. \A l \in Sockets : socket'[l].queue = socket[l].queue
      BY <1>1, <3>1 DEF SocketsOf, SocketOf
    <3> QED BY <1>5, <3>1, <3>2
  <2>2. CASE ~Deliver
    <3>1. UNCHANGED <<published, socket>>
      BY <1>9, <2>2 DEF React, TakeReply, ServeFetch, TakeFetch, LoseFetch, PollRead,
                        ServePoll, TakePoll, LosePoll
    <3> QED BY <1>4, <3>1
  <2> QED BY <2>1, <2>2
<1>10. CASE Drop
  <2>1. conn \in Sockets /\ UNCHANGED published /\ socket' = [socket EXCEPT ![conn].wire = << >>]
    BY <1>1, <1>10 DEF Drop, ClaimInv, Flight
  <2>2. \A l \in Sockets : socket'[l].queue = socket[l].queue
    BY <1>1, <2>1 DEF SocketsOf, SocketOf
  <2> QED BY <1>5, <2>1, <2>2
<1>11. CASE Restart
  <2>1. Drains
    BY <1>11 DEF Restart, Drains, NoSocket
  <2> QED BY <1>1, <2>1, DrainingKeepsBounds
<1>12. CASE UNCHANGED vars
  BY <1>4, <1>12 DEF vars
<1> QED BY <1>6, <1>7, <1>8, <1>9, <1>10, <1>11, <1>12 DEF Next

(* The hub never remembers more than _APPLIED_SEQ_MEMORY seqs, no queue of *)
(* a socket holds more than queue_maxsize events, and every variable has   *)
(* its type, however many saves, sockets, losses and faults there are.     *)
THEOREM TypeCorrect == Spec => []TypeOK
<1>1. Init => LeaseInv /\ Bounded
  <2>1. Init => Bounded
    <3>1. << >> \in Seq(Nat) /\ Len(<< >>) = 0 /\ Memory \in Nat
      BY FeedAssumption
    <3> QED BY <3>1 DEF Init, Bounded, NoSocket
  <2> QED BY <2>1, InitLeases
<1>2. LeaseInv /\ Bounded /\ [Next]_vars => (LeaseInv /\ Bounded)'
  BY LeasesKept, BoundsKept
<1>3. LeaseInv /\ Bounded => TypeOK
  <2> SUFFICES ASSUME LeaseInv, Bounded PROVE TypeOK
    OBVIOUS
  <2>1. Ledger /\ Flight(Sound) /\ tab \in Tabs /\ WatchTyped
    BY DEF LeaseInv, ClaimInv, Truthful
  <2>2. Flight(Events)
    BY <2>1, FlightGrows DEF Sound
  <2>3. /\ open = NoRow \/ open \in [what : {"command", "notice"}, event : Events, mine : BOOLEAN]
        /\ socket \in [Sockets -> [pc : {"closed", "subscribed", "live", "left"},
                  queue : Seq(Events) \cup {NoRow}, wire : Seq(Events),
                  lease : {"none", "asked", "held", "joining"},
                  watcher : Sockets \cup {Nobody}]]
        /\ conn \in Sockets \cup {Nobody}
        /\ fetch \in Events \cup {Off, Asked} /\ reply \in Events \cup {NoRow}
        /\ poll \in [ref : [v : Nat, seq : Nat] \cup {NoRow}, req : Events \cup {Off, Asked}]
    BY <2>2 DEF Flight, OpensOf, SocketsOf, SocketOf, PollsOf
  <2>4. /\ file \in Nat /\ journal \in Seq(Nat) /\ notice \in Nat \cup {NoRow}
        /\ saved = NoRow \/ saved \in [v : Nat, base : Nat]
    BY <2>1 DEF Ledger
  <2>5. /\ Len(published) <= Memory /\ published \in Seq(Nat)
        /\ \A k \in Listening : Len(socket[k].queue) <= Capacity
        /\ faults \subseteq AllFaults /\ drops \in Nat
    BY DEF Bounded, Listening
  <2>6. /\ entry \in Sockets \cup {Nobody}
        /\ watcher \in [Sockets -> [state : {"none", "running", "stopping"}, refs : Nat,
                  seen : Nat \cup {NoRow}, tick : {"idle", "publish"},
                  after : Nat \cup {NoRow}, failures : Nat]]
    BY <2>1 DEF WatchTyped, Watchers
  <2>7. tab \in [phase : {"starting", "ready", "recovering"}, min : Nat, seq : Nat,
              token : Nat \cup {NoFile}, file : Nat \cup {NoFile}, shown : SUBSET Nat]
    BY <2>1 DEF Tabs
  <2> QED BY <2>3, <2>4, <2>5, <2>6, <2>7 DEF TypeOK
<1> QED BY <1>1, <1>2, <1>3, PTL DEF Spec
=============================================================================
