------------------------- MODULE RecordSessionProofs -------------------------
(***************************************************************************)
(* Proofs about RecordSession, for any guests, sockets, links and caps: who *)
(* a socket speaks for is connected, the host keeps a seat, and consent    *)
(* governs the open take.                                                  *)
(***************************************************************************)
EXTENDS RecordSession, FiniteSetTheorems, TLAPS

-----------------------------------------------------------------------------
LEMMA TypeInit == Init => TypeOK
<1> SUFFICES ASSUME Init PROVE TypeOK
  OBVIOUS
<1>1. takes \in Seq(Takes) /\ DOMAIN takes = {} /\ ~TakeOpen
  BY DEF Init, TakeOpen
<1>2. roster \in [People -> Person \cup {Absent}]
  BY DEF Init
<1>3. socks \in [Conns -> [at : {"idle", "joined", "released", "leaving"}, who : People]]
  BY DEF Init, Idle, People
<1>4. /\ claims \in [Guests -> Conns \cup {NoConn}]
      /\ leaves \in 0..MaxLeaves /\ restarts \in 0..MaxRestarts
  BY RoomAssumption DEF Init
<1> QED BY <1>1, <1>2, <1>3, <1>4 DEF Init, TypeOK

(* The newest take, while it is open.                                      *)
LEMMA OpenTake ==
  ASSUME TypeOK, TakeOpen
  PROVE  /\ Current \in DOMAIN takes /\ takes[Current] \in Takes
         /\ \A i \in DOMAIN takes : takes[i].open <=> i = Current
BY DEF TypeOK, Current

(* One change to the newest take leaves the others as they were.           *)
LEMMA TakeChanges ==
  ASSUME TypeOK, TakeOpen, NEW t \in Takes, takes' = [takes EXCEPT ![Current] = t]
  PROVE  /\ takes' \in Seq(Takes) /\ DOMAIN takes' = DOMAIN takes /\ Len(takes') = Len(takes)
         /\ takes' # << >> /\ takes'[Current] = t
         /\ \A i \in DOMAIN takes : i # Current => takes'[i] = takes[i]
BY OpenTake DEF TypeOK, Current

LEMMA Joining ==
  ASSUME TypeOK, NEW g \in Guests
  PROVE  (IF OnRoster(g) THEN Returning(g)
          ELSE [connected |-> TRUE, consented |-> "unasked", removed |-> FALSE]) \in Person
BY DEF TypeOK, People, OnRoster, Returning, Person

(* Only somebody on the roster has a Leave to come.                        *)
LeaversListed == \A c \in Conns : socks[c].at = "leaving" => OnRoster(socks[c].who)

LEMMA TypeNext == TypeOK /\ LeaversListed /\ [Next]_vars => TypeOK'
<1> SUFFICES ASSUME TypeOK, LeaversListed, [Next]_vars PROVE TypeOK'
  OBVIOUS
(* the room and its takes stay: the conjuncts that matter *)
<1>t. ASSUME UNCHANGED <<state, takes>>,
             away' \in BOOLEAN, roster' \in [People -> Person \cup {Absent}],
             rows' \subseteq People \X (1..MaxLeaves),
             socks' \in [Conns -> [at : {"idle", "joined", "released", "leaving"}, who : People]],
             claims' \in [Guests -> Conns \cup {NoConn}], tabs' \subseteq Conns,
             leaves' \in 0..MaxLeaves, restarts' \in 0..MaxRestarts
      PROVE  TypeOK'
  BY <1>t DEF TypeOK, TakeOpen, Current
(* the newest take changes, within its phase or to another *)
<1>n. ASSUME TakeOpen, NEW t \in Takes, takes' = [takes EXCEPT ![Current] = t],
             state' \in {"recording", "paused", "stopped"},
             t.open <=> state' # "stopped", t.paused <=> state' = "paused",
             away' \in BOOLEAN, roster' \in [People -> Person \cup {Absent}],
             UNCHANGED rows,
             socks' \in [Conns -> [at : {"idle", "joined", "released", "leaving"}, who : People]],
             tabs' \subseteq Conns, UNCHANGED <<claims, leaves, restarts>>
      PROVE  TypeOK'
  <2>1. \A i \in DOMAIN takes : i # Current => ~takes[i].open /\ ~takes[i].paused
    BY DEF TypeOK
  <2>2. \A i \in DOMAIN takes' :
          /\ takes'[i].open <=> (state' # "stopped" /\ i = Current)
          /\ takes'[i].paused <=> (state' = "paused" /\ i = Current)
    BY <1>n, <2>1, TakeChanges
  <2>3. Current' = Current /\ (TakeOpen' <=> state' # "stopped")
    BY <1>n, TakeChanges DEF Current, TakeOpen
  <2> QED BY <1>n, <2>2, <2>3, TakeChanges DEF TypeOK
<1>1. ASSUME NEW c \in Conns, NEW g \in Guests, JoinGuest(c, g) PROVE TypeOK'
  <2>1. roster' \in [People -> Person \cup {Absent}]
    BY <1>1, Joining DEF JoinGuest, TypeOK, People
  <2>2. /\ socks' \in [Conns -> [at : {"idle", "joined", "released", "leaving"}, who : People]]
        /\ claims' \in [Guests -> Conns \cup {NoConn}]
    BY <1>1 DEF JoinGuest, TypeOK, People
  <2> QED BY <1>1, <1>t, <2>1, <2>2 DEF JoinGuest, TypeOK
<1>2. ASSUME NEW c \in Conns, JoinHost(c) PROVE TypeOK'
  <2>1. roster' \in [People -> Person \cup {Absent}]
    BY <1>2 DEF JoinHost, TypeOK, People, Person
  <2>2. /\ socks' \in [Conns -> [at : {"idle", "joined", "released", "leaving"}, who : People]]
        /\ away' \in BOOLEAN /\ tabs' \subseteq Conns
    BY <1>2 DEF JoinHost, TypeOK, People
  <2>3. CASE UNCHANGED <<state, takes>>
    BY <1>2, <1>t, <2>1, <2>2, <2>3 DEF JoinHost, TypeOK
  <2>4. CASE /\ TakeOpen /\ state = "recording" /\ state' = "paused"
             /\ takes' = [takes EXCEPT ![Current] = Paused(@)]
    <3>1. Paused(takes[Current]) \in Takes
      BY <2>4, OpenTake DEF Paused, Takes
    <3>2. takes[Current].open /\ Paused(takes[Current]).open = takes[Current].open
          /\ Paused(takes[Current]).paused
      BY <2>4, OpenTake DEF Paused, Takes
    <3> QED BY <1>2, <1>n, <2>1, <2>2, <2>4, <3>1, <3>2 DEF JoinHost
  <2> QED BY <1>2, <2>3, <2>4 DEF JoinHost, PausesOnReturn, WasAway
<1>3. ASSUME NEW c \in Conns, RefuseHost(c) PROVE TypeOK'
  BY <1>3, <1>t DEF RefuseHost, local, TypeOK
<1>4. ASSUME NEW c \in Conns, NEW yes \in BOOLEAN, Consent(c, yes) PROVE TypeOK'
  <2> DEFINE p == socks[c].who
  <2>1. p \in People /\ roster[p] \in Person
    BY <1>4 DEF Consent, OnRoster, TypeOK
  <2>2. roster' \in [People -> Person \cup {Absent}]
    BY <1>4, <2>1 DEF Consent, TypeOK, Person
  <2>3. CASE ~TakeOpen
    BY <1>4, <1>t, <2>2, <2>3 DEF Consent, NoteConsent, local, TypeOK
  <2>4. CASE TakeOpen
    <3> DEFINE t == [takes[Current] EXCEPT !.roster = IF yes THEN @ \cup {p} ELSE @ \ {p}]
    <3>1. /\ t \in Takes /\ t.open = takes[Current].open /\ t.paused = takes[Current].paused
          /\ takes' = [takes EXCEPT ![Current] = t]
      BY <1>4, <2>1, <2>4, OpenTake DEF Consent, NoteConsent, Takes
    <3> HIDE DEF t
    <3> QED BY <1>4, <1>n, <2>2, <2>4, <3>1, OpenTake DEF Consent, local, TypeOK, TakeOpen
  <2> QED BY <2>3, <2>4
<1>5. ASSUME NEW c \in Conns, Release(c) PROVE TypeOK'
  BY <1>5, <1>t DEF Release, saved, TypeOK, Idle, People
<1>6. ASSUME NEW c \in Conns, Note(c) PROVE TypeOK'
  BY <1>6, <1>t DEF Note, TypeOK, Idle, People
<1>7. ASSUME NEW c \in Conns, Leave(c) PROVE TypeOK'
  <2>1. roster' \in [People -> Person \cup {Absent}] /\ away' \in BOOLEAN
    <3>1. socks[c].who \in People /\ roster[socks[c].who] \in Person
      BY <1>7 DEF Leave, LeaversListed, OnRoster, TypeOK
    <3>2. [roster[socks[c].who] EXCEPT !.connected = FALSE] \in Person
      BY <3>1 DEF Person
    <3>3. \/ UNCHANGED <<roster, away>>
          \/ /\ roster' = [roster EXCEPT ![socks[c].who] = [@ EXCEPT !.connected = FALSE]]
             /\ away' \in BOOLEAN
      BY <1>7 DEF Leave, Left, TypeOK
    <3> QED BY <3>1, <3>2, <3>3 DEF TypeOK
  <2>2. rows' \subseteq People \X (1..MaxLeaves) /\ leaves' \in 0..MaxLeaves
    <3>1. /\ socks[c].who \in People /\ leaves' = leaves + 1 /\ leaves' \in 1..MaxLeaves
          /\ rows' \subseteq rows \cup {<<socks[c].who, leaves + 1>>}
      BY <1>7, RoomAssumption DEF Leave, TypeOK
    <3>2. <<socks[c].who, leaves + 1>> \in People \X (1..MaxLeaves)
      BY <3>1
    <3> QED BY <3>1, <3>2 DEF TypeOK
  <2>3. socks' \in [Conns -> [at : {"idle", "joined", "released", "leaving"}, who : People]]
    BY <1>7 DEF Leave, TypeOK, Idle, People
  <2> QED BY <1>7, <1>t, <2>1, <2>2, <2>3 DEF Leave, TypeOK
<1>8. CASE Start
  <2>1. /\ takes' = Append(takes, [roster |-> Consenting, paused |-> FALSE, open |-> TRUE])
        /\ [roster |-> Consenting, paused |-> FALSE, open |-> TRUE] \in Takes
        /\ state' = "recording" /\ ~TakeOpen
    BY <1>8 DEF Start, Consenting, Takes, TakeOpen
  <2>2. /\ takes' \in Seq(Takes) /\ takes' # << >> /\ Len(takes') = Len(takes) + 1
        /\ DOMAIN takes' = DOMAIN takes \cup {Len(takes')}
        /\ takes'[Len(takes')].open /\ ~takes'[Len(takes')].paused
        /\ \A i \in DOMAIN takes : takes'[i] = takes[i] /\ i # Len(takes')
    BY <2>1 DEF TypeOK
  <2>3. \A i \in DOMAIN takes : ~takes[i].open /\ ~takes[i].paused
    BY <2>1 DEF TypeOK, TakeOpen
  <2>4. \A i \in DOMAIN takes' : /\ takes'[i].open <=> i = Len(takes')
                                 /\ ~takes'[i].paused
    BY <2>2, <2>3
  <2> QED BY <1>8, <2>1, <2>2, <2>4 DEF Start, local, TypeOK, TakeOpen, Current
<1>9. CASE Pause
  <2>1. TakeOpen /\ takes' = [takes EXCEPT ![Current] = Paused(takes[Current])]
    BY <1>9 DEF Pause, TakeOpen
  <2>2. /\ Paused(takes[Current]) \in Takes
        /\ Paused(takes[Current]).open /\ Paused(takes[Current]).paused
    BY <2>1, OpenTake DEF Paused, Takes
  <2> QED BY <1>9, <1>n, <2>1, <2>2 DEF Pause, local, TypeOK
<1>10. CASE Resume
  <2> DEFINE t == [takes[Current] EXCEPT !.paused = FALSE]
  <2>1. TakeOpen /\ takes' = [takes EXCEPT ![Current] = t]
    BY <1>10 DEF Resume, TakeOpen
  <2>2. t \in Takes /\ t.open /\ ~t.paused
    BY <2>1, OpenTake DEF Takes
  <2> HIDE DEF t
  <2> QED BY <1>10, <1>n, <2>1, <2>2 DEF Resume, local, TypeOK
<1>11. CASE Stop
  <2> DEFINE t == [takes[Current] EXCEPT !.paused = FALSE, !.open = FALSE]
  <2>1. TakeOpen /\ takes' = [takes EXCEPT ![Current] = t]
    BY <1>11, OpenTake DEF Stop, TypeOK
  <2>2. t \in Takes /\ ~t.open /\ ~t.paused
    BY <2>1, OpenTake DEF Takes
  <2> HIDE DEF t
  <2> QED BY <1>11, <1>n, <2>1, <2>2 DEF Stop, local, TypeOK
<1>12. ASSUME NEW p \in People, Remove(p) PROVE TypeOK'
  <2>2. roster' \in [People -> Person \cup {Absent}]
    BY <1>12 DEF Remove, TypeOK, Person
  <2>3. CASE ~TakeOpen
    BY <1>12, <1>t, <2>2, <2>3 DEF Remove, NoteConsent, local, TypeOK
  <2>4. CASE TakeOpen
    <3> DEFINE t == [takes[Current] EXCEPT !.roster = @ \ {p}]
    <3>1. /\ t \in Takes /\ t.open = takes[Current].open /\ t.paused = takes[Current].paused
          /\ takes' = [takes EXCEPT ![Current] = t]
      BY <1>12, <2>4, OpenTake DEF Remove, NoteConsent, Takes
    <3> HIDE DEF t
    <3> QED BY <1>12, <1>n, <2>2, <2>4, <3>1, OpenTake DEF Remove, local, TypeOK, TakeOpen
  <2> QED BY <2>3, <2>4
<1>13. CASE Restart
  <2>1. socks' \in [Conns -> [at : {"idle", "joined", "released", "leaving"}, who : People]]
    BY <1>13 DEF Restart, Idle, People
  <2> QED BY <1>13, <1>t, <2>1, RoomAssumption DEF Restart, saved, TypeOK
<1>14. CASE UNCHANGED vars
  BY <1>14, <1>t DEF vars, saved, local, TypeOK
<1> QED
  BY <1>1, <1>2, <1>3, <1>4, <1>5, <1>6, <1>7, <1>8, <1>9, <1>10, <1>11, <1>12, <1>13, <1>14
     DEF Next, Socket

-----------------------------------------------------------------------------
(* How a step may change the roster: nobody is forgotten, ...              *)
LEMMA NobodyForgotten ==
  ASSUME TypeOK, LeaversListed, [Next]_vars
  PROVE  \A p \in People : OnRoster(p) => OnRoster(p)'
<1> USE DEF OnRoster
<1>t. roster \in [People -> Person \cup {Absent}]
  BY DEF TypeOK
<1>1. ASSUME NEW p \in People, NEW v, v # Absent, roster' = [roster EXCEPT ![p] = v]
      PROVE  \A q \in People : OnRoster(q) => OnRoster(q)'
  BY <1>t, <1>1
<1>2. ASSUME NEW c \in Conns, NEW g \in Guests, JoinGuest(c, g)
      PROVE  \A p \in People : OnRoster(p) => OnRoster(p)'
  BY <1>1, <1>2, Joining, AbsentAssumption DEF JoinGuest, People
<1>3. ASSUME NEW c \in Conns, JoinHost(c)
      PROVE  \A p \in People : OnRoster(p) => OnRoster(p)'
  <2> DEFINE v == [connected |-> TRUE, removed |-> FALSE,
                   consented |-> IF OnRoster(Host) /\ roster[Host].consented = "no"
                                 THEN "no" ELSE "yes"]
  <2>1. v \in Person /\ roster' = [roster EXCEPT ![Host] = v]
    BY <1>3 DEF JoinHost, Person
  <2> HIDE DEF v
  <2> QED BY <1>1, <2>1, AbsentAssumption DEF People
<1>4. ASSUME NEW c \in Conns, NEW yes \in BOOLEAN, Consent(c, yes)
      PROVE  \A p \in People : OnRoster(p) => OnRoster(p)'
  <2>1. /\ socks[c].who \in People /\ roster[socks[c].who] \in Person
        /\ [roster[socks[c].who] EXCEPT !.consented = IF yes THEN "yes" ELSE "no"] \in Person
    BY <1>4 DEF Consent, TypeOK, Person
  <2> QED BY <1>1, <1>4, <2>1, AbsentAssumption DEF Consent
<1>5. ASSUME NEW c \in Conns, Leave(c)
      PROVE  \A p \in People : OnRoster(p) => OnRoster(p)'
  <2>1. /\ socks[c].who \in People /\ roster[socks[c].who] \in Person
        /\ [roster[socks[c].who] EXCEPT !.connected = FALSE] \in Person
    BY <1>5 DEF Leave, LeaversListed, TypeOK, Person
  <2> QED BY <1>1, <1>5, <2>1, AbsentAssumption DEF Leave, Left
<1>6. ASSUME NEW p \in People, Remove(p)
      PROVE  \A q \in People : OnRoster(q) => OnRoster(q)'
  <2>1. PICK v \in Person : roster' = [roster EXCEPT ![p] = v]
    BY <1>6 DEF Remove, Person
  <2> QED BY <1>1, <2>1, AbsentAssumption
<1>7. ASSUME UNCHANGED roster PROVE \A p \in People : OnRoster(p) => OnRoster(p)'
  BY <1>7
<1> QED
  BY <1>2, <1>3, <1>4, <1>5, <1>6, <1>7 DEF Next, Socket, RefuseHost, Release, Note, Start,
     Pause, Resume, Stop, Restart, vars, saved

LEMMA LeaversListedNext ==
  ASSUME TypeOK, LeaversListed, [Next]_vars
  PROVE  LeaversListed'
<1>t. socks \in [Conns -> [at : {"idle", "joined", "released", "leaving"}, who : People]]
  BY DEF TypeOK
<1>1. ASSUME NEW c \in Conns, NEW v, socks' = [socks EXCEPT ![c] = v],
             v.at # "leaving" \/ (v.who \in People /\ OnRoster(v.who))
      PROVE  LeaversListed'
  BY <1>t, <1>1, NobodyForgotten DEF LeaversListed
<1>2. ASSUME UNCHANGED socks PROVE LeaversListed'
  BY <1>t, <1>2, NobodyForgotten DEF LeaversListed
<1>3. ASSUME NEW c \in Conns, Note(c) PROVE LeaversListed'
  BY <1>t, <1>1, <1>3 DEF Note, Idle
<1>4. CASE Restart
  BY <1>4 DEF Restart, LeaversListed, Idle
<1>5. ASSUME NEW c \in Conns,
             (\E g \in Guests : JoinGuest(c, g)) \/ JoinHost(c) \/ Release(c) \/ Leave(c)
      PROVE  LeaversListed'
  BY <1>1, <1>5 DEF JoinGuest, JoinHost, Release, Leave, Idle
<1> QED
  BY <1>2, <1>3, <1>4, <1>5 DEF Next, Socket, RefuseHost, Consent, Start, Pause, Resume, Stop,
     Remove, vars, local

Typed == TypeOK /\ LeaversListed

LEMMA TypedAlways == Spec => []Typed
<1>1. Init => Typed
  BY TypeInit DEF Init, Typed, LeaversListed, Idle
<1>2. Typed /\ [Next]_vars => Typed'
  BY TypeNext, LeaversListedNext DEF Typed
<1> QED BY <1>1, <1>2, PTL DEF Spec

(* Every reachable state of the room is well typed: it is in a take just   *)
(* while its newest take is open, paused just while that take is.          *)
THEOREM TypeCorrect == Spec => []TypeOK
BY TypedAlways, PTL DEF Typed

-----------------------------------------------------------------------------
(* Whoever a socket speaks for is connected: a claim is let go of before   *)
(* the Leave it leads to, and a Leave looks for a newer claim.             *)
LEMMA HolderNext ==
  ASSUME TypeOK, LeaversListed, HolderIsConnected, [Next]_vars
  PROVE  HolderIsConnected'
<1> USE DEF Live, Removed, OnRoster
<1>t. /\ roster \in [People -> Person \cup {Absent}]
      /\ socks \in [Conns -> [at : {"idle", "joined", "released", "leaving"}, who : People]]
      /\ claims \in [Guests -> Conns \cup {NoConn}] /\ NoConn \notin Conns
      /\ Host \notin Guests /\ Absent \notin Person
  BY RoomAssumption, AbsentAssumption DEF TypeOK
(* who holds after the step held before it, or has just joined *)
<1>h. ASSUME \A c \in Conns : Holds(c)' => Holds(c) /\ socks'[c] = socks[c],
             \A p \in People : Live(p) \/ Removed(p) => Live(p)' \/ Removed(p)'
      PROVE  HolderIsConnected'
  BY <1>t, <1>h DEF HolderIsConnected
<1>1. ASSUME NEW c \in Conns, NEW g \in Guests, JoinGuest(c, g) PROVE HolderIsConnected'
  <2>1. /\ roster'[g] \in Person /\ roster'[g].connected /\ ~roster'[g].removed
        /\ \A p \in People \ {g} : roster'[p] = roster[p]
    BY <1>1, <1>t, Joining DEF JoinGuest, People, Returning, Person
  <2>2. /\ socks'[c].who = g
        /\ \A d \in Conns \ {c} : socks'[d] = socks[d] /\ (Holds(d)' => Holds(d))
    BY <1>1, <1>t DEF JoinGuest, Holds
  <2> QED BY <1>t, <2>1, <2>2 DEF HolderIsConnected
<1>2. ASSUME NEW c \in Conns, JoinHost(c) PROVE HolderIsConnected'
  <2> DEFINE v == [connected |-> TRUE, removed |-> FALSE,
                   consented |-> IF OnRoster(Host) /\ roster[Host].consented = "no"
                                 THEN "no" ELSE "yes"]
  <2>0. v \in Person /\ v.connected /\ ~v.removed /\ roster' = [roster EXCEPT ![Host] = v]
    BY <1>2 DEF JoinHost, Person
  <2> HIDE DEF v
  <2>1. /\ roster'[Host] # Absent /\ roster'[Host].connected /\ ~roster'[Host].removed
        /\ \A p \in People \ {Host} : roster'[p] = roster[p]
    BY <2>0, <1>t DEF People
  <2>2. /\ socks'[c].who = Host
        /\ \A d \in Conns \ {c} : socks'[d] = socks[d] /\ (Holds(d)' => Holds(d))
    BY <1>2, <1>t DEF JoinHost, Holds
  <2> QED BY <1>t, <2>1, <2>2 DEF HolderIsConnected
<1>3. ASSUME NEW c \in Conns, NEW yes \in BOOLEAN, Consent(c, yes)
      PROVE  HolderIsConnected'
  <2>1. socks[c].who \in People /\ roster[socks[c].who] \in Person
    BY <1>3, <1>t DEF Consent
  <2>2. /\ roster' = [roster EXCEPT ![socks[c].who].consented = IF yes THEN "yes" ELSE "no"]
        /\ UNCHANGED <<socks, claims, tabs>>
    BY <1>3 DEF Consent, local
  <2>3. [roster[socks[c].who] EXCEPT !.consented = IF yes THEN "yes" ELSE "no"] \in Person
    BY <2>1 DEF Person
  <2>4. \A p \in People : Live(p) \/ Removed(p) => Live(p)' \/ Removed(p)'
    BY <1>t, <2>1, <2>2, <2>3 DEF Person
  <2> QED BY <1>h, <2>2, <2>4 DEF Holds
<1>4. ASSUME NEW c \in Conns, Release(c) PROVE HolderIsConnected'
  <2>1. \A d \in Conns : Holds(d)' => Holds(d) /\ socks'[d] = socks[d]
    <3> SUFFICES ASSUME NEW d \in Conns, Holds(d)' PROVE Holds(d) /\ socks'[d] = socks[d]
      OBVIOUS
    <3>1. d # c
      BY <1>4, <1>t DEF Release, Holds, Idle
    <3>2. socks'[d] = socks[d]
      BY <1>4, <1>t, <3>1 DEF Release
    <3> QED BY <1>4, <1>t, <3>1, <3>2 DEF Release, Holds, People
  <2> QED BY <1>4, <1>h, <2>1 DEF Release, saved
<1>5. ASSUME NEW c \in Conns, Note(c) PROVE HolderIsConnected'
  <2>1. \A d \in Conns : Holds(d)' => Holds(d) /\ socks'[d] = socks[d]
    BY <1>5, <1>t DEF Note, Holds, Idle
  <2> QED BY <1>5, <1>h, <2>1 DEF Note
<1>6. ASSUME NEW c \in Conns, Leave(c) PROVE HolderIsConnected'
  <2> DEFINE who == socks[c].who
  <2>1. \A d \in Conns : Holds(d)' => Holds(d) /\ socks'[d] = socks[d]
    BY <1>6, <1>t DEF Leave, Holds, Idle
  <2>2. CASE UNCHANGED roster
    BY <1>h, <2>1, <2>2
  <2>3. CASE ~Held(who) /\ roster' = [roster EXCEPT ![who].connected = FALSE]
    <3>1. who \in People /\ \A d \in Conns : Holds(d) => socks[d].who # who
      BY <1>6, <1>t, <2>3 DEF Held, Holds
    <3>2. \A p \in People \ {who} : roster'[p] = roster[p]
      BY <1>t, <2>3
    <3> QED BY <1>t, <2>1, <3>1, <3>2 DEF HolderIsConnected
  <2> QED BY <1>6, <2>2, <2>3 DEF Leave, Left
<1>7. ASSUME NEW p \in People, Remove(p) PROVE HolderIsConnected'
  <2>1. /\ roster'[p].removed /\ roster'[p] \in Person
        /\ \A q \in People \ {p} : roster'[q] = roster[q]
    BY <1>7, <1>t DEF Remove, Person
  <2>2. \A q \in People : Live(q) \/ Removed(q) => Live(q)' \/ Removed(q)'
    BY <1>t, <2>1
  <2>3. \A c \in Conns : Holds(c)' => Holds(c) /\ socks'[c] = socks[c]
    BY <1>7 DEF Remove, local, Holds
  <2> QED BY <1>h, <2>2, <2>3
<1>8. CASE Restart
  BY <1>8 DEF Restart, Holds, Idle, HolderIsConnected
<1>9. CASE \/ Start \/ Pause \/ Resume \/ Stop \/ UNCHANGED vars
           \/ \E c \in Conns : RefuseHost(c)
  <2>1. UNCHANGED <<roster, socks, claims, tabs>>
    BY <1>9 DEF Start, Pause, Resume, Stop, RefuseHost, vars, saved, local
  <2> QED BY <1>h, <2>1 DEF Holds
<1> QED
  BY <1>1, <1>2, <1>3, <1>4, <1>5, <1>6, <1>7, <1>8, <1>9 DEF Next, Socket

(* A Leave, however late it is applied, never takes off somebody for whom  *)
(* a socket speaks again: for any sockets that come, go and come back.     *)
THEOREM HolderConnected == Spec => []HolderIsConnected
<1>1. Init => HolderIsConnected
  BY DEF Init, HolderIsConnected, Holds, Idle
<1>2. Typed /\ HolderIsConnected /\ [Next]_vars => HolderIsConnected'
  BY HolderNext DEF Typed
<1> QED BY <1>1, <1>2, TypedAlways, PTL DEF Spec

-----------------------------------------------------------------------------
(* The host's seat.  Guests who are live never fill the room, whether the  *)
(* host is there or not.                                                   *)
LiveGuests == {g \in Guests : Live(g)}

SeatInv == IsFiniteSet(LiveGuests) /\ Cardinality(LiveGuests) < RecordedCap

LEMMA SeatInvInit == Init => SeatInv
<1> SUFFICES ASSUME Init PROVE SeatInv
  OBVIOUS
<1>1. LiveGuests = {}
  BY DEF Init, LiveGuests, Live, OnRoster, People
<1> QED BY <1>1, FS_EmptySet, RoomAssumption DEF SeatInv

LEMMA FewerLive ==
  ASSUME SeatInv, LiveGuests' \subseteq LiveGuests
  PROVE  SeatInv'
BY FS_Subset, FS_CardinalityType, RoomAssumption DEF SeatInv

(* A guest who was not live takes a seat only if one is left besides the   *)
(* host's.                                                                 *)
LEMMA GuestTakesSeat ==
  ASSUME TypeOK, SeatInv, NEW c \in Conns, NEW g \in Guests, JoinGuest(c, g)
  PROVE  SeatInv'
<1>1. LiveGuests' \subseteq LiveGuests \cup {g}
  BY DEF JoinGuest, LiveGuests, Live, OnRoster, TypeOK, People
<1>2. CASE Live(g)
  BY <1>1, <1>2, FewerLive DEF LiveGuests
<1>3. CASE ~Live(g)
  <2>1. RecordedCount = IF Live(Host) THEN Cardinality(LiveGuests) + 1 ELSE Cardinality(LiveGuests)
    <3>1. {p \in People : Live(p)} = IF Live(Host) THEN LiveGuests \cup {Host} ELSE LiveGuests
      BY DEF People, LiveGuests
    <3>2. Host \notin LiveGuests
      BY RoomAssumption DEF LiveGuests
    <3> QED BY <3>1, <3>2, FS_AddElement DEF RecordedCount, SeatInv
  <2>2. g # Host /\ ~Full(g)
    BY <1>3, RoomAssumption DEF JoinGuest
  <2>3. Cardinality(LiveGuests) + 1 < RecordedCap
    BY <2>1, <2>2, FS_CardinalityType, RoomAssumption DEF Full, SeatInv
  <2>4. /\ IsFiniteSet(LiveGuests \cup {g})
        /\ Cardinality(LiveGuests \cup {g}) = Cardinality(LiveGuests) + 1
    BY <1>3, FS_AddElement DEF SeatInv, LiveGuests
  <2> QED BY <1>1, <2>3, <2>4, FS_Subset, FS_CardinalityType, RoomAssumption DEF SeatInv
<1> QED BY <1>2, <1>3

LEMMA SeatInvNext ==
  ASSUME TypeOK, LeaversListed, SeatInv, [Next]_vars
  PROVE  SeatInv'
<1> USE DEF Live, OnRoster
<1>t. /\ roster \in [People -> Person \cup {Absent}] /\ Absent \notin Person
      /\ Guests \subseteq People /\ Host \notin Guests
  BY RoomAssumption, AbsentAssumption DEF TypeOK, People
<1>1. CASE \E c \in Conns, g \in Guests : JoinGuest(c, g)
  BY <1>1, GuestTakesSeat
<1>2. ASSUME \A g \in Guests : Live(g)' => Live(g) PROVE SeatInv'
  BY <1>2, FewerLive DEF LiveGuests
<1>3. ASSUME NEW c \in Conns, JoinHost(c) PROVE SeatInv'
  BY <1>2, <1>3, <1>t DEF JoinHost
<1>4. ASSUME NEW c \in Conns, NEW yes \in BOOLEAN, Consent(c, yes) PROVE SeatInv'
  <2>1. socks[c].who \in People /\ roster[socks[c].who] \in Person
    BY <1>4, <1>t DEF Consent, TypeOK
  <2>2. [roster[socks[c].who] EXCEPT !.consented = IF yes THEN "yes" ELSE "no"] \in Person
        /\ [roster[socks[c].who] EXCEPT !.consented = IF yes THEN "yes" ELSE "no"].connected
             = roster[socks[c].who].connected
        /\ [roster[socks[c].who] EXCEPT !.consented = IF yes THEN "yes" ELSE "no"].removed
             = roster[socks[c].who].removed
    BY <2>1 DEF Person
  <2> QED BY <1>2, <1>4, <1>t, <2>1, <2>2 DEF Consent
<1>5. ASSUME NEW c \in Conns, Leave(c) PROVE SeatInv'
  <2>1. socks[c].who \in People /\ roster[socks[c].who] \in Person
    BY <1>5 DEF Leave, LeaversListed, TypeOK
  <2>2. ~[roster[socks[c].who] EXCEPT !.connected = FALSE].connected
    BY <2>1 DEF Person
  <2> QED BY <1>2, <1>5, <1>t, <2>1, <2>2 DEF Leave, Left
<1>6. ASSUME NEW p \in People, Remove(p) PROVE SeatInv'
  BY <1>2, <1>6, <1>t DEF Remove
<1>7. CASE UNCHANGED roster
  BY <1>2, <1>7
<1> QED
  BY <1>1, <1>3, <1>4, <1>5, <1>6, <1>7 DEF Next, Socket, RefuseHost, Release, Note, Start,
     Pause, Resume, Stop, Restart, vars, saved

(* However guests join, leave and come back, a host who returns is never   *)
(* refused with room_full: for any number of guests and any cap.           *)
THEOREM SeatKept == Spec => []HostSeatKept
<1>1. Typed /\ SeatInv /\ [Next]_vars => SeatInv'
  BY SeatInvNext DEF Typed
<1>2. SeatInv => HostSeatKept
  BY DEF SeatInv, LiveGuests, HostSeatKept, SeatForHost
<1> QED BY SeatInvInit, <1>1, <1>2, TypedAlways, PTL DEF Spec

-----------------------------------------------------------------------------
(* Consent.  The open take's roster, as far as guests go, is who consents. *)
TakeMatches == TakeOpen => takes[Current].roster \cap Guests = Consenting \cap Guests

(* Takes that are closed are not touched.                                  *)
LEMMA ClosedTakesStay ==
  ASSUME TypeOK, [Next]_vars
  PROVE  \A i \in DOMAIN takes : ~takes[i].open => takes'[i] = takes[i]
<1>1. ASSUME TakeOpen, NEW t, takes' = [takes EXCEPT ![Current] = t]
      PROVE  \A i \in DOMAIN takes : ~takes[i].open => takes'[i] = takes[i]
  BY <1>1 DEF TypeOK
<1>2. CASE Start
  BY <1>2 DEF Start, TypeOK
<1>3. CASE Stop
  BY <1>3, <1>1 DEF Stop, TypeOK
<1>4. CASE Pause \/ Resume
  BY <1>4, <1>1 DEF Pause, Resume, TakeOpen
<1>5. ASSUME NEW c \in Conns, JoinHost(c)
      PROVE  \A i \in DOMAIN takes : ~takes[i].open => takes'[i] = takes[i]
  BY <1>5, <1>1 DEF JoinHost, PausesOnReturn, WasAway
<1>6. ASSUME NEW p, NEW yes \in BOOLEAN, NoteConsent(p, yes)
      PROVE  \A i \in DOMAIN takes : ~takes[i].open => takes'[i] = takes[i]
  BY <1>6, <1>1 DEF NoteConsent
<1>7. CASE UNCHANGED takes
  BY <1>7
<1> QED
  BY <1>2, <1>3, <1>4, <1>5, <1>6, <1>7 DEF Next, Socket, JoinGuest, RefuseHost, Consent,
     Release, Note, Leave, Remove, Restart, vars, saved

LEMMA TakeMatchesNext ==
  ASSUME TypeOK, LeaversListed, TakeMatches, [Next]_vars
  PROVE  TakeMatches'
<1> DEFINE Yes(r) == r # Absent /\ ~r.removed /\ r.consented = "yes"
<1>t. /\ roster \in [People -> Person \cup {Absent}] /\ Absent \notin Person
      /\ Guests \subseteq People /\ Host \notin Guests /\ Host \in People
  BY RoomAssumption, AbsentAssumption DEF TypeOK, People
<1>y. /\ Consenting = {p \in People : Yes(roster[p])}
      /\ Consenting' = {p \in People : Yes(roster'[p])}
  BY DEF Consenting, OnRoster
<1> HIDE DEF Yes
(* the take keeps its roster, the guests their answers *)
<1>h. ASSUME TakeOpen' => TakeOpen, Current' = Current,
             TakeOpen => takes'[Current].roster = takes[Current].roster,
             TakeOpen => \A g \in Guests : Yes(roster'[g]) <=> Yes(roster[g])
      PROVE  TakeMatches'
  BY <1>t, <1>y, <1>h DEF TakeMatches
(* the answer of one person changes, and the open take with it *)
<1>p. ASSUME NEW p \in People, NEW yes \in BOOLEAN, NoteConsent(p, yes), UNCHANGED state,
             \A q \in People \ {p} : roster'[q] = roster[q], Yes(roster'[p]) <=> yes
      PROVE  TakeMatches'
  <2>1. CASE ~TakeOpen
    BY <1>p, <2>1 DEF TakeOpen, TakeMatches
  <2>2. CASE TakeOpen
    <3>1. /\ Current' = Current
          /\ takes'[Current].roster = IF yes THEN takes[Current].roster \cup {p}
                                      ELSE takes[Current].roster \ {p}
      <4> DEFINE t == [takes[Current] EXCEPT !.roster = IF yes THEN @ \cup {p} ELSE @ \ {p}]
      <4>1. takes' = [takes EXCEPT ![Current] = t]
        BY <1>p, <2>2 DEF NoteConsent
      <4>2. t \in Takes /\ t.roster = IF yes THEN takes[Current].roster \cup {p}
                                      ELSE takes[Current].roster \ {p}
        BY <2>2, OpenTake DEF Takes
      <4> HIDE DEF t
      <4> QED BY <2>2, <4>1, <4>2, TakeChanges DEF Current
    <3> QED BY <1>t, <1>y, <1>p, <2>2, <3>1 DEF TakeMatches
  <2> QED BY <2>1, <2>2
<1>1. ASSUME NEW c \in Conns, NEW g \in Guests, JoinGuest(c, g) PROVE TakeMatches'
  <2>1. TakeOpen => (Yes(roster'[g]) <=> Yes(roster[g]))
    BY <1>1, <1>t DEF JoinGuest, OnRoster, Removed, Returning, Yes, Person
  <2>2. \A h \in Guests \ {g} : roster'[h] = roster[h]
    BY <1>1, <1>t DEF JoinGuest
  <2> QED BY <1>1, <1>h, <2>1, <2>2 DEF JoinGuest, TakeOpen, Current
<1>2. ASSUME NEW c \in Conns, JoinHost(c) PROVE TakeMatches'
  <2>1. \A g \in Guests : roster'[g] = roster[g]
    BY <1>2, <1>t DEF JoinHost
  <2>2. (TakeOpen' <=> TakeOpen) /\ Current' = Current
        /\ (TakeOpen => takes'[Current].roster = takes[Current].roster)
    <3>1. CASE UNCHANGED <<state, takes>>
      BY <3>1 DEF TakeOpen, Current
    <3>2. CASE /\ state = "recording" /\ state' = "paused"
               /\ takes' = [takes EXCEPT ![Current] = Paused(@)]
      BY <3>2, OpenTake DEF TakeOpen, Current, Paused, Takes, TypeOK
    <3> QED BY <1>2, <3>1, <3>2 DEF JoinHost, PausesOnReturn
  <2> QED BY <1>h, <2>1, <2>2
<1>3. ASSUME NEW c \in Conns, NEW yes \in BOOLEAN, Consent(c, yes) PROVE TakeMatches'
  <2> DEFINE p == socks[c].who
  <2>1. p \in People /\ roster[p] \in Person /\ ~roster[p].removed
    BY <1>3, <1>t DEF Consent, OnRoster, Removed, TypeOK
  <2>2. roster' = [roster EXCEPT ![p] = [@ EXCEPT !.consented = IF yes THEN "yes" ELSE "no"]]
    BY <1>3 DEF Consent
  <2>3. Yes(roster'[p]) <=> yes
    BY <1>t, <2>1, <2>2 DEF Yes, Person
  <2> QED BY <1>3, <1>t, <1>p, <2>1, <2>2, <2>3 DEF Consent
<1>4. ASSUME NEW p \in People, Remove(p) PROVE TakeMatches'
  <2>1. ~Yes(roster'[p]) /\ \A q \in People \ {p} : roster'[q] = roster[q]
    BY <1>4, <1>t DEF Remove, Yes
  <2> QED BY <1>4, <1>p, <2>1 DEF Remove
<1>5. ASSUME NEW c \in Conns, Leave(c) PROVE TakeMatches'
  <2>1. socks[c].who \in People /\ roster[socks[c].who] \in Person
    BY <1>5 DEF Leave, LeaversListed, OnRoster, TypeOK
  <2> DEFINE v == [roster[socks[c].who] EXCEPT !.connected = FALSE]
  <2>2. v \in Person /\ (Yes(v) <=> Yes(roster[socks[c].who]))
    BY <1>t, <2>1 DEF Yes, Person
  <2>3. UNCHANGED roster \/ roster' = [roster EXCEPT ![socks[c].who] = v]
    BY <1>5 DEF Leave, Left
  <2> HIDE DEF v
  <2>4. \A g \in Guests : Yes(roster'[g]) <=> Yes(roster[g])
    BY <1>t, <2>1, <2>2, <2>3
  <2> QED BY <1>5, <1>h, <2>4 DEF Leave, TakeOpen, Current
<1>6. CASE Start
  <2> DEFINE t == [roster |-> Consenting, paused |-> FALSE, open |-> TRUE]
  <2>0. takes' = Append(takes, t) /\ t.roster = Consenting /\ takes \in Seq(Takes)
    BY <1>6 DEF Start, TypeOK
  <2> HIDE DEF t
  <2>1. Current' = Len(takes) + 1 /\ takes'[Current'].roster = Consenting
    BY <2>0 DEF Current
  <2> QED BY <1>6, <2>1, <1>y DEF Start, TakeMatches
<1>7. CASE Stop
  BY <1>7 DEF Stop, TakeMatches, TakeOpen
<1>8. CASE Pause \/ Resume
  <2>1. TakeOpen /\ UNCHANGED roster
    BY <1>8 DEF Pause, Resume, TakeOpen
  <2>2. Current' = Current /\ takes'[Current].roster = takes[Current].roster
    <3>1. PICK b \in BOOLEAN : takes' = [takes EXCEPT ![Current] = [@ EXCEPT !.paused = b]]
      BY <1>8 DEF Pause, Resume, Paused
    <3>2. /\ [takes[Current] EXCEPT !.paused = b] \in Takes
          /\ [takes[Current] EXCEPT !.paused = b].roster = takes[Current].roster
      BY <2>1, OpenTake DEF Takes
    <3> QED BY <2>1, <3>1, <3>2, TakeChanges DEF Current
  <2> QED BY <1>h, <2>1, <2>2
<1>9. CASE UNCHANGED <<state, roster, takes>>
  BY <1>9, <1>h DEF TakeOpen, Current
<1> QED
  BY <1>1, <1>2, <1>3, <1>4, <1>5, <1>6, <1>7, <1>8, <1>9 DEF Next, Socket, RefuseHost,
     Release, Note, Restart, vars, saved

(* A guest may upload into the open take just while their consent stands,  *)
(* through reconnects, declines and removals, and what a closed take says  *)
(* of it is never changed.                                                 *)
THEOREM ConsentGoverned == Spec => ConsentGovernsTakes
<1>1. Init => TakeMatches
  BY DEF Init, TakeMatches, TakeOpen
<1>2. Typed /\ TakeMatches /\ [Next]_vars => TakeMatches'
  BY TakeMatchesNext DEF Typed
<1>3. Typed /\ TakeMatches /\ [Next]_vars => [ConsentGoverns]_vars
  BY TakeMatchesNext, ClosedTakesStay DEF Typed, TakeMatches, ConsentGoverns
<1> QED BY <1>1, <1>2, <1>3, TypedAlways, PTL DEF Spec, ConsentGovernsTakes
=============================================================================
