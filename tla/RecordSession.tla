---------------------------- MODULE RecordSession ----------------------------
(***************************************************************************)
(* The record room (services/record/reducer.py, service.py): who is on its *)
(* roster, which socket speaks for whom, and its takes.                    *)
(*                                                                         *)
(* The roster and the takes are one snapshot in sync.db, changed by        *)
(* commands under the room's authority lock, each at most once per         *)
(* (client_id, client_seq).  Which socket holds a participant is kept in   *)
(* this process alone, under a lock of its own: a socket that closes lets  *)
(* its claim go first and writes to the snapshot later, while another      *)
(* socket of the same person may have joined in between.                   *)
(*                                                                         *)
(* Wall clock times are left out: whether an absence was long enough to    *)
(* pause the take, or a lease idle long enough to be taken over, is a      *)
(* choice.  One room, and no producers (they are never recorded).          *)
(***************************************************************************)
EXTENDS Naturals, Sequences, FiniteSets

CONSTANTS Guests,        \* participant ids of guests
          Host,          \* HOST_PARTICIPANT_ID
          Invite,        \* the link a guest id is minted through
          Conns,         \* connection ids (used again once a socket is gone)
          NoConn,
          Absent,        \* not on the roster
          RecordedCap,   \* caps["recorded"]: the host and the guests
          MaxTakes,      \* bound: takes of the room
          MaxLeaves,     \* bound: Leave commands of one process
          MaxRestarts    \* bound: restarts of the process

ASSUME RoomAssumption ==
  /\ Host \notin Guests /\ NoConn \notin Conns
  /\ RecordedCap \in Nat \ {0}
  /\ {MaxTakes, MaxLeaves, MaxRestarts} \subseteq Nat

VARIABLES
  state,     \* lobby, recording, paused or stopped
  away,      \* is host_offline_since_wall_ms set?
  roster,    \* participant -> connected, consented, removed
  takes,     \* roster of consent, is its last pause open, is the take itself
  rows,      \* (participant, client_seq) of the Leave rows in the log
  socks,     \* connection -> how far its handler is, and for whom
  claims,    \* _CONNECTIONS: guest -> the connection that holds the lease
  tabs,      \* _HOST_CONNS: the host's connections
  leaves,    \* _SEQ of this process
  restarts

saved == <<state, away, roster, takes, rows>>
local == <<socks, claims, tabs, leaves, restarts>>
vars  == <<saved, local>>

People == Guests \cup {Host}

Idle == [at |-> "idle", who |-> Host]

Person == [connected : BOOLEAN, consented : {"unasked", "yes", "no"}, removed : BOOLEAN]

ASSUME AbsentAssumption == Absent \notin Person

OnRoster(p) == roster[p] # Absent
Live(p)     == OnRoster(p) /\ roster[p].connected /\ ~roster[p].removed
Removed(p)  == OnRoster(p) /\ roster[p].removed

TakeOpen == state \in {"recording", "paused"}

Consenting == {p \in People : OnRoster(p) /\ ~roster[p].removed /\ roster[p].consented = "yes"}

Current == Len(takes)

Init ==
  /\ state = "lobby" /\ away = FALSE
  /\ roster = [p \in People |-> Absent]
  /\ takes = <<>>
  /\ rows = {}
  /\ socks = [c \in Conns |-> Idle]
  /\ claims = [g \in Guests |-> NoConn]
  /\ tabs = {}
  /\ leaves = 0 /\ restarts = 0

-----------------------------------------------------------------------------
(* Is there a socket that speaks for p, and does c?                        *)
Held(p) == IF p = Host THEN tabs # {} ELSE claims[p] # NoConn

Holds(c) ==
  /\ socks[c].at = "joined"
  /\ IF socks[c].who = Host THEN c \in tabs ELSE claims[socks[c].who] = c

RecordedCount == Cardinality({p \in People : Live(p)})

(* Mutant: a guest may take the seat of a host who is not there yet.       *)
FullForAnyone(p) == RecordedCount >= RecordedCap

(* While the host is not in the room, one seat is kept.                    *)
Full(p) ==
  IF p = Host \/ Live(Host) THEN RecordedCount >= RecordedCap
  ELSE RecordedCount + 1 >= RecordedCap

(* A removal closes the link its participant came through to new ids.      *)
InviteClosed(g) == \E h \in Guests : Removed(h) /\ Invite[h] = Invite[g]

(* Mutant: a guest who returns is always asked again.                      *)
ReturningAskedAlways(g) == [roster[g] EXCEPT !.connected = TRUE, !.consented = "unasked"]

(* Between takes a device that returns must be asked again.                *)
Returning(g) ==
  [roster[g] EXCEPT !.connected = TRUE,
                    !.consented = IF TakeOpen THEN @ ELSE "unasked"]

(* Join of a guest: a new id through an open link, or a known one with its *)
(* lease, which another socket of theirs may hold only if it was silent.   *)
JoinGuest(c, g) ==
  /\ socks[c].at = "idle"
  /\ ~OnRoster(g) => ~InviteClosed(g)
  /\ ~Removed(g)
  /\ ~Live(g) => ~Full(g)
  /\ roster' = [roster EXCEPT ![g] =
       IF OnRoster(g) THEN Returning(g)
       ELSE [connected |-> TRUE, consented |-> "unasked", removed |-> FALSE]]
  /\ claims' = [claims EXCEPT ![g] = c]
  /\ socks'  = [socks EXCEPT ![c] = [at |-> "joined", who |-> g]]
  /\ UNCHANGED <<state, away, takes, rows, tabs, leaves, restarts>>

-----------------------------------------------------------------------------
Paused(take) == [take EXCEPT !.paused = TRUE]

(* infer_host_offline_since: the host was away although no Leave says so,  *)
(* or every beat of the open tabs is old.                                  *)
WasAway(stale) == TakeOpen /\ (away \/ tabs = {} \/ stale)

SeatForHost(stale) ==
  (WasAway(stale) \/ ~Live(Host)) =>
    Cardinality({g \in Guests : Live(g)}) < RecordedCap

(* _apply_host_return: a long absence pauses the take that was running.    *)
PausesOnReturn(stale, long) == WasAway(stale) /\ long /\ state = "recording"

JoinHost(c) ==
  /\ socks[c].at = "idle"
  /\ ~Removed(Host)
  /\ \E stale, long \in BOOLEAN :
       /\ SeatForHost(stale)
       /\ state' = IF PausesOnReturn(stale, long) THEN "paused" ELSE state
       /\ takes' = IF PausesOnReturn(stale, long)
                   THEN [takes EXCEPT ![Current] = Paused(@)] ELSE takes
  /\ away'   = FALSE
  /\ roster' = [roster EXCEPT ![Host] =
       [connected |-> TRUE, removed |-> FALSE,
        consented |-> IF OnRoster(Host) /\ roster[Host].consented = "no" THEN "no" ELSE "yes"]]
  /\ tabs'   = tabs \cup {c}
  /\ socks'  = [socks EXCEPT ![c] = [at |-> "joined", who |-> Host]]
  /\ UNCHANGED <<rows, claims, leaves, restarts>>

(* The Join is refused: the claim goes again, and with it the last tab.    *)
RefuseHost(c) ==
  /\ socks[c].at = "idle" /\ tabs = {}
  /\ Removed(Host)
  /\ TakeOpen /\ ~away
  /\ away' = TRUE
  /\ UNCHANGED <<state, roster, takes, rows, local>>

-----------------------------------------------------------------------------
(* disconnect: first the claim is let go; it goes on if nobody holds the   *)
(* participant now ...                                                     *)
Release(c) ==
  /\ socks[c].at = "joined"
  /\ claims' = [g \in Guests |-> IF claims[g] = c THEN NoConn ELSE claims[g]]
  /\ tabs'   = tabs \ {c}
  /\ LET who  == socks[c].who
         last == IF who = Host THEN tabs = {c} ELSE claims[who] \in {c, NoConn}
     IN  socks' = [socks EXCEPT ![c] =
                     IF last THEN [at |-> "released", who |-> who] ELSE Idle]
  /\ UNCHANGED <<saved, leaves, restarts>>

(* ... then the roster is read, and the host's absence noted ...           *)
Note(c) ==
  /\ socks[c].at = "released"
  /\ LET who == socks[c].who
     IN  /\ away'  = (away \/ (who = Host /\ TakeOpen))
         /\ socks' = [socks EXCEPT ![c] =
              IF OnRoster(who) /\ roster[who].connected
              THEN [at |-> "leaving", who |-> who] ELSE Idle]
  /\ UNCHANGED <<state, roster, takes, rows, claims, tabs, leaves, restarts>>

(* Mutant: the Leave of an old socket takes off whoever rejoined.          *)
LeftAnyway(who) ==
  /\ roster' = [roster EXCEPT ![who].connected = FALSE]
  /\ away' = (away \/ (who = Host /\ TakeOpen))

(* The Leave command on the snapshot: nothing if a socket holds the        *)
(* participant again.                                                      *)
Left(who) ==
  IF Held(who) THEN UNCHANGED <<roster, away>>
  ELSE /\ roster' = [roster EXCEPT ![who].connected = FALSE]
       /\ away' = (away \/ (who = Host /\ TakeOpen))

(* ... and a Leave is submitted, under the next client_seq of this process *)
Leave(c) ==
  LET who == socks[c].who
      row == <<who, leaves + 1>>
  IN  /\ socks[c].at = "leaving"
      /\ leaves < MaxLeaves
      /\ leaves' = leaves + 1
      /\ socks' = [socks EXCEPT ![c] = Idle]
      /\ IF row \in rows \/ Removed(who)
         THEN UNCHANGED <<roster, away, rows>>
         ELSE Left(who) /\ rows' = rows \cup {row}
      /\ UNCHANGED <<state, takes, claims, tabs, restarts>>

-----------------------------------------------------------------------------
(* _note_take_consent_if_live                                              *)
NoteConsent(p, yes) ==
  takes' = IF ~TakeOpen THEN takes
           ELSE [takes EXCEPT ![Current].roster = IF yes THEN @ \cup {p} ELSE @ \ {p}]

Consent(c, yes) ==
  LET p == socks[c].who
  IN  /\ Holds(c) /\ OnRoster(p) /\ ~Removed(p)
      /\ roster' = [roster EXCEPT ![p].consented = IF yes THEN "yes" ELSE "no"]
      /\ NoteConsent(p, yes)
      /\ UNCHANGED <<state, away, rows, local>>

(* The host's commands come from a tab of theirs, the CLI or an agent.     *)
Start ==
  /\ state \in {"lobby", "stopped"}
  /\ \E p \in People : Live(p)
  /\ \A p \in People : Live(p) => roster[p].consented # "unasked"
  /\ Consenting # {}
  /\ Current < MaxTakes
  /\ takes' = Append(takes, [roster |-> Consenting, paused |-> FALSE, open |-> TRUE])
  /\ state' = "recording"
  /\ away'  = FALSE
  /\ UNCHANGED <<roster, rows, local>>

Pause ==
  /\ state = "recording"
  /\ state' = "paused"
  /\ takes' = [takes EXCEPT ![Current] = Paused(@)]
  /\ UNCHANGED <<away, roster, rows, local>>

Resume ==
  /\ state = "paused" /\ takes[Current].paused
  /\ state' = "recording"
  /\ takes' = [takes EXCEPT ![Current].paused = FALSE]
  /\ UNCHANGED <<away, roster, rows, local>>

Stop ==
  /\ TakeOpen
  /\ state' = "stopped"
  /\ takes' = [takes EXCEPT ![Current].paused = FALSE, ![Current].open = FALSE]
  /\ away'  = FALSE
  /\ UNCHANGED <<roster, rows, local>>

(* RemoveParticipant: off the roster of the open take as well.  (A second  *)
(* removal of the same person changes nothing and is left out.)            *)
Remove(p) ==
  /\ OnRoster(p) /\ ~Removed(p)
  /\ roster' = [roster EXCEPT ![p] = [connected |-> FALSE, consented |-> "unasked",
                                      removed |-> TRUE]]
  /\ NoteConsent(p, FALSE)
  /\ UNCHANGED <<state, away, rows, local>>

(* The process dies and starts again: its sockets, claims and counter are  *)
(* gone, the snapshot is not.                                              *)
Restart ==
  /\ restarts < MaxRestarts
  /\ restarts' = restarts + 1
  /\ socks'  = [c \in Conns |-> Idle]
  /\ claims' = [g \in Guests |-> NoConn]
  /\ tabs'   = {}
  /\ leaves' = 0
  /\ UNCHANGED saved

-----------------------------------------------------------------------------
Socket(c) ==
  \/ \E g \in Guests : JoinGuest(c, g)
  \/ JoinHost(c) \/ RefuseHost(c)
  \/ \E yes \in BOOLEAN : Consent(c, yes)
  \/ Release(c) \/ Note(c) \/ Leave(c)

Next ==
  \/ \E c \in Conns : Socket(c)
  \/ Start \/ Pause \/ Resume \/ Stop
  \/ \E p \in People : Remove(p)
  \/ Restart

Spec == Init /\ [][Next]_vars

-----------------------------------------------------------------------------
Takes == [roster : SUBSET People, paused : BOOLEAN, open : BOOLEAN]

(* Types.  The room is in a take exactly while its newest take is open,    *)
(* and paused exactly while that take's last pause is; the rest are closed.*)
TypeOK ==
  /\ state \in {"lobby", "recording", "paused", "stopped"} /\ away \in BOOLEAN
  /\ roster \in [People -> Person \cup {Absent}]
  /\ takes \in Seq(Takes) /\ (TakeOpen => takes # << >>)
  /\ \A i \in DOMAIN takes :
       /\ takes[i].open <=> (TakeOpen /\ i = Current)
       /\ takes[i].paused <=> (state = "paused" /\ i = Current)
  /\ rows \subseteq People \X (1..MaxLeaves)
  /\ socks \in [Conns -> [at : {"idle", "joined", "released", "leaving"}, who : People]]
  /\ claims \in [Guests -> Conns \cup {NoConn}]
  /\ tabs \subseteq Conns
  /\ leaves \in 0..MaxLeaves /\ restarts \in 0..MaxRestarts

(* Whoever a socket speaks for is connected on the roster, unless removed: *)
(* the Leave of an older socket, however late it is applied, never takes   *)
(* off a person who has come back.                                         *)
HolderIsConnected ==
  \A c \in Conns : Holds(c) => Live(socks[c].who) \/ Removed(socks[c].who)

(* However guests leave, return and fill the room, a seat stays free for   *)
(* the host: a returning host is never refused with room_full.             *)
HostSeatKept == \A stale \in BOOLEAN : SeatForHost(stale)

(* The roster that lets a guest upload into the open take is the set of    *)
(* guests whose consent stands, through reconnects, declines and removals; *)
(* that of a closed take no longer changes.                                *)
ConsentGoverns ==
  /\ \A i \in DOMAIN takes : ~takes[i].open => takes'[i] = takes[i]
  /\ TakeOpen' => takes'[Current'].roster \cap Guests = Consenting' \cap Guests

ConsentGovernsTakes == [][ConsentGoverns]_vars

(* tests/test_record_ws.py: once the last socket of a person has gone, and *)
(* its disconnect is over, the roster shows the person as not connected.   *)
LeaverIsOffline ==
  [][\A c \in Conns :
       (socks[c].at = "leaving" /\ leaves' = leaves + 1 /\ socks'[c].at = "idle"
        /\ ~Held(socks[c].who))
       => ~roster'[socks[c].who].connected]_vars
=============================================================================
