-------------------------- MODULE BedLandingProofs --------------------------
(***************************************************************************)
(* What holds of every participant's room tone bed (BedLanding), however   *)
(* many times it is recorded, whatever its parts, and whatever fails.      *)
(*                                                                         *)
(* No transaction spans the upload row, the files and the project, so each *)
(* of the four invariants rests on what may be under way: UploadInv says   *)
(* it of the participant's requests and of the ingest lock's holder,       *)
(* LandInv of the land lock's.  They meet in Was(b): bed b was             *)
(* acknowledged once.  A browser sends each part of a bed once, so a bed   *)
(* that was is never acknowledged again, which is what a land that found   *)
(* its bed withdrawn may count on.                                         *)
(***************************************************************************)
EXTENDS BedLanding, SequenceTheorems, TLAPS

-----------------------------------------------------------------------------
(* The upload.                                                             *)

Serving == IF ing = Free THEN {} ELSE {ing.req}
IsPart(r) == r.op = "part"

(* The request that acknowledges bed b has got so far that it names b's row. *)
Was(b) == post[b] # "none" \/ (ing.at = "sweep" /\ ing.req.bed = b)

(* Parts go one at a time and each of them once.                           *)
OnePartOut ==
  /\ \A r \in reqs \cup Serving : r.bed <= tab.bed
  /\ \A r, q \in reqs : IsPart(r) /\ IsPart(q) /\ r.bed = q.bed => r = q
  /\ \A r \in reqs, q \in Serving : IsPart(r) /\ IsPart(q) => r.bed # q.bed
  /\ \A r \in reqs \cup Serving :
       IsPart(r) /\ r.bed = tab.bed =>
         /\ tab.at # "revoking"
         /\ tab.at = "sending" => r.part = tab.part

(* A bed that was acknowledged has no part on its way.                     *)
NotTwice ==
  /\ \A b \in Beds : Was(b) => b <= tab.bed
  /\ \A r \in reqs : IsPart(r) => ~Was(r.bed)
  /\ \A r \in Serving : IsPart(r) =>
       post[r.bed] = "none" /\ (ing.at # "sweep" => ~Was(r.bed))
  /\ tab.bed \in Beds /\ Was(tab.bed) =>
       /\ tab.at # "revoking"
       /\ tab.at = "sending" => tab.part = Parts[tab.bed]

(* Where the holder of the ingest lock is, and what is gone by then.       *)
IngestAt ==
  /\ ing.at \in {"unlinkAcked", "deleteParts", "deleteRow"} => files = NoParts
  /\ ing.at \in {"deleteParts", "deleteRow"} => acked = Nothing
  /\ ing.at \in {"row", "file"} => IsPart(ing.req)
  /\ ing.at \in {"assemble", "mark", "sweep"} => Final(ing.req)
  /\ ing.at \in {"row", "file", "assemble", "mark"} /\ Final(ing.req) => row = NoRow
  /\ ing.at = "mark" => acked = ing.req.bed

RowWas == row # NoRow => Was(row.bed)

AckedStands == acked \in Beds /\ Was(acked) => Bed(row) = acked

UploadInv ==
  OnePartOut /\ NotTwice /\ IngestAt /\ RowWas /\ AckedStands /\ AckMeansBytes

-----------------------------------------------------------------------------
(* The land.                                                               *)

(* An upload that counts as landed is the one in the participant's file.   *)
LandedIsRaw == row # NoRow /\ row.landed => raw = row.bed

(* The land holds a bed that was, and no rollback of it is owed until this *)
(* land owes one.                                                          *)
Planned == {"gate", "copy", "register", "commit", "mark", "defer"}

LandsBed ==
  /\ land.for \in Beds => post[land.for] # "none"
  /\ land.at \in Planned \cup {"roll", "rolled"} => land.bed \in Beds /\ Was(land.bed)
  /\ land.at \in Planned => \A r \in waived : r.bed # land.bed
  /\ HoldsProject => raw = land.bed
  /\ land.at \in {"mark", "defer", "roll"} => reg = land.bed
  /\ land.at = "rolled" => ~AtPath(reg)
  /\ land.at \in {"defer", "roll", "rolled"} => Bed(row) # land.bed
  /\ land.at = "roll" => \A r \in waived : r.bed = land.bed => r.intact

(* A rollback is owed only of a bed that was and is not acknowledged now.  *)
OwedOfStale == \A r \in waived : Was(r.bed) /\ Bed(row) # r.bed

(* What a land registered and neither marked nor took back is such a bed.  *)
Unmarked == by = "land" /\ AtPath(reg)

UnmarkedIsStale ==
  Unmarked => Was(reg) /\ (land.at # "mark" => Bed(row) # reg)

UnmarkedIsOwed ==
  Unmarked /\ raw = reg /\ land.at \notin {"mark", "defer", "roll"} =>
    \E r \in waived : r.bed = reg /\ r.intact

(* The land that retries what is owed sees what is registered.             *)
RetrySees ==
  /\ land.at = "waived" /\ by = "land" => land.seen = reg
  /\ land.at = "retry" => land.due \subseteq waived
  /\ land.at = "retried" /\ Unmarked => \A r \in land.due : ~r.intact

LandInv ==
  LandedIsRaw /\ LandsBed /\ OwedOfStale /\ UnmarkedIsStale /\ UnmarkedIsOwed /\ RetrySees

-----------------------------------------------------------------------------
(* Types.                                                                  *)

LEMMA NothingIsNoBed == Nothing \notin Beds /\ Host \notin Beds /\ Other \notin Beds
BY BedAssumption

LEMMA Numbers == MaxBeds \in Nat \ {0} /\ MaxFaults \in Nat /\ MaxUndo \in Nat
BY BedAssumption

LEMMA TabTyped ==
  ASSUME TypeOK
  PROVE  /\ tab \in Tabs /\ (tab.sent => tab.bed \in Beds)
         /\ [tab EXCEPT !.at = "idle"] \in Tabs
         /\ [tab EXCEPT !.at = "idle"].sent = tab.sent
         /\ [tab EXCEPT !.at = "idle"].bed = tab.bed
         /\ [tab EXCEPT !.at = "idle", !.sent = FALSE] \in Tabs
         /\ ~[tab EXCEPT !.at = "idle", !.sent = FALSE].sent
<1>1. tab \in Tabs /\ (tab.sent => tab.bed # 0)
  BY DEF TypeOK
<1>2. tab.sent => tab.bed \in Beds
  BY <1>1, Numbers DEF Tabs, Beds
<1> QED BY <1>1, <1>2 DEF Tabs

(* The browser takes no notice of an answer it does not wait for, stops, or *)
(* sends the next part.                                                    *)
LEMMA AnswerDoes ==
  ASSUME NEW r, NEW ok, Answer(r, ok)
  PROVE  \/ UNCHANGED browser
         \/ Awaits(r) /\ tab' = [tab EXCEPT !.at = "idle"] /\ UNCHANGED reqs
         \/ /\ Awaits(r) /\ ~Final(r)
            /\ \E p \in {1, r.part + 1} :
                 tab' = Sending(r.bed, p) /\ reqs' = reqs \cup {Request("part", r.bed, p)}
BY DEF Answer, Final

LEMMA RequestTyped ==
  ASSUME NEW op \in {"part", "revoke", "drop"}, NEW b \in Beds, NEW p \in Nat
  PROVE  Request(op, b, p) \in Ops /\ Sending(b, p) \in Tabs /\ Sending(b, p).bed # 0
BY BedAssumption DEF Request, Ops, Sending, Tabs, Beds

LEMMA AnswerTyped ==
  ASSUME TypeOK, NEW r \in Ops, NEW ok, Answer(r, ok)
  PROVE  tab' \in Tabs /\ (tab'.sent => tab'.bed # 0) /\ reqs' \subseteq Ops
<1>1. /\ tab \in Tabs /\ [tab EXCEPT !.at = "idle"] \in Tabs /\ reqs \subseteq Ops
      /\ tab.sent => tab.bed # 0
      /\ [tab EXCEPT !.at = "idle"].sent = tab.sent
      /\ [tab EXCEPT !.at = "idle"].bed = tab.bed
  BY TabTyped DEF TypeOK
<1>2. r.bed \in Beds /\ r.part \in Nat /\ r.part + 1 \in Nat
  BY DEF Ops
<1>3. \A p \in {1, r.part + 1} :
        /\ Request("part", r.bed, p) \in Ops /\ Sending(r.bed, p) \in Tabs
        /\ Sending(r.bed, p).bed # 0
  BY <1>2, RequestTyped
<1> QED BY <1>1, <1>3, AnswerDoes DEF browser

(* Flagging the row leaves it about the bed it is about.                   *)
Flagged == /\ row' = NoRow <=> row = NoRow
           /\ row # NoRow => row'.bed = row.bed
           /\ row' \in {NoRow} \cup Rows

LEMMA MarksFlag ==
  ASSUME TypeOK, NEW b \in Beds, MarkLanded(b) \/ MarkFailed(b) \/ UNCHANGED row
  PROVE  Flagged /\ row' \in {NoRow} \cup Rows
<1>1. NoRow \notin Rows
  BY BedAssumption DEF Rows
<1>2. row = NoRow \/ row \in Rows
  BY DEF TypeOK
<1>3. CASE row = NoRow
  BY <1>3, NothingIsNoBed DEF MarkLanded, MarkFailed, Flagged, Bed
<1>4. CASE row \in Rows
  <2> DEFINE good == [row EXCEPT !.landed = TRUE, !.failed = FALSE]
             bad  == [row EXCEPT !.landed = FALSE, !.failed = TRUE]
  <2>1. good \in Rows /\ bad \in Rows /\ good.bed = row.bed /\ bad.bed = row.bed
    BY <1>4 DEF Rows
  <2>2. row' \in {row, good, bad}
    BY DEF MarkLanded, MarkFailed
  <2> HIDE DEF good, bad
  <2> QED BY <1>1, <1>4, <2>1, <2>2 DEF Flagged
<1> QED BY <1>2, <1>3, <1>4

(* What a mark leaves says that the bed landed or that it failed.          *)
LEMMA MarksSay ==
  ASSUME TypeOK, NEW b \in Beds, MarkLanded(b) \/ MarkFailed(b)
  PROVE  (row' = row /\ Bed(row) # b) \/ row'.landed \/ row'.failed
<1>1. CASE Bed(row) = b
  <2>1. row \in Rows
    BY <1>1, NothingIsNoBed DEF Bed, TypeOK
  <2>2. [row EXCEPT !.landed = TRUE, !.failed = FALSE].landed
        /\ [row EXCEPT !.landed = FALSE, !.failed = TRUE].failed
    BY <2>1 DEF Rows
  <2> QED BY <1>1, <2>2 DEF MarkLanded, MarkFailed
<1>2. CASE Bed(row) # b
  BY <1>2 DEF MarkLanded, MarkFailed
<1> QED BY <1>1, <1>2

LEMMA BedOfRow ==
  ASSUME TypeOK
  PROVE  /\ Bed(row) \in MayBeds /\ (Bed(row) = Nothing <=> row = NoRow)
         /\ row # NoRow => Bed(row) = row.bed /\ row.bed \in Beds
BY NothingIsNoBed DEF Bed, TypeOK, Rows, MayBeds

LEMMA NoRowIsNoRow == NoRow \notin Rows
BY BedAssumption DEF Rows

LEMMA Shapes ==
  /\ NoParts \in [PartNos -> MayBeds]
  /\ \A b \in Beds : Acked(b) \in Rows /\ Acked(b).bed = b
                     /\ ~Acked(b).landed /\ ~Acked(b).failed
  /\ Free \notin Ings /\ Free.at = "free" /\ "free" \notin Steps
BY DEF NoParts, MayBeds, Acked, Rows, Free, Ings, Steps

(* A step of the ingest lock's holder.                                     *)
LEMMA IngestStep ==
  ASSUME TypeOK, NEW from \in Steps, NEW to \in Steps, Ingest(from, to)
  PROVE  /\ ing \in Ings /\ ing.req \in Ops /\ ing.at = from
         /\ ing' \in Ings /\ ing'.req = ing.req /\ ing'.at = to
<1>1. ing \in Ings
  BY Shapes DEF Ingest, TypeOK
<1> QED BY <1>1 DEF Ingest, Ings

LEMMA PartPut ==
  ASSUME NEW f \in [PartNos -> MayBeds], NEW r \in Ops
  PROVE  [f EXCEPT ![r.part] = r.bed] \in [PartNos -> MayBeds]
BY DEF Ops, MayBeds

LEMMA BrowserTyped ==
  ASSUME TypeOK, Record \/ Drop \/ GiveUp
  PROVE  TypeOK'
<1>1. tab \in Tabs /\ tab.bed \in 0..MaxBeds
  BY DEF TypeOK, Tabs
<1>2. CASE Record
  <2> DEFINE b == tab.bed + 1
  <2>1. b \in Beds /\ b # 0
    BY <1>1, <1>2, BedAssumption DEF Record, Beds
  <2>2. [bed |-> b, part |-> 0, at |-> "revoking", sent |-> FALSE] \in Tabs
    <3>1. \A c \in Beds : [bed |-> c, part |-> 0, at |-> "revoking", sent |-> FALSE] \in Tabs
      BY Numbers DEF Tabs, Beds
    <3> QED BY <2>1, <3>1
  <2>3. Sending(b, 1) \in Tabs /\ Sending(b, 1).bed # 0
        /\ Request("revoke", b, 0) \in Ops /\ Request("part", b, 1) \in Ops
    BY <2>1, RequestTyped
  <2>4. tab' \in Tabs /\ (tab'.sent => tab'.bed # 0) /\ reqs' \subseteq Ops
    <3>1. reqs \subseteq Ops
      BY DEF TypeOK
    <3>a. [bed |-> b, part |-> 0, at |-> "revoking", sent |-> FALSE].bed = b
      OBVIOUS
    <3>2. \/ /\ tab' = [bed |-> b, part |-> 0, at |-> "revoking", sent |-> FALSE]
             /\ reqs' = reqs \cup {Request("revoke", b, 0)}
          \/ tab' = Sending(b, 1) /\ reqs' = reqs \cup {Request("part", b, 1)}
      BY <1>2 DEF Record
    <3> HIDE DEF b
    <3> QED BY <2>1, <2>2, <2>3, <3>1, <3>a, <3>2
  <2> QED BY <1>2, <2>4 DEF Record, TypeOK, upload, project
<1>3. CASE Drop
  <2>1. tab.sent => Request("drop", tab.bed, 0) \in Ops
    BY TabTyped, RequestTyped
  <2>2. tab' \in Tabs /\ (tab'.sent => tab'.bed # 0) /\ reqs' \subseteq Ops
    BY <1>3, <2>1, TabTyped DEF Drop, TypeOK
  <2> QED BY <1>3, <2>2 DEF Drop, TypeOK, upload, project
<1>4. CASE GiveUp
  <2>1. tab' \in Tabs /\ (tab'.sent => tab'.bed # 0)
    BY <1>4, TabTyped DEF GiveUp, TypeOK
  <2> QED BY <1>4, <2>1, BedAssumption DEF GiveUp, TypeOK, upload, project, Fault
<1> QED BY <1>2, <1>3, <1>4

LEMMA UploadTyped ==
  ASSUME TypeOK, Ingests \/ IngestFails \/ \E r \in reqs : Take(r)
  PROVE  TypeOK'
<1>1. CASE \E r \in reqs : Take(r)
  <2>1. PICK r \in reqs : Take(r)
    BY <1>1
  <2>2. r \in Ops /\ Store(r) \in Steps
    BY DEF TypeOK, Store, Steps
  <2>3. ing' \in Ings
    BY <2>1, <2>2 DEF Take, Ings, Steps
  <2> QED BY <2>1, <2>3 DEF Take, TypeOK, project
<1>2. CASE ClearParts
  <2>1. ing' \in Ings
    BY <1>2, IngestStep DEF ClearParts, Steps
  <2> QED BY <1>2, <2>1, Shapes DEF ClearParts, TypeOK, browser, project
<1>3. CASE ClearAcked
  <2>1. ing' \in Ings
    BY <1>3, IngestStep DEF ClearAcked, Steps
  <2> QED BY <1>3, <2>1 DEF ClearAcked, TypeOK, browser, project, MayBeds
<1>4. CASE ClearPartRows
  <2>1. ing' \in Ings
    BY <1>4, IngestStep DEF ClearPartRows, Steps
  <2> QED BY <1>4, <2>1, Shapes DEF ClearPartRows, TypeOK, browser, project
<1>5. CASE ClearRow
  <2>1. ing' \in Ings
    BY <1>5, IngestStep DEF ClearRow, Steps
  <2> QED BY <1>5, <2>1 DEF ClearRow, TypeOK, browser, project
<1>6. CASE PutRow
  <2>1. ing' \in Ings /\ ing.req \in Ops
    BY <1>6, IngestStep DEF PutRow, Steps
  <2>2. parts' \in [PartNos -> MayBeds]
    BY <1>6, <2>1, PartPut DEF PutRow, TypeOK
  <2> QED BY <1>6, <2>1, <2>2 DEF PutRow, TypeOK, browser, project
<1>7. CASE PutFile
  <2>1. ing' \in Ings /\ ing.req \in Ops
    BY <1>7, IngestStep DEF PutFile, Steps
  <2>2. files' \in [PartNos -> MayBeds]
    BY <1>7, <2>1, PartPut DEF PutFile, TypeOK
  <2> QED BY <1>7, <2>1, <2>2 DEF PutFile, TypeOK, browser, project
<1>8. CASE Assemble
  <2>1. ing' \in Ings /\ ing.req \in Ops
    BY <1>8, IngestStep DEF Assemble, Steps
  <2> QED BY <1>8, <2>1 DEF Assemble, TypeOK, browser, project, MayBeds, Ops
<1>9. CASE MarkFile
  <2>1. ing' \in Ings /\ ing.req \in Ops
    BY <1>9, IngestStep DEF MarkFile, Steps
  <2>2. row' \in Rows
    BY <1>9, <2>1, Shapes DEF MarkFile, Ops
  <2> QED BY <1>9, <2>1, <2>2 DEF MarkFile, TypeOK, browser, project
<1>10. CASE Sweep
  <2>1. post' \in Posts
    BY <1>10 DEF Sweep, TypeOK, Posts
  <2> QED BY <1>10, <2>1, Shapes DEF Sweep, TypeOK, browser, project
<1>11. CASE Reply
  <2>1. ing.req \in Ops /\ \E ok : Answer(ing.req, ok)
    BY <1>11, Shapes DEF Reply, TypeOK, Ings
  <2>2. tab' \in Tabs /\ (tab'.sent => tab'.bed # 0) /\ reqs' \subseteq Ops
    BY <2>1, AnswerTyped
  <2> QED BY <1>11, <2>2 DEF Reply, TypeOK, project
<1>12. CASE IngestFails
  <2>1. ing.req \in Ops /\ Answer(ing.req, FALSE)
    BY <1>12 DEF IngestFails, TypeOK, Ings
  <2>2. tab' \in Tabs /\ (tab'.sent => tab'.bed # 0) /\ reqs' \subseteq Ops
    BY <2>1, AnswerTyped
  <2>3. post' \in Posts
    BY <1>12 DEF IngestFails, TypeOK, Posts
  <2> QED BY <1>12, <2>2, <2>3, BedAssumption DEF IngestFails, TypeOK, project, Fault
<1> QED BY <1>1, <1>2, <1>3, <1>4, <1>5, <1>6, <1>7, <1>8, <1>9, <1>10, <1>11, <1>12 DEF Ingests

(* A step of the land lock's holder.                                       *)
LEMMA LandStep ==
  ASSUME TypeOK, NEW from \in Stages \ Bedless, NEW to \in Stages, Lands(from, to)
  PROVE  /\ land' \in LandStates /\ land.at = from /\ land'.at = to /\ land.bed \in Beds
         /\ land'.for = land.for /\ land'.bed = land.bed /\ land'.seen = land.seen
         /\ land'.prior = land.prior /\ land'.due = land.due
BY DEF Lands, TypeOK, LandStates, MayBeds

LEMMA BedlessStep ==
  ASSUME TypeOK, NEW from, NEW to \in Bedless, Lands(from, to)
  PROVE  /\ land' \in LandStates /\ land.at = from /\ land'.at = to
         /\ land'.for = land.for /\ land'.bed = land.bed
BY DEF Lands, TypeOK, LandStates, Bedless, Stages

LEMMA LandParts ==
  ASSUME TypeOK
  PROVE  /\ land.at \in Stages /\ land.for \in MayBeds \cup {Host} /\ land.bed \in MayBeds
         /\ land.prior \in {Nothing, Other} /\ land.due \subseteq Waivers
         /\ land.bed \in Beds \/ land.at \in Bedless
BY DEF TypeOK, LandStates, MayBeds

LEMMA Committed ==
  ASSUME TypeOK, NEW bed \in MayBeds \cup {Other}, Commit(bed)
  PROVE  /\ reg' \in MayBeds \cup {Other} /\ past' \in Seq(MayBeds \cup {Other})
         /\ Len(past') <= MaxUndo
<1> DEFINE S == MayBeds \cup {Other}
           longer == Append(past, reg)
<1>1. past \in Seq(S) /\ reg \in S /\ Len(past) <= MaxUndo /\ past' = Newest(longer)
  BY DEF TypeOK, Commit
<1>2. longer \in Seq(S) /\ Len(longer) = Len(past) + 1 /\ Len(past) \in Nat
  <2> HIDE DEF S
  <2> QED BY <1>1
<1> HIDE DEF S, longer
<1>3. Tail(longer) \in Seq(S) /\ Len(Tail(longer)) = Len(past)
  BY <1>2
<1>4. past' \in Seq(S) /\ Len(past') <= MaxUndo
  BY <1>1, <1>2, <1>3, Numbers DEF Newest
<1> QED BY <1>4 DEF S, Commit

LEMMA LandTyped ==
  ASSUME TypeOK, LandSteps \/ LandFails \/ \E who \in Beds \cup {Host} : StartLand(who)
  PROVE  TypeOK'
<1> USE LandParts
<1>1. ASSUME NEW who \in Beds \cup {Host}, StartLand(who)
      PROVE  TypeOK'
  <2>1. land' = [NoLand EXCEPT !.at = "waived", !.for = who, !.seen = reg]
    BY <1>1 DEF StartLand
  <2>2. who \in MayBeds \cup {Host} /\ reg \in MayBeds \cup {Other}
    BY DEF MayBeds, TypeOK
  <2>3. land' \in LandStates
    BY <2>1, <2>2 DEF NoLand, LandStates, Stages, MayBeds, Bedless
  <2> QED BY <1>1, <2>3 DEF StartLand, TypeOK, browser, upload, project
<1>2. CASE SortWaived
  <2>1. PICK skipped \in SUBSET {r \in waived : r.tried} :
          LET moot == {r \in waived \ skipped : Moot(r)}
              due  == waived \ (skipped \cup moot)
          IN  /\ land' = [land EXCEPT !.at = IF due = {} THEN "plan" ELSE "retry", !.due = due]
              /\ waived' \in {waived, waived \ moot} /\ faults' \in {faults, faults + 1}
              /\ faults' # faults => faults < MaxFaults
              /\ UNCHANGED <<browser, upload, row, post, raw, project>>
    BY <1>2 DEF SortWaived, Fault
  <2> DEFINE moot == {r \in waived \ skipped : Moot(r)}
             due  == waived \ (skipped \cup moot)
  <2>2. due \subseteq Waivers /\ waived' \subseteq Waivers
    BY <2>1 DEF TypeOK
  <2>3. land' = [land EXCEPT !.at = IF due = {} THEN "plan" ELSE "retry", !.due = due]
    BY <2>1
  <2> HIDE DEF due, moot
  <2>4. land' \in LandStates
    BY <2>2, <2>3 DEF LandStates, TypeOK, Stages, Bedless
  <2> QED BY <2>1, <2>2, <2>4, Numbers DEF TypeOK, browser, upload, project
<1>3. CASE Retry
  <2>1. land' = [land EXCEPT !.at = "retried", !.seen = reg']
        /\ (UNCHANGED <<reg, past>> \/ \E r \in land.due : Commit(r.prior))
    BY <1>3 DEF Retry, Applies
  <2>2. \A r \in land.due : r.prior \in MayBeds \cup {Other}
    BY DEF Waivers, MayBeds
  <2>3. /\ reg' \in MayBeds \cup {Other} /\ past' \in Seq(MayBeds \cup {Other})
        /\ Len(past') <= MaxUndo
    BY <2>1, <2>2, Committed DEF TypeOK
  <2>4. land' \in LandStates
    BY <2>1, <2>3 DEF LandStates, TypeOK, Stages, Bedless
  <2> QED BY <1>3, <2>3, <2>4 DEF Retry, TypeOK, browser, upload
<1>4. CASE RetryFails
  <2>1. \A r \in land.due : [r EXCEPT !.tried = TRUE] \in Waivers
    BY DEF Waivers
  <2>4. /\ reg' \in MayBeds \cup {Other} /\ past' \in Seq(MayBeds \cup {Other})
        /\ Len(past') <= MaxUndo
    <3>1. UNCHANGED <<reg, past>> \/ \E r \in land.due : Commit(r.prior)
      BY <1>4 DEF RetryFails, Applies
    <3>2. \A r \in land.due : r.prior \in MayBeds \cup {Other}
      BY DEF Waivers, MayBeds
    <3> QED BY <3>1, <3>2, Committed DEF TypeOK
  <2>2. land' \in LandStates
    <3>1. PICK seen \in {land.seen, reg'} :
            land' = [land EXCEPT !.at = "plan", !.seen = seen, !.due = {}]
      BY <1>4 DEF RetryFails
    <3>2. seen \in MayBeds \cup {Other}
      BY <2>4, <3>1 DEF LandStates, TypeOK
    <3> QED BY <3>1, <3>2 DEF LandStates, TypeOK, Stages, Bedless
  <2>3. waived' \subseteq Waivers
    BY <1>4, <2>1 DEF RetryFails, TypeOK
  <2> QED BY <1>4, <2>2, <2>3, <2>4 DEF RetryFails, TypeOK, browser, upload
<1>5. CASE ClearRetried
  <2>1. land' \in LandStates
    BY <1>5 DEF ClearRetried, LandStates, TypeOK, Stages, Bedless
  <2> QED BY <1>5, <2>1, Numbers DEF ClearRetried, Fault, TypeOK, browser, upload, project
<1>6. CASE Plan
  <2>1. row # NoRow => row.bed \in Beds
    BY BedOfRow
  <2>2. land' \in LandStates
    BY <1>6, <2>1, NothingIsNoBed DEF Plan, Pending, LandStates, TypeOK, Stages, Bedless, MayBeds
  <2> QED BY <1>6, <2>2 DEF Plan, TypeOK, browser, upload, project
<1>7. CASE Gate
  <2>1. land' \in LandStates /\ land.bed \in Beds
    BY <1>7, LandStep DEF Gate, Stages, Bedless
  <2>2. row' \in {NoRow} \cup Rows
    <3>1. CASE acked # Nothing
      BY <1>7, <3>1 DEF Gate, TypeOK
    <3>2. CASE MarkLanded(land.bed) \/ MarkFailed(land.bed)
      BY <2>1, <3>2, MarksFlag
    <3> QED BY <1>7, <3>1, <3>2 DEF Gate
  <2> QED BY <1>7, <2>1, <2>2 DEF Gate, TypeOK, browser, upload, project
<1>8. CASE Copy
  <2>1. land' \in LandStates /\ land.bed \in Beds
    BY <1>8, LandStep DEF Copy, Stages, Bedless
  <2>2. \A r \in Waivers : [r EXCEPT !.intact = FALSE] \in Waivers
    BY DEF Waivers
  <2> QED BY <1>8, <2>1, <2>2 DEF Copy, TypeOK, browser, upload, project
<1>9. CASE CopyFails
  <2>1. land' \in LandStates /\ land.bed \in Beds
    BY <1>9, LandStep DEF CopyFails, Stages, Bedless
  <2> QED BY <1>9, <2>1, Numbers DEF CopyFails, Fault, TypeOK, browser, upload, project
<1>10. CASE Register
  <2>1. row' \in {NoRow} \cup Rows
    BY <1>10, MarksFlag DEF Register, TypeOK, Bedless
  <2>2. land' \in LandStates
    <3>1. \A p \in {Nothing, Other} : [land EXCEPT !.at = "commit", !.prior = p] \in LandStates
      BY <1>10 DEF Register, LandStates, TypeOK, Stages, Bedless
    <3>2. [land EXCEPT !.at = "end"] \in LandStates
      BY DEF LandStates, TypeOK, Stages, Bedless
    <3>3. (IF AtPath(reg) THEN Nothing ELSE reg) \in {Nothing, Other}
      BY DEF AtPath, TypeOK, MayBeds
    <3> QED BY <1>10, <3>1, <3>2, <3>3 DEF Register, Lands
  <2> QED BY <1>10, <2>1, <2>2 DEF Register, TypeOK, browser, upload, project
<1>11. CASE SaveRegistration
  <2>1. land' \in LandStates /\ land.bed \in Beds
    BY <1>11, LandStep DEF SaveRegistration, Stages, Bedless
  <2>2. /\ reg' \in MayBeds \cup {Other} /\ past' \in Seq(MayBeds \cup {Other})
        /\ Len(past') <= MaxUndo
    BY <1>11, Committed DEF SaveRegistration
  <2> QED BY <1>11, <2>1, <2>2 DEF SaveRegistration, TypeOK, browser, upload, Grounds
<1>12. CASE SaveFails
  <2>1. land' \in LandStates /\ land.bed \in Beds
    BY <1>12, LandStep DEF SaveFails, Stages, Bedless
  <2>2. row' \in {NoRow} \cup Rows
    BY <1>12, <2>1, MarksFlag DEF SaveFails, SaidFailed
  <2> QED BY <1>12, <2>1, <2>2, Numbers DEF SaveFails, Fault, TypeOK, browser, upload, project
<1>19. CASE SaveRaises
  <2>1. land' \in LandStates /\ land.bed \in Beds
    BY <1>19, LandStep DEF SaveRaises, Stages, Bedless
  <2>2. row' \in {NoRow} \cup Rows
    BY <1>19, <2>1, MarksFlag DEF SaveRaises, SaidFailed
  <2>3. /\ reg' \in MayBeds \cup {Other} /\ past' \in Seq(MayBeds \cup {Other})
        /\ Len(past') <= MaxUndo
    BY <1>19, Committed DEF SaveRaises
  <2> QED BY <1>19, <2>1, <2>2, <2>3, Numbers
          DEF SaveRaises, Fault, TypeOK, browser, upload, Grounds
<1>20. CASE MarkFails
  <2>1. land' \in LandStates
    BY <1>20, BedlessStep DEF MarkFails, Bedless
  <2> QED BY <1>20, <2>1, Numbers DEF MarkFails, Fault, TypeOK, browser, upload, Grounds
<1>21. CASE LandRaises
  <2>1. land' \in LandStates
    BY <1>21, BedlessStep DEF LandRaises, Bedless
  <2> QED BY <1>21, <2>1, Numbers DEF LandRaises, Fault, TypeOK, browser, upload, project
<1>22. CASE RowsUnread
  <2>1. land' \in LandStates
    BY <1>22, BedlessStep DEF RowsUnread, Bedless
  <2> QED BY <1>22, <2>1, Numbers DEF RowsUnread, Fault, TypeOK, browser, upload, project
<1>13. CASE Mark
  <2>1. land' \in LandStates /\ land.bed \in Beds
    BY <1>13, LandStep DEF Mark, Stages, Bedless
  <2>2. row' \in {NoRow} \cup Rows
    BY <1>13, <2>1, MarksFlag DEF Mark
  <2> QED BY <1>13, <2>1, <2>2 DEF Mark, TypeOK, browser, upload, Grounds
<1>14. CASE Defer
  <2>1. land' \in LandStates /\ land.bed \in Beds
    BY <1>14, LandStep DEF Defer, Stages, Bedless
  <2>2. [bed |-> land.bed, prior |-> land.prior, intact |-> TRUE, tried |-> FALSE] \in Waivers
    BY <2>1 DEF Waivers
  <2>3. waived' \subseteq Waivers
    BY <1>14, <2>2 DEF Defer, TypeOK
  <2> QED BY <1>14, <2>1, <2>3, Numbers DEF Defer, Fault, TypeOK, browser, upload, project
<1>15. CASE RollBack
  <2>1. land' \in LandStates /\ land.bed \in Beds
    BY <1>15, LandStep DEF RollBack, Stages, Bedless
  <2>2. land.prior \in MayBeds \cup {Other}
    BY DEF MayBeds
  <2>3. /\ reg' \in MayBeds \cup {Other} /\ past' \in Seq(MayBeds \cup {Other})
        /\ Len(past') <= MaxUndo
    BY <1>15, <2>2, Committed DEF RollBack
  <2> QED BY <1>15, <2>1, <2>3 DEF RollBack, TypeOK, browser, upload
<1>16. CASE RollBackFails
  <2>1. land' \in LandStates /\ land.bed \in Beds
    BY <1>16, LandStep DEF RollBackFails, Stages, Bedless
  <2>2. land.prior \in MayBeds \cup {Other}
    BY DEF MayBeds
  <2>3. /\ reg' \in MayBeds \cup {Other} /\ past' \in Seq(MayBeds \cup {Other})
        /\ Len(past') <= MaxUndo
    BY <1>16, <2>2, Committed DEF RollBackFails, TypeOK
  <2>4. by' \in Grounds
    BY <1>16 DEF RollBackFails, Forgotten, TypeOK, Grounds
  <2> QED BY <1>16, <2>1, <2>3, <2>4, Numbers DEF RollBackFails, Fault, TypeOK, browser, upload
<1>17. CASE ClearDeferred
  <2>1. land' \in LandStates /\ land.bed \in Beds
    BY <1>17, LandStep DEF ClearDeferred, Stages, Bedless
  <2> QED BY <1>17, <2>1, Numbers DEF ClearDeferred, Fault, TypeOK, browser, upload, project
<1>18. CASE EndLand \/ RaiseLand
  <2>1. NoLand \in LandStates
    BY DEF NoLand, LandStates, Stages, MayBeds, Bedless
  <2>2. row' \in {NoRow} \cup Rows
    BY <1>18, MarksFlag, BedOfRow DEF EndLand, RaiseLand, TypeOK
  <2>3. post' \in Posts
    <3>1. \A to \in {"check", "fail"} : Then(land.for, to) \in Posts
      BY DEF Then, TypeOK, Posts
    <3> QED BY <1>18, <3>1 DEF EndLand, RaiseLand
  <2>4. faults' \in 0..MaxFaults
    BY <1>18, Numbers DEF EndLand, RaiseLand, Fault, TypeOK
  <2> QED BY <1>18, <2>1, <2>2, <2>3, <2>4 DEF EndLand, RaiseLand, TypeOK, browser, upload, project
<1> QED BY <1>1, <1>2, <1>3, <1>4, <1>5, <1>6, <1>7, <1>8, <1>9, <1>10, <1>11, <1>12,
           <1>13, <1>14, <1>15, <1>16, <1>17, <1>18, <1>19, <1>20, <1>21, <1>22
       DEF LandSteps, LandFails

(* What the request that completed a bed does after its land.              *)
Reports(b) == Busy(b) \/ Check(b) \/ Fail(b) \/ ReportFails(b)

LEMMA RestTyped ==
  ASSUME TypeOK,
         \/ \E b \in Beds : Reports(b)
         \/ Undo \/ CrashHost \/ CrashServer
  PROVE  TypeOK'
<1>1. ASSUME NEW b \in Beds, Reports(b)
      PROVE  TypeOK'
  <2>1. post' \in Posts
    BY <1>1 DEF Reports, Busy, Check, Fail, ReportFails, TypeOK, Posts
  <2>2. row' \in {NoRow} \cup Rows
    BY <1>1, MarksFlag DEF Reports, Busy, Check, Fail, ReportFails, TypeOK
  <2>3. Parts[b] \in Nat
    BY BedAssumption
  <2>4. Request("part", b, Parts[b]) \in Ops
    BY <2>3, RequestTyped
  <2>5. tab' \in Tabs /\ (tab'.sent => tab'.bed # 0) /\ reqs' \subseteq Ops
    BY <1>1, <2>4, AnswerTyped DEF Reports, Busy, Check, Fail, ReportFails, TypeOK, browser
  <2>6. faults' \in 0..MaxFaults
    <3>1. CASE ReportFails(b)
      BY <3>1, Numbers DEF ReportFails, Fault, TypeOK
    <3>2. CASE Busy(b) \/ Check(b) \/ Fail(b)
      BY <3>2 DEF Busy, Check, Fail, TypeOK
    <3> QED BY <1>1, <3>1, <3>2 DEF Reports
  <2> QED BY <1>1, <2>1, <2>2, <2>5, <2>6
          DEF Reports, Busy, Check, Fail, ReportFails, TypeOK, upload, project
<1>2. CASE Undo
  <2> DEFINE S == MayBeds \cup {Other}
  <2>1. past \in Seq(S) /\ past # << >> /\ Len(past) <= MaxUndo
        /\ reg' = past[Len(past)] /\ past' = SubSeq(past, 1, Len(past) - 1)
    BY <1>2 DEF Undo, Last, Front, TypeOK
  <2> HIDE DEF S
  <2>2. reg' \in S /\ past' \in Seq(S) /\ Len(past') = Len(past) - 1 /\ Len(past) \in Nat
    <3>1. Len(past) \in Nat \ {0} /\ past[Len(past)] \in S
      BY <2>1
    <3> DEFINE n == Len(past) - 1
    <3>2. n \in Nat /\ n \in Int /\ 1 \in Int /\ \A i \in 1..n : past[i] \in S
      BY <2>1, <3>1
    <3> HIDE DEF n
    <3>3. SubSeq(past, 1, n) \in Seq(S) /\ Len(SubSeq(past, 1, n)) = n
      <4>1. /\ SubSeq(past, 1, n) \in Seq(S)
            /\ Len(SubSeq(past, 1, n)) = IF 1 <= n THEN n - 1 + 1 ELSE 0
        BY <3>2, SubSeqProperties
      <4> QED BY <3>2, <4>1
    <3> USE DEF n
    <3> QED BY <2>1, <3>1, <3>3
  <2> USE DEF S
  <2> QED BY <1>2, <2>1, <2>2, Numbers DEF Undo, TypeOK, browser, upload, Grounds
<1>a. NoLand \in LandStates
  BY DEF NoLand, LandStates, Stages, MayBeds, Bedless
<1>3. CASE CrashHost
  BY <1>3, <1>a, Numbers DEF CrashHost, LandDies, Forgotten, Fault, TypeOK, browser, upload, Grounds
<1>4. CASE CrashServer
  <2>1. post' \in Posts
    BY <1>4 DEF CrashServer, TypeOK, Posts
  <2>2. tab' \in Tabs /\ (tab'.sent => tab'.bed # 0)
    BY <1>4, TabTyped DEF CrashServer, TypeOK
  <2>3. land' \in LandStates /\ by' \in Grounds
    BY <1>4, <1>a DEF CrashServer, LandDies, Forgotten, TypeOK, Grounds
  <2> QED BY <1>4, <2>1, <2>2, <2>3, Numbers DEF CrashServer, Fault, TypeOK
<1> QED BY <1>1, <1>2, <1>3, <1>4

LEMMA TypedInit == Init => TypeOK
<1> SUFFICES ASSUME Init PROVE TypeOK
  OBVIOUS
<1>1. [bed |-> 0, part |-> 0, at |-> "idle", sent |-> FALSE] \in Tabs
  BY Numbers DEF Tabs
<1>2. NoLand \in LandStates
  BY DEF NoLand, LandStates, Stages, MayBeds, Bedless
<1>3. [b \in Beds |-> "none"] \in Posts
  BY DEF Posts
<1> QED BY <1>1, <1>2, <1>3, Shapes, Numbers DEF Init, TypeOK, MayBeds, Grounds

LEMMA NextTyped == TypeOK /\ [Next]_vars => TypeOK'
<1>1. TypeOK /\ Next => TypeOK'
  BY BrowserTyped, UploadTyped, LandTyped, RestTyped DEF Next, Reports
<1>2. TypeOK /\ UNCHANGED vars => TypeOK'
  BY DEF TypeOK, vars
<1> QED BY <1>1, <1>2

(* Every variable keeps its shape, and a land names a bed whenever it acts  *)
(* on one.                                                                 *)
THEOREM TypeCorrect == Spec => []TypeOK
BY TypedInit, NextTyped, PTL DEF Spec

-----------------------------------------------------------------------------
(* What a step leaves of the upload.                                       *)

SameWas == \A b \in Beds : Was(b)' <=> Was(b)

LEMMA Servings ==
  ASSUME TypeOK
  PROVE  /\ \A r \in reqs \cup Serving : r \in Ops /\ r.bed \in Beds /\ r.part \in Nat
         /\ ing = Free => Serving = {} /\ ing.at \notin Steps
         /\ ing # Free => Serving = {ing.req} /\ ing \in Ings /\ ing.at \in Steps
                          /\ ing.req \in Ops
BY Shapes DEF TypeOK, Serving, Ings, Ops

(* A step elsewhere: what the upload row is about stays, and whose request *)
(* has completed.                                                          *)
LEMMA UploadKept ==
  ASSUME TypeOK, UploadInv, UNCHANGED <<tab, reqs, ing, files, acked>>, Flagged,
         \A b \in Beds : post'[b] = "none" <=> post[b] = "none"
  PROVE  UploadInv' /\ SameWas
<1>1. SameWas
  BY DEF SameWas, Was
<1>2. Serving' = Serving
  BY DEF Serving
<1>3. \A r \in reqs \cup Serving : r.bed \in Beds
  BY Servings
<1>4. OnePartOut'
  BY <1>2 DEF UploadInv, OnePartOut
<1>5. NotTwice'
  <2>1. /\ \A b \in Beds : Was(b) => b <= tab.bed
        /\ \A r \in reqs : IsPart(r) => ~Was(r.bed)
        /\ \A r \in Serving : IsPart(r) =>
             post[r.bed] = "none" /\ (ing.at # "sweep" => ~Was(r.bed))
        /\ tab.bed \in Beds /\ Was(tab.bed) =>
             tab.at # "revoking" /\ (tab.at = "sending" => tab.part = Parts[tab.bed])
    BY DEF UploadInv, NotTwice
  <2>2. /\ \A b \in Beds : Was(b)' => b <= tab'.bed
        /\ \A r \in reqs' : IsPart(r) => ~Was(r.bed)'
        /\ \A r \in Serving' : IsPart(r) =>
             post'[r.bed] = "none" /\ (ing'.at # "sweep" => ~Was(r.bed)')
    BY <1>1, <1>2, <1>3, <2>1 DEF SameWas
  <2> QED BY <1>1, <2>1, <2>2 DEF NotTwice, SameWas, Was
<1>6. IngestAt'
  BY DEF UploadInv, IngestAt, Flagged, Final
<1>7. RowWas' /\ AckedStands' /\ AckMeansBytes'
  BY <1>1, BedOfRow DEF UploadInv, RowWas, AckedStands, AckMeansBytes, Flagged, SameWas, Bed
<1> QED BY <1>1, <1>4, <1>5, <1>6, <1>7 DEF UploadInv

(* Nothing new is sent but what withdraws a bed, and the browser waits for *)
(* what it waited for, or for nothing.                                     *)
LEMMA Quieter ==
  ASSUME TypeOK, OnePartOut, NotTwice, SameWas,
         tab'.bed = tab.bed, tab'.at = "idle" \/ UNCHANGED tab,
         \A r \in reqs' : r \in reqs \/ (~IsPart(r) /\ r.bed <= tab.bed),
         \/ Serving' = {}
         \/ /\ Serving' = Serving /\ UNCHANGED post
            /\ ing.at = "sweep" => ing'.at = "sweep"
  PROVE  OnePartOut' /\ NotTwice'
<1>1. \A r \in reqs \cup Serving : r.bed \in Beds
  BY Servings
<1>2. Serving' \subseteq Serving
  OBVIOUS
<1>3. OnePartOut'
  BY <1>2 DEF OnePartOut
<1>4. \A b \in Beds : Was(b)' =>
        /\ b <= tab'.bed
        /\ b = tab'.bed => tab'.at # "revoking" /\ (tab'.at = "sending" => tab'.part = Parts[b])
  <2>1. \A b \in Beds : Was(b) =>
          /\ b <= tab.bed
          /\ b = tab.bed => tab.at # "revoking" /\ (tab.at = "sending" => tab.part = Parts[b])
    BY DEF NotTwice
  <2> QED BY <2>1 DEF SameWas
<1>5. \A r \in reqs' : IsPart(r) => ~Was(r.bed)'
  BY <1>1 DEF NotTwice, SameWas, Was
<1>6. \A r \in Serving' : IsPart(r) =>
        post'[r.bed] = "none" /\ (ing'.at # "sweep" => ~Was(r.bed)')
  BY <1>1, <1>2 DEF NotTwice, SameWas, Was
<1>7. NotTwice'
  BY <1>4, <1>5, <1>6 DEF NotTwice, Was
<1> QED BY <1>3, <1>7

(* A part request nobody has made yet, of the newest bed, is on its way.   *)
LEMMA Sends ==
  ASSUME TypeOK, OnePartOut, NotTwice, SameWas, NEW b \in Beds, NEW p \in Nat,
         tab.bed <= b, ~Was(b),
         \A r \in reqs : IsPart(r) => r.bed # b,
         \A r \in Serving' : r \in Serving /\ (IsPart(r) => r.bed # b),
         Serving' = {} \/ UNCHANGED <<ing, post>>,
         \A c \in Beds : c = b \/ ~Was(c) \/ c <= b,
         tab' = Sending(b, p), reqs' = reqs \cup {Request("part", b, p)}
  PROVE  OnePartOut' /\ NotTwice'
<1>1. \A r \in reqs \cup Serving : r.bed \in Beds /\ r.bed <= tab.bed
  BY Servings DEF OnePartOut
<1>2. tab'.bed = b /\ tab'.at = "sending" /\ tab'.part = p
  BY DEF Sending
<1>3. Request("part", b, p).bed = b /\ Request("part", b, p).part = p
      /\ IsPart(Request("part", b, p))
  BY DEF Request, IsPart
<1>4. tab.bed \in Nat /\ b \in Nat /\ \A r \in reqs \cup Serving : r.bed \in Nat
  BY <1>1 DEF TypeOK, Tabs, Beds
<1>5. \A r \in reqs' \cup Serving' : r.bed <= b
  BY <1>1, <1>3, <1>4
<1> HIDE DEF IsPart
<1>6. OnePartOut'
  BY <1>2, <1>3, <1>5 DEF OnePartOut
<1>7. \A c \in Beds : Was(c)' => c <= b
  BY DEF SameWas, Beds
<1>8. \A r \in reqs' : IsPart(r) => ~Was(r.bed)'
  BY <1>1, <1>3 DEF NotTwice, SameWas
<1>9. \A r \in Serving' : IsPart(r) =>
        post'[r.bed] = "none" /\ (ing'.at # "sweep" => ~Was(r.bed)')
  BY <1>1 DEF NotTwice, SameWas
<1>10. ~Was(b)'
  BY DEF SameWas
<1> QED BY <1>2, <1>6, <1>7, <1>8, <1>9, <1>10 DEF NotTwice, Was

LEMMA ServerKept ==
  ASSUME TypeOK, UploadInv, UNCHANGED <<ing, files, acked, row, post>>
  PROVE  SameWas /\ Serving' = Serving /\ IngestAt' /\ RowWas' /\ AckedStands' /\ AckMeansBytes'
BY DEF UploadInv, SameWas, Was, Serving, IngestAt, RowWas, AckedStands, AckMeansBytes, Bed, Final

LEMMA BrowserUpload ==
  ASSUME TypeOK, UploadInv, Record \/ Drop \/ GiveUp
  PROVE  UploadInv' /\ SameWas
<1>1. UNCHANGED <<ing, files, acked, row, post>>
  BY DEF Record, Drop, GiveUp, upload
<1>2. SameWas /\ Serving' = Serving /\ IngestAt' /\ RowWas' /\ AckedStands' /\ AckMeansBytes'
  BY <1>1, ServerKept
<1>3. OnePartOut /\ NotTwice /\ tab \in Tabs
  BY DEF UploadInv, TypeOK
<1>4. CASE Drop \/ GiveUp
  <2>1. tab'.bed = tab.bed /\ tab'.at = "idle"
    BY <1>3, <1>4 DEF Drop, GiveUp, Tabs
  <2>2. \A r \in reqs' : r \in reqs \/ (~IsPart(r) /\ r.bed <= tab.bed)
    BY <1>3, <1>4 DEF Drop, GiveUp, Request, IsPart, Tabs
  <2> QED BY <1>1, <1>2, <1>3, <2>1, <2>2, Quieter DEF UploadInv
<1>5. CASE Record
  <2> DEFINE b == tab.bed + 1
  <2>1. b \in Beds /\ tab.bed \in Nat /\ tab.bed < b
    BY <1>3, <1>5, Numbers DEF Record, Beds, Tabs
  <2>2. \A r \in reqs \cup Serving : r.bed \in Nat /\ r.bed <= tab.bed
    BY <1>3, Servings DEF OnePartOut, Beds
  <2>3. \A c \in Beds : Was(c) => c <= tab.bed /\ c # b
    BY <1>3, <2>1 DEF NotTwice, Beds
  <2>4. CASE tab.sent
    <3>1. /\ tab'.bed = b /\ tab'.at = "revoking"
          /\ reqs' = reqs \cup {Request("revoke", b, 0)}
      BY <1>5, <2>4 DEF Record
    <3>a. b <= b /\ \A r \in reqs \cup Serving : r.bed <= b /\ r.bed # b
      BY <2>1, <2>2 DEF Beds
    <3> HIDE DEF b
    <3>2. ~IsPart(Request("revoke", b, 0)) /\ Request("revoke", b, 0).bed = b
      BY DEF Request, IsPart
    <3>3. OnePartOut'
      BY <1>2, <1>3, <3>1, <3>2, <3>a DEF OnePartOut
    <3>4. \A c \in Beds : Was(c)' => c <= b /\ c # b
      BY <1>2, <2>1, <2>3 DEF SameWas, Beds
    <3>5. NotTwice'
      BY <1>1, <1>2, <1>3, <2>1, <3>1, <3>2, <3>4 DEF NotTwice, Was
    <3> QED BY <1>2, <3>3, <3>5 DEF UploadInv
  <2>5. CASE ~tab.sent
    <3>1. tab' = Sending(b, 1) /\ reqs' = reqs \cup {Request("part", b, 1)}
      BY <1>5, <2>5 DEF Record
    <3>2. tab.bed <= b /\ ~Was(b) /\ 1 \in Nat
          /\ (\A r \in reqs : IsPart(r) => r.bed # b)
          /\ (\A r \in Serving' : r \in Serving /\ (IsPart(r) => r.bed # b))
          /\ (\A c \in Beds : c = b \/ ~Was(c) \/ c <= b)
      BY <1>2, <2>1, <2>2, <2>3 DEF Beds
    <3> HIDE DEF b
    <3>3. OnePartOut' /\ NotTwice'
      BY <1>1, <1>2, <1>3, <2>1, <3>1, <3>2, Sends
    <3> QED BY <1>2, <3>3 DEF UploadInv
  <2> QED BY <2>4, <2>5
<1> QED BY <1>4, <1>5

LEMMA TakeUpload ==
  ASSUME TypeOK, UploadInv, NEW r \in reqs, Take(r)
  PROVE  UploadInv' /\ SameWas
<1>1. /\ ing = Free /\ reqs' = reqs \ {r} /\ UNCHANGED <<tab, files, row, acked, post>>
      /\ ing' = [req |-> r, at |-> IF r.op # "part" \/ Supersedes(r) THEN "unlink" ELSE Store(r)]
  BY DEF Take
<1>2. /\ ing'.req = r /\ ing' # Free /\ Serving = {} /\ Serving' = {r}
      /\ ing'.at \in {"unlink", "row", "assemble", "done"} /\ ing.at = "free"
      /\ ing'.at \in {"row", "assemble"} => IsPart(r) /\ ~Supersedes(r)
      /\ ing'.at = "assemble" => Final(r)
  BY <1>1 DEF Serving, Free, Store, IsPart
<1>3. SameWas
  BY <1>1, <1>2 DEF SameWas, Was
<1>4. r \in Ops /\ r.bed \in Beds
  BY Servings DEF TypeOK
<1>5. OnePartOut'
  BY <1>1, <1>2 DEF UploadInv, OnePartOut
<1>6. NotTwice'
  <2>1. IsPart(r) => ~Was(r.bed) /\ post[r.bed] = "none"
    BY DEF UploadInv, NotTwice, Was
  <2> QED BY <1>1, <1>2, <2>1 DEF UploadInv, NotTwice, Was
<1>7. IngestAt'
  <2>1. CASE ing'.at \in {"row", "assemble"} /\ Final(r)
    <3>1. Bed(row) \in {Nothing, r.bed} /\ ~Was(r.bed)
      BY <1>2, <2>1 DEF Supersedes, UploadInv, NotTwice
    <3>2. row = NoRow
      BY <3>1, BedOfRow DEF UploadInv, RowWas
    <3> QED BY <1>1, <1>2, <2>1, <3>2 DEF IngestAt
  <2> QED BY <1>1, <1>2, <2>1 DEF IngestAt
<1>8. RowWas' /\ AckedStands' /\ AckMeansBytes'
  BY <1>1, <1>2 DEF UploadInv, RowWas, AckedStands, AckMeansBytes, Was, Bed
<1> QED BY <1>3, <1>5, <1>6, <1>7, <1>8 DEF UploadInv

(* What the ingest lock's holder does but acknowledging.                   *)
LEMMA IngestUpload ==
  ASSUME TypeOK, UploadInv,
         ClearParts \/ ClearAcked \/ ClearPartRows \/ ClearRow \/ PutRow \/ PutFile \/ Assemble
  PROVE  UploadInv' /\ SameWas
<1>1. PICK from \in Steps \ {"sweep"}, to \in Steps \ {"sweep"} : Ingest(from, to)
  BY DEF ClearParts, ClearAcked, ClearPartRows, ClearRow, PutRow, PutFile, Assemble, Steps
<1>2. /\ ing \in Ings /\ ing.req \in Ops /\ ing.at = from
      /\ ing' \in Ings /\ ing'.req = ing.req /\ ing'.at = to
  BY <1>1, IngestStep
<1>3. UNCHANGED <<tab, reqs, post>>
  BY DEF ClearParts, ClearAcked, ClearPartRows, ClearRow, PutRow, PutFile, Assemble, browser
<1>4. Serving' = Serving /\ SameWas
  BY <1>1, <1>2, <1>3, Shapes DEF Serving, SameWas, Was
<1>5. OnePartOut' /\ NotTwice'
  BY <1>1, <1>2, <1>3, <1>4, Quieter DEF UploadInv
<1>6. Serving = {ing.req} /\ ing.req.bed \in Beds
  BY <1>2, Shapes DEF Serving, Ops
<1>7. IsPart(ing.req) => ~Was(ing.req.bed)
  BY <1>1, <1>2, <1>6 DEF UploadInv, NotTwice
<1>8. row # NoRow => row.bed \in Beds /\ Was(row.bed)
  BY BedOfRow DEF UploadInv, RowWas
<1>9. \A b \in Beds : Was(b)' <=> Was(b)
  BY <1>4 DEF SameWas
<1>a. CASE ClearParts
  <2>1. ing.at = "unlink" /\ ing'.at = "unlinkAcked" /\ files' = NoParts /\ UNCHANGED <<row, acked>>
    BY <1>a, <1>2, IngestStep DEF ClearParts, Steps
  <2>2. IngestAt'
    BY <2>1 DEF IngestAt
  <2>3. RowWas' /\ AckedStands' /\ AckMeansBytes'
    BY <1>8, <1>9, <2>1, NothingIsNoBed DEF UploadInv, RowWas, AckedStands, AckMeansBytes, NoParts, Bed
  <2> QED BY <1>4, <1>5, <2>2, <2>3 DEF UploadInv
<1>b. CASE ClearAcked
  <2>1. /\ ing.at = "unlinkAcked" /\ ing'.at = "deleteParts" /\ acked' = Nothing
        /\ UNCHANGED <<row, files>>
    BY <1>b, <1>2, IngestStep DEF ClearAcked, Steps
  <2>2. files = NoParts
    BY <2>1 DEF UploadInv, IngestAt
  <2>3. IngestAt'
    BY <2>1, <2>2 DEF IngestAt
  <2>4. RowWas' /\ AckedStands' /\ AckMeansBytes'
    BY <1>8, <1>9, <2>1, <2>2, NothingIsNoBed DEF UploadInv, RowWas, AckedStands, AckMeansBytes, NoParts, Bed
  <2> QED BY <1>4, <1>5, <2>3, <2>4 DEF UploadInv
<1>c. CASE ClearPartRows
  <2>1. /\ ing.at = "deleteParts" /\ ing'.at = "deleteRow" /\ UNCHANGED <<row, files, acked>>
    BY <1>c, <1>2, IngestStep DEF ClearPartRows, Steps
  <2>2. IngestAt'
    BY <2>1 DEF UploadInv, IngestAt
  <2>3. RowWas' /\ AckedStands' /\ AckMeansBytes'
    BY <1>8, <1>9, <2>1 DEF UploadInv, RowWas, AckedStands, AckMeansBytes, Bed
  <2> QED BY <1>4, <1>5, <2>2, <2>3 DEF UploadInv
<1>d. CASE ClearRow
  <2>1. /\ ing.at = "deleteRow" /\ row' = NoRow /\ UNCHANGED <<files, acked>>
        /\ ing'.at = IF IsPart(ing.req) THEN "row" ELSE "done"
    BY <1>d, <1>2, IngestStep DEF ClearRow, Ingest, Steps, IsPart
  <2>2. acked = Nothing
    BY <2>1 DEF UploadInv, IngestAt
  <2>3. IngestAt'
    BY <1>2, <2>1, <2>2 DEF IngestAt, IsPart
  <2>4. RowWas' /\ AckedStands' /\ AckMeansBytes'
    BY <2>1, <2>2, NothingIsNoBed DEF RowWas, AckedStands, AckMeansBytes
  <2> QED BY <1>4, <1>5, <2>3, <2>4 DEF UploadInv
<1>e. CASE PutRow
  <2>1. /\ ing.at = "row" /\ ing'.at = "file" /\ UNCHANGED <<row, files, acked>>
    BY <1>e, <1>2, IngestStep DEF PutRow, Steps
  <2>2. IngestAt'
    BY <1>2, <2>1 DEF UploadInv, IngestAt, Final
  <2>3. RowWas' /\ AckedStands' /\ AckMeansBytes'
    BY <1>8, <1>9, <2>1 DEF UploadInv, RowWas, AckedStands, AckMeansBytes, Bed
  <2> QED BY <1>4, <1>5, <2>2, <2>3 DEF UploadInv
<1>f. CASE PutFile
  <2>1. /\ ing.at = "file" /\ ing'.at = IF Final(ing.req) THEN "assemble" ELSE "done"
        /\ files' = [files EXCEPT ![ing.req.part] = ing.req.bed] /\ UNCHANGED <<row, acked>>
    BY <1>f, <1>2, IngestStep DEF PutFile, Ingest, Steps
  <2>2. IsPart(ing.req) /\ ~Was(ing.req.bed)
    BY <1>7, <2>1 DEF UploadInv, IngestAt
  <2>3. IngestAt'
    BY <1>2, <2>1 DEF UploadInv, IngestAt, Final
  <2>4. row # NoRow => row.bed # ing.req.bed
    BY <1>8, <2>2
  <2>5. AckMeansBytes'
    <3>1. \A p \in PartNos : files'[p] \in {files[p], ing.req.bed}
      BY <2>1 DEF TypeOK
    <3> QED BY <2>1, <2>4, <3>1 DEF UploadInv, AckMeansBytes
  <2>6. RowWas' /\ AckedStands'
    BY <1>8, <1>9, <2>1 DEF UploadInv, RowWas, AckedStands, Bed
  <2> QED BY <1>4, <1>5, <2>3, <2>5, <2>6 DEF UploadInv
<1>g. CASE Assemble
  <2>1. /\ ing.at = "assemble" /\ ing'.at = "mark" /\ acked' = ing.req.bed
        /\ UNCHANGED <<row, files>>
    BY <1>g, <1>2, IngestStep DEF Assemble, Steps
  <2>2. Final(ing.req) /\ row = NoRow /\ ~Was(ing.req.bed)
    BY <1>7, <2>1 DEF UploadInv, IngestAt, Final, IsPart
  <2>3. IngestAt'
    BY <1>2, <2>1, <2>2 DEF IngestAt, Final
  <2>4. RowWas' /\ AckedStands' /\ AckMeansBytes'
    BY <1>6, <1>9, <2>1, <2>2 DEF RowWas, AckedStands, AckMeansBytes
  <2> QED BY <1>4, <1>5, <2>3, <2>4 DEF UploadInv
<1> QED BY <1>a, <1>b, <1>c, <1>d, <1>e, <1>f, <1>g

(* The bed is acknowledged: the first time, and for good.                  *)
LEMMA MarkUpload ==
  ASSUME TypeOK, UploadInv, MarkFile
  PROVE  /\ UploadInv' /\ \A b \in Beds : Was(b) => Was(b)'
         /\ \E b \in Beds : ~Was(b) /\ Was(b)' /\ row' = Acked(b)
<1> DEFINE b == ing.req.bed
<1>1. /\ ing \in Ings /\ ing.req \in Ops /\ ing.at = "mark"
      /\ ing' \in Ings /\ ing'.req = ing.req /\ ing'.at = "sweep"
      /\ row' = Acked(b) /\ UNCHANGED <<tab, reqs, post, files, acked>>
  BY IngestStep DEF MarkFile, Steps, browser
<1>2. Serving = {ing.req} /\ Serving' = {ing.req} /\ b \in Beds
  BY <1>1, Shapes DEF Serving, Ops
<1>3. IsPart(ing.req) /\ ing.req.part = Parts[b] /\ acked = b /\ row = NoRow
  BY <1>1 DEF UploadInv, IngestAt, Final, IsPart
<1>4. ~Was(b) /\ post[b] = "none"
  BY <1>1, <1>2, <1>3 DEF UploadInv, NotTwice
<1>5. \A c \in Beds : Was(c)' <=> Was(c) \/ c = b
  BY <1>1 DEF Was
<1>6. row' = Acked(b) /\ row' # NoRow /\ row'.bed = b
  BY <1>1, <1>2, Shapes, NoRowIsNoRow
<1>7. \A r \in reqs \cup Serving : r.bed \in Beds
  BY Servings
<1>8. OnePartOut'
  BY <1>1, <1>2 DEF UploadInv, OnePartOut
<1>9. NotTwice'
  <2>1. \A c \in Beds : Was(c)' => c <= tab'.bed
    BY <1>1, <1>2, <1>5 DEF UploadInv, NotTwice, OnePartOut
  <2>2. \A r \in reqs' : IsPart(r) => ~Was(r.bed)'
    BY <1>1, <1>2, <1>3, <1>5, <1>7 DEF UploadInv, NotTwice, OnePartOut, Was
  <2>3. \A r \in Serving' : IsPart(r) =>
          post'[r.bed] = "none" /\ (ing'.at # "sweep" => ~Was(r.bed)')
    BY <1>1, <1>2, <1>4
  <2>4. \A c \in Beds : Was(c)' /\ c = tab'.bed =>
          tab'.at # "revoking" /\ (tab'.at = "sending" => tab'.part = Parts[c])
    <3>1. CASE tab.bed = b
      BY <1>1, <1>2, <1>3, <3>1 DEF UploadInv, OnePartOut
    <3>2. CASE tab.bed # b
      BY <1>1, <1>5, <3>2 DEF UploadInv, NotTwice
    <3> QED BY <3>1, <3>2
  <2> QED BY <2>1, <2>2, <2>3, <2>4 DEF NotTwice, Was
<1>10. IngestAt'
  BY <1>1, <1>3 DEF UploadInv, IngestAt, Final
<1>11. RowWas' /\ AckedStands' /\ AckMeansBytes'
  <2>1. Was(b)' /\ acked' = b
    BY <1>1, <1>2, <1>3, <1>5
  <2> QED BY <1>1, <1>2, <1>6, <2>1 DEF RowWas, AckedStands, AckMeansBytes, Was, Bed
<1>12. \A c \in Beds : Was(c) => Was(c)'
  BY <1>5
<1>13. \A c \in Beds : c = b => ~Was(c) /\ Was(c)' /\ row' = Acked(c)
  BY <1>4, <1>5, <1>6
<1>14. UploadInv'
  BY <1>8, <1>9, <1>10, <1>11 DEF UploadInv
<1> QED BY <1>2, <1>12, <1>13, <1>14

(* The lock is let go of, and the browser is answered or is not.           *)
LEMMA ReleaseUpload ==
  ASSUME TypeOK, UploadInv, Sweep \/ Reply \/ IngestFails
  PROVE  UploadInv' /\ SameWas
<1>1. ing' = Free /\ ing # Free /\ ing \in Ings /\ ing.req \in Ops /\ ing.req.bed \in Beds
      /\ UNCHANGED <<acked, row>> /\ Serving' = {} /\ Serving = {ing.req} /\ ing'.at = "free"
  <2>1. ing' = Free /\ UNCHANGED <<acked, row>> /\ ing # Free
    BY Shapes DEF Sweep, Reply, IngestFails
  <2>2. ing \in Ings /\ ing.req \in Ops /\ ing.req.bed \in Beds
    BY <2>1 DEF TypeOK, Ings, Ops
  <2> QED BY <2>1, <2>2, Shapes DEF Serving
<1>2. SameWas
  <2>1. CASE ing.at = "sweep"
    <3>1. \E to \in {"land", "died"} : post' = [post EXCEPT ![ing.req.bed] = to]
      BY <2>1 DEF Sweep, Reply, IngestFails
    <3> QED BY <1>1, <2>1, <3>1 DEF SameWas, Was, TypeOK, Posts
  <2>2. CASE ing.at # "sweep"
    BY <1>1, <2>2 DEF Sweep, Reply, IngestFails, SameWas, Was
  <2> QED BY <2>1, <2>2
<1>3. IngestAt'
  BY <1>1 DEF IngestAt
<1>4. RowWas' /\ AckedStands'
  BY <1>1, <1>2, BedOfRow DEF UploadInv, RowWas, AckedStands, SameWas, Bed
<1>5. AckMeansBytes'
  <2>1. row # NoRow => row.bed \in Beds
    BY BedOfRow
  <2>2. files' = files \/ files' = NoParts
    BY DEF Sweep, Reply, IngestFails
  <2> QED BY <1>1, <2>1, <2>2, NothingIsNoBed DEF UploadInv, AckMeansBytes, NoParts
<1>6. OnePartOut' /\ NotTwice'
  <2>1. CASE UNCHANGED browser \/ (tab' = [tab EXCEPT !.at = "idle"] /\ UNCHANGED reqs)
    <3>1. tab'.bed = tab.bed /\ (tab'.at = "idle" \/ UNCHANGED tab) /\ UNCHANGED reqs
      BY <2>1 DEF browser, TypeOK, Tabs
    <3> QED BY <1>1, <1>2, <3>1, Quieter DEF UploadInv
  <2>2. CASE /\ Awaits(ing.req) /\ ~Final(ing.req) /\ ing.at # "sweep"
             /\ \E p \in {1, ing.req.part + 1} :
                  /\ tab' = Sending(ing.req.bed, p)
                  /\ reqs' = reqs \cup {Request("part", ing.req.bed, p)}
    <3> DEFINE b == ing.req.bed
    <3>1. PICK p \in Nat : tab' = Sending(b, p) /\ reqs' = reqs \cup {Request("part", b, p)}
      BY <1>1, <2>2 DEF Ops
    <3>2. tab.bed = b /\ (~IsPart(ing.req) => tab.at = "revoking")
      BY <2>2 DEF Awaits, IsPart
    <3>3. ~Was(b)
      BY <1>1, <2>2, <3>2 DEF UploadInv, NotTwice
    <3>4. \A r \in reqs : IsPart(r) => r.bed # b
      BY <1>1, <3>2 DEF UploadInv, OnePartOut
    <3>5. tab.bed <= b /\ \A c \in Beds : c = b \/ ~Was(c) \/ c <= b
      BY <1>1, <3>2 DEF UploadInv, NotTwice, Beds
    <3> HIDE DEF b
    <3>6. b \in Beds
      BY <1>1 DEF b
    <3> QED BY <1>1, <1>2, <3>1, <3>3, <3>4, <3>5, <3>6, Sends DEF UploadInv
  <2>3. CASE Sweep
    BY <2>1, <2>3 DEF Sweep
  <2>4. CASE Reply
    <3>1. PICK ok : Answer(ing.req, ok) /\ ing.at # "sweep"
      BY <2>4 DEF Reply
    <3> QED BY <2>1, <2>2, <3>1, AnswerDoes DEF browser
  <2>5. CASE IngestFails
    <3>1. UNCHANGED browser \/ (tab' = [tab EXCEPT !.at = "idle"] /\ UNCHANGED reqs)
      BY <2>5 DEF IngestFails, Answer
    <3> QED BY <2>1, <3>1
  <2> QED BY <2>3, <2>4, <2>5
<1> QED BY <1>2, <1>3, <1>4, <1>5, <1>6 DEF UploadInv

LEMMA CrashUpload ==
  ASSUME TypeOK, UploadInv, CrashServer
  PROVE  UploadInv' /\ SameWas
<1>1. /\ reqs' = {} /\ ing' = Free /\ tab' = [tab EXCEPT !.at = "idle"]
      /\ UNCHANGED <<files, acked, row>> /\ tab'.bed = tab.bed /\ tab'.at = "idle"
      /\ Serving' = {} /\ ing'.at = "free"
  BY Shapes DEF CrashServer, TypeOK, Tabs, Serving
<1>2. SameWas
  BY <1>1 DEF CrashServer, SameWas, Was
<1>3. OnePartOut' /\ NotTwice'
  BY <1>1, <1>2, Quieter DEF UploadInv
<1>4. IngestAt'
  BY <1>1 DEF IngestAt
<1>5. RowWas' /\ AckedStands' /\ AckMeansBytes'
  BY <1>1, <1>2, BedOfRow DEF UploadInv, RowWas, AckedStands, AckMeansBytes, SameWas, Bed
<1> QED BY <1>2, <1>3, <1>4, <1>5 DEF UploadInv

(* The request that completed a bed, once it is past its land.             *)
LEMMA AfterUpload ==
  ASSUME TypeOK, UploadInv, NEW b \in Beds, Reports(b)
  PROVE  /\ UploadInv' /\ SameWas /\ Flagged
         /\ row # NoRow => (row'.landed => row.landed)
         /\ \A c \in Beds : post'[c] = "none" <=> post[c] = "none"
<1>1. Flagged /\ UNCHANGED <<ing, files, acked>>
  BY MarksFlag DEF Reports, Busy, Check, Fail, ReportFails, upload, browser
<1>2. \A c \in Beds : post'[c] = "none" <=> post[c] = "none"
  BY DEF Reports, Busy, Check, Fail, ReportFails, TypeOK, Posts
<1>3. row # NoRow => (row'.landed => row.landed)
  BY BedOfRow DEF Reports, Busy, Check, Fail, ReportFails, MarkFailed, TypeOK, Rows
<1>4. SameWas
  BY <1>1, <1>2 DEF SameWas, Was
<1>5. tab'.bed = tab.bed /\ (tab'.at = "idle" \/ UNCHANGED tab) /\ UNCHANGED reqs
  <2>1. UNCHANGED browser \/ \E ok \in BOOLEAN : Answer(Request("part", b, Parts[b]), ok)
    BY DEF Reports, Busy, Check, Fail, ReportFails
  <2>2. Final(Request("part", b, Parts[b]))
    BY DEF Final, Request
  <2>3. UNCHANGED browser \/ (tab' = [tab EXCEPT !.at = "idle"] /\ UNCHANGED reqs)
    BY <2>1, <2>2, AnswerDoes
  <2> QED BY <2>3 DEF browser, TypeOK, Tabs
<1>6. post[b] # "none"
  BY DEF Reports, Busy, Check, Fail, ReportFails
<1>7. Serving' = Serving /\ \A r \in Serving : r.bed \in Beds
  BY <1>1, Servings DEF Serving
<1>8. OnePartOut'
  BY <1>5, <1>7 DEF UploadInv, OnePartOut
<1>9. NotTwice'
  <2>1. \A c \in Beds : Was(c)' =>
          /\ c <= tab'.bed
          /\ c = tab'.bed => tab'.at # "revoking" /\ (tab'.at = "sending" => tab'.part = Parts[c])
    <3>1. \A c \in Beds : Was(c) =>
            /\ c <= tab.bed
            /\ c = tab.bed => tab.at # "revoking" /\ (tab.at = "sending" => tab.part = Parts[c])
      BY DEF UploadInv, NotTwice
    <3> QED BY <1>4, <1>5, <3>1 DEF SameWas
  <2>2. \A r \in reqs' : IsPart(r) => ~Was(r.bed)'
    <3>1. \A r \in reqs : r.bed \in Beds
      BY Servings
    <3> QED BY <1>4, <1>5, <3>1 DEF UploadInv, NotTwice, SameWas, Was
  <2>3. \A r \in Serving' : IsPart(r) =>
          post'[r.bed] = "none" /\ (ing'.at # "sweep" => ~Was(r.bed)')
    BY <1>1, <1>2, <1>4, <1>7 DEF UploadInv, NotTwice, SameWas, Was
  <2> QED BY <2>1, <2>2, <2>3 DEF NotTwice, Was
<1>10. IngestAt'
  BY <1>1 DEF UploadInv, IngestAt, Flagged, Final
<1>11. RowWas' /\ AckedStands' /\ AckMeansBytes'
  BY <1>1, <1>4, BedOfRow DEF UploadInv, RowWas, AckedStands, AckMeansBytes, Flagged, SameWas, Bed
<1> QED BY <1>1, <1>2, <1>3, <1>4, <1>8, <1>9, <1>10, <1>11 DEF UploadInv

LEMMA LandUpload ==
  ASSUME TypeOK, UploadInv, LandInv,
         \/ LandSteps \/ LandFails \/ Undo \/ CrashHost
         \/ \E who \in Beds \cup {Host} : StartLand(who)
  PROVE  /\ UploadInv' /\ SameWas /\ Flagged
         /\ \A b \in Beds : post'[b] = "none" <=> post[b] = "none"
<1> USE DEF browser, upload
<1>1. UNCHANGED <<tab, reqs, ing, files, acked>>
  BY DEF LandSteps, LandFails, Undo, CrashHost, StartLand, SortWaived, Retry, ClearRetried,
         Plan, Gate, Copy, Register, SaveRegistration, Mark, Defer, RollBack, ClearDeferred,
         EndLand, RaiseLand, RetryFails, CopyFails, SaveFails, SaveRaises, MarkFails, RowsUnread,
         LandRaises, RollBackFails
<1>2. Flagged
  <2>1. CASE Gate \/ Register \/ SaveFails \/ SaveRaises \/ Mark
    <3>1. land.bed \in Beds
      BY <2>1, LandParts DEF Gate, Register, SaveFails, SaveRaises, SaidFailed, Mark, Lands, Bedless
    <3>2. MarkLanded(land.bed) \/ MarkFailed(land.bed) \/ UNCHANGED row
      BY <2>1 DEF Gate, Register, SaveFails, SaveRaises, SaidFailed, Mark
    <3> QED BY <3>1, <3>2, MarksFlag
  <2>2. CASE RaiseLand
    <3>1. UNCHANGED row \/ (row.bed \in Beds /\ MarkFailed(row.bed))
      BY <2>2, BedOfRow DEF RaiseLand
    <3>2. CASE UNCHANGED row
      BY <3>2 DEF Flagged, TypeOK
    <3>3. CASE row.bed \in Beds /\ MarkFailed(row.bed)
      BY <3>3, MarksFlag
    <3> QED BY <3>1, <3>2, <3>3
  <2>3. CASE UNCHANGED row
    BY <2>3 DEF Flagged, TypeOK
  <2> QED BY <2>1, <2>2, <2>3
       DEF LandSteps, LandFails, Undo, CrashHost, StartLand, SortWaived, Retry, ClearRetried,
           Plan, Copy, SaveRegistration, Defer, RollBack, ClearDeferred, EndLand, RetryFails,
           CopyFails, MarkFails, RowsUnread, LandRaises, RollBackFails
<1>3. \A b \in Beds : post'[b] = "none" <=> post[b] = "none"
  <2>1. CASE EndLand \/ RaiseLand
    <3>1. \E to \in {"check", "fail"} : post' = Then(land.for, to)
      BY <2>1 DEF EndLand, RaiseLand
    <3>2. land.for \in Beds => post[land.for] # "none"
      BY DEF LandInv, LandsBed
    <3> QED BY <3>1, <3>2 DEF Then, TypeOK, Posts
  <2>2. CASE UNCHANGED post
    BY <2>2
  <2> QED BY <2>1, <2>2
       DEF LandSteps, LandFails, Undo, CrashHost, StartLand, SortWaived, Retry, ClearRetried,
           Plan, Gate, Copy, Register, SaveRegistration, Mark, Defer, RollBack, ClearDeferred,
           RetryFails, CopyFails, SaveFails, SaveRaises, MarkFails, RowsUnread, LandRaises,
           RollBackFails
<1> QED BY <1>1, <1>2, <1>3, UploadKept

-----------------------------------------------------------------------------
(* What a step leaves of the land.                                         *)

(* The row is withdrawn, is of a bed acknowledged for the first time, or   *)
(* stays about its bed and does not begin to count as landed.              *)
RowMoves ==
  \/ row' = NoRow
  \/ \E b \in Beds : ~Was(b) /\ row' = Acked(b)
  \/ row # NoRow /\ row' # NoRow /\ row'.bed = row.bed /\ (row'.landed => row.landed)

WasGrows ==
  \A b \in Beds : /\ Was(b) => Was(b)'
                  /\ post[b] # "none" => post'[b] # "none"

LEMMA RowAbout ==
  ASSUME TypeOK, RowMoves
  PROVE  \A b \in Beds : Was(b) /\ Bed(row) # b => Bed(row)' # b
BY BedOfRow, NothingIsNoBed, Shapes, NoRowIsNoRow DEF RowMoves, Bed

(* A step outside the land leaves what the land rests on.                  *)
LEMMA LandKept ==
  ASSUME TypeOK, LandInv, UNCHANGED <<land, raw, reg, by, waived>>, RowMoves, WasGrows
  PROVE  LandInv'
<1>1. \A b \in Beds : Was(b) /\ Bed(row) # b => Bed(row)' # b
  BY RowAbout
<1>2. \A r \in waived : r.bed \in Beds
  BY DEF TypeOK, Waivers
<1>3. LandedIsRaw'
  BY Shapes, NoRowIsNoRow DEF LandInv, LandedIsRaw, RowMoves
<1>4. LandsBed'
  BY <1>1 DEF LandInv, LandsBed, WasGrows, HoldsProject, AtPath, Planned, Was, Bed
<1>5. OwedOfStale'
  BY <1>1, <1>2 DEF LandInv, OwedOfStale, WasGrows, Was, Bed
<1>6. UnmarkedIsStale'
  BY <1>1 DEF LandInv, UnmarkedIsStale, Unmarked, AtPath, WasGrows, Was, Bed
<1>7. UnmarkedIsOwed' /\ RetrySees'
  BY DEF LandInv, UnmarkedIsOwed, RetrySees, Unmarked, AtPath
<1> QED BY <1>3, <1>4, <1>5, <1>6, <1>7 DEF LandInv

(* The land is over, also when it died.                                    *)
LEMMA LandGone ==
  ASSUME TypeOK, LandInv, land' = NoLand, SameWas, Flagged,
         UNCHANGED <<raw, reg, waived>>,
         row # NoRow => (row'.landed => row.landed),
         IF land.at \in {"mark", "defer", "roll"} THEN Forgotten ELSE UNCHANGED by
  PROVE  LandInv'
<1>1. NoLand.at = "idle" /\ NoLand.for = Nothing /\ Nothing \notin Beds
  BY NothingIsNoBed DEF NoLand
<1>2. \A b \in Beds : Bed(row)' = b <=> Bed(row) = b
  BY BedOfRow, NothingIsNoBed DEF Flagged, Bed
<1>3. \A r \in waived : r.bed \in Beds
  BY DEF TypeOK, Waivers
<1>4. LandedIsRaw'
  BY DEF LandInv, LandedIsRaw, Flagged
<1>5. LandsBed' /\ RetrySees'
  BY <1>1 DEF LandsBed, RetrySees, HoldsProject, Planned
<1>6. OwedOfStale'
  BY <1>2, <1>3 DEF LandInv, OwedOfStale, SameWas, Was, Bed
<1>7. Unmarked' => Unmarked /\ UNCHANGED by
  BY DEF Unmarked, Forgotten, AtPath
<1>8. Unmarked' => land.at \notin {"mark", "defer"}
  BY <1>7 DEF Forgotten, Deferred, LandInv, LandsBed, Planned, Unmarked
<1>9. Unmarked' /\ land.at = "roll" => \E r \in waived : r.bed = reg /\ r.intact
  BY <1>7 DEF Forgotten, Deferred, LandInv, LandsBed, Unmarked
<1>10. UnmarkedIsStale'
  BY <1>2, <1>7, <1>8 DEF LandInv, UnmarkedIsStale, Unmarked, AtPath, SameWas, Was, Bed
<1>11. UnmarkedIsOwed'
  BY <1>7, <1>8, <1>9 DEF LandInv, UnmarkedIsOwed, Unmarked, AtPath
<1> QED BY <1>4, <1>5, <1>6, <1>10, <1>11 DEF LandInv

(* A step of the land that neither copies nor commits, nor drops a rollback *)
(* that is owed.                                                           *)
LEMMA OwedKept ==
  ASSUME TypeOK, LandInv, SameWas, Flagged, UNCHANGED <<raw, reg, by>>,
         row # NoRow => (row'.landed => row.landed \/ raw = row.bed),
         \A r \in waived' : \E q \in waived : q.bed = r.bed,
         Unmarked => land.at \notin {"mark", "defer", "roll"},
         Unmarked => \A r \in waived : r.bed = reg /\ r.intact =>
                       \E q \in waived' : q.bed = reg /\ q.intact
  PROVE  LandedIsRaw' /\ OwedOfStale' /\ UnmarkedIsStale' /\ UnmarkedIsOwed'
<1>1. \A b \in Beds : (Was(b)' <=> Was(b)) /\ (Bed(row)' = b <=> Bed(row) = b)
  BY BedOfRow, NothingIsNoBed DEF Flagged, SameWas, Bed
<1>2. \A r \in waived : r.bed \in Beds
  BY DEF TypeOK, Waivers
<1>3. LandedIsRaw'
  BY DEF LandInv, LandedIsRaw, Flagged
<1>4. OwedOfStale'
  <2>1. \A r \in waived' : r.bed \in Beds /\ Was(r.bed) /\ Bed(row) # r.bed
    BY <1>2 DEF LandInv, OwedOfStale
  <2>2. \A b \in Beds : Was(b) /\ Bed(row) # b => Was(b)' /\ Bed(row)' # b
    BY <1>1
  <2> QED BY <2>1, <2>2 DEF OwedOfStale, Was, Bed
<1>5. UnmarkedIsStale'
  BY <1>1 DEF LandInv, UnmarkedIsStale, Unmarked, AtPath, Was, Bed
<1>6. UnmarkedIsOwed'
  BY DEF LandInv, UnmarkedIsOwed, Unmarked, AtPath
<1> QED BY <1>3, <1>4, <1>5, <1>6

(* The land before it has a bed to land.                                   *)
LEMMA EarlyLand ==
  ASSUME TypeOK, UploadInv, LandInv, SameWas, Flagged,
         \/ SortWaived \/ ClearRetried \/ RowsUnread \/ Plan
         \/ \E who \in Beds \cup {Host} : StartLand(who)
  PROVE  LandInv'
<1> USE DEF project
<1>1. UNCHANGED <<raw, reg, by, row, post>>
  BY DEF SortWaived, ClearRetried, RowsUnread, Plan, StartLand
<1>2. \A b \in Beds : (Was(b)' <=> Was(b)) /\ Bed(row)' = Bed(row)
  BY <1>1 DEF SameWas, Bed
<1>3. /\ land.at \notin {"mark", "defer", "roll"}
      /\ land.for \in Beds => post[land.for] # "none"
  <2>1. land.at \in {"idle", "waived", "retry", "retried", "plan"}
    <3>1. NoLand.at = "idle"
      BY DEF NoLand
    <3>2. CASE \E who \in Beds \cup {Host} : StartLand(who)
      BY <3>1, <3>2 DEF StartLand
    <3>3. CASE SortWaived
      BY <3>3 DEF SortWaived
    <3>4. CASE ClearRetried \/ RowsUnread \/ Plan
      BY <3>4 DEF ClearRetried, RowsUnread, Plan, Lands
    <3> QED BY <3>2, <3>3, <3>4
  <2> QED BY <2>1 DEF LandInv, LandsBed
<1>4. ASSUME \A r \in waived' : \E q \in waived : q.bed = r.bed,
             Unmarked => \A r \in waived : r.bed = reg /\ r.intact =>
                           \E q \in waived' : q.bed = reg /\ q.intact,
             land.at \notin {"mark", "defer", "roll"},
             LandsBed', RetrySees'
      PROVE  LandInv'
  BY <1>1, <1>4, OwedKept DEF LandInv
<1>a. CASE \E who \in Beds \cup {Host} : StartLand(who)
  <2>1. PICK who \in Beds \cup {Host} : StartLand(who)
    BY <1>a
  <2>2. /\ land'.at = "waived" /\ land'.for = who /\ land'.seen = reg /\ land.at = "idle"
        /\ UNCHANGED waived /\ (who \in Beds => post[who] = "land")
    <3>1. /\ land = NoLand /\ (who \in Beds => post[who] = "land") /\ UNCHANGED waived
          /\ land' = [NoLand EXCEPT !.at = "waived", !.for = who, !.seen = reg]
      BY <2>1, NothingIsNoBed DEF StartLand
    <3> QED BY <3>1 DEF NoLand
  <2>3. LandsBed' /\ RetrySees'
    BY <1>1, <2>2 DEF LandsBed, RetrySees, Planned, HoldsProject
  <2> QED BY <1>3, <1>4, <2>2, <2>3
<1>b. CASE SortWaived
  <2>1. PICK skipped \in SUBSET {r \in waived : r.tried} :
          /\ land.at = "waived" /\ UNCHANGED <<reg, raw>>
          /\ land' = [land EXCEPT
               !.at = IF waived \ (skipped \cup {r \in waived \ skipped : Moot(r)}) = {}
                      THEN "plan" ELSE "retry",
               !.due = waived \ (skipped \cup {r \in waived \ skipped : Moot(r)})]
          /\ waived' \in {waived, waived \ {r \in waived \ skipped : Moot(r)}}
    BY <1>b DEF SortWaived
  <2> DEFINE moot == {r \in waived \ skipped : Moot(r)}
  <2>2. /\ land'.for = land.for /\ land'.at \in {"retry", "plan"}
        /\ land'.due = waived \ (skipped \cup moot)
    BY <2>1 DEF TypeOK, LandStates
  <2>3. land'.due \subseteq waived' /\ waived' \subseteq waived
    BY <2>1, <2>2
  <2>4. Unmarked => \A r \in waived : r.bed = reg /\ r.intact => r \in waived'
    <3>1. Unmarked => ~Current(reg) /\ AtPath(land.seen)
      BY <2>1 DEF LandInv, UnmarkedIsStale, RetrySees, Unmarked, Current
    <3> QED BY <2>1, <3>1 DEF Moot
  <2>5. LandsBed'
    BY <1>1, <1>3, <2>2 DEF LandsBed, Planned, HoldsProject
  <2>6. RetrySees'
    BY <2>2, <2>3 DEF RetrySees
  <2> QED BY <1>4, <2>1, <2>3, <2>4, <2>5, <2>6
<1>c. CASE ClearRetried
  <2>1. /\ land.at = "retried" /\ land'.at = "plan" /\ land'.for = land.for
        /\ waived' \in {waived, waived \ land.due}
    BY <1>c DEF ClearRetried, TypeOK, LandStates
  <2>2. Unmarked => \A r \in waived : r.bed = reg /\ r.intact => r \in waived'
    BY <2>1 DEF LandInv, RetrySees
  <2>3. LandsBed' /\ RetrySees'
    BY <1>1, <1>3, <2>1 DEF LandsBed, RetrySees, Planned, HoldsProject
  <2> QED BY <1>4, <2>1, <2>2, <2>3
<1>d. CASE RowsUnread
  <2>1. land.at = "waived" /\ land'.at = "plan" /\ land'.for = land.for /\ UNCHANGED waived
    BY <1>d, BedlessStep DEF RowsUnread, Bedless
  <2>2. LandsBed' /\ RetrySees'
    BY <1>1, <1>3, <2>1 DEF LandsBed, RetrySees, Planned, HoldsProject
  <2> QED BY <1>4, <2>1, <2>2
<1>e. CASE Plan
  <2>1. /\ land.at = "plan" /\ land'.for = land.for /\ UNCHANGED waived
        /\ \/ row # NoRow /\ land'.at = "gate" /\ land'.bed = row.bed
           \/ land'.at = "end"
    BY <1>e DEF Plan, Pending, TypeOK, LandStates
  <2>2. row # NoRow => row.bed \in Beds /\ Was(row.bed) /\ Bed(row) = row.bed
    BY BedOfRow DEF UploadInv, RowWas
  <2>3. row # NoRow => \A r \in waived : r.bed # row.bed
    BY <2>2 DEF LandInv, OwedOfStale
  <2>4. LandsBed'
    BY <1>1, <1>2, <1>3, <2>1, <2>2, <2>3 DEF LandsBed, Planned, HoldsProject, Was
  <2>5. RetrySees'
    BY <2>1 DEF RetrySees
  <2> QED BY <1>4, <2>1, <2>4, <2>5
<1> QED BY <1>a, <1>b, <1>c, <1>d, <1>e

(* The land of a bed up to its commit, and when it ends or fails early.    *)
LEMMA MiddleLand ==
  ASSUME TypeOK, UploadInv, LandInv, SameWas, Flagged,
         Gate \/ Copy \/ CopyFails \/ Register \/ SaveFails \/ LandRaises \/ EndLand
           \/ RaiseLand
  PROVE  LandInv'
<1> USE DEF project
<1>1. UNCHANGED <<reg, by>>
  BY DEF Gate, Copy, CopyFails, Register, SaveFails, LandRaises, EndLand, RaiseLand
<1>2. \A b \in Beds : (Was(b)' <=> Was(b)) /\ (Bed(row)' = b <=> Bed(row) = b)
  BY BedOfRow, NothingIsNoBed DEF Flagged, SameWas, Bed
<1>3. land.for \in Beds => post[land.for] # "none"
  BY DEF LandInv, LandsBed
<1>4. \A r \in waived : r.bed \in Beds
  BY DEF TypeOK, Waivers
<1>a. CASE EndLand \/ RaiseLand
  <2>1. land' = NoLand /\ UNCHANGED <<raw, reg, waived, by>> /\ land.at \in {"end", "raise"}
    BY <1>a DEF EndLand, RaiseLand
  <2>2. row # NoRow => (row'.landed => row.landed)
    BY <1>a, BedOfRow DEF EndLand, RaiseLand, MarkFailed, TypeOK, Rows
  <2> QED BY <2>1, <2>2, LandGone
<1>b. CASE Gate \/ CopyFails \/ Register \/ SaveFails
  <2>1. land.at \in {"gate", "copy", "register", "commit"} /\ land.bed \in Beds
    BY <1>b, LandParts DEF Gate, CopyFails, Register, SaveFails, SaidFailed, Lands, Bedless
  <2>2. UNCHANGED <<raw, waived, post>>
    BY <1>b DEF Gate, CopyFails, Register, SaveFails, SaidFailed
  <2>3. row # NoRow => (row'.landed => row.landed \/ raw = row.bed)
    <3>1. UNCHANGED row \/ MarkFailed(land.bed) \/ (MarkLanded(land.bed) /\ raw = land.bed)
      BY <1>b DEF Gate, CopyFails, Register, SaveFails, SaidFailed
    <3> QED BY <2>1, <3>1, BedOfRow DEF MarkFailed, MarkLanded, TypeOK, Rows
  <2>4. LandedIsRaw' /\ OwedOfStale' /\ UnmarkedIsStale' /\ UnmarkedIsOwed'
    BY <1>1, <2>1, <2>2, <2>3, OwedKept
  <2>5. /\ land'.for = land.for /\ land'.bed = land.bed
        /\ \/ land.at = "gate" /\ land'.at = "copy"
           \/ land.at = "register" /\ land'.at = "commit" /\ raw = land.bed
           \/ land'.at \in {"end", "raise"}
    BY <1>b DEF Gate, CopyFails, Register, SaveFails, SaidFailed, Lands, TypeOK, LandStates
  <2>6. LandsBed'
    BY <1>2, <1>3, <2>1, <2>2, <2>5 DEF LandInv, LandsBed, Planned, HoldsProject, Was
  <2>7. RetrySees'
    BY <2>5 DEF RetrySees
  <2> QED BY <2>4, <2>6, <2>7 DEF LandInv
<1>c. CASE Copy
  <2>1. /\ land.at = "copy" /\ land'.at = "register" /\ land'.for = land.for
        /\ land'.bed = land.bed /\ land.bed \in Beds
    BY <1>c, LandStep DEF Copy, Stages, Bedless
  <2>2. /\ acked # Nothing /\ raw' = acked /\ UNCHANGED <<row, post, reg, by>>
        /\ waived' = {[r EXCEPT !.intact = FALSE] : r \in waived} /\ acked \in Beds
    BY <1>c DEF Copy, TypeOK, MayBeds
  <2>3. \A r \in waived' : ~r.intact /\ \E q \in waived : q.bed = r.bed
    BY <2>2 DEF TypeOK, Waivers
  <2>4. LandedIsRaw'
    BY <2>2 DEF LandedIsRaw, UploadInv, AckMeansBytes
  <2>5. OwedOfStale'
    <3>1. \A r \in waived' : r.bed \in Beds /\ Was(r.bed) /\ Bed(row) # r.bed
      BY <1>4, <2>3 DEF LandInv, OwedOfStale
    <3> QED BY <1>2, <3>1 DEF OwedOfStale, Was, Bed
  <2>6. UnmarkedIsStale'
    BY <1>2, <2>1, <2>2 DEF LandInv, UnmarkedIsStale, Unmarked, AtPath, Was, Bed
  <2>7. ~(Unmarked /\ acked = reg)
    BY <2>1, <2>2 DEF LandInv, UnmarkedIsStale, UploadInv, AckedStands
  <2>8. UnmarkedIsOwed'
    BY <2>2, <2>7 DEF UnmarkedIsOwed, Unmarked, AtPath
  <2>9. LandsBed' /\ RetrySees'
    BY <1>2, <1>3, <2>1, <2>2, <2>3
    DEF LandInv, LandsBed, RetrySees, Planned, HoldsProject, Was
  <2> QED BY <2>4, <2>5, <2>6, <2>8, <2>9 DEF LandInv
<1>d. CASE LandRaises
  <2>1. /\ land.at \in {"waived", "plan", "gate", "end"} /\ land'.at = "raise"
        /\ land'.for = land.for /\ UNCHANGED <<raw, row, waived, post>>
    BY <1>d, BedlessStep DEF LandRaises, Bedless
  <2>2. LandsBed' /\ RetrySees'
    BY <1>3, <2>1 DEF LandsBed, RetrySees, Planned, HoldsProject
  <2>3. LandedIsRaw' /\ OwedOfStale' /\ UnmarkedIsStale' /\ UnmarkedIsOwed'
    BY <1>1, <2>1, OwedKept
  <2> QED BY <2>2, <2>3 DEF LandInv
<1> QED BY <1>a, <1>b, <1>c, <1>d

(* The commit and what comes after it, and the retry of a rollback.        *)
LEMMA LateLand ==
  ASSUME TypeOK, UploadInv, LandInv, SameWas, Flagged,
         \/ SaveRegistration \/ SaveRaises \/ Mark \/ MarkFails \/ Defer \/ RollBack
         \/ RollBackFails \/ ClearDeferred \/ Retry \/ RetryFails
  PROVE  LandInv'
<1> USE DEF project
<1>1. UNCHANGED <<raw, post>>
  BY DEF SaveRegistration, SaveRaises, Mark, MarkFails, Defer, RollBack, RollBackFails,
         ClearDeferred, Retry, RetryFails
<1>2. \A b \in Beds : (Was(b)' <=> Was(b)) /\ (Bed(row)' = b <=> Bed(row) = b)
  BY BedOfRow, NothingIsNoBed DEF Flagged, SameWas, Bed
<1>3. land.for \in Beds => post[land.for] # "none"
  BY DEF LandInv, LandsBed
<1>4. \A r \in waived : r.bed \in Beds
  BY DEF TypeOK, Waivers
<1>5. UNCHANGED waived => OwedOfStale'
  BY <1>2, <1>4 DEF LandInv, OwedOfStale, Was, Bed
<1>6. UNCHANGED row => LandedIsRaw'
  BY <1>1 DEF LandInv, LandedIsRaw
<1>a. CASE SaveRegistration
  <2>1. /\ land.at = "commit" /\ land'.at = "mark" /\ land'.for = land.for
        /\ land'.bed = land.bed /\ land.bed \in Beds
    BY <1>a, LandStep DEF SaveRegistration, Stages, Bedless
  <2>2. reg' = land.bed /\ by' = "land" /\ UNCHANGED <<row, waived>>
    BY <1>a DEF SaveRegistration, Commit
  <2>3. Was(land.bed) /\ raw = land.bed /\ \A r \in waived : r.bed # land.bed
    BY <2>1 DEF LandInv, LandsBed, HoldsProject, Planned
  <2>4. LandsBed' /\ RetrySees'
    BY <1>1, <1>2, <1>3, <2>1, <2>2, <2>3 DEF LandsBed, RetrySees, Planned, HoldsProject, Was
  <2>5. UnmarkedIsStale' /\ UnmarkedIsOwed'
    BY <1>2, <2>1, <2>2, <2>3 DEF UnmarkedIsStale, UnmarkedIsOwed, Unmarked, Was
  <2> QED BY <1>5, <1>6, <2>2, <2>4, <2>5 DEF LandInv
<1>b. CASE Mark
  <2>1. /\ land.at = "mark" /\ MarkLanded(land.bed) /\ UNCHANGED <<reg, waived>>
        /\ \/ Current(land.bed) /\ Lands("mark", "end") /\ by' = "marked"
           \/ ~Current(land.bed) /\ Lands("mark", "defer") /\ UNCHANGED by
    BY <1>b DEF Mark
  <2>2. /\ land'.for = land.for /\ land'.bed = land.bed /\ land.bed \in Beds
        /\ land'.at = IF Current(land.bed) THEN "end" ELSE "defer"
    BY <2>1, LandStep DEF Stages, Bedless
  <2>3. /\ Was(land.bed) /\ raw = land.bed /\ reg = land.bed
        /\ \A r \in waived : r.bed # land.bed
    BY <2>1 DEF LandInv, LandsBed, HoldsProject, Planned
  <2>4. LandedIsRaw'
    BY <1>1, <2>1, <2>2, <2>3, BedOfRow
    DEF LandInv, LandedIsRaw, MarkLanded, Flagged, TypeOK, Rows
  <2>5. LandsBed' /\ RetrySees'
    BY <1>1, <1>2, <1>3, <2>1, <2>2, <2>3
    DEF LandsBed, RetrySees, Planned, HoldsProject, Was, Current, Bed
  <2>6. UnmarkedIsStale' /\ UnmarkedIsOwed'
    <3>1. CASE Current(land.bed)
      BY <2>1, <3>1 DEF UnmarkedIsStale, UnmarkedIsOwed, Unmarked
    <3>2. CASE ~Current(land.bed)
      BY <1>2, <2>1, <2>2, <2>3, <3>2
      DEF UnmarkedIsStale, UnmarkedIsOwed, Unmarked, Current, Was, Bed
    <3> QED BY <3>1, <3>2
  <2> QED BY <1>5, <2>1, <2>4, <2>5, <2>6 DEF LandInv
<1>c. CASE Defer
  <2> DEFINE owed == [bed |-> land.bed, prior |-> land.prior, intact |-> TRUE, tried |-> FALSE]
  <2>1. /\ land.at = "defer" /\ land'.at = "roll" /\ land'.for = land.for
        /\ land'.bed = land.bed /\ land.bed \in Beds
    BY <1>c, LandStep DEF Defer, Stages, Bedless
  <2>2. UNCHANGED <<row, reg, by>> /\ waived' \in {waived, waived \cup {owed}}
    BY <1>c DEF Defer
  <2>3. /\ Was(land.bed) /\ raw = land.bed /\ reg = land.bed /\ Bed(row) # land.bed
        /\ \A r \in waived : r.bed # land.bed
    BY <2>1 DEF LandInv, LandsBed, HoldsProject, Planned
  <2>4. owed.bed = land.bed /\ owed.intact
    OBVIOUS
  <2> HIDE DEF owed
  <2>5. OwedOfStale'
    <3>1. \A r \in waived' : r.bed \in Beds /\ Was(r.bed) /\ Bed(row) # r.bed
      BY <1>4, <2>1, <2>2, <2>3, <2>4 DEF LandInv, OwedOfStale
    <3> QED BY <1>2, <3>1 DEF OwedOfStale, Was, Bed
  <2>6. LandsBed' /\ RetrySees'
    BY <1>1, <1>2, <1>3, <2>1, <2>2, <2>3, <2>4
    DEF LandsBed, RetrySees, Planned, HoldsProject, Was, Bed
  <2>7. UnmarkedIsStale' /\ UnmarkedIsOwed'
    BY <1>2, <2>1, <2>2, <2>3 DEF UnmarkedIsStale, UnmarkedIsOwed, Unmarked, Was, Bed
  <2> QED BY <1>6, <2>2, <2>5, <2>6, <2>7 DEF LandInv
<1>d. CASE RollBack
  <2>1. /\ land.at = "roll" /\ land'.at = "rolled" /\ land'.for = land.for
        /\ land'.bed = land.bed /\ land.bed \in Beds
    BY <1>d, LandStep DEF RollBack, Stages, Bedless
  <2>2. reg' = land.prior /\ reg' \notin Beds /\ UNCHANGED <<row, waived>>
    BY <1>d, LandParts, NothingIsNoBed DEF RollBack, Commit
  <2>3. Was(land.bed) /\ raw = land.bed /\ Bed(row) # land.bed
    BY <2>1 DEF LandInv, LandsBed, HoldsProject
  <2>4. LandsBed' /\ RetrySees'
    BY <1>1, <1>2, <1>3, <2>1, <2>2, <2>3
    DEF LandsBed, RetrySees, Planned, HoldsProject, Was, Bed, AtPath
  <2>5. UnmarkedIsStale' /\ UnmarkedIsOwed'
    BY <2>2 DEF UnmarkedIsStale, UnmarkedIsOwed, Unmarked, AtPath
  <2> QED BY <1>5, <1>6, <2>2, <2>4, <2>5 DEF LandInv
<1>e. CASE RollBackFails
  <2>1. /\ land.at = "roll" /\ land'.at = "end" /\ land'.for = land.for
        /\ land'.bed = land.bed /\ land.bed \in Beds /\ UNCHANGED <<row, waived>>
        /\ (Forgotten /\ UNCHANGED reg) \/ reg' = land.prior
    BY <1>e, LandStep DEF RollBackFails, Commit, Stages, Bedless
  <2>2. LandsBed' /\ RetrySees'
    BY <1>1, <1>3, <2>1 DEF LandsBed, RetrySees, Planned, HoldsProject
  <2>3. reg = land.bed /\ \A r \in waived : r.bed = land.bed => r.intact
    BY <2>1 DEF LandInv, LandsBed
  <2>4. Unmarked' => /\ Unmarked /\ UNCHANGED reg
                     /\ \E r \in waived : r.bed = reg /\ r.intact
    <3>1. CASE Forgotten /\ UNCHANGED reg
      BY <2>1, <2>3, <3>1 DEF Forgotten, Deferred, Unmarked, AtPath
    <3>2. CASE reg' = land.prior
      BY <3>2, LandParts, NothingIsNoBed DEF Unmarked, AtPath
    <3> QED BY <2>1, <3>1, <3>2
  <2>5. UnmarkedIsStale' /\ UnmarkedIsOwed'
    BY <1>2, <2>1, <2>4 DEF LandInv, UnmarkedIsStale, UnmarkedIsOwed, Unmarked, AtPath, Was, Bed
  <2> QED BY <1>5, <1>6, <2>1, <2>2, <2>5 DEF LandInv
<1>f. CASE ClearDeferred
  <2>1. /\ land.at = "rolled" /\ land'.at = "end" /\ land'.for = land.for
        /\ UNCHANGED <<row, reg, by>> /\ waived' \subseteq waived
    BY <1>f, LandStep DEF ClearDeferred, Stages, Bedless
  <2>2. ~AtPath(reg)
    BY <2>1 DEF LandInv, LandsBed
  <2>3. LandsBed' /\ RetrySees'
    BY <1>1, <1>3, <2>1 DEF LandsBed, RetrySees, Planned, HoldsProject
  <2>4. LandedIsRaw' /\ OwedOfStale' /\ UnmarkedIsStale' /\ UnmarkedIsOwed'
    BY <1>1, <2>1, <2>2, OwedKept DEF Unmarked
  <2> QED BY <2>3, <2>4 DEF LandInv
<1>g. CASE Retry
  <2>1. /\ land.at = "retry" /\ land' = [land EXCEPT !.at = "retried", !.seen = reg']
        /\ UNCHANGED <<row, by, waived>>
        /\ IF Applies = {} THEN UNCHANGED reg ELSE \E r \in Applies : reg' = r.prior
    BY <1>g DEF Retry, Commit
  <2>2. land'.at = "retried" /\ land'.for = land.for /\ land'.due = land.due
    BY <2>1 DEF TypeOK, LandStates
  <2>3. reg' \in Beds => UNCHANGED reg /\ Applies = {}
    BY <2>1, LandParts, NothingIsNoBed DEF Applies, Waivers
  <2>4. LandsBed'
    BY <1>1, <1>3, <2>2 DEF LandsBed, Planned, HoldsProject
  <2>5. RetrySees'
    BY <2>1, <2>2, <2>3 DEF RetrySees, Unmarked, AtPath, Applies
  <2>6. UnmarkedIsStale' /\ UnmarkedIsOwed'
    BY <1>1, <1>2, <2>1, <2>2, <2>3
    DEF LandInv, UnmarkedIsStale, UnmarkedIsOwed, Unmarked, AtPath, Was, Bed
  <2> QED BY <1>5, <1>6, <2>1, <2>4, <2>5, <2>6 DEF LandInv
<1>h. CASE RetryFails
  <2>1. /\ land.at = "retry" /\ land'.at = "plan" /\ land'.for = land.for
        /\ UNCHANGED <<row, by>>
        /\ UNCHANGED reg \/ \E r \in Applies : reg' = r.prior
        /\ \/ waived' = (waived \ land.due) \cup {[r EXCEPT !.tried = TRUE] : r \in land.due}
           \/ UNCHANGED waived
    BY <1>h DEF RetryFails, Commit, TypeOK, LandStates
  <2>2. land.due \subseteq waived
    BY <2>1 DEF LandInv, RetrySees
  <2>3. \A r \in land.due : /\ [r EXCEPT !.tried = TRUE].bed = r.bed
                            /\ [r EXCEPT !.tried = TRUE].intact = r.intact
    BY LandParts DEF Waivers
  <2>4. \A r \in waived' : \E q \in waived : q.bed = r.bed
    <3> TAKE r \in waived'
    <3>1. CASE r \in waived
      BY <3>1
    <3>2. CASE r \notin waived
      <4>1. PICK q \in land.due : r = [q EXCEPT !.tried = TRUE]
        BY <2>1, <3>2
      <4> QED BY <2>2, <2>3, <4>1
    <3> QED BY <3>1, <3>2
  <2>5. \A r \in waived : \E q \in waived' : q.bed = r.bed /\ q.intact = r.intact
    <3> TAKE r \in waived
    <3>1. CASE r \in land.due /\ waived' # waived
      <4>1. [r EXCEPT !.tried = TRUE] \in waived'
        BY <2>1, <3>1
      <4> QED BY <2>3, <3>1, <4>1
    <3>2. CASE r \notin land.due \/ waived' = waived
      BY <2>1, <3>2
    <3> QED BY <3>1, <3>2
  <2>6. LandsBed' /\ RetrySees'
    BY <1>1, <1>3, <2>1 DEF LandsBed, RetrySees, Planned, HoldsProject
  <2>7. reg' \in Beds => UNCHANGED reg
    BY <2>1, LandParts, NothingIsNoBed DEF Applies, Waivers
  <2>8. OwedOfStale'
    <3>1. \A r \in waived' : r.bed \in Beds /\ Was(r.bed) /\ Bed(row) # r.bed
      BY <1>4, <2>4 DEF LandInv, OwedOfStale
    <3> QED BY <1>2, <3>1 DEF OwedOfStale, Was, Bed
  <2>9. Unmarked' => Unmarked /\ UNCHANGED reg
    BY <2>1, <2>7 DEF Unmarked, AtPath
  <2>10. UnmarkedIsStale' /\ UnmarkedIsOwed'
    BY <1>1, <1>2, <2>1, <2>5, <2>9
    DEF LandInv, UnmarkedIsStale, UnmarkedIsOwed, Unmarked, AtPath, Was, Bed
  <2> QED BY <1>6, <2>1, <2>6, <2>8, <2>10 DEF LandInv
<1>i. CASE MarkFails
  <2>1. /\ land.at = "mark" /\ land'.at = "raise" /\ land'.for = land.for
        /\ by' = "lost" /\ UNCHANGED <<row, waived>>
    BY <1>i, BedlessStep DEF MarkFails, Bedless
  <2>2. LandsBed' /\ RetrySees' /\ UnmarkedIsStale' /\ UnmarkedIsOwed'
    BY <1>1, <1>3, <2>1
    DEF LandsBed, RetrySees, UnmarkedIsStale, UnmarkedIsOwed, Unmarked, Planned, HoldsProject
  <2> QED BY <1>5, <1>6, <2>1, <2>2 DEF LandInv
<1>j. CASE SaveRaises
  <2>1. /\ land.at = "commit" /\ land'.at = "raise" /\ land'.for = land.for
        /\ land.bed \in Beds /\ by' = "lost" /\ UNCHANGED waived
        /\ MarkFailed(land.bed) \/ UNCHANGED row
    BY <1>j, LandStep DEF SaveRaises, SaidFailed, Stages, Bedless
  <2>2. LandsBed' /\ RetrySees' /\ UnmarkedIsStale' /\ UnmarkedIsOwed'
    BY <1>1, <1>3, <2>1
    DEF LandsBed, RetrySees, UnmarkedIsStale, UnmarkedIsOwed, Unmarked, Planned, HoldsProject
  <2>3. LandedIsRaw'
    BY <1>1, <2>1, BedOfRow DEF LandInv, LandedIsRaw, MarkFailed, Flagged, TypeOK, Rows
  <2> QED BY <1>5, <2>1, <2>2, <2>3 DEF LandInv
<1> QED BY <1>a, <1>b, <1>c, <1>d, <1>e, <1>f, <1>g, <1>h, <1>i, <1>j

-----------------------------------------------------------------------------
Inv == UploadInv /\ LandInv

LEMMA InvInit == Init => Inv
<1> SUFFICES ASSUME Init PROVE Inv
  OBVIOUS
<1>1. /\ Serving = {} /\ ing.at = "free" /\ \A b \in Beds : ~Was(b)
      /\ land.at = "idle" /\ land.for = Nothing /\ Nothing \notin Beds
  BY NothingIsNoBed DEF Init, Serving, Free, Was, NoLand
<1>2. UploadInv
  BY <1>1 DEF Init, UploadInv, OnePartOut, NotTwice, IngestAt, RowWas, AckedStands, AckMeansBytes
<1>3. LandInv
  BY <1>1 DEF Init, LandInv, LandedIsRaw, LandsBed, OwedOfStale, UnmarkedIsStale, UnmarkedIsOwed,
              RetrySees, Unmarked, Planned, HoldsProject
<1> QED BY <1>2, <1>3 DEF Inv

(* Steps that leave the land alone.                                        *)
LEMMA AsideInv ==
  ASSUME TypeOK, Inv, UploadInv',
         \A b \in Beds : Was(b) => Was(b)',
         \/ Record \/ Drop \/ GiveUp \/ Ingests \/ IngestFails
         \/ \E r \in reqs : Take(r)
         \/ \E b \in Beds : Reports(b)
  PROVE  LandInv'
<1> USE DEF upload, project, browser
<1>1. UNCHANGED <<land, raw, reg, by, waived>>
  BY DEF Record, Drop, GiveUp, Ingests, ClearParts, ClearAcked, ClearPartRows, ClearRow, PutRow,
         PutFile, Assemble, MarkFile, Sweep, Reply, IngestFails, Take, Reports, Busy, Check,
         Fail, ReportFails
<1>2. WasGrows
  <2>1. \A b \in Beds : post[b] # "none" => post'[b] # "none"
    BY DEF Record, Drop, GiveUp, Ingests, ClearParts, ClearAcked, ClearPartRows, ClearRow,
           PutRow, PutFile, Assemble, MarkFile, Sweep, Reply, IngestFails, Take, Reports, Busy,
           Check, Fail, ReportFails, TypeOK, Posts
  <2> QED BY <2>1 DEF WasGrows
<1>3. RowMoves
  <2>1. ASSUME NEW b \in Beds, Reports(b) PROVE RowMoves
    BY <2>1, AfterUpload DEF RowMoves, Flagged, Inv
  <2>2. CASE MarkFile
    BY <2>2, MarkUpload DEF RowMoves, Inv
  <2>3. CASE ClearRow
    BY <2>3 DEF ClearRow, RowMoves
  <2>4. CASE UNCHANGED row
    BY <2>4 DEF RowMoves
  <2> QED BY <2>1, <2>2, <2>3, <2>4
      DEF Record, Drop, GiveUp, Ingests, ClearParts, ClearAcked, ClearPartRows, PutRow, PutFile,
          Assemble, Sweep, Reply, IngestFails, Take
<1> QED BY <1>1, <1>2, <1>3, LandKept DEF Inv

LEMMA InvNext ==
  ASSUME TypeOK, Inv, [Next]_vars
  PROVE  Inv'
<1> USE DEF Inv
<1>1. CASE \/ Record \/ Drop \/ GiveUp \/ Ingests \/ IngestFails
           \/ \E r \in reqs : Take(r)
           \/ \E b \in Beds : Reports(b)
  <2>1. UploadInv' /\ \A b \in Beds : Was(b) => Was(b)'
    BY <1>1, BrowserUpload, TakeUpload, IngestUpload, MarkUpload, ReleaseUpload, AfterUpload
    DEF Ingests, SameWas
  <2> QED BY <1>1, <2>1, AsideInv
<1>2. CASE LandSteps \/ LandFails \/ \E who \in Beds \cup {Host} : StartLand(who)
  <2>1. UploadInv' /\ SameWas /\ Flagged
    BY <1>2, LandUpload
  <2> QED BY <1>2, <2>1, EarlyLand, MiddleLand, LateLand DEF LandSteps, LandFails
<1>3. CASE Undo
  <2>1. UploadInv' /\ SameWas /\ Flagged
    BY <1>3, LandUpload
  <2>2. /\ by' = "undo" /\ UNCHANGED <<raw, land, row, waived, post>>
        /\ land.at \notin {"commit", "mark", "defer", "roll", "rolled"}
    BY <1>3 DEF Undo, HoldsProject
  <2>3. \A r \in waived : r.bed \in Beds
    BY DEF TypeOK, Waivers
  <2>4. LandsBed' /\ OwedOfStale' /\ LandedIsRaw'
    BY <2>1, <2>2, <2>3
    DEF LandInv, LandsBed, OwedOfStale, LandedIsRaw, HoldsProject, Planned, SameWas, Was, Bed
  <2>5. UnmarkedIsStale' /\ UnmarkedIsOwed' /\ RetrySees'
    BY <2>2 DEF LandInv, UnmarkedIsStale, UnmarkedIsOwed, RetrySees, Unmarked
  <2> QED BY <2>1, <2>4, <2>5 DEF LandInv
<1>4. CASE CrashHost
  <2>1. UploadInv' /\ SameWas /\ Flagged
    BY <1>4, LandUpload
  <2>2. UNCHANGED <<raw, reg, waived, row>> /\ LandDies
    BY <1>4 DEF CrashHost
  <2> QED BY <2>1, <2>2, LandGone DEF LandDies
<1>5. CASE CrashServer
  <2>1. UploadInv' /\ SameWas
    BY <1>5, CrashUpload
  <2>2. UNCHANGED <<raw, reg, waived, row>>
    BY <1>5 DEF CrashServer
  <2>3. Flagged
    BY <2>2 DEF Flagged, TypeOK
  <2>4. CASE land.for \in Beds
    BY <1>5, <2>1, <2>2, <2>3, <2>4, LandGone DEF CrashServer, LandDies
  <2>5. CASE land.for \notin Beds
    <3>1. UNCHANGED <<land, by>>
      BY <1>5, <2>5 DEF CrashServer
    <3>2. RowMoves
      BY <2>2 DEF RowMoves
    <3>3. WasGrows
      BY <1>5, <2>1 DEF WasGrows, SameWas, CrashServer
    <3> QED BY <2>1, <2>2, <3>1, <3>2, <3>3, LandKept
  <2> QED BY <2>4, <2>5
<1>6. CASE UNCHANGED vars
  <2>1. UNCHANGED <<tab, reqs, ing, files, acked, row, post, land, raw, reg, by, waived>>
    BY <1>6 DEF vars
  <2>2. Flagged /\ RowMoves /\ \A b \in Beds : post'[b] = "none" <=> post[b] = "none"
    BY <2>1 DEF Flagged, RowMoves, TypeOK
  <2>3. UploadInv' /\ SameWas
    BY <2>1, <2>2, UploadKept
  <2>4. WasGrows
    BY <2>1, <2>3 DEF WasGrows, SameWas
  <2> QED BY <2>1, <2>2, <2>3, <2>4, LandKept
<1> QED BY <1>1, <1>2, <1>3, <1>4, <1>5, <1>6 DEF Next, Reports

LEMMA InvHolds == Spec => [](TypeOK /\ Inv)
<1>1. Init => TypeOK /\ Inv
  BY TypedInit, InvInit
<1>2. TypeOK /\ Inv /\ [Next]_vars => TypeOK' /\ Inv'
  BY NextTyped, InvNext
<1> QED BY <1>1, <1>2, PTL DEF Spec

(* A bed the host acknowledged is whole: its assembled file is there, or it *)
(* is being withdrawn and its part files went first, also after a crash    *)
(* between two of the writes no transaction spans (_assemble,              *)
(* _clear_room_tone).                                                      *)
THEOREM AckedBedWhole == Spec => []AckMeansBytes
<1>1. Inv => AckMeansBytes
  BY DEF Inv, UploadInv
<1> QED BY <1>1, InvHolds, PTL

(* While an upload counts as landed, the file the track plays holds it and *)
(* no other upload of the participant (mark_landed's expected_sha256).     *)
THEOREM LandedBedHeard == Spec => []LandedBedIsHeard
<1>1. Inv => LandedBedIsHeard
  BY DEF Inv, LandInv, LandedIsRaw, LandedBedIsHeard
<1> QED BY <1>1, InvHolds, PTL

(* A bed withdrawn or replaced while a land registered it is taken back, or *)
(* a rollback row still says how, unless the land died or raised between   *)
(* its commit and that row, or an undo put the bed back                    *)
(* (_rollback_or_defer, _retry_deferred_rollbacks).                        *)
THEOREM StaleBedOwed == Spec => []StaleBedTakenBack
<1>1. Inv => StaleBedTakenBack
  BY DEF Inv, LandInv, UnmarkedIsOwed, Unmarked, StaleBedTakenBack, NoLand
<1> QED BY <1>1, InvHolds, PTL

-----------------------------------------------------------------------------
(* A bed is acknowledged before its request is answered, and settled by    *)
(* then: the row that would say otherwise is never written again.          *)
LEMMA SettledNext ==
  ASSUME TypeOK, Inv, AnsweredAckSettled, [Next]_vars
  PROVE  AnsweredAckSettled'
<1> USE DEF upload, project, browser
<1> DEFINE Quiet == \/ Record \/ Drop \/ GiveUp \/ ClearParts \/ ClearAcked \/ ClearPartRows \/ PutRow
                    \/ PutFile \/ Assemble \/ Reply \/ (\E r \in reqs : Take(r))
                    \/ SortWaived \/ Retry \/ ClearRetried \/ Plan \/ Copy \/ SaveRegistration
                    \/ Defer \/ RollBack \/ ClearDeferred \/ RetryFails \/ CopyFails \/ RollBackFails
                    \/ RowsUnread \/ MarkFails \/ LandRaises
                    \/ (\E who \in Beds \cup {Host} : StartLand(who))
                    \/ Undo \/ CrashHost
           Marks(b) == MarkLanded(b) \/ MarkFailed(b)
           Planning == Gate \/ Register \/ SaveFails \/ SaveRaises \/ Mark
<1>1. Quiet \/ UNCHANGED vars => UNCHANGED <<post, row>>
  BY DEF Record, Drop, GiveUp, ClearParts, ClearAcked, ClearPartRows, PutRow, PutFile, Assemble,
         Reply, Take, SortWaived, Retry, ClearRetried, Plan, Copy, SaveRegistration, Defer, RollBack,
         ClearDeferred, RetryFails, CopyFails, RollBackFails, RowsUnread, MarkFails, LandRaises,
         StartLand, Undo, CrashHost, vars
<1>2. ASSUME Planning
      PROVE  UNCHANGED post /\ (UNCHANGED row \/ \E b \in Beds : Marks(b))
  <2>1. land.bed \in Beds
    BY <1>2, LandParts DEF Gate, Register, SaveFails, SaveRaises, SaidFailed, Mark, Lands, Bedless
  <2> QED BY <1>2, <2>1 DEF Gate, Register, SaveFails, SaveRaises, SaidFailed, Mark
<1>3. ASSUME RaiseLand \/ EndLand
      PROVE  /\ UNCHANGED row \/ \E b \in Beds : Marks(b)
             /\ \A b \in Beds : post'[b] = "done" => post[b] = "done"
  <2>1. UNCHANGED row \/ \E b \in Beds : Marks(b)
    BY <1>3, BedOfRow DEF RaiseLand, EndLand
  <2> QED BY <1>3, <2>1 DEF RaiseLand, EndLand, Then, TypeOK, Posts
<1>4. ASSUME ClearRow \/ Sweep \/ IngestFails \/ CrashServer
      PROVE  /\ row' = NoRow \/ UNCHANGED row
             /\ \A b \in Beds : post'[b] = "done" => post[b] = "done"
  BY <1>4 DEF ClearRow, Sweep, IngestFails, CrashServer, TypeOK, Posts
<1>5. \A b, c \in Beds : row = Acked(b) \/ row' # Acked(b) \/ ~Marks(c)
  BY MarksSay, Shapes
<1>6. \A b \in Beds : Acked(b) # NoRow
  BY Shapes, NoRowIsNoRow
<1>7. CASE Quiet \/ UNCHANGED vars
  BY <1>1, <1>7 DEF AnsweredAckSettled
<1>8. CASE Planning
  BY <1>2, <1>5, <1>8 DEF AnsweredAckSettled
<1>9. CASE RaiseLand \/ EndLand
  BY <1>3, <1>5, <1>9 DEF AnsweredAckSettled
<1>10. CASE ClearRow \/ Sweep \/ IngestFails \/ CrashServer
  BY <1>4, <1>6, <1>10 DEF AnsweredAckSettled
<1>11. CASE MarkFile
  <2>1. PICK b \in Beds : ~Was(b) /\ row' = Acked(b)
    BY <1>11, MarkUpload DEF Inv
  <2>2. post[b] = "none" /\ UNCHANGED post
    BY <1>11, <2>1 DEF Was, MarkFile
  <2>3. \A c \in Beds : Acked(c) = Acked(b) => c = b
    BY Shapes
  <2> QED BY <2>1, <2>2, <2>3 DEF AnsweredAckSettled
<1>12. ASSUME NEW b \in Beds, Reports(b)
       PROVE  AnsweredAckSettled'
  <2>1. CASE Fail(b)
    <3>1. row' # Acked(b)
      <4>1. MarkFailed(b) /\ (row = Acked(b) => Bed(row) = b)
        BY <1>6, <2>1, Shapes DEF Fail, Bed
      <4>2. CASE Bed(row) = b
        BY <4>1, <4>2, MarksSay, Shapes
      <4>3. CASE Bed(row) # b
        BY <4>1, <4>3 DEF MarkFailed
      <4> QED BY <4>2, <4>3
    <3>2. \A c \in Beds : row = Acked(c) \/ row' # Acked(c)
      BY <1>5, <2>1 DEF Fail
    <3>3. \A c \in Beds : c = b \/ post'[c] = post[c]
      BY <2>1 DEF Fail, TypeOK, Posts
    <3> QED BY <3>1, <3>2, <3>3 DEF AnsweredAckSettled
  <2>2. CASE Busy(b) \/ Check(b) \/ ReportFails(b)
    <3>1. UNCHANGED row /\ \A c \in Beds : post'[c] = "done" =>
                             post[c] = "done" \/ (c = b /\ ~(Current(b) /\ ~row.landed))
      BY <2>2 DEF Busy, Check, ReportFails, TypeOK, Posts
    <3>2. row = Acked(b) => Current(b) /\ ~row.landed
      BY <1>6, Shapes DEF Current, Bed
    <3> QED BY <3>1, <3>2 DEF AnsweredAckSettled
  <2> QED BY <1>12, <2>1, <2>2 DEF Reports
<1> QED BY <1>7, <1>8, <1>9, <1>10, <1>11, <1>12
    DEF Next, Reports, Ingests, LandSteps, LandFails

(* No participant is left waiting on a bed nothing will land: whoever is   *)
(* answered finds it landed, marked failed, or not the one acknowledged    *)
(* any more (ingest_record_upload_request, _mark_pending_land_failed).     *)
THEOREM AnswersSettle == Spec => []AnsweredAckSettled
<1>1. Init => AnsweredAckSettled
  BY DEF Init, AnsweredAckSettled
<1>2. TypeOK /\ Inv /\ AnsweredAckSettled /\ [Next]_vars => AnsweredAckSettled'
  BY SettledNext
<1> QED BY InvHolds, <1>1, <1>2, PTL DEF Spec

=============================================================================
