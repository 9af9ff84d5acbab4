-------------------------- MODULE JobCatalogProofs --------------------------
(***************************************************************************)
(* Proofs about JobCatalog, for any callers, tools and limits: type        *)
(* correctness, with the limit on live agent jobs; that the only slot job  *)
(* that is queued or running is the one in the slot; that every job stays  *)
(* findable until enough others were filed after it; and that no job of a  *)
(* tool that is through is left running.                                   *)
(***************************************************************************)
EXTENDS JobCatalog, FiniteSetTheorems, WellFoundedInduction, TLAPS

-----------------------------------------------------------------------------
(* The oldest live agent job exists: a set of naturals has a least member. *)
LEMMA LeastMember ==
  ASSUME NEW S \in SUBSET Nat, S # {}
  PROVE  \E j \in S : \A k \in S : j <= k
<1> DEFINE R == {ss \in Nat \X Nat : ss[1] < ss[2]}
<1>1. IsWellFoundedOn(R, Nat)
  BY NatLessThanWellFounded DEF OpToRel
<1>2. PICK j \in S : \A k \in S : ~ (<<k, j>> \in R)
  <2> HIDE DEF R
  <2> QED BY <1>1, WFMin
<1>3. ASSUME NEW k \in S PROVE j <= k
  <2>1. <<k, j>> \notin R
    BY <1>2
  <2> QED BY <2>1
<1> QED BY <1>2, <1>3

-----------------------------------------------------------------------------
(* What every step does to the jobs: none goes, none changes its kind, and *)
(* none that has ended runs again.                                         *)
JobsGrow ==
  /\ jobs' \in Seq(Jobs)
  /\ Ids \subseteq Ids'
  /\ \A j \in Ids : /\ jobs'[j].kind = jobs[j].kind
                    /\ jobs'[j].status \in LiveStatuses => jobs[j].status \in LiveStatuses

LEMMA KeptJobs ==
  ASSUME TypeOK, UNCHANGED jobs
  PROVE  JobsGrow
BY DEF TypeOK, JobsGrow, Ids

LEMMA ChangedJob ==
  ASSUME TypeOK, NEW j \in Ids, NEW v \in Jobs, jobs' = [jobs EXCEPT ![j] = v],
         v.kind = jobs[j].kind, v.status \in LiveStatuses => Live(j)
  PROVE  JobsGrow /\ Ids' = Ids
BY DEF TypeOK, JobsGrow, Ids, Live

LEMMA AddedJob ==
  ASSUME TypeOK, NEW v \in Jobs, jobs' = Append(jobs, v)
  PROVE  /\ JobsGrow /\ Ids' = Ids \cup {Len(jobs) + 1}
         /\ jobs'[Len(jobs) + 1] = v /\ Len(jobs) + 1 \notin Ids
BY DEF TypeOK, JobsGrow, Ids

(* So whatever names a job goes on naming one.                             *)
LEMMA StillNamed ==
  ASSUME TypeOK, JobsGrow
  PROVE  /\ AgentIds \subseteq AgentIds'
         /\ {j \in Ids : Slotted(j)} \subseteq {j \in Ids : Slotted(j)}'
         /\ filed \in Seq(Ids')
         /\ caller \in [Callers -> CallerStates']
         /\ wrap \in [Wraps -> [stage : {"new", "open", "closed"}, job : AgentIds' \cup {None},
                                how : TerminalStatuses, timer : BOOLEAN]]
         /\ thread \in [Wraps -> [Threads -> ThreadStates']]
<1>1. AgentIds \subseteq AgentIds'
  BY DEF JobsGrow, AgentIds, Slotted
<1>2. {j \in Ids : Slotted(j)} \subseteq {j \in Ids : Slotted(j)}'
  BY DEF JobsGrow, Slotted
<1>3. CallerStates \subseteq CallerStates'
  BY DEF JobsGrow, CallerStates
<1>4. ThreadStates \subseteq ThreadStates'
  <2> DEFINE C == [job : AgentIds, status : TerminalStatuses]
  <2>0. C \subseteq C'
    BY <1>1
  <2>1. Seq(C) \subseteq Seq(C')
    <3> HIDE DEF C
    <3> QED BY <2>0
  <2> QED BY <1>1, <2>1 DEF ThreadStates
<1>5. filed \in Seq(Ids')
  BY DEF JobsGrow, TypeOK
<1> QED BY <1>1, <1>2, <1>3, <1>4, <1>5 DEF TypeOK

-----------------------------------------------------------------------------
(* Helpers for one variable each.                                          *)
LEMMA AgentsFinite ==
  ASSUME TypeOK
  PROVE  /\ IsFiniteSet(agents) /\ Cardinality(agents) \in Nat
         /\ agents \subseteq Nat /\ agents \subseteq Ids
<1>1. Ids = 1..Len(jobs) /\ Len(jobs) \in Nat
  BY DEF TypeOK, Ids
<1>2. IsFiniteSet(1..Len(jobs))
  BY <1>1, FS_Interval
<1>3. agents \subseteq 1..Len(jobs)
  BY <1>1 DEF TypeOK, AgentIds
<1>4. IsFiniteSet(agents)
  BY <1>2, <1>3, FS_Subset
<1>5. Cardinality(agents) \in Nat
  BY <1>4, FS_CardinalityType
<1> QED BY <1>1, <1>3, <1>4, <1>5

LEMMA OldestLive ==
  ASSUME TypeOK, agents # {}
  PROVE  Oldest \in agents
<1>1. \E j \in agents : \A k \in agents : j <= k
  BY AgentsFinite, LeastMember
<1> QED BY <1>1 DEF Oldest

(* Without the oldest at the limit, there is room for one more.            *)
LEMMA RoomForOne ==
  ASSUME TypeOK, NEW j, j \notin agents
  PROVE  /\ Cardinality((agents \ Evicted) \cup {j}) <= AgentLimit
         /\ Evicted \subseteq agents
         /\ Evicted # {} => Evicted = {Oldest} /\ Oldest \in agents
<1>1. IsFiniteSet(agents) /\ Cardinality(agents) \in Nat /\ Cardinality(agents) <= AgentLimit
  BY AgentsFinite DEF TypeOK
<1>2. AgentLimit \in Nat \ {0}
  BY CatalogBounds
<1>3. CASE Cardinality(agents) >= AgentLimit
  <2>1. agents # {}
    BY <1>1, <1>2, <1>3, FS_EmptySet
  <2>2. Oldest \in agents /\ Evicted = {Oldest}
    BY <2>1, <1>3, OldestLive DEF Evicted
  <2>3. /\ IsFiniteSet(agents \ {Oldest})
        /\ Cardinality(agents \ {Oldest}) = Cardinality(agents) - 1
    BY <1>1, <2>2, FS_RemoveElement
  <2>4. Cardinality((agents \ {Oldest}) \cup {j}) = Cardinality(agents \ {Oldest}) + 1
    BY <2>3, FS_AddElement
  <2> QED BY <1>1, <1>2, <2>2, <2>3, <2>4
<1>4. CASE Cardinality(agents) < AgentLimit
  <2>1. Evicted = {}
    BY <1>1, <1>2, <1>4 DEF Evicted
  <2>2. Cardinality(agents \cup {j}) = Cardinality(agents) + 1
    BY <1>1, FS_AddElement
  <2> QED BY <1>1, <1>2, <1>4, <2>1, <2>2
<1> QED BY <1>1, <1>2, <1>3, <1>4

LEMMA Filed ==
  ASSUME NEW S, NEW f \in Seq(S), NEW j \in S
  PROVE  File(j, f) \in Seq(S)
BY DEF File

LEMMA CompletingTyped ==
  ASSUME NEW todo \in Seq([job : AgentIds, status : TerminalStatuses])
  PROVE  Completing(todo) \in ThreadStates
BY DEF Completing, ThreadStates

-----------------------------------------------------------------------------
(* The steps of a caller.                                                  *)
LEMMA ToTyped ==
  ASSUME TypeOK, NEW c \in Callers, NEW r \in CallerStates, To(c, r)
  PROVE  TypeOK' /\ JobsGrow
<1>1. JobsGrow
  BY KeptJobs DEF To
<1>2. caller' \in [Callers -> CallerStates]
  BY DEF To, TypeOK
<1>3. jobs' = jobs
  BY DEF To
<1>4. CallerStates' = CallerStates /\ ThreadStates' = ThreadStates /\ AgentIds' = AgentIds
  BY <1>3 DEF CallerStates, ThreadStates, AgentIds, Ids, Slotted
<1>5. {j \in Ids : Slotted(j)}' = {j \in Ids : Slotted(j)} /\ Ids' = Ids
  BY <1>3 DEF Ids, Slotted
<1> QED BY <1>1, <1>2, <1>3, <1>4, <1>5 DEF To, TypeOK, slotSide, agentSide

LEMMA CallerHolds ==
  ASSUME TypeOK, NEW c \in Callers
  PROVE  /\ caller[c].at \in {"check", "validate", "take"} =>
              caller[c] \in [at : {"look", "check", "validate", "take"},
                            kind : SlotKinds, waits : BOOLEAN]
         /\ slot # None => slot \in Ids
<1>1. caller[c] \in CallerStates
  BY DEF TypeOK
<1>2. CASE caller[c] = Idle
  BY <1>2 DEF Idle, TypeOK
<1>3. CASE caller[c] \in [at : {"look", "check", "validate", "take"}, kind : SlotKinds,
                          waits : BOOLEAN]
  BY <1>3 DEF TypeOK
<1>4. CASE caller[c] \in [at : {"wait"}, kind : {"export"}, waits : {TRUE}, for : Ids]
  BY <1>4 DEF TypeOK
<1>5. CASE caller[c] \in [at : {"busy"}, kind : {"export"}, waits : {TRUE}, by : Ids]
  BY <1>5 DEF TypeOK
<1> QED BY <1>1, <1>2, <1>3, <1>4, <1>5 DEF CallerStates

LEMMA SpawnTyped ==
  ASSUME TypeOK, NEW kind \in SlotKinds, NEW c \in Callers,
         filed' = IF slot # None THEN File(slot, filed) ELSE filed,
         jobs' = Append(jobs, NewJob(kind)), slot' = Len(jobs) + 1,
         caller' = [caller EXCEPT ![c] = Idle], UNCHANGED agentSide
  PROVE  TypeOK' /\ JobsGrow
<1>1. NewJob(kind) \in Jobs
  BY DEF NewJob, Jobs, LiveStatuses
<1>2. /\ JobsGrow /\ slot' \in Ids' /\ jobs'[slot'] = NewJob(kind)
  BY <1>1, AddedJob
<1>3. slot' \in {i \in Ids : Slotted(i)}'
  BY <1>2 DEF Slotted, NewJob
<1>4. filed' \in Seq(Ids')
  <2>1. Ids \subseteq Ids' /\ filed \in Seq(Ids') /\ (slot # None => slot \in Ids)
    BY <1>2, StillNamed DEF JobsGrow, TypeOK
  <2> QED BY <2>1, Filed
<1>5. caller' \in [Callers -> CallerStates']
  <2>1. caller \in [Callers -> CallerStates'] /\ Idle \in CallerStates'
    BY <1>2, StillNamed DEF CallerStates
  <2> QED BY <2>1
<1> QED BY <1>2, <1>3, <1>4, <1>5, StillNamed DEF TypeOK, JobsGrow, agentSide

LEMMA SpawningTyped ==
  ASSUME TypeOK, NEW c \in Callers, Spawning(c)
  PROVE  TypeOK' /\ JobsGrow
<1> DEFINE asked == [at : {"look", "check", "validate", "take"}, kind : SlotKinds,
                     waits : BOOLEAN]
<1>a. asked \subseteq CallerStates /\ Idle \in CallerStates
  BY DEF CallerStates
<1>b. SlotLive => slot \in Ids
  BY CallerHolds DEF SlotLive
<1>c. ASSUME Refused(c), SlotLive PROVE TypeOK' /\ JobsGrow
  <2>1. [at |-> "busy", kind |-> "export", waits |-> TRUE, by |-> slot] \in CallerStates
    BY <1>b, <1>c DEF CallerStates
  <2> QED BY <1>a, <1>c, <2>1, ToTyped DEF Refused
<1>d. \A waits \in BOOLEAN :
        /\ [at |-> "look", kind |-> "export", waits |-> waits] \in asked
        /\ [at |-> "check", kind |-> "export", waits |-> waits] \in asked
  BY DEF SlotKinds
<1>1. CASE Look(c)
  <2>1. LiveMix => [at |-> "wait", kind |-> "export", waits |-> TRUE, for |-> slot]
                     \in CallerStates
    BY <1>b DEF LiveMix, CallerStates
  <2> QED BY <1>1, <1>a, <1>d, <2>1, ToTyped DEF Look
<1>2. CASE Waited(c)
  BY <1>2, <1>a, <1>d, ToTyped DEF Waited
<1>3. CASE StillUpdating(c)
  BY <1>3, <1>a, ToTyped DEF StillUpdating
<1>4. CASE CheckSlot(c)
  <2>1. caller[c].at = "check" => [caller[c] EXCEPT !.at = "validate"] \in asked
    BY CallerHolds
  <2> QED BY <1>4, <1>a, <1>c, <2>1, ToTyped DEF CheckSlot
<1>5. CASE Validate(c)
  <2>1. caller[c].at = "validate" => [caller[c] EXCEPT !.at = "take"] \in asked
    BY CallerHolds
  <2> QED BY <1>5, <1>a, <2>1, ToTyped DEF Validate
<1>6. CASE TakeSlot(c)
  <2>1. caller[c].kind \in SlotKinds
    BY <1>6, CallerHolds DEF TakeSlot
  <2> QED BY <1>6, <1>c, <2>1, SpawnTyped DEF TakeSlot
<1>7. CASE Busy(c)
  BY <1>7, <1>a, <1>d, ToTyped DEF Busy
<1> QED BY <1>1, <1>2, <1>3, <1>4, <1>5, <1>6, <1>7 DEF Spawning

-----------------------------------------------------------------------------
(* A step that changes one job, and perhaps the archive.                   *)
LEMMA ChangeTyped ==
  ASSUME TypeOK, NEW j \in Ids, NEW v \in Jobs, jobs' = [jobs EXCEPT ![j] = v],
         v.kind = jobs[j].kind, v.status \in LiveStatuses => Live(j),
         filed' = filed \/ filed' = File(j, filed), UNCHANGED <<slotSide, agentSide>>
  PROVE  TypeOK' /\ JobsGrow
<1>1. JobsGrow /\ Ids' = Ids
  BY ChangedJob
<1>2. filed' \in Seq(Ids')
  BY <1>1, Filed DEF TypeOK
<1> QED BY <1>1, <1>2, StillNamed DEF TypeOK, JobsGrow, slotSide, agentSide

LEMMA WorkersTyped ==
  ASSUME TypeOK, Workers
  PROVE  TypeOK' /\ JobsGrow
<1>1. PICK j \in Ids : Run(j) \/ Finish(j) \/ FileJob(j) \/ PublishDone(j)
  BY DEF Workers, Ids
<1>2. jobs[j] \in Jobs
  BY DEF TypeOK, Ids
<1>3. CASE Run(j)
  BY <1>2, <1>3, ChangeTyped DEF Run, Work, Jobs, LiveStatuses, Live
<1>4. CASE Finish(j)
  <2>1. PICK s \in TerminalStatuses :
          Work(j, [jobs[j] EXCEPT !.status = s, !.at = "file"]) /\ UNCHANGED filed
    BY <1>4 DEF Finish, TerminalStatuses
  <2> DEFINE v == [jobs[j] EXCEPT !.status = s, !.at = "file"]
  <2>2. v \in Jobs /\ v.kind = jobs[j].kind /\ v.status \notin LiveStatuses
    BY <1>2 DEF Jobs, LiveStatuses, TerminalStatuses
  <2> QED BY <2>1, <2>2, ChangeTyped DEF Work
<1>5. CASE FileJob(j)
  <2> DEFINE v == [jobs[j] EXCEPT !.at = "publish"]
  <2>1. v \in Jobs /\ v.kind = jobs[j].kind /\ v.status = jobs[j].status
    BY <1>2 DEF Jobs
  <2>2. jobs' = [jobs EXCEPT ![j] = v] /\ UNCHANGED <<slotSide, agentSide>>
    BY <1>5 DEF FileJob, Work
  <2>3. filed' = filed \/ filed' = File(j, filed)
    BY <1>5 DEF FileJob
  <2> QED BY <2>1, <2>2, <2>3, ChangeTyped DEF Live
<1>6. CASE PublishDone(j)
  <2> DEFINE v == [jobs[j] EXCEPT !.at = "over", !.done = @ + 1]
  <2>0. \A r \in Jobs : LET over == [r EXCEPT !.at = "over", !.done = @ + 1]
                        IN  over \in Jobs /\ over.kind = r.kind /\ over.status = r.status
    <3> TAKE r \in Jobs
    <3>2. [r EXCEPT !.at = "over"] \in Jobs
      BY DEF Jobs
    <3>3. \A q \in Jobs : LET told == [q EXCEPT !.done = @ + 1]
                          IN  told \in Jobs /\ told.kind = q.kind /\ told.status = q.status
      BY DEF Jobs
    <3>4. [r EXCEPT !.at = "over", !.done = @ + 1]
          = [[r EXCEPT !.at = "over"] EXCEPT !.done = @ + 1]
      BY DEF Jobs
    <3> QED BY <3>2, <3>3, <3>4 DEF Jobs
  <2>1. v \in Jobs /\ v.kind = jobs[j].kind /\ v.status = jobs[j].status
    BY <1>2, <2>0
  <2>2. jobs' = [jobs EXCEPT ![j] = v] /\ UNCHANGED <<filed, slotSide, agentSide>>
    BY <1>6 DEF PublishDone, Work
  <2> QED BY <2>1, <2>2, ChangeTyped DEF Live
<1> QED BY <1>1, <1>3, <1>4, <1>5, <1>6

LEMMA CancelTyped ==
  ASSUME TypeOK, Cancel
  PROVE  TypeOK' /\ JobsGrow
<1>1. slot \in Ids /\ jobs[slot] \in Jobs
  BY DEF Cancel, TypeOK, Ids
<1>2. CASE SlotLive
  <2> DEFINE v == [jobs[slot] EXCEPT !.cancel = TRUE]
  <2>1. v \in Jobs /\ v.kind = jobs[slot].kind /\ v.status = jobs[slot].status
    BY <1>1 DEF Jobs
  <2>2. jobs' = [jobs EXCEPT ![slot] = v]
    BY <1>2 DEF Cancel
  <2> QED BY <1>1, <2>1, <2>2, ChangeTyped DEF Cancel, Live
<1>3. CASE ~SlotLive
  <2>1. jobs[slot] \in Jobs /\ jobs' = [jobs EXCEPT ![slot] = jobs[slot]]
    BY <1>1, <1>3 DEF Cancel, TypeOK
  <2> QED BY <1>1, <2>1, ChangeTyped DEF Cancel, Live
<1> QED BY <1>2, <1>3

-----------------------------------------------------------------------------
(* The steps of a tool and its timer.                                      *)
LEMMA GoTyped ==
  ASSUME TypeOK, JobsGrow, NEW w \in Wraps, NEW t \in Threads,
         NEW r \in ThreadStates', Go(w, t, r)
  PROVE  thread' \in [Wraps -> [Threads -> ThreadStates']]
BY StillNamed DEF Go

LEMMA ThreadHolds ==
  ASSUME TypeOK, NEW w \in Wraps, NEW t \in Threads
  PROVE  /\ At(w, t, "keep") => thread[w][t].job \in AgentIds
         /\ At(w, t, "evict") => thread[w][t].job \in AgentIds /\ thread[w][t].old \in AgentIds
         /\ \A a \in {"settle", "forget", "publish"} : At(w, t, a) =>
              /\ thread[w][t] \in [at : {"settle", "forget", "publish"},
                     todo : Seq([job : AgentIds, status : TerminalStatuses]) \ {<< >>}]
              /\ Head(thread[w][t].todo) \in [job : AgentIds, status : TerminalStatuses]
              /\ Tail(thread[w][t].todo) \in Seq([job : AgentIds, status : TerminalStatuses])
<1> DEFINE S == thread[w][t]
           C == [job : AgentIds, status : TerminalStatuses]
<1>1. S \in ThreadStates
  BY DEF TypeOK
<1>2. CASE S = Rest
  BY <1>2 DEF At, Rest
<1>3. CASE S \in [at : {"adopt"}]
  BY <1>3 DEF At
<1>4. CASE S \in [at : {"keep"}, job : AgentIds]
  BY <1>4 DEF At
<1>5. CASE S \in [at : {"evict"}, job : AgentIds, old : AgentIds]
  BY <1>5 DEF At
<1>6. CASE S \in [at : {"settle", "forget", "publish"}, todo : Seq(C) \ {<< >>}]
  <2>1. S.todo \in Seq(C) \ {<< >>} /\ S.at \in {"settle", "forget", "publish"}
    BY <1>6
  <2>2. Head(S.todo) \in C /\ Tail(S.todo) \in Seq(C)
    <3> HIDE DEF C
    <3> QED BY <2>1
  <2> QED BY <1>6, <2>1, <2>2 DEF At
<1> QED BY <1>1, <1>2, <1>3, <1>4, <1>5, <1>6 DEF ThreadStates

(* Ending an agent job, or announcing its end, keeps it a job.             *)
LEMMA SettledTyped ==
  ASSUME TypeOK, NEW j \in AgentIds, NEW s \in TerminalStatuses
  PROVE  /\ Settled(j, s) \in Jobs /\ Settled(j, s).kind = jobs[j].kind
         /\ Settled(j, s).status \notin LiveStatuses
         /\ Settled(j, s).at = jobs[j].at /\ Settled(j, s).done = jobs[j].done
         /\ [Settled(j, s) EXCEPT !.done = @ + 1] \in Jobs
         /\ [jobs[j] EXCEPT !.done = @ + 1] \in Jobs
<1>1. jobs[j] \in Jobs /\ j \in Ids
  BY DEF TypeOK, AgentIds, Ids
<1> DEFINE status == IF Live(j) THEN s ELSE jobs[j].status
<1>2. status \in LiveStatuses \cup TerminalStatuses /\ status \notin LiveStatuses
  BY <1>1 DEF Live, Jobs, LiveStatuses, TerminalStatuses
<1>3. Settled(j, s) = [jobs[j] EXCEPT !.status = status]
  BY <1>1 DEF Settled, Jobs
<1>4. /\ Settled(j, s) \in Jobs /\ Settled(j, s).kind = jobs[j].kind
      /\ Settled(j, s).status = status
      /\ Settled(j, s).at = jobs[j].at /\ Settled(j, s).done = jobs[j].done
  <2> HIDE DEF status
  <2> QED BY <1>1, <1>2, <1>3 DEF Jobs
<1>5. \A v \in Jobs : [v EXCEPT !.done = @ + 1] \in Jobs
  BY DEF Jobs
<1> QED BY <1>1, <1>2, <1>4, <1>5

LEMMA TellTyped ==
  ASSUME TypeOK, NEW w \in Wraps, NEW t \in Threads, NEW r \in ThreadStates, Go(w, t, r),
         NEW j \in AgentIds, NEW v \in Jobs, jobs' = [jobs EXCEPT ![j] = v],
         v.kind = jobs[j].kind, v.status \in LiveStatuses => Live(j),
         UNCHANGED <<slotSide, agents, claims, latest, filed, wrap>>
  PROVE  TypeOK' /\ JobsGrow
<1>1. JobsGrow
  BY ChangedJob DEF AgentIds
<1>2. thread \in [Wraps -> [Threads -> ThreadStates']] /\ r \in ThreadStates'
  <2>1. AgentIds' = AgentIds
    BY ChangedJob DEF AgentIds, Slotted, JobsGrow
  <2> QED BY <1>1, <2>1, StillNamed DEF ThreadStates
<1>3. thread' \in [Wraps -> [Threads -> ThreadStates']]
  BY <1>1, <1>2, GoTyped
<1> QED BY <1>1, <1>3, StillNamed DEF TypeOK, JobsGrow, slotSide

LEMMA AdoptTyped ==
  ASSUME TypeOK, NEW w \in Wraps, NEW t \in Threads, Adopt(w, t)
  PROVE  TypeOK' /\ JobsGrow
<1> DEFINE j == Len(jobs) + 1
<1>1. CASE claims[w] # None
  <2>1. claims[w] \in AgentIds
    BY <1>1 DEF TypeOK
  <2>2. JobsGrow /\ UNCHANGED <<jobs, agents, claims, latest, filed, slotSide, wrap>>
    BY <1>1, KeptJobs DEF Adopt
  <2>3. Go(w, t, [at |-> "keep", job |-> claims[w]])
    BY <1>1 DEF Adopt
  <2>4. [at |-> "keep", job |-> claims[w]] \in ThreadStates'
    BY <2>1, <2>2, StillNamed DEF ThreadStates
  <2>5. thread' \in [Wraps -> [Threads -> ThreadStates']]
    BY <2>2, <2>3, <2>4, GoTyped
  <2> QED BY <2>2, <2>5, StillNamed DEF TypeOK, JobsGrow, slotSide
<1>2. CASE claims[w] = None
  <2>1. AgentJob(w) \in Jobs
    BY DEF AgentJob, Jobs, LiveStatuses
  <2>2. jobs' = Append(jobs, AgentJob(w))
    BY <1>2 DEF Adopt
  <2>3. /\ JobsGrow /\ j \notin Ids /\ j \in AgentIds'
    <3>1. JobsGrow /\ j \notin Ids /\ j \in Ids' /\ jobs'[j] = AgentJob(w)
      BY <2>1, <2>2, AddedJob
    <3> QED BY <3>1, WrapsAssumption DEF AgentIds, Slotted, AgentJob
  <2>4. j \notin agents
    BY <2>3, AgentsFinite
  <2>5. /\ Cardinality((agents \ Evicted) \cup {j}) <= AgentLimit
        /\ Evicted \subseteq agents
        /\ Evicted # {} => Evicted = {Oldest} /\ Oldest \in agents
    BY <2>4, RoomForOne
  <2>6. /\ agents' = (agents \ Evicted) \cup {j} /\ latest' = j
        /\ claims' = [Forgetting(Evicted) EXCEPT ![w] = j]
        /\ UNCHANGED <<slotSide, wrap>>
    BY <1>2 DEF Adopt
  <2>7. agents' \subseteq AgentIds' /\ agents \subseteq Ids
    BY <2>3, <2>5, <2>6, StillNamed, AgentsFinite DEF TypeOK
  <2>8. claims' \in [Wraps -> agents' \cup {None}]
    BY <2>5, <2>6 DEF Forgetting, TypeOK
  <2>9. filed' \in Seq(Ids') /\ thread' \in [Wraps -> [Threads -> ThreadStates']]
    <3>1. CASE Evicted = {}
      <4>1. UNCHANGED filed /\ Go(w, t, [at |-> "keep", job |-> j])
        BY <1>2, <3>1 DEF Adopt
      <4>2. [at |-> "keep", job |-> j] \in ThreadStates'
        BY <2>3 DEF ThreadStates
      <4> QED BY <2>3, <4>1, <4>2, GoTyped, StillNamed
    <3>2. CASE Evicted # {}
      <4>1. filed' = File(Oldest, filed)
            /\ Go(w, t, [at |-> "evict", job |-> j, old |-> Oldest])
        BY <1>2, <3>2 DEF Adopt
      <4>2. Oldest \in AgentIds' /\ Oldest \in Ids'
        BY <2>3, <2>5, <2>7, <3>2, StillNamed DEF TypeOK, JobsGrow
      <4>3. [at |-> "evict", job |-> j, old |-> Oldest] \in ThreadStates'
        BY <2>3, <4>2 DEF ThreadStates
      <4>4. filed' \in Seq(Ids')
        BY <2>3, <4>1, <4>2, StillNamed, Filed
      <4> QED BY <2>3, <4>1, <4>3, <4>4, GoTyped
    <3> QED BY <3>1, <3>2
  <2> QED BY <2>3, <2>5, <2>6, <2>7, <2>8, <2>9, StillNamed DEF TypeOK, JobsGrow, slotSide
<1> QED BY <1>1, <1>2

LEMMA CompletionTyped ==
  ASSUME NEW j \in AgentIds, NEW s \in TerminalStatuses
  PROVE  Completion(j, s) \in Seq([job : AgentIds, status : TerminalStatuses])
BY DEF Completion

(* A step of a tool that leaves the catalog and the jobs alone.            *)
LEMMA WrapTyped ==
  ASSUME TypeOK, UNCHANGED <<jobs, slotSide, agents, claims, latest, filed>>,
         NEW w \in Wraps, NEW t \in Threads,
         wrap' \in [Wraps -> [stage : {"new", "open", "closed"}, job : AgentIds \cup {None},
                             how : TerminalStatuses, timer : BOOLEAN]],
         UNCHANGED thread \/ \E r \in ThreadStates : Go(w, t, r)
  PROVE  TypeOK' /\ JobsGrow
<1>1. JobsGrow
  BY KeptJobs
<1>2. AgentIds' = AgentIds /\ Ids' = Ids /\ ThreadStates' = ThreadStates
  BY DEF AgentIds, Ids, Slotted, ThreadStates
<1>3. thread' \in [Wraps -> [Threads -> ThreadStates']]
  BY <1>1, <1>2, GoTyped, StillNamed
<1> QED BY <1>1, <1>2, <1>3, StillNamed DEF TypeOK, JobsGrow, slotSide

LEMMA ReportingTyped ==
  ASSUME TypeOK, NEW w \in Wraps, NEW t \in Threads, Reporting(w, t)
  PROVE  TypeOK' /\ JobsGrow
<1> DEFINE C == [job : AgentIds, status : TerminalStatuses]
           mine == thread[w][t].job
           first == Head(thread[w][t].todo)
           rest == Completing(Tail(thread[w][t].todo))
<1>a. wrap[w] \in [stage : {"new", "open", "closed"}, job : AgentIds \cup {None},
                   how : TerminalStatuses, timer : BOOLEAN]
  BY DEF TypeOK
<1>1. CASE Ensure(w, t)
  <2>1. [at |-> "adopt"] \in ThreadStates
    BY DEF ThreadStates
  <2> QED BY <1>1, <1>a, <2>1, WrapTyped DEF Ensure, TypeOK
<1>2. CASE Adopt(w, t)
  BY <1>2, AdoptTyped
<1>3. CASE Keep(w, t)
  <2> DEFINE kept == IF wrap[w].job = None THEN mine ELSE wrap[w].job
             todo == (IF kept = mine THEN << >> ELSE Completion(mine, "cancelled"))
                     \o (IF wrap[w].stage = "closed" THEN Completion(kept, wrap[w].how)
                         ELSE << >>)
  <2>1. mine \in AgentIds /\ kept \in AgentIds
    BY <1>3, <1>a, ThreadHolds DEF Keep
  <2>2. todo \in Seq(C)
    <3>1. Completion(mine, "cancelled") \in Seq(C) /\ Completion(kept, wrap[w].how) \in Seq(C)
      BY <1>a, <2>1, CompletionTyped DEF TerminalStatuses
    <3> HIDE DEF C, kept, mine
    <3> QED BY <3>1
  <2>3. Completing(todo) \in ThreadStates
    BY <2>2, CompletingTyped
  <2>4. Go(w, t, Completing(todo)) /\ wrap' = [wrap EXCEPT ![w].job = kept]
        /\ UNCHANGED <<jobs, slotSide, agents, claims, latest, filed>>
    BY <1>3 DEF Keep
  <2>5. wrap' \in [Wraps -> [stage : {"new", "open", "closed"}, job : AgentIds \cup {None},
                            how : TerminalStatuses, timer : BOOLEAN]]
    <3> HIDE DEF kept
    <3> QED BY <1>a, <2>1, <2>4 DEF TypeOK
  <2> HIDE DEF todo
  <2> QED BY <2>3, <2>4, <2>5, WrapTyped
<1>4. CASE EndEvicted(w, t)
  <2> DEFINE old == thread[w][t].old
             v == [Settled(old, "cancelled") EXCEPT !.done = @ + 1]
  <2>1. mine \in AgentIds /\ old \in AgentIds
    BY <1>4, ThreadHolds DEF EndEvicted
  <2>2. v \in Jobs /\ v.kind = jobs[old].kind /\ v.status \notin LiveStatuses
    <3>1. Settled(old, "cancelled") \in Jobs
          /\ Settled(old, "cancelled").kind = jobs[old].kind
          /\ Settled(old, "cancelled").status \notin LiveStatuses
      BY <2>1, SettledTyped DEF TerminalStatuses
    <3> QED BY <3>1 DEF Jobs
  <2>3. [at |-> "keep", job |-> mine] \in ThreadStates
    BY <2>1 DEF ThreadStates
  <2>4. /\ jobs' = [jobs EXCEPT ![old] = v] /\ Go(w, t, [at |-> "keep", job |-> mine])
        /\ UNCHANGED <<slotSide, agents, claims, latest, filed, wrap>>
    BY <1>4 DEF EndEvicted
  <2> QED BY <2>1, <2>2, <2>3, <2>4, TellTyped
<1>b. \A a \in {"settle", "forget", "publish"} : At(w, t, a) =>
        /\ first.job \in AgentIds /\ first.status \in TerminalStatuses
        /\ rest \in ThreadStates
        /\ [thread[w][t] EXCEPT !.at = "forget"] \in ThreadStates
        /\ [thread[w][t] EXCEPT !.at = "publish"] \in ThreadStates
  <2> DEFINE busy == [at : {"settle", "forget", "publish"}, todo : Seq(C) \ {<< >>}]
  <2> TAKE a \in {"settle", "forget", "publish"}
  <2> HAVE At(w, t, a)
  <2>1. thread[w][t] \in busy /\ first \in C /\ Tail(thread[w][t].todo) \in Seq(C)
    BY ThreadHolds
  <2>2. rest \in ThreadStates
    BY <2>1, CompletingTyped
  <2>3. \A b \in {"forget", "publish"} : [thread[w][t] EXCEPT !.at = b] \in busy
    <3> DEFINE T == Seq(C) \ {<< >>}
    <3> HIDE DEF T
    <3> QED BY <2>1
  <2>4. busy \subseteq ThreadStates
    BY DEF ThreadStates
  <2> QED BY <2>1, <2>2, <2>3, <2>4
<1>5. CASE Settle(w, t)
  <2> DEFINE v == Settled(first.job, first.status)
  <2>1. first.job \in AgentIds /\ first.status \in TerminalStatuses
        /\ [thread[w][t] EXCEPT !.at = "forget"] \in ThreadStates
    BY <1>5, <1>b DEF Settle
  <2>2. v \in Jobs /\ v.kind = jobs[first.job].kind /\ v.status \notin LiveStatuses
    BY <2>1, SettledTyped
  <2>3. /\ jobs' = [jobs EXCEPT ![first.job] = v]
        /\ Go(w, t, [thread[w][t] EXCEPT !.at = "forget"])
        /\ UNCHANGED <<slotSide, agents, claims, latest, filed, wrap>>
    BY <1>5 DEF Settle
  <2> HIDE DEF v, first
  <2> QED BY <2>1, <2>2, <2>3, TellTyped
<1>6. CASE PublishAgentDone(w, t)
  <2> DEFINE v == [jobs[first.job] EXCEPT !.done = @ + 1]
  <2>1. first.job \in AgentIds /\ rest \in ThreadStates /\ jobs[first.job] \in Jobs
    BY <1>6, <1>b DEF PublishAgentDone, AgentIds, Ids, TypeOK
  <2>2. v \in Jobs /\ v.kind = jobs[first.job].kind /\ v.status = jobs[first.job].status
    <3> HIDE DEF first
    <3> QED BY <2>1 DEF Jobs
  <2>3. /\ jobs' = [jobs EXCEPT ![first.job] = v] /\ Go(w, t, rest)
        /\ UNCHANGED <<slotSide, agents, claims, latest, filed, wrap>>
    BY <1>6 DEF PublishAgentDone
  <2> HIDE DEF v, first, rest
  <2> QED BY <2>1, <2>2, <2>3, TellTyped DEF Live
<1>7. CASE Forget(w, t)
  <2> DEFINE j == first.job
  <2>1. /\ j \in AgentIds /\ j \in Ids /\ rest \in ThreadStates
        /\ [thread[w][t] EXCEPT !.at = "publish"] \in ThreadStates
    BY <1>7, <1>b DEF Forget, AgentIds
  <2>2. /\ UNCHANGED <<jobs, slotSide, latest, wrap>>
        /\ Go(w, t, rest) \/ Go(w, t, [thread[w][t] EXCEPT !.at = "publish"])
        /\ \/ /\ agents' = agents \ {j} /\ claims' = Forgetting({j})
              /\ filed' = File(j, filed)
           \/ UNCHANGED <<agents, claims, filed>>
    BY <1>7 DEF Forget
  <2> HIDE DEF j, rest
  <2>3. JobsGrow /\ AgentIds' = AgentIds /\ Ids' = Ids /\ ThreadStates' = ThreadStates
    BY <2>2, KeptJobs DEF AgentIds, Ids, Slotted, ThreadStates
  <2>4. filed' \in Seq(Ids')
    BY <2>1, <2>2, <2>3, Filed DEF TypeOK
  <2>5. /\ agents' \subseteq AgentIds' /\ Cardinality(agents') <= AgentLimit
        /\ claims' \in [Wraps -> agents' \cup {None}]
    <3>1. CASE agents' = agents \ {j} /\ claims' = Forgetting({j})
      <4>1. Cardinality(agents \ {j}) \in Nat /\ Cardinality(agents \ {j}) <= Cardinality(agents)
        <5>1. IsFiniteSet(agents) /\ Cardinality(agents) \in Nat
          BY AgentsFinite
        <5>2. IsFiniteSet(agents \ {j}) /\ Cardinality(agents \ {j}) <= Cardinality(agents)
          BY <5>1, FS_RemoveElement
        <5> QED BY <5>2, FS_CardinalityType
      <4>2. Cardinality(agents') <= AgentLimit
        BY <3>1, <4>1, AgentsFinite, CatalogBounds DEF TypeOK
      <4> QED BY <2>3, <3>1, <4>2 DEF Forgetting, TypeOK
    <3>2. CASE UNCHANGED <<agents, claims>>
      BY <2>3, <3>2 DEF TypeOK
    <3> QED BY <2>2, <3>1, <3>2
  <2>6. thread' \in [Wraps -> [Threads -> ThreadStates']]
    BY <2>1, <2>2, <2>3, GoTyped
  <2> QED BY <2>2, <2>3, <2>4, <2>5, <2>6, StillNamed DEF TypeOK, JobsGrow, slotSide
<1> QED BY <1>1, <1>2, <1>3, <1>4, <1>5, <1>6, <1>7 DEF Reporting

-----------------------------------------------------------------------------
LEMMA TypedInit == Init => TypeOK
<1> SUFFICES ASSUME Init PROVE TypeOK
  OBVIOUS
<1>1. Cardinality({}) <= AgentLimit
  BY CatalogBounds, FS_EmptySet
<1> QED BY <1>1 DEF Init, TypeOK, CallerStates, ThreadStates, TerminalStatuses, Ids

LEMMA NextTyped ==
  ASSUME TypeOK, [Next]_vars
  PROVE  TypeOK' /\ JobsGrow
<1>1. CASE UNCHANGED vars
  BY <1>1, KeptJobs DEF vars, TypeOK, JobsGrow, Ids, AgentIds, Slotted, CallerStates, ThreadStates
<1>2. CASE Asks
  <2>1. PICK c \in Callers, kind \in SlotKinds, waits \in BOOLEAN : Ask(c, kind, waits)
    BY <1>2 DEF Asks
  <2>2. [at |-> IF waits THEN "look" ELSE "check", kind |-> kind, waits |-> waits]
          \in CallerStates
    BY DEF CallerStates
  <2> QED BY <2>1, <2>2, ToTyped DEF Ask
<1>3. CASE Cancel
  BY <1>3, CancelTyped
<1>4. CASE Workers
  BY <1>4, WorkersTyped
<1>5. ASSUME NEW c \in Callers, Spawning(c) PROVE TypeOK' /\ JobsGrow
  BY <1>5, SpawningTyped
<1>6. ASSUME NEW w \in Wraps, Open(w) PROVE TypeOK' /\ JobsGrow
  <2>1. "tool" \in Threads
    BY DEF Threads
  <2> QED BY <1>6, <2>1, WrapTyped DEF Open, TypeOK
<1>7. ASSUME NEW w \in Wraps, NEW how \in TerminalStatuses, Close(w, how)
      PROVE  TypeOK' /\ JobsGrow
  <2> DEFINE todo == IF wrap[w].job = None THEN << >> ELSE Completion(wrap[w].job, how)
  <2>1. todo \in Seq([job : AgentIds, status : TerminalStatuses])
    <3>1. wrap[w].job \in AgentIds \cup {None}
      BY DEF TypeOK
    <3>2. << >> \in Seq([job : AgentIds, status : TerminalStatuses])
      OBVIOUS
    <3>3. CASE wrap[w].job = None
      BY <3>2, <3>3
    <3>4. CASE wrap[w].job # None
      <4>1. Completion(wrap[w].job, how) \in Seq([job : AgentIds, status : TerminalStatuses])
        BY <3>1, <3>4, CompletionTyped
      <4> QED BY <3>4, <4>1
    <3> QED BY <3>3, <3>4
  <2>2. Completing(todo) \in ThreadStates
    BY <2>1, CompletingTyped
  <2>3. Go(w, "tool", Completing(todo)) /\ "tool" \in Threads
    BY <1>7 DEF Close, Threads
  <2> HIDE DEF todo
  <2>4. wrap' \in [Wraps -> [stage : {"new", "open", "closed"}, job : AgentIds \cup {None},
                            how : TerminalStatuses, timer : BOOLEAN]]
    <3>1. wrap' = [wrap EXCEPT ![w].stage = "closed", ![w].how = how, ![w].timer = FALSE]
      BY <1>7 DEF Close
    <3> DEFINE W == [stage : {"new", "open", "closed"}, job : AgentIds \cup {None},
                     how : TerminalStatuses, timer : BOOLEAN]
    <3>2. wrap \in [Wraps -> W]
      BY DEF TypeOK
    <3>3. \A f \in [Wraps -> W] : [f EXCEPT ![w].stage = "closed"] \in [Wraps -> W]
      OBVIOUS
    <3>4. \A f \in [Wraps -> W] : [f EXCEPT ![w].how = how] \in [Wraps -> W]
      OBVIOUS
    <3>5. \A f \in [Wraps -> W] : [f EXCEPT ![w].timer = FALSE] \in [Wraps -> W]
      OBVIOUS
    <3>6. wrap' = [[[wrap EXCEPT ![w].stage = "closed"] EXCEPT ![w].how = how]
                   EXCEPT ![w].timer = FALSE]
      BY <3>1, Zenon
    <3> HIDE DEF W
    <3>7. wrap' \in [Wraps -> W]
      BY <3>2, <3>3, <3>4, <3>5, <3>6
    <3> QED BY <3>7 DEF W
  <2>5. UNCHANGED <<jobs, slotSide, agents, claims, latest, filed>>
    BY <1>7 DEF Close
  <2> QED BY <2>2, <2>3, <2>4, <2>5, WrapTyped
<1>8. ASSUME NEW w \in Wraps, NEW t \in Threads, Reporting(w, t) PROVE TypeOK' /\ JobsGrow
  BY <1>8, ReportingTyped
<1> QED BY <1>1, <1>2, <1>3, <1>4, <1>5, <1>6, <1>7, <1>8 DEF Next

-----------------------------------------------------------------------------
(* Every variable keeps its shape, and the live agent jobs never exceed    *)
(* their limit, however tools, timers and evictions meet.                  *)
THEOREM TypeCorrect == Spec => []TypeOK
<1>1. TypeOK /\ [Next]_vars => TypeOK'
  BY NextTyped
<1> QED BY TypedInit, <1>1, PTL DEF Spec

(* A new slot job is the slot's, and finds it without a live one.          *)
LEMMA SlotNext ==
  ASSUME TypeOK, OneSlotJob, [Next]_vars
  PROVE  OneSlotJob'
<1>1. TypeOK' /\ JobsGrow
  BY NextTyped
<1>2. CASE UNCHANGED slot /\ \A j \in Ids' \ Ids : ~Slotted(j)'
  BY <1>1, <1>2 DEF OneSlotJob, JobsGrow, Slotted, Live
<1>3. CASE UNCHANGED slot /\ Ids' = Ids
  BY <1>2, <1>3
<1>4. CASE UNCHANGED <<jobs, slot>>
  BY <1>3, <1>4 DEF Ids
<1>5. CASE Cancel \/ Workers
  <2>1. ASSUME NEW j, NEW v, Work(j, v) PROVE OneSlotJob'
    BY <1>3, <2>1 DEF Work, Ids, slotSide
  <2>2. CASE Cancel
    BY <1>3, <2>2 DEF Cancel, Ids, slotSide
  <2>3. CASE Workers
    BY <2>1, <2>3 DEF Workers, Run, Finish, FileJob, PublishDone
  <2> QED BY <1>5, <2>2, <2>3
<1>6. ASSUME NEW c \in Callers, Spawning(c) PROVE OneSlotJob'
  <2>1. CASE UNCHANGED <<jobs, slot>>
    BY <1>4, <2>1
  <2>2. CASE TakeSlot(c) /\ ~UNCHANGED <<jobs, slot>>
    <3>1. /\ ~SlotLive /\ slot' = Len(jobs) + 1
          /\ jobs' = Append(jobs, NewJob(caller[c].kind))
      BY <2>2 DEF TakeSlot, Refused, To
    <3>2. Ids' = Ids \cup {slot'}
      BY <3>1 DEF TypeOK, Ids
    <3>3. \A j \in Ids : Slotted(j) => ~Live(j)
      BY <3>1 DEF OneSlotJob, SlotLive, None, TypeOK, Ids
    <3> QED BY <1>1, <3>2, <3>3 DEF OneSlotJob, JobsGrow, Slotted, Live
  <2> QED BY <1>6, <2>1, <2>2 DEF Spawning, Look, Waited, StillUpdating, CheckSlot, Refused,
                                  Validate, Busy, To
<1>7. ASSUME NEW w \in Wraps, NEW t \in Threads, Reporting(w, t) PROVE OneSlotJob'
  <2>1. CASE Adopt(w, t) /\ claims[w] = None
    <3>1. UNCHANGED slot /\ jobs' = Append(jobs, AgentJob(w))
      BY <2>1 DEF Adopt, slotSide
    <3>2. Ids' = Ids \cup {Len(jobs) + 1} /\ jobs'[Len(jobs) + 1] = AgentJob(w)
      BY <3>1 DEF TypeOK, Ids
    <3> QED BY <1>2, <3>1, <3>2, WrapsAssumption DEF Slotted, AgentJob
  <2>2. CASE Adopt(w, t) /\ claims[w] # None
    BY <1>4, <2>2 DEF Adopt, slotSide
  <2>3. CASE EndEvicted(w, t) \/ Settle(w, t) \/ PublishAgentDone(w, t)
    <3>1. UNCHANGED slot /\ \E j, v : jobs' = [jobs EXCEPT ![j] = v]
      BY <2>3 DEF EndEvicted, Settle, PublishAgentDone, slotSide
    <3> QED BY <1>3, <3>1 DEF Ids
  <2>4. CASE Ensure(w, t) \/ Keep(w, t) \/ Forget(w, t)
    BY <1>4, <2>4 DEF Ensure, Keep, Forget, slotSide
  <2> QED BY <1>7, <2>1, <2>2, <2>3, <2>4 DEF Reporting
<1> QED BY <1>4, <1>5, <1>6, <1>7 DEF Next, vars, Asks, Ask, To, Open, Close, slotSide

(* Two slot jobs never run at once: whatever callers check before they     *)
(* validate, the only slot job queued or running is the one in the slot.   *)
THEOREM OneJobInSlot == Spec => []OneSlotJob
<1>1. Init => OneSlotJob
  BY DEF Init, OneSlotJob, Ids
<1>2. TypeOK /\ OneSlotJob /\ [Next]_vars => OneSlotJob'
  BY SlotNext
<1> QED BY TypeCorrect, <1>1, <1>2, PTL DEF Spec

-----------------------------------------------------------------------------
(* The archive.  What it has let go of, it let go of for enough newer jobs; *)
(* the last FinishedLimit entries are that many jobs, because a job that is *)
(* among them is not filed again.                                          *)
Between(f, a, b) == {f[k] : k \in a..b}

Aged(j, f) ==
  \E i \in DOMAIN f :
    f[i] = j /\ Cardinality(Between(f, i + 1, Len(f)) \ {j}) >= FinishedLimit

Window(f) == {k \in DOMAIN f : k + FinishedLimit > Len(f)}

FiledOnce(f) == \A a, b \in Window(f) : f[a] = f[b] => a = b

(* The entries from a to b of an archive: finitely many jobs, and as many  *)
(* as there are entries when none occurs twice.                            *)
LEMMA Entries ==
  ASSUME NEW f, NEW a \in Nat, NEW b \in Nat
  PROVE  /\ IsFiniteSet(Between(f, a, b)) /\ Cardinality(Between(f, a, b)) \in Nat
         /\ (\A k, l \in a..b : f[k] = f[l] => k = l) /\ a <= b
            => Cardinality(Between(f, a, b)) = b - a + 1
<1> DEFINE T == Between(f, a, b)
           h == [k \in a..b |-> f[k]]
<1>1. h \in Surjection(a..b, T)
  BY DEF Surjection, Between
<1>2. IsFiniteSet(a..b) /\ (a <= b => Cardinality(a..b) = b - a + 1)
  BY FS_Interval
<1>3. (\A k, l \in a..b : f[k] = f[l] => k = l) => h \in Injection(a..b, T)
  BY DEF Injection, IsInjective, Between
<1> HIDE DEF h, T
<1>4. IsFiniteSet(T) /\ (h \in Injection(a..b, T) => Cardinality(T) = Cardinality(a..b))
  BY <1>1, <1>2, FS_Surjection
<1>5. Cardinality(T) \in Nat
  BY <1>4, FS_CardinalityType
<1> QED BY <1>2, <1>3, <1>4, <1>5 DEF T

(* Filing a job keeps what the archive holds or has let go of rightly.     *)
LEMMA FileKeeps ==
  ASSUME NEW S, NEW f \in Seq(S), FiledOnce(f), NEW x \in S
  PROVE  /\ FiledOnce(File(x, f)) /\ x \in Finished(File(x, f))
         /\ \A j : j \in Finished(f) \/ Aged(j, f)
                   => j \in Finished(File(x, f)) \/ Aged(j, File(x, f))
<1> DEFINE g == Append(f, x)
           n == Len(f)
<1>0. FinishedLimit \in Nat \ {0}
  BY CatalogBounds
<1>1. CASE x \in Finished(f)
  BY <1>1 DEF File
<1>2. CASE x \notin Finished(f)
  <2>1. File(x, f) = g
    BY <1>2 DEF File
  <2>2. /\ n \in Nat /\ Len(g) = n + 1 /\ DOMAIN g = 1..(n + 1) /\ DOMAIN f = 1..n
        /\ g[n + 1] = x /\ \A k \in 1..n : g[k] = f[k]
    OBVIOUS
  <2>3. \A k \in Window(g) : k \in 1..(n + 1) /\ (k # n + 1 => k \in Window(f) /\ f[k] # x)
    <3> TAKE k \in Window(g)
    <3> HIDE DEF g
    <3>1. k \in 1..(n + 1) /\ (k # n + 1 => k \in Window(f))
      BY <1>0, <2>2 DEF Window
    <3> QED BY <1>2, <3>1 DEF Finished, Window
  <2>4. FiledOnce(g)
    <3> SUFFICES ASSUME NEW a \in Window(g), NEW b \in Window(g), g[a] = g[b] PROVE a = b
      BY DEF FiledOnce
    <3> HIDE DEF g
    <3> QED BY <2>2, <2>3 DEF FiledOnce, Window
  <2>5. x \in Finished(g)
    <3>1. n + 1 \in Window(g)
      BY <1>0, <2>2 DEF Window
    <3> QED BY <2>2, <3>1 DEF Finished, Window
  <2>6. ASSUME NEW j, j \in Finished(f) PROVE j \in Finished(g) \/ Aged(j, g)
    <3>1. PICK i \in Window(f) : f[i] = j
      BY <2>6 DEF Finished, Window
    <3>2. i \in 1..n /\ i + FinishedLimit > n /\ g[i] = j
      BY <2>2, <3>1 DEF Window
    <3>3. CASE i + FinishedLimit > n + 1
      BY <2>2, <3>2, <3>3 DEF Finished
    <3>4. CASE i + FinishedLimit = n + 1
      <4> DEFINE T == Between(g, i + 1, n + 1)
      <4>1. \A k \in (i + 1)..(n + 1) : k \in Window(g)
        <5> HIDE DEF g
        <5> QED BY <1>0, <2>2, <3>2, <3>4 DEF Window
      <4>2. \A k, l \in (i + 1)..(n + 1) : g[k] = g[l] => k = l
        BY <2>4, <4>1 DEF FiledOnce
      <4>3. Cardinality(T) = FinishedLimit
        <5> HIDE DEF g, n
        <5>1. i + 1 \in Nat /\ n + 1 \in Nat /\ i + 1 <= n + 1
          BY <2>2, <3>2
        <5>2. Cardinality(T) = (n + 1) - (i + 1) + 1
          BY <4>2, <5>1, Entries
        <5> QED BY <1>0, <2>2, <3>2, <3>4, <5>2
      <4>4. j \notin T
        <5> SUFFICES ASSUME NEW k \in (i + 1)..(n + 1), g[k] = j PROVE FALSE
          BY DEF Between
        <5>1. CASE k = n + 1
          BY <1>2, <2>2, <2>6, <5>1
        <5>2. CASE k # n + 1
          <6>1. k \in 1..n /\ k # i /\ k \in Window(f)
            BY <2>2, <2>3, <3>2, <4>1, <5>2
          <6> QED BY <2>2, <3>1, <6>1 DEF FiledOnce
        <5> QED BY <5>1, <5>2
      <4>5. T \ {j} = T
        BY <4>4
      <4>6. i \in DOMAIN g /\ Cardinality(Between(g, i + 1, Len(g)) \ {j}) >= FinishedLimit
        <5>1. Len(g) = n + 1 /\ i \in DOMAIN g
          BY <2>2, <3>2
        <5>2. Cardinality(Between(g, i + 1, Len(g)) \ {j}) = FinishedLimit
          BY <4>3, <4>5, <5>1
        <5> HIDE DEF g
        <5> QED BY <1>0, <5>1, <5>2
      <4> HIDE DEF g
      <4> QED BY <3>2, <4>6 DEF Aged
    <3> QED BY <1>0, <2>2, <3>2, <3>3, <3>4
  <2>7. ASSUME NEW j, Aged(j, f) PROVE Aged(j, g)
    <3>1. PICK i \in 1..n :
            f[i] = j /\ Cardinality(Between(f, i + 1, n) \ {j}) >= FinishedLimit
      BY <2>2, <2>7 DEF Aged
    <3> DEFINE P == Between(f, i + 1, n) \ {j}
               Q == Between(g, i + 1, n + 1) \ {j}
    <3>2. P \subseteq Q
      <4> SUFFICES ASSUME NEW k \in (i + 1)..n PROVE f[k] \in Between(g, i + 1, n + 1)
        BY DEF Between
      <4>1. k \in (i + 1)..(n + 1) /\ g[k] = f[k]
        BY <2>2
      <4> QED BY <4>1 DEF Between
    <3>3. IsFiniteSet(Q) /\ Cardinality(Q) \in Nat
      <4>1. IsFiniteSet(Between(g, i + 1, n + 1))
        <5> HIDE DEF g, n
        <5>1. i + 1 \in Nat /\ n + 1 \in Nat
          BY <2>2
        <5> QED BY <5>1, Entries
      <4>2. IsFiniteSet(Q)
        <5> HIDE DEF g, n
        <5> QED BY <4>1, FS_Subset
      <4> HIDE DEF Q
      <4> QED BY <4>2, FS_CardinalityType
    <3>4. Cardinality(P) \in Nat /\ Cardinality(P) <= Cardinality(Q)
      <4> HIDE DEF P, Q
      <4>1. IsFiniteSet(P) /\ Cardinality(P) <= Cardinality(Q)
        BY <3>2, <3>3, FS_Subset
      <4> QED BY <4>1, FS_CardinalityType
    <3>5. Cardinality(Q) >= FinishedLimit
      <4>1. Cardinality(P) >= FinishedLimit
        BY <3>1
      <4> HIDE DEF P, Q
      <4> QED BY <1>0, <3>3, <3>4, <4>1
    <3>6. i \in DOMAIN g /\ g[i] = j /\ Len(g) = n + 1
      BY <2>2, <3>1
    <3> HIDE DEF g, n
    <3> QED BY <3>5, <3>6 DEF Aged
  <2> QED BY <2>1, <2>4, <2>5, <2>6, <2>7
<1> QED BY <1>1, <1>2

(* A job is filed when it leaves the slot or the live agent jobs.          *)
Kept ==
  /\ FiledOnce(filed)
  /\ \A j \in Ids : j = slot \/ j \in agents \/ j \in Finished(filed) \/ Aged(j, filed)

(* A step that files nothing and lets go of nothing.                       *)
LEMMA KeptStill ==
  ASSUME Kept, UNCHANGED filed,
         \A j \in Ids' : j \in Ids \/ j = slot' \/ j \in agents',
         slot # slot' => slot \notin Ids, agents \subseteq agents'
  PROVE  Kept'
BY DEF Kept

(* A step that files x, and lets go of nothing else.                       *)
LEMMA KeptFiling ==
  ASSUME TypeOK, Kept, NEW x \in Ids, filed' = File(x, filed),
         \A j \in Ids' : j \in Ids \/ j = slot' \/ j \in agents',
         slot # slot' => slot \notin Ids \/ slot = x, agents \subseteq agents' \cup {x}
  PROVE  Kept'
<1>1. filed \in Seq(Ids) /\ FiledOnce(filed)
  BY DEF TypeOK, Kept
<1>2. /\ FiledOnce(File(x, filed)) /\ x \in Finished(File(x, filed))
      /\ \A j : j \in Finished(filed) \/ Aged(j, filed)
                => j \in Finished(File(x, filed)) \/ Aged(j, File(x, filed))
  BY <1>1, FileKeeps
<1>3. /\ FiledOnce(filed') /\ x \in Finished(filed')
      /\ \A j : j \in Finished(filed) \/ Aged(j, filed)
                => j \in Finished(filed') \/ Aged(j, filed')
  BY <1>2
<1>4. FiledOnce(filed)' /\ \A j : Finished(filed)' = Finished(filed')
                                  /\ (Aged(j, filed') => Aged(j, filed)')
  BY <1>3 DEF FiledOnce, Finished, Aged, Window, Between
<1> QED BY <1>3, <1>4 DEF Kept

LEMMA KeptNext ==
  ASSUME TypeOK, Kept, [Next]_vars
  PROVE  Kept'
<1>1. None \notin Ids
  BY DEF TypeOK, Ids, None
<1>2. CASE UNCHANGED <<filed, slot, agents>> /\ Ids' = Ids
  BY <1>2, KeptStill
<1>3. CASE UNCHANGED <<filed, slot, agents, jobs>>
  BY <1>2, <1>3 DEF Ids
<1>4. CASE Cancel
  <2>1. Ids' = Ids /\ UNCHANGED <<filed, slot, agents>>
    BY <1>4 DEF Cancel, Ids, slotSide, agentSide
  <2> QED BY <1>2, <2>1
<1>5. CASE Workers
  <2>1. PICK j \in Ids : Run(j) \/ Finish(j) \/ FileJob(j) \/ PublishDone(j)
    BY <1>5 DEF Workers, Ids
  <2>2. Ids' = Ids /\ UNCHANGED <<slot, agents>> /\ (filed' = filed \/ filed' = File(j, filed))
    BY <2>1 DEF Run, Finish, FileJob, PublishDone, Work, Ids, slotSide, agentSide
  <2> QED BY <1>2, <2>2, KeptFiling
<1>6. ASSUME NEW c \in Callers, Spawning(c) PROVE Kept'
  <2>1. CASE UNCHANGED <<filed, slot, agents, jobs>>
    BY <1>3, <2>1
  <2>2. CASE TakeSlot(c) /\ ~UNCHANGED <<filed, slot, agents, jobs>>
    <3>1. /\ filed' = IF slot # None THEN File(slot, filed) ELSE filed
          /\ jobs' = Append(jobs, NewJob(caller[c].kind)) /\ slot' = Len(jobs) + 1
          /\ UNCHANGED agents
      BY <2>2 DEF TakeSlot, Refused, To, agentSide, slotSide
    <3>2. Ids' = Ids \cup {slot'}
      BY <3>1 DEF TypeOK, Ids
    <3>3. CASE slot = None
      BY <1>1, <3>1, <3>2, <3>3, KeptStill
    <3>4. CASE slot # None
      <4>1. slot \in Ids
        BY <3>4 DEF TypeOK
      <4> QED BY <3>1, <3>2, <3>4, <4>1, KeptFiling
    <3> QED BY <3>3, <3>4
  <2> QED BY <1>6, <2>1, <2>2 DEF Spawning, Look, Waited, StillUpdating, CheckSlot, Refused,
                                  Validate, Busy, To, agentSide
<1>7. ASSUME NEW w \in Wraps, NEW t \in Threads, Reporting(w, t) PROVE Kept'
  <2>1. CASE Adopt(w, t) /\ claims[w] = None
    <3> DEFINE new == Len(jobs) + 1
    <3>1. /\ UNCHANGED slot /\ jobs' = Append(jobs, AgentJob(w))
          /\ agents' = (agents \ Evicted) \cup {new}
      BY <2>1 DEF Adopt, slotSide
    <3>2. Ids' = Ids \cup {new} /\ new \notin Ids
      BY <3>1 DEF TypeOK, Ids
    <3>3. CASE Evicted = {}
      <4>1. UNCHANGED filed
        BY <2>1, <3>3 DEF Adopt
      <4> QED BY <3>1, <3>2, <3>3, <4>1, KeptStill
    <3>4. CASE Evicted # {}
      <4>1. filed' = File(Oldest, filed)
        BY <2>1, <3>4 DEF Adopt
      <4>2. Evicted = {Oldest} /\ Oldest \in Ids
        <5>1. new \notin agents
          BY <3>2, AgentsFinite
        <5> QED BY <3>4, <5>1, RoomForOne, AgentsFinite
      <4> QED BY <3>1, <3>2, <4>1, <4>2, KeptFiling
    <3> QED BY <3>3, <3>4
  <2>2. CASE Adopt(w, t) /\ claims[w] # None
    BY <1>3, <2>2 DEF Adopt, slotSide
  <2>3. CASE EndEvicted(w, t) \/ Settle(w, t) \/ PublishAgentDone(w, t)
    <3>1. UNCHANGED <<filed, slot, agents>> /\ \E j, v : jobs' = [jobs EXCEPT ![j] = v]
      BY <2>3 DEF EndEvicted, Settle, PublishAgentDone, slotSide
    <3> QED BY <1>2, <3>1 DEF Ids
  <2>4. CASE Ensure(w, t) \/ Keep(w, t)
    BY <1>3, <2>4 DEF Ensure, Keep, slotSide
  <2>5. CASE Forget(w, t)
    <3> DEFINE x == Head(thread[w][t].todo).job
    <3>1. UNCHANGED <<jobs, slot>> /\ x \in Ids
      BY <2>5, ThreadHolds DEF Forget, slotSide, AgentIds
    <3>2. \/ agents' = agents \ {x} /\ filed' = File(x, filed)
          \/ UNCHANGED <<agents, filed>>
      BY <2>5 DEF Forget
    <3>3. Ids' = Ids
      BY <3>1 DEF Ids
    <3> HIDE DEF x
    <3> QED BY <1>3, <3>1, <3>2, <3>3, KeptFiling
  <2> QED BY <1>7, <2>1, <2>2, <2>3, <2>4, <2>5 DEF Reporting
<1> QED BY <1>3, <1>4, <1>5, <1>6, <1>7
        DEF Next, vars, Asks, Ask, To, Open, Close, slotSide, agentSide

(* A job stays findable by its id until enough others have been filed      *)
(* after it, whoever takes it from the slot or from the live agent jobs    *)
(* and however they meet: none is ever let go of unfiled.                  *)
THEOREM EveryJobFindable == Spec => []FinishedFindable
<1>1. Init => Kept
  BY DEF Init, Kept, FiledOnce, Window, Ids
<1>2. TypeOK /\ Kept /\ [Next]_vars => Kept'
  BY KeptNext
<1>3. Kept => FinishedFindable
  BY DEF Kept, FinishedFindable, Findable, Aged, Between
<1> QED BY TypeCorrect, <1>1, <1>2, <1>3, PTL DEF Spec

-----------------------------------------------------------------------------
(* How jobs end.  A slot job is announced by its worker, once it has ended. *)
WorkerTells ==
  \A j \in Ids :
    /\ Slotted(j) <=> jobs[j].at # "agent"
    /\ Slotted(j) => /\ jobs[j].at # "work" => ~Live(j)
                     /\ jobs[j].done = IF jobs[j].at = "over" THEN 1 ELSE 0

(* Of a thread in state r: the job it is about to announce, the jobs it is *)
(* still to settle, and the one it is about to take out of the catalog.    *)
Tells(r, j) ==
  \/ r.at = "evict" /\ r.old = j
  \/ r.at = "publish" /\ Head(r.todo).job = j

Due(r, j) ==
  \/ r.at \in {"keep", "evict"} /\ r.job = j
  \/ r.at = "settle" /\ \E i \in DOMAIN r.todo : r.todo[i].job = j
  \/ r.at \in {"forget", "publish"} /\ \E i \in DOMAIN r.todo : i > 1 /\ r.todo[i].job = j

Leaves(r, j) == r.at = "forget" /\ Head(r.todo).job = j

(* An agent job is announced by whoever took it out of the catalog, and by *)
(* nobody else.                                                            *)
Announced(j) == \E v \in Wraps, t \in Threads : Tells(thread[v][t], j)

OneTells ==
  \A j \in AgentIds :
    /\ jobs[j].done \in {0, 1}
    /\ jobs[j].done = 1 => ~Live(j)
    /\ j \in agents => jobs[j].done = 0
    /\ Announced(j) => jobs[j].done = 0 /\ j \notin agents
    /\ \A v, u \in Wraps, s, t \in Threads :
         Tells(thread[v][s], j) /\ Tells(thread[u][t], j) => v = u /\ s = t
    /\ j \in agents \/ jobs[j].done = 1 \/ Announced(j)

(* What a tool's threads hold, and what its wrap and its claim name, are   *)
(* jobs of that tool; before it starts, it has none and no thread moves.   *)
Own(w, j) == j \in Ids /\ jobs[j].kind = w

OwnThread(w, r) ==
  /\ r.at \in {"keep", "evict"} => Own(w, r.job)
  /\ r.at \in {"settle", "forget", "publish"} =>
       \A i \in DOMAIN r.todo : Own(w, r.todo[i].job)

OwnJobs ==
  \A w \in Wraps :
    /\ claims[w] # None => Own(w, claims[w])
    /\ wrap[w].job # None => Own(w, wrap[w].job)
    /\ wrap[w].stage = "new" =>
         wrap[w].job = None /\ ~wrap[w].timer /\ \A t \in Threads : At(w, t, "rest")
    /\ \A t \in Threads : OwnThread(w, thread[w][t])

(* A live job of a tool will still be settled by somebody of that tool, who *)
(* settles a job before taking it out of the catalog.                      *)
KeepsIt(w, j) == wrap[w].stage = "open" /\ wrap[w].job = j

Owed(w, j) == KeepsIt(w, j) \/ \E t \in Threads : Due(thread[w][t], j)

Forgets(w, j) == \E t \in Threads : Leaves(thread[w][t], j)

SomeoneOwes ==
  /\ \A w \in Wraps, t \in Threads :
       thread[w][t].at \in {"forget", "publish"} => ~Live(Head(thread[w][t].todo).job)
  /\ \A w \in Wraps, j \in AgentIds :
       Own(w, j) =>
         /\ Live(j) => Owed(w, j)
         /\ j \in agents => Owed(w, j) \/ Forgets(w, j)

EndInv == WorkerTells /\ OneTells /\ OwnJobs /\ SomeoneOwes

LEMMA WorkerTellsNext ==
  ASSUME TypeOK, WorkerTells, [Next]_vars
  PROVE  WorkerTells'
<1>0. Ids = 1..Len(jobs) /\ Len(jobs) \in Nat /\ \A j \in Ids : jobs[j] \in Jobs
  BY DEF TypeOK, Ids
<1> DEFINE Right(r) ==
      /\ r.kind \in SlotKinds <=> r.at # "agent"
      /\ r.kind \in SlotKinds => /\ r.at # "work" => r.status \notin LiveStatuses
                                 /\ r.done = IF r.at = "over" THEN 1 ELSE 0
<1>1. \A j \in Ids : Right(jobs[j])
  BY DEF WorkerTells, Slotted, Live
<1>2. (\A j \in Ids' : Right(jobs'[j])) => WorkerTells'
  BY DEF WorkerTells, Slotted, Live
<1> DEFINE Change(j, v) == jobs' = [jobs EXCEPT ![j] = v]
<1>3. ASSUME NEW j \in Ids, NEW v, Right(v), Change(j, v) PROVE WorkerTells'
  <2>1. Ids' = Ids /\ \A i \in Ids : jobs'[i] = IF i = j THEN v ELSE jobs[i]
    BY <1>0, <1>3 DEF Ids
  <2> HIDE DEF Right
  <2> QED BY <1>1, <1>2, <1>3, <2>1
<1>4. ASSUME NEW v, Right(v), jobs' = Append(jobs, v) PROVE WorkerTells'
  <2>1. Ids' = Ids \cup {Len(jobs) + 1}
        /\ \A i \in Ids' : jobs'[i] = IF i = Len(jobs) + 1 THEN v ELSE jobs[i]
    BY <1>0, <1>4 DEF Ids, TypeOK
  <2> HIDE DEF Right
  <2> QED BY <1>1, <1>2, <1>4, <2>1
<1>5. CASE UNCHANGED jobs
  BY <1>1, <1>2, <1>5 DEF Ids
(* a change of an agent job leaves its kind, and "agent", alone *)
<1>6. ASSUME NEW j \in AgentIds, NEW v \in Jobs, v.kind = jobs[j].kind, v.at = jobs[j].at,
             Change(j, v)
      PROVE  WorkerTells'
  <2>1. j \in Ids /\ ~Slotted(j)
    BY DEF AgentIds
  <2>2. Right(v)
    BY <1>1, <1>6, <2>1 DEF Slotted
  <2> HIDE DEF Right, Change
  <2> QED BY <1>3, <1>6, <2>1, <2>2
<1> HIDE DEF Change
<1>7. CASE Cancel
  <2>1. slot \in Ids
    BY <1>7 DEF Cancel, TypeOK
  <2>2. CASE SlotLive
    <3> DEFINE v == [jobs[slot] EXCEPT !.cancel = TRUE]
    <3>1. Right(v)
      BY <1>0, <1>1, <2>1 DEF Jobs
    <3>2. Change(slot, v)
      BY <1>7, <2>2 DEF Cancel, Change
    <3> HIDE DEF v, Right
    <3> QED BY <1>3, <2>1, <3>1, <3>2
  <2> QED BY <1>5, <1>7, <2>2 DEF Cancel
<1>8. CASE Workers
  <2>1. PICK j \in Ids : Run(j) \/ Finish(j) \/ FileJob(j) \/ PublishDone(j)
    BY <1>8 DEF Workers, Ids
  <2>2. CASE Run(j)
    <3> DEFINE v == [jobs[j] EXCEPT !.status = "running"]
    <3>1. Right(v)
      BY <1>0, <1>1, <2>2 DEF Jobs, Run, Slotted, LiveStatuses
    <3>2. Change(j, v)
      BY <2>2 DEF Run, Work, Change
    <3> HIDE DEF v, Right
    <3> QED BY <1>3, <3>1, <3>2
  <2>3. CASE Finish(j)
    <3>1. PICK s \in TerminalStatuses : Work(j, [jobs[j] EXCEPT !.status = s, !.at = "file"])
      BY <2>3 DEF Finish, TerminalStatuses
    <3> DEFINE v == [jobs[j] EXCEPT !.status = s, !.at = "file"]
    <3>2. /\ v.kind = jobs[j].kind /\ v.status = s /\ v.at = "file" /\ v.done = jobs[j].done
          /\ s \notin LiveStatuses
      BY <1>0 DEF Jobs, LiveStatuses, TerminalStatuses
    <3>3. jobs[j].kind \in SlotKinds /\ jobs[j].at = "work"
      BY <1>1, <2>3 DEF Finish, Slotted, LiveStatuses
    <3>4. Right(v)
      <4> HIDE DEF v
      <4> QED BY <1>1, <3>2, <3>3
    <3>5. Change(j, v)
      BY <3>1 DEF Work, Change
    <3> HIDE DEF v, Right
    <3> QED BY <1>3, <3>4, <3>5
  <2>4. CASE FileJob(j)
    <3> DEFINE v == [jobs[j] EXCEPT !.at = "publish"]
    <3>1. Right(v)
      BY <1>0, <1>1, <2>4 DEF Jobs, FileJob
    <3>2. Change(j, v)
      BY <2>4 DEF FileJob, Work, Change
    <3> HIDE DEF v, Right
    <3> QED BY <1>3, <3>1, <3>2
  <2>5. CASE PublishDone(j)
    <3> DEFINE v == [jobs[j] EXCEPT !.at = "over", !.done = @ + 1]
    <3>1. /\ v.kind = jobs[j].kind /\ v.status = jobs[j].status /\ v.at = "over"
          /\ v.done = jobs[j].done + 1
      BY <1>0 DEF Jobs
    <3>2. Right(v)
      <4>1. jobs[j].at = "publish"
        BY <2>5 DEF PublishDone
      <4> HIDE DEF v
      <4> QED BY <1>1, <3>1, <4>1
    <3>3. Change(j, v)
      BY <2>5 DEF PublishDone, Work, Change
    <3> HIDE DEF v, Right
    <3> QED BY <1>3, <3>2, <3>3
  <2> QED BY <2>1, <2>2, <2>3, <2>4, <2>5
<1>9. ASSUME NEW c \in Callers, Spawning(c) PROVE WorkerTells'
  <2>1. CASE TakeSlot(c) /\ ~UNCHANGED jobs
    <3>1. jobs' = Append(jobs, NewJob(caller[c].kind)) /\ caller[c].kind \in SlotKinds
      BY <2>1, CallerHolds DEF TakeSlot, Refused, To
    <3>2. Right(NewJob(caller[c].kind))
      BY <3>1 DEF NewJob
    <3> HIDE DEF Right
    <3> QED BY <1>4, <3>1, <3>2
  <2> QED BY <1>5, <1>9, <2>1 DEF Spawning, Look, Waited, StillUpdating, CheckSlot, Refused,
                                  Validate, Busy, To
<1>10. ASSUME NEW w \in Wraps, NEW t \in Threads, Reporting(w, t) PROVE WorkerTells'
  <2> DEFINE first == Head(thread[w][t].todo)
             old == thread[w][t].old
  <2>1. CASE Adopt(w, t) /\ claims[w] = None
    <3>1. jobs' = Append(jobs, AgentJob(w)) /\ Right(AgentJob(w))
      BY <2>1, WrapsAssumption DEF Adopt, AgentJob
    <3> HIDE DEF Right
    <3> QED BY <1>4, <3>1
  <2>2. CASE EndEvicted(w, t)
    <3> DEFINE v == [Settled(old, "cancelled") EXCEPT !.done = @ + 1]
    <3>1. old \in AgentIds
      BY <2>2, ThreadHolds DEF EndEvicted
    <3>2. v \in Jobs /\ v.kind = jobs[old].kind /\ v.at = jobs[old].at
      <4>1. /\ Settled(old, "cancelled") \in Jobs
            /\ Settled(old, "cancelled").kind = jobs[old].kind
            /\ Settled(old, "cancelled").at = jobs[old].at
        BY <3>1, SettledTyped DEF TerminalStatuses
      <4> QED BY <4>1 DEF Jobs
    <3>3. Change(old, v)
      BY <2>2 DEF EndEvicted, Change
    <3> HIDE DEF v, old
    <3> QED BY <1>6, <3>1, <3>2, <3>3
  <2>3. CASE Settle(w, t)
    <3> DEFINE v == Settled(first.job, first.status)
    <3>1. first.job \in AgentIds /\ first.status \in TerminalStatuses
      BY <2>3, ThreadHolds DEF Settle
    <3>2. v \in Jobs /\ v.kind = jobs[first.job].kind /\ v.at = jobs[first.job].at
      BY <3>1, SettledTyped
    <3>3. Change(first.job, v)
      BY <2>3 DEF Settle, Change
    <3> HIDE DEF v, first
    <3> QED BY <1>6, <3>1, <3>2, <3>3
  <2>4. CASE PublishAgentDone(w, t)
    <3> DEFINE v == [jobs[first.job] EXCEPT !.done = @ + 1]
    <3>1. first.job \in AgentIds /\ jobs[first.job] \in Jobs
      BY <1>0, <2>4, ThreadHolds DEF PublishAgentDone, AgentIds
    <3>2. v \in Jobs /\ v.kind = jobs[first.job].kind /\ v.at = jobs[first.job].at
      <4> HIDE DEF first
      <4> QED BY <3>1 DEF Jobs
    <3>3. Change(first.job, v)
      BY <2>4 DEF PublishAgentDone, Change
    <3> HIDE DEF v, first
    <3> QED BY <1>6, <3>1, <3>2, <3>3
  <2>5. CASE UNCHANGED jobs
    BY <1>5, <2>5
  <2> QED BY <1>10, <2>1, <2>2, <2>3, <2>4, <2>5 DEF Reporting, Ensure, Adopt, Keep, Forget
<1> QED BY <1>5, <1>7, <1>8, <1>9, <1>10 DEF Next, vars, Asks, Ask, To, Open, Close

-----------------------------------------------------------------------------
(* A step of one thread leaves the others where they are.                  *)
LEMMA Moved ==
  ASSUME TypeOK, NEW w \in Wraps, NEW t \in Threads, NEW r, Go(w, t, r)
  PROVE  \A v \in Wraps, s \in Threads :
           thread'[v][s] = IF v = w /\ s = t THEN r ELSE thread[v][s]
BY DEF TypeOK, Go

LEMMA Stayed ==
  ASSUME TypeOK, NEW w \in Wraps, NEW t \in Threads, UNCHANGED thread
  PROVE  Go(w, t, thread[w][t])
BY DEF TypeOK, Go

(* Every job a thread, a wrap or a claim names is an agent job.            *)
LEMMA Named ==
  ASSUME TypeOK, NEW w \in Wraps, NEW t \in Threads
  PROVE  /\ wrap[w].job # None => wrap[w].job \in AgentIds
         /\ claims[w] # None => claims[w] \in AgentIds /\ claims[w] \in agents
         /\ thread[w][t].at \in {"keep", "evict"} => thread[w][t].job \in AgentIds
         /\ thread[w][t].at \in {"settle", "forget", "publish"} =>
              /\ thread[w][t].todo \in Seq([job : AgentIds, status : TerminalStatuses])
              /\ thread[w][t].todo # << >>
              /\ \A i \in DOMAIN thread[w][t].todo : thread[w][t].todo[i].job \in AgentIds
              /\ Head(thread[w][t].todo) = thread[w][t].todo[1]
              /\ 1 \in DOMAIN thread[w][t].todo
         /\ \A j : Tells(thread[w][t], j) => j \in AgentIds
<1> DEFINE C == [job : AgentIds, status : TerminalStatuses]
           r == thread[w][t]
<1>1. wrap[w].job # None => wrap[w].job \in AgentIds
  BY DEF TypeOK
<1>2. claims[w] # None => claims[w] \in AgentIds /\ claims[w] \in agents
  BY DEF TypeOK
<1>3. r.at \in {"keep", "evict"} => r.job \in AgentIds /\ (r.at = "evict" => r.old \in AgentIds)
  BY ThreadHolds DEF At
<1>4. r.at \in {"settle", "forget", "publish"} => r.todo \in Seq(C) /\ r.todo # << >>
  <2>1. \A a \in {"settle", "forget", "publish"} : r.at = a =>
          r \in [at : {"settle", "forget", "publish"}, todo : Seq(C) \ {<< >>}]
    BY ThreadHolds DEF At
  <2> QED BY <2>1
<1>5. \A todo \in Seq(C) : todo # << >> =>
        /\ Head(todo) = todo[1] /\ 1 \in DOMAIN todo
        /\ \A i \in DOMAIN todo : todo[i] \in C
  <2> HIDE DEF C
  <2> QED OBVIOUS
<1>6. \A c \in C : c.job \in AgentIds
  OBVIOUS
<1> HIDE DEF C, r
<1>7. r.at \in {"settle", "forget", "publish"} =>
        /\ r.todo \in Seq(C) /\ r.todo # << >>
        /\ \A i \in DOMAIN r.todo : r.todo[i].job \in AgentIds
        /\ Head(r.todo) = r.todo[1] /\ 1 \in DOMAIN r.todo
  BY <1>4, <1>5, <1>6
<1>8. \A j : Tells(r, j) => j \in AgentIds
  BY <1>3, <1>7 DEF Tells
<1> QED BY <1>1, <1>2, <1>3, <1>7, <1>8 DEF r, C

(* A job of a tool stays one.                                              *)
LEMMA OwnGrows ==
  ASSUME JobsGrow, NEW w
  PROVE  /\ \A j : Own(w, j) => Own(w, j)'
         /\ \A r : OwnThread(w, r) => OwnThread(w, r)'
<1>1. \A j : Own(w, j) => Own(w, j)'
  BY DEF Own, JobsGrow
<1> QED BY <1>1 DEF OwnThread

(* What a thread that completes todo holds.                                *)
LEMMA CompletingHolds ==
  ASSUME NEW todo \in Seq([job : AgentIds, status : TerminalStatuses]), NEW j
  PROVE  /\ ~Tells(Completing(todo), j) /\ ~Leaves(Completing(todo), j)
         /\ (\E i \in DOMAIN todo : todo[i].job = j) => Due(Completing(todo), j)
         /\ Completing(todo).at \notin {"keep", "evict", "forget", "publish"}
         /\ Completing(todo).at = "settle" => Completing(todo).todo = todo
<1> DEFINE C == [job : AgentIds, status : TerminalStatuses]
<1>1. CASE todo = << >>
  BY <1>1 DEF Completing, Rest, Tells, Leaves, Due
<1>2. CASE todo # << >>
  <2>1. Completing(todo) = [at |-> "settle", todo |-> todo]
    BY <1>2 DEF Completing
  <2> QED BY <2>1 DEF Tells, Leaves, Due
<1> QED BY <1>1, <1>2

(* A step of callers, of workers or of cancel.                             *)
LEMMA OtherSide ==
  ASSUME TypeOK, OneTells, OwnJobs, SomeoneOwes, JobsGrow, UNCHANGED agentSide,
         AgentIds' = AgentIds, \A j \in AgentIds : jobs'[j] = jobs[j]
  PROVE  OneTells' /\ OwnJobs' /\ SomeoneOwes'
<1>1. UNCHANGED <<agents, claims, wrap, thread>>
  BY DEF agentSide
<1>2. \A j \in AgentIds : Live(j)' = Live(j) /\ jobs'[j].done = jobs[j].done
                          /\ \A w \in Wraps : Own(w, j)' <=> Own(w, j)
  BY DEF Live, Own, AgentIds, JobsGrow
<1>3. \A j : Announced(j)' = Announced(j) /\ \A w \in Wraps : Owed(w, j)' = Owed(w, j)
                                              /\ Forgets(w, j)' = Forgets(w, j)
  BY <1>1 DEF Announced, Owed, Forgets, KeepsIt, Tells, Due, Leaves
<1>4. OneTells'
  BY <1>1, <1>2, <1>3 DEF OneTells
<1>5. OwnJobs'
  <2>1. ASSUME NEW w \in Wraps, NEW t \in Threads PROVE OwnThread(w, thread[w][t])'
    <3>1. OwnThread(w, thread[w][t])
      BY DEF OwnJobs
    <3> QED BY <1>1, <1>2, <3>1, Named DEF OwnThread
  <2>2. "tool" \in Threads
    BY DEF Threads
  <2> QED BY <1>1, <1>2, <2>1, <2>2, Named DEF OwnJobs, At
<1>6. SomeoneOwes'
  BY <1>1, <1>2, <1>3, Named DEF SomeoneOwes
<1> QED BY <1>4, <1>5, <1>6

-----------------------------------------------------------------------------
(* A step of thread t of tool w, which then is in state r.  A job is left  *)
(* as it was, or taken out of the catalog by the thread that will announce *)
(* it, or announced by the thread that took it out.                        *)
LEMMA OneTellsMove ==
  ASSUME TypeOK, OneTells, JobsGrow, NEW w \in Wraps, NEW t \in Threads, NEW r, Go(w, t, r),
         \A j \in AgentIds' \ AgentIds :
           jobs'[j].done = 0 /\ j \in agents' /\ ~Tells(r, j),
         \A j \in AgentIds :
           \/ /\ jobs'[j].done = jobs[j].done /\ (j \in agents' <=> j \in agents)
              /\ Tells(r, j) <=> Tells(thread[w][t], j)
           \/ /\ jobs'[j].done = jobs[j].done /\ j \in agents /\ j \notin agents'
              /\ Tells(r, j)
           \/ /\ jobs'[j].done = 1 /\ jobs'[j].status \notin LiveStatuses
              /\ (j \in agents' => j \in agents)
              /\ Tells(thread[w][t], j) /\ ~Tells(r, j)
  PROVE  OneTells'
<1> DEFINE After(v, s, j) == Tells(IF v = w /\ s = t THEN r ELSE thread[v][s], j)
<1>1. \A j : Announced(j)' <=> \E v \in Wraps, s \in Threads : After(v, s, j)
  BY Moved DEF Announced
<1>2. SUFFICES ASSUME NEW j \in AgentIds'
      PROVE  /\ jobs'[j].done \in {0, 1}
             /\ jobs'[j].done = 1 => jobs'[j].status \notin LiveStatuses
             /\ j \in agents' => jobs'[j].done = 0
             /\ \A v \in Wraps, s \in Threads :
                  After(v, s, j) => jobs'[j].done = 0 /\ j \notin agents'
             /\ \A v, u \in Wraps, s, q \in Threads :
                  After(v, s, j) /\ After(u, q, j) => v = u /\ s = q
             /\ \/ j \in agents' \/ jobs'[j].done = 1
                \/ \E v \in Wraps, s \in Threads : After(v, s, j)
  <2>1. \A v \in Wraps, s \in Threads, j \in AgentIds' :
          Tells(thread'[v][s], j) <=> After(v, s, j)
    BY Moved
  <2> HIDE DEF After
  <2> QED BY <1>1, <1>2, <2>1 DEF OneTells, Live
<1>3. CASE j \notin AgentIds
  <2>1. \A v \in Wraps, s \in Threads : ~Tells(thread[v][s], j)
    BY <1>3, Named
  <2> QED BY <1>2, <1>3, <2>1
<1>4. CASE j \in AgentIds
  <2>1. /\ jobs[j].done \in {0, 1} /\ (jobs[j].done = 1 => jobs[j].status \notin LiveStatuses)
        /\ j \in agents => jobs[j].done = 0
        /\ \A v \in Wraps, s \in Threads :
             Tells(thread[v][s], j) => jobs[j].done = 0 /\ j \notin agents
        /\ \A v, u \in Wraps, s, q \in Threads :
             Tells(thread[v][s], j) /\ Tells(thread[u][q], j) => v = u /\ s = q
        /\ \/ j \in agents \/ jobs[j].done = 1
           \/ \E v \in Wraps, s \in Threads : Tells(thread[v][s], j)
    BY <1>4 DEF OneTells, Announced, Live
  <2>2. jobs'[j].status \in LiveStatuses => jobs[j].status \in LiveStatuses
    BY <1>4 DEF JobsGrow, AgentIds
  <2>3. CASE /\ jobs'[j].done = jobs[j].done /\ (j \in agents' <=> j \in agents)
             /\ Tells(r, j) <=> Tells(thread[w][t], j)
    <3>1. \A v \in Wraps, s \in Threads : After(v, s, j) <=> Tells(thread[v][s], j)
      BY <2>3
    <3> HIDE DEF After
    <3> QED BY <2>1, <2>2, <2>3, <3>1
  <2>4. CASE /\ jobs'[j].done = jobs[j].done /\ j \in agents /\ j \notin agents'
             /\ Tells(r, j)
    <3>1. \A v \in Wraps, s \in Threads : After(v, s, j) <=> v = w /\ s = t
      BY <2>1, <2>4
    <3> HIDE DEF After
    <3> QED BY <2>1, <2>2, <2>4, <3>1
  <2>5. CASE /\ jobs'[j].done = 1 /\ jobs'[j].status \notin LiveStatuses
             /\ (j \in agents' => j \in agents)
             /\ Tells(thread[w][t], j) /\ ~Tells(r, j)
    <3>1. \A v \in Wraps, s \in Threads : ~After(v, s, j)
      BY <2>1, <2>5
    <3>2. j \notin agents
      BY <2>1, <2>5
    <3> HIDE DEF After
    <3> QED BY <2>1, <2>5, <3>1, <3>2
  <2> QED BY <1>4, <2>3, <2>4, <2>5
<1> QED BY <1>3, <1>4

(* The thread, the wrap and the claim go on naming jobs of the tool.       *)
LEMMA OwnMove ==
  ASSUME TypeOK, OwnJobs, JobsGrow, NEW w \in Wraps, NEW t \in Threads, NEW r, Go(w, t, r),
         \A v \in Wraps : v # w => /\ UNCHANGED wrap[v]
                                   /\ claims'[v] \in {None, claims[v]},
         (claims[w] # None => Own(w, claims[w]))',
         (wrap[w].job # None => Own(w, wrap[w].job))',
         wrap'[w].stage # "new" \/ UNCHANGED <<wrap[w], thread>>,
         OwnThread(w, r)'
  PROVE  OwnJobs'
<1>1. \A v : /\ \A j : Own(v, j) => Own(v, j)'
            /\ \A q : OwnThread(v, q) => OwnThread(v, q)'
  BY OwnGrows
<1>2. ASSUME NEW v \in Wraps, NEW s \in Threads PROVE OwnThread(v, thread[v][s])'
  <2>1. CASE v = w /\ s = t
    BY <2>1, Moved DEF OwnThread
  <2>2. CASE ~(v = w /\ s = t)
    <3>1. thread'[v][s] = thread[v][s] /\ OwnThread(v, thread[v][s])
      BY <2>2, Moved DEF OwnJobs
    <3> QED BY <1>1, <3>1 DEF OwnThread
  <2> QED BY <2>1, <2>2
<1>3. "tool" \in Threads
  BY DEF Threads
<1>4. ASSUME NEW v \in Wraps
      PROVE  /\ (claims[v] # None => Own(v, claims[v]))'
             /\ (wrap[v].job # None => Own(v, wrap[v].job))'
  <2>1. CASE v = w
    BY <2>1
  <2>2. CASE v # w
    <3>1. /\ wrap'[v] = wrap[v] /\ claims'[v] \in {None, claims[v]}
          /\ claims[v] # None => claims[v] \in AgentIds /\ Own(v, claims[v])
          /\ wrap[v].job # None => wrap[v].job \in AgentIds /\ Own(v, wrap[v].job)
      BY <1>3, <2>2, Named DEF OwnJobs
    <3> QED BY <1>1, <3>1 DEF Own
  <2> QED BY <2>1, <2>2
<1>5. ASSUME NEW v \in Wraps, wrap'[v].stage = "new"
      PROVE  (wrap[v].job = None /\ ~wrap[v].timer /\ \A s \in Threads : At(v, s, "rest"))'
  <2>1. wrap'[v] = wrap[v] /\ \A s \in Threads : thread'[v][s] = thread[v][s]
    BY <1>5, Moved
  <2> QED BY <1>5, <2>1 DEF OwnJobs, At
<1> QED BY <1>2, <1>4, <1>5 DEF OwnJobs

(* What thread or wrap of the tool was to settle, or to take out of the    *)
(* catalog, it still is, or has done; a job it makes it is to settle.      *)
LEMMA OwesMove ==
  ASSUME TypeOK, SomeoneOwes, JobsGrow, NEW w \in Wraps, NEW t \in Threads, NEW r, Go(w, t, r),
         \A v \in Wraps : v # w => UNCHANGED wrap[v],
         \A j \in AgentIds' \ AgentIds : Own(w, j)' /\ Due(r, j),
         agents' \cap AgentIds \subseteq agents,
         \A j \in AgentIds : Own(w, j) =>
           /\ KeepsIt(w, j) \/ Due(thread[w][t], j) =>
                \/ KeepsIt(w, j)' \/ Due(r, j)
                \/ jobs'[j].status \notin LiveStatuses /\ (j \in agents' => Leaves(r, j))
           /\ Leaves(thread[w][t], j) => j \notin agents' \/ Leaves(r, j),
         r.at \in {"forget", "publish"} =>
           jobs'[Head(r.todo).job].status \notin LiveStatuses
  PROVE  SomeoneOwes'
<1>1. \A v \in Wraps, s \in Threads :
        thread'[v][s] = IF v = w /\ s = t THEN r ELSE thread[v][s]
  BY Moved
<1>2. \A j \in AgentIds : /\ \A v \in Wraps : Own(v, j)' <=> Own(v, j)
                          /\ Live(j)' => Live(j)
  BY DEF Own, Live, JobsGrow, AgentIds
<1>3. ASSUME NEW v \in Wraps, NEW s \in Threads, thread'[v][s].at \in {"forget", "publish"}
      PROVE  ~Live(Head(thread[v][s].todo).job)'
  <2>1. CASE v = w /\ s = t
    BY <1>1, <1>3, <2>1 DEF Live
  <2>2. CASE ~(v = w /\ s = t)
    <3>1. thread'[v][s] = thread[v][s] /\ ~Live(Head(thread[v][s].todo).job)
      BY <1>1, <1>3, <2>2 DEF SomeoneOwes
    <3>2. Head(thread[v][s].todo).job \in AgentIds
      BY <1>3, <3>1, Named
    <3> DEFINE j == Head(thread[v][s].todo).job
    <3>3. Live(Head(thread[v][s].todo).job)' <=> jobs'[j].status \in LiveStatuses
      BY <3>1 DEF Live
    <3>4. jobs'[j].status \in LiveStatuses => jobs[j].status \in LiveStatuses
      BY <3>2 DEF JobsGrow, AgentIds
    <3> QED BY <3>1, <3>3, <3>4 DEF Live
  <2> QED BY <2>1, <2>2
<1>4. ASSUME NEW v \in Wraps, NEW j \in AgentIds', Own(v, j)'
      PROVE  /\ Live(j)' => Owed(v, j)'
             /\ j \in agents' => Owed(v, j)' \/ Forgets(v, j)'
  <2>a. /\ Owed(v, j)' <=> KeepsIt(v, j)' \/ \E s \in Threads : Due(thread'[v][s], j)
        /\ Forgets(v, j)' <=> \E s \in Threads : Leaves(thread'[v][s], j)
    BY DEF Owed, Forgets
  <2>1. CASE j \notin AgentIds
    <3>1. v = w /\ Due(r, j)
      BY <1>4, <2>1 DEF Own
    <3> QED BY <1>1, <2>a, <3>1
  <2>2. CASE j \in AgentIds
    <3>0. /\ Own(v, j) /\ (Live(j) => Owed(v, j))
          /\ j \in agents => Owed(v, j) \/ Forgets(v, j)
      BY <1>2, <1>4, <2>2 DEF SomeoneOwes
    <3>1. CASE v # w
      <4>1. KeepsIt(v, j)' = KeepsIt(v, j) /\ \A s \in Threads : thread'[v][s] = thread[v][s]
        BY <1>1, <3>1 DEF KeepsIt
      <4> QED BY <1>2, <2>2, <2>a, <3>0, <4>1 DEF Owed, Forgets
    <3>2. CASE v = w
      <4>1. \A s \in Threads : s # t => thread'[w][s] = thread[w][s]
        BY <1>1
      <4>2. thread'[w][t] = r
        BY <1>1
      <4>3. Live(j)' <=> jobs'[j].status \in LiveStatuses
        BY DEF Live
      <4>4. j \in agents' => j \in agents
        BY <2>2
      <4> QED BY <1>2, <2>2, <2>a, <3>0, <3>2, <4>1, <4>2, <4>3, <4>4 DEF Owed, Forgets
    <3> QED BY <3>1, <3>2
  <2> QED BY <2>1, <2>2
<1> QED BY <1>3, <1>4 DEF SomeoneOwes

-----------------------------------------------------------------------------
(* A step that leaves the jobs and the catalog alone.                      *)
LEMMA QuietMove ==
  ASSUME TypeOK, OneTells, OwnJobs, SomeoneOwes,
         NEW w \in Wraps, NEW t \in Threads, NEW r, Go(w, t, r),
         UNCHANGED <<jobs, agents, claims>>, \A v \in Wraps : v # w => UNCHANGED wrap[v],
         \/ r = thread[w][t]
         \/ /\ r.at \notin {"forget", "publish"}
            /\ \A j : ~Tells(r, j) /\ ~Tells(thread[w][t], j),
         \A j : wrap'[w].job = j /\ j # None => Own(w, j),
         wrap'[w].stage # "new" \/ UNCHANGED <<wrap[w], thread>>,
         OwnThread(w, r),
         \A j \in AgentIds : Own(w, j) =>
           /\ KeepsIt(w, j) \/ Due(thread[w][t], j) => KeepsIt(w, j)' \/ Due(r, j)
           /\ Leaves(thread[w][t], j) => j \notin agents \/ Leaves(r, j)
  PROVE  OneTells' /\ OwnJobs' /\ SomeoneOwes'
<1>1. JobsGrow /\ AgentIds' = AgentIds
  BY KeptJobs DEF AgentIds, Ids, Slotted
<1>2. OneTells'
  <2>1. \A j \in AgentIds : /\ jobs'[j].done = jobs[j].done /\ (j \in agents' <=> j \in agents)
                            /\ Tells(r, j) <=> Tells(thread[w][t], j)
    OBVIOUS
  <2> QED BY <1>1, <2>1, OneTellsMove
<1>3. OwnJobs'
  <2>1. OwnThread(w, r)'
    BY <1>1, OwnGrows
  <2>2. (claims[w] # None => Own(w, claims[w]))'
    BY DEF OwnJobs, Own, Ids
  <2>3. (wrap[w].job # None => Own(w, wrap[w].job))'
    BY DEF Own, Ids
  <2>4. \A v \in Wraps : v # w => UNCHANGED wrap[v] /\ claims'[v] \in {None, claims[v]}
    OBVIOUS
  <2> QED BY <1>1, <2>1, <2>2, <2>3, <2>4, OwnMove
<1>4. SomeoneOwes'
  <2>1. r.at \in {"forget", "publish"} => jobs'[Head(r.todo).job].status \notin LiveStatuses
    BY DEF SomeoneOwes, Live
  <2> QED BY <1>1, <2>1, OwesMove
<1> QED BY <1>2, <1>3, <1>4

(* The fields of a wrap, and a thread at rest or about to adopt.           *)
LEMMA WrapFields ==
  ASSUME TypeOK, NEW w \in Wraps
  PROVE  wrap[w] \in [stage : {"new", "open", "closed"}, job : AgentIds \cup {None},
                     how : TerminalStatuses, timer : BOOLEAN]
BY DEF TypeOK

LEMMA Resting ==
  ASSUME NEW w, NEW r, r.at \in {"rest", "adopt"}
  PROVE  OwnThread(w, r) /\ \A j : ~Tells(r, j) /\ ~Due(r, j) /\ ~Leaves(r, j)
BY DEF OwnThread, Tells, Due, Leaves

LEMMA NoneNoAgent ==
  ASSUME TypeOK
  PROVE  None \notin AgentIds
BY DEF TypeOK, AgentIds, Ids, None

LEMMA OpenEnds ==
  ASSUME TypeOK, OneTells, OwnJobs, SomeoneOwes, NEW w \in Wraps, Open(w)
  PROVE  OneTells' /\ OwnJobs' /\ SomeoneOwes'
<1> DEFINE t == "tool"
           r == thread[w][t]
<1>1. t \in Threads
  BY DEF Threads
<1>2. /\ wrap'[w].job = wrap[w].job /\ wrap'[w].stage = "open" /\ wrap[w].stage = "new"
      /\ \A v \in Wraps : v # w => UNCHANGED wrap[v]
  BY WrapFields DEF Open, TypeOK
<1>3. UNCHANGED <<jobs, agents, claims, thread>> /\ Go(w, t, r)
  BY <1>1, Stayed DEF Open
<1>4. OwnThread(w, r) /\ (wrap[w].job # None => Own(w, wrap[w].job))
  BY <1>1 DEF OwnJobs
<1>5. \A j \in AgentIds :
        /\ KeepsIt(w, j) \/ Due(thread[w][t], j) => KeepsIt(w, j)' \/ Due(r, j)
        /\ Leaves(thread[w][t], j) => j \notin agents \/ Leaves(r, j)
  BY <1>2 DEF KeepsIt
<1> HIDE DEF r, t
<1> QED BY <1>1, <1>2, <1>3, <1>4, <1>5, QuietMove DEF r

LEMMA EnsureEnds ==
  ASSUME TypeOK, OneTells, OwnJobs, SomeoneOwes, NEW w \in Wraps, NEW t \in Threads,
         Ensure(w, t)
  PROVE  OneTells' /\ OwnJobs' /\ SomeoneOwes'
<1>1. /\ wrap'[w].job = wrap[w].job /\ wrap'[w].stage = wrap[w].stage
      /\ \A v \in Wraps : v # w => UNCHANGED wrap[v]
  BY WrapFields DEF Ensure, TypeOK
<1>2. UNCHANGED <<jobs, agents, claims>> /\ thread[w][t].at = "rest"
  BY DEF Ensure, At
<1>3. wrap[w].stage # "new"
  BY DEF Ensure, OwnJobs
<1>4. wrap[w].job # None => Own(w, wrap[w].job)
  BY DEF OwnJobs
<1>5. \A j : KeepsIt(w, j)' = KeepsIt(w, j)
  BY <1>1 DEF KeepsIt
<1>6. ASSUME NEW r, Go(w, t, r), r.at \in {"rest", "adopt"}
      PROVE  OneTells' /\ OwnJobs' /\ SomeoneOwes'
  <2>1. OwnThread(w, r) /\ \A j : ~Tells(r, j) /\ ~Due(r, j) /\ ~Leaves(r, j)
    BY <1>6, Resting
  <2>2. \A j : ~Tells(thread[w][t], j) /\ ~Due(thread[w][t], j) /\ ~Leaves(thread[w][t], j)
    BY <1>2, Resting
  <2>3. r.at \notin {"forget", "publish"}
    BY <1>6
  <2>4. /\ \A j : wrap'[w].job = j /\ j # None => Own(w, j)
        /\ wrap'[w].stage # "new"
    BY <1>1, <1>3, <1>4
  <2> QED BY <1>1, <1>2, <1>5, <1>6, <2>1, <2>2, <2>3, <2>4, QuietMove
<1>7. Go(w, t, [at |-> "adopt"]) \/ Go(w, t, thread[w][t])
  BY Stayed DEF Ensure
<1> QED BY <1>2, <1>6, <1>7

(* The completions a thread goes on with are of jobs of its own tool.      *)
LEMMA OwnCompleting ==
  ASSUME NEW w, NEW todo \in Seq([job : AgentIds, status : TerminalStatuses]),
         \A i \in DOMAIN todo : Own(w, todo[i].job)
  PROVE  OwnThread(w, Completing(todo))
<1>1. CASE todo = << >>
  BY <1>1 DEF Completing, Rest, OwnThread
<1>2. CASE todo # << >>
  <2>1. Completing(todo) = [at |-> "settle", todo |-> todo]
    BY <1>2 DEF Completing
  <2> QED BY <2>1 DEF OwnThread
<1> QED BY <1>1, <1>2

(* The completions of Keep: of the job that is dropped, and of the job that *)
(* is kept when the wrap has closed.                                       *)
Ending(mine, kept, stage, how) ==
  (IF kept = mine THEN << >> ELSE Completion(mine, "cancelled"))
  \o (IF stage = "closed" THEN Completion(kept, how) ELSE << >>)

EndsBoth(todo, mine, kept, stage) ==
  /\ todo \in Seq([job : AgentIds, status : TerminalStatuses])
  /\ \A i \in DOMAIN todo : todo[i].job \in {mine, kept}
  /\ kept # mine => \E i \in DOMAIN todo : todo[i].job = mine
  /\ stage = "closed" => \E i \in DOMAIN todo : todo[i].job = kept

LEMMA OneCompletion ==
  ASSUME NEW j \in AgentIds, NEW how \in TerminalStatuses
  PROVE  /\ Completion(j, how) \in Seq([job : AgentIds, status : TerminalStatuses])
         /\ DOMAIN Completion(j, how) = {1} /\ Completion(j, how)[1].job = j
<1> DEFINE a == [job |-> j, status |-> how]
<1>1. a \in [job : AgentIds, status : TerminalStatuses] /\ a.job = j
  OBVIOUS
<1>2. Completion(j, how) = <<a>>
  BY DEF Completion
<1> HIDE DEF a
<1> QED BY <1>1, <1>2

LEMMA KeepTodo ==
  ASSUME NEW mine \in AgentIds, NEW kept \in AgentIds, NEW how \in TerminalStatuses,
         NEW stage
  PROVE  EndsBoth(Ending(mine, kept, stage, how), mine, kept, stage)
<1> DEFINE C == [job : AgentIds, status : TerminalStatuses]
           p == IF kept = mine THEN << >> ELSE Completion(mine, "cancelled")
           q == IF stage = "closed" THEN Completion(kept, how) ELSE << >>
<1>1. /\ p \in Seq(C) /\ (\A k \in DOMAIN p : p[k].job = mine)
      /\ kept # mine => 1 \in DOMAIN p
  <2>1. "cancelled" \in TerminalStatuses
    BY DEF TerminalStatuses
  <2>2. << >> \in Seq(C) /\ DOMAIN << >> = {}
    OBVIOUS
  <2> HIDE DEF C
  <2> QED BY <2>1, <2>2, OneCompletion DEF C
<1>2. /\ q \in Seq(C) /\ (\A k \in DOMAIN q : q[k].job = kept)
      /\ stage = "closed" => 1 \in DOMAIN q
  <2>2. << >> \in Seq(C) /\ DOMAIN << >> = {}
    OBVIOUS
  <2> HIDE DEF C
  <2> QED BY <2>2, OneCompletion DEF C
<1> DEFINE z == Ending(mine, kept, stage, how)
<1>3. z = p \o q
  BY DEF Ending
<1> HIDE DEF p, q, z, C
<1>4. /\ z \in Seq(C) /\ DOMAIN z = 1..(Len(p) + Len(q))
      /\ DOMAIN p = 1..Len(p) /\ DOMAIN q = 1..Len(q) /\ Len(p) \in Nat /\ Len(q) \in Nat
      /\ \A i \in 1..(Len(p) + Len(q)) : z[i] = IF i <= Len(p) THEN p[i] ELSE q[i - Len(p)]
  BY <1>1, <1>2, <1>3
<1>5. ASSUME NEW i \in DOMAIN z PROVE z[i].job \in {mine, kept}
  <2>1. CASE i <= Len(p)
    BY <1>1, <1>4, <2>1
  <2>2. CASE ~(i <= Len(p))
    <3>1. i - Len(p) \in DOMAIN q /\ z[i] = q[i - Len(p)]
      BY <1>4, <2>2
    <3> QED BY <1>2, <3>1
  <2> QED BY <2>1, <2>2
<1>6. ASSUME kept # mine PROVE \E i \in DOMAIN z : z[i].job = mine
  <2>1. 1 \in DOMAIN z /\ z[1] = p[1] /\ p[1].job = mine
    BY <1>1, <1>4, <1>6
  <2> QED BY <2>1
<1>7. ASSUME stage = "closed" PROVE \E i \in DOMAIN z : z[i].job = kept
  <2>1. Len(p) + 1 \in DOMAIN z /\ z[Len(p) + 1] = q[1] /\ q[1].job = kept
    BY <1>2, <1>4, <1>7
  <2> QED BY <2>1
<1> QED BY <1>4, <1>5, <1>6, <1>7 DEF C, z, EndsBoth

LEMMA KeepEnds ==
  ASSUME TypeOK, OneTells, OwnJobs, SomeoneOwes, NEW w \in Wraps, NEW t \in Threads,
         Keep(w, t)
  PROVE  OneTells' /\ OwnJobs' /\ SomeoneOwes'
<1> DEFINE mine == thread[w][t].job
           kept == IF wrap[w].job = None THEN mine ELSE wrap[w].job
           todo == Ending(mine, kept, wrap[w].stage, wrap[w].how)
           r == Completing(todo)
<1>1. /\ thread[w][t].at = "keep" /\ Go(w, t, r) /\ UNCHANGED <<jobs, agents, claims>>
      /\ wrap' = [wrap EXCEPT ![w].job = kept]
  BY DEF Keep, At, Ending
<1>2. /\ wrap'[w].job = kept /\ wrap'[w].stage = wrap[w].stage
      /\ \A v \in Wraps : v # w => UNCHANGED wrap[v]
  <2> HIDE DEF kept
  <2> QED BY <1>1, WrapFields DEF TypeOK
<1>3. wrap[w].stage \in {"open", "closed"} /\ wrap[w].how \in TerminalStatuses
  BY <1>1, WrapFields DEF OwnJobs, At
<1>4. mine \in AgentIds /\ Own(w, mine) /\ kept \in AgentIds /\ Own(w, kept) /\ kept # None
  <2>1. OwnThread(w, thread[w][t])
    BY DEF OwnJobs
  <2>2. mine \in AgentIds /\ Own(w, mine)
    BY <1>1, <2>1, Named DEF OwnThread
  <2>3. wrap[w].job # None => wrap[w].job \in AgentIds /\ Own(w, wrap[w].job)
    BY Named DEF OwnJobs
  <2> QED BY <2>2, <2>3, NoneNoAgent
<1>5. /\ todo \in Seq([job : AgentIds, status : TerminalStatuses])
      /\ \A i \in DOMAIN todo : todo[i].job \in {mine, kept}
      /\ kept # mine => \E i \in DOMAIN todo : todo[i].job = mine
      /\ wrap[w].stage = "closed" => \E i \in DOMAIN todo : todo[i].job = kept
  <2> HIDE DEF mine, kept
  <2>1. EndsBoth(Ending(mine, kept, wrap[w].stage, wrap[w].how), mine, kept, wrap[w].stage)
    BY <1>3, <1>4, KeepTodo
  <2> QED BY <2>1 DEF EndsBoth
<1>6. wrap[w].job # None => wrap[w].job = kept
  OBVIOUS
<1> HIDE DEF mine, kept, todo
<1>7. OwnThread(w, r)
  BY <1>4, <1>5, OwnCompleting
<1>8. /\ \A j : ~Tells(r, j) /\ ~Leaves(r, j)
      /\ \A j : (\E i \in DOMAIN todo : todo[i].job = j) => Due(r, j)
      /\ r.at \notin {"forget", "publish"}
  BY <1>5, CompletingHolds
<1>9. \A j : ~Tells(thread[w][t], j) /\ ~Leaves(thread[w][t], j)
  BY <1>1 DEF Tells, Leaves
<1>10. \A j \in AgentIds :
         KeepsIt(w, j) \/ Due(thread[w][t], j) => KeepsIt(w, j)' \/ Due(r, j)
  <2> TAKE j \in AgentIds
  <2>1. wrap[w].stage = "open" /\ j = kept => KeepsIt(w, j)'
    BY <1>2 DEF KeepsIt
  <2>2. wrap[w].stage = "closed" => Due(r, kept)
    BY <1>5, <1>8
  <2>3. wrap[w].stage = "open" \/ wrap[w].stage = "closed"
    BY <1>3
  <2>4. KeepsIt(w, j) => j = kept
    BY <1>6, NoneNoAgent DEF KeepsIt
  <2>5. Due(thread[w][t], j) => j = mine
    BY <1>1 DEF Due, mine
  <2>6. mine # kept => Due(r, mine)
    BY <1>5, <1>8
  <2>7. j = kept => KeepsIt(w, j)' \/ Due(r, j)
    BY <2>1, <2>2, <2>3
  <2> QED BY <2>4, <2>5, <2>6, <2>7
<1>11. \A j : wrap'[w].job = j /\ j # None => Own(w, j)
  BY <1>2, <1>4
<1>12. wrap'[w].stage # "new"
  BY <1>2, <1>3
<1> HIDE DEF r
<1> QED BY <1>1, <1>2, <1>7, <1>8, <1>9, <1>10, <1>11, <1>12, QuietMove

LEMMA CloseEnds ==
  ASSUME TypeOK, OneTells, OwnJobs, SomeoneOwes, NEW w \in Wraps,
         NEW how \in TerminalStatuses, Close(w, how)
  PROVE  OneTells' /\ OwnJobs' /\ SomeoneOwes'
<1> DEFINE t == "tool"
           its == wrap[w].job
           todo == IF its = None THEN << >> ELSE Completion(its, how)
           r == Completing(todo)
<1>1. /\ t \in Threads /\ thread[w][t].at = "rest" /\ Go(w, t, r)
      /\ UNCHANGED <<jobs, agents, claims>>
  BY DEF Close, At, Threads
<1>2. /\ wrap'[w].job = its /\ wrap'[w].stage = "closed"
      /\ \A v \in Wraps : v # w => UNCHANGED wrap[v]
  BY WrapFields DEF Close, TypeOK
<1>3. its # None => its \in AgentIds /\ Own(w, its)
  BY <1>1, Named DEF OwnJobs
<1>4. /\ todo \in Seq([job : AgentIds, status : TerminalStatuses])
      /\ \A i \in DOMAIN todo : Own(w, todo[i].job)
      /\ its # None => \E i \in DOMAIN todo : todo[i].job = its
  <2>1. CASE its = None
    <3>1. todo = << >>
      BY <2>1
    <3> HIDE DEF todo
    <3> QED BY <2>1, <3>1
  <2>2. CASE its # None
    <3> DEFINE C == [job : AgentIds, status : TerminalStatuses]
               a == [job |-> its, status |-> how]
    <3>1. todo = <<a>> /\ a \in C /\ a.job = its
      BY <1>3, <2>2 DEF Completion
    <3> HIDE DEF todo, a, C, its
    <3>2. DOMAIN todo = 1..1 /\ todo[1] = a /\ todo \in Seq(C)
      BY <3>1
    <3> QED BY <1>3, <2>2, <3>1, <3>2 DEF C
  <2> QED BY <2>1, <2>2
<1>5. OwnThread(w, r)
  <2> HIDE DEF todo
  <2> QED BY <1>4, OwnCompleting
<1>6. /\ \A j : ~Tells(r, j) /\ ~Leaves(r, j)
      /\ \A j : (\E i \in DOMAIN todo : todo[i].job = j) => Due(r, j)
      /\ r.at \notin {"forget", "publish"}
  <2> HIDE DEF todo
  <2> QED BY <1>4, CompletingHolds
<1>7. \A j : ~Tells(thread[w][t], j) /\ ~Due(thread[w][t], j) /\ ~Leaves(thread[w][t], j)
  BY <1>1, Resting
<1> HIDE DEF todo, r
<1>8. \A j \in AgentIds :
        KeepsIt(w, j) \/ Due(thread[w][t], j) => KeepsIt(w, j)' \/ Due(r, j)
  BY <1>4, <1>6, <1>7, NoneNoAgent DEF KeepsIt
<1>9. \A j : wrap'[w].job = j /\ j # None => Own(w, j)
  BY <1>2, <1>3
<1> HIDE DEF t, its
<1> QED BY <1>1, <1>2, <1>5, <1>6, <1>7, <1>8, <1>9, QuietMove

(* A thread that is through with its first completion goes on to the rest. *)
LEMMA RestHolds ==
  ASSUME TypeOK, OwnJobs, NEW w \in Wraps, NEW t \in Threads,
         thread[w][t].at \in {"forget", "publish"}
  PROVE  LET r == Completing(Tail(thread[w][t].todo))
         IN  /\ OwnThread(w, r) /\ r.at \notin {"forget", "publish"}
             /\ \A j : /\ ~Tells(r, j) /\ ~Leaves(r, j)
                       /\ Due(thread[w][t], j) => Due(r, j)
<1> DEFINE C == [job : AgentIds, status : TerminalStatuses]
           todo == thread[w][t].todo
           rest == Tail(todo)
<1>1. todo \in Seq(C) /\ todo # << >>
  BY Named
<1>2. \A i \in DOMAIN todo : Own(w, todo[i].job)
  <2>1. OwnThread(w, thread[w][t])
    BY DEF OwnJobs
  <2> QED BY <2>1 DEF OwnThread
<1> HIDE DEF C, todo
<1>3. /\ rest \in Seq(C) /\ DOMAIN rest = 1..(Len(todo) - 1) /\ Len(todo) \in Nat
      /\ DOMAIN todo = 1..Len(todo) /\ \A k \in 1..(Len(todo) - 1) : rest[k] = todo[k + 1]
  BY <1>1
<1>4. \A k \in DOMAIN rest : Own(w, rest[k].job)
  BY <1>2, <1>3
<1>5. ASSUME NEW j, NEW i \in DOMAIN todo, i > 1, todo[i].job = j
      PROVE  \E k \in DOMAIN rest : rest[k].job = j
  <2>1. i - 1 \in DOMAIN rest /\ rest[i - 1] = todo[i]
    BY <1>3, <1>5
  <2> QED BY <1>5, <2>1
<1> HIDE DEF rest
<1>6. OwnThread(w, Completing(rest))
  BY <1>3, <1>4, OwnCompleting DEF C
<1>7. /\ Completing(rest).at \notin {"forget", "publish"}
      /\ \A j : /\ ~Tells(Completing(rest), j) /\ ~Leaves(Completing(rest), j)
                /\ (\E k \in DOMAIN rest : rest[k].job = j) => Due(Completing(rest), j)
  BY <1>3, CompletingHolds DEF C
<1>8. \A j : Due(thread[w][t], j) => Due(Completing(rest), j)
  BY <1>5, <1>7 DEF Due, todo
<1> QED BY <1>6, <1>7, <1>8 DEF rest, todo

LEMMA AdoptClaimedEnds ==
  ASSUME TypeOK, OneTells, OwnJobs, SomeoneOwes, NEW w \in Wraps, NEW t \in Threads,
         Adopt(w, t), claims[w] # None
  PROVE  OneTells' /\ OwnJobs' /\ SomeoneOwes'
<1> DEFINE r == [at |-> "keep", job |-> claims[w]]
<1>1. /\ thread[w][t].at = "adopt" /\ Go(w, t, r) /\ UNCHANGED <<jobs, agents, claims, wrap>>
  BY DEF Adopt, At
<1>2. \A j : ~Tells(thread[w][t], j) /\ ~Due(thread[w][t], j) /\ ~Leaves(thread[w][t], j)
  BY <1>1, Resting
<1>3. r.at \notin {"forget", "publish"} /\ \A j : ~Tells(r, j)
  BY DEF Tells
<1>4. OwnThread(w, r)
  BY DEF OwnThread, OwnJobs
<1>5. wrap[w].stage # "new" /\ (wrap[w].job # None => Own(w, wrap[w].job))
  BY <1>1 DEF OwnJobs, At
<1>6. \A j : KeepsIt(w, j)' = KeepsIt(w, j)
  BY <1>1 DEF KeepsIt
<1> HIDE DEF r
<1> QED BY <1>1, <1>2, <1>3, <1>4, <1>5, <1>6, QuietMove

(* A new job is its adopter's to settle; the one it evicts, the adopter is *)
(* about to announce.                                                      *)
LEMMA AdoptNewEnds ==
  ASSUME TypeOK, OneTells, OwnJobs, SomeoneOwes, NEW w \in Wraps, NEW t \in Threads,
         Adopt(w, t), claims[w] = None
  PROVE  OneTells' /\ OwnJobs' /\ SomeoneOwes'
<1> DEFINE new == Len(jobs) + 1
           r == IF Evicted = {} THEN [at |-> "keep", job |-> new]
                ELSE [at |-> "evict", job |-> new, old |-> Oldest]
<1>0. JobsGrow
  BY AdoptTyped
<1>1. /\ thread[w][t].at = "adopt" /\ Go(w, t, r) /\ UNCHANGED wrap
      /\ jobs' = Append(jobs, AgentJob(w)) /\ agents' = (agents \ Evicted) \cup {new}
      /\ claims' = [Forgetting(Evicted) EXCEPT ![w] = new]
  BY DEF Adopt, At
<1>2. /\ Ids' = Ids \cup {new} /\ new \notin Ids /\ jobs'[new] = AgentJob(w)
      /\ \A j \in Ids : jobs'[j] = jobs[j]
  BY <1>1 DEF TypeOK, Ids
<1>3. AgentIds' = AgentIds \cup {new} /\ new \notin AgentIds
  BY <1>2, WrapsAssumption DEF AgentIds, Slotted, AgentJob
<1>4. jobs'[new].done = 0 /\ jobs'[new].kind = w
  BY <1>2 DEF AgentJob
<1>5. Evicted \subseteq agents /\ (Evicted # {} => Evicted = {Oldest}) /\ agents \subseteq AgentIds
  <2>1. new \notin agents
    BY <1>2, AgentsFinite
  <2> QED BY <2>1, RoomForOne DEF TypeOK
<1>6. \A j : ~Tells(thread[w][t], j) /\ ~Due(thread[w][t], j) /\ ~Leaves(thread[w][t], j)
  BY <1>1, Resting
<1>7. /\ \A j : Tells(r, j) <=> j \in Evicted
      /\ Due(r, new) /\ r.at \in {"keep", "evict"} /\ r.job = new
  BY <1>5 DEF Tells, Due
<1> HIDE DEF r, new
<1>8. OneTells'
  <2>1. \A j \in AgentIds : j \in Ids
    BY DEF AgentIds
  <2>2. \A j \in AgentIds' \ AgentIds : jobs'[j].done = 0 /\ j \in agents' /\ ~Tells(r, j)
    BY <1>1, <1>3, <1>4, <1>5, <1>7
  <2>3. \A j \in AgentIds :
          \/ /\ jobs'[j].done = jobs[j].done /\ (j \in agents' <=> j \in agents)
             /\ Tells(r, j) <=> Tells(thread[w][t], j)
          \/ /\ jobs'[j].done = jobs[j].done /\ j \in agents /\ j \notin agents'
             /\ Tells(r, j)
    BY <1>1, <1>2, <1>3, <1>5, <1>6, <1>7, <2>1
  <2> QED BY <1>0, <1>1, <2>2, <2>3, OneTellsMove
<1>9. OwnJobs'
  <2>1. \A v \in Wraps : v # w => UNCHANGED wrap[v] /\ claims'[v] \in {None, claims[v]}
    BY <1>1 DEF Forgetting, TypeOK
  <2>2. claims'[w] = new
    BY <1>1 DEF Forgetting, TypeOK
  <2>3. (claims[w] # None => Own(w, claims[w]))'
    BY <1>2, <1>4, <2>2 DEF Own
  <2>4. (wrap[w].job # None => Own(w, wrap[w].job))'
    <3>1. wrap[w].job # None => wrap[w].job \in Ids /\ jobs[wrap[w].job].kind = w
      BY Named DEF OwnJobs, Own, AgentIds
    <3> QED BY <1>1, <1>2, <3>1 DEF Own
  <2>5. \A q : q = r => OwnThread(w, q)'
    BY <1>2, <1>4, <1>7 DEF OwnThread, Own
  <2>6. wrap'[w].stage # "new"
    BY <1>1 DEF OwnJobs, At
  <2> QED BY <1>0, <1>1, <2>1, <2>3, <2>4, <2>5, <2>6, OwnMove
<1>10. SomeoneOwes'
  <2>1. \A j \in AgentIds' \ AgentIds : Own(w, j)' /\ Due(r, j)
    BY <1>2, <1>3, <1>4, <1>7 DEF Own
  <2>2. agents' \cap AgentIds \subseteq agents
    BY <1>1, <1>3
  <2>3. \A j : KeepsIt(w, j) => KeepsIt(w, j)'
    BY <1>1 DEF KeepsIt
  <2>4. \A j \in AgentIds : Own(w, j) =>
          /\ KeepsIt(w, j) \/ Due(thread[w][t], j) => KeepsIt(w, j)' \/ Due(r, j)
          /\ Leaves(thread[w][t], j) => j \notin agents' \/ Leaves(r, j)
    BY <1>6, <2>3
  <2>5. r.at \notin {"forget", "publish"}
    BY <1>7
  <2>6. \A v \in Wraps : v # w => UNCHANGED wrap[v]
    BY <1>1
  <2> QED BY <1>0, <1>1, <2>1, <2>2, <2>4, <2>5, <2>6, OwesMove
<1> QED BY <1>8, <1>9, <1>10

(* A step that changes one job's status or announces it.                   *)
LEMMA TellMove ==
  ASSUME TypeOK, OneTells, OwnJobs, SomeoneOwes, JobsGrow,
         NEW w \in Wraps, NEW t \in Threads, NEW r, Go(w, t, r),
         NEW j \in AgentIds, NEW v, jobs' = [jobs EXCEPT ![j] = v], v.kind = jobs[j].kind,
         UNCHANGED <<agents, claims, wrap>>, wrap[w].stage # "new", OwnThread(w, r),
         v.status \notin LiveStatuses \/ v.status = jobs[j].status,
         \/ v.done = jobs[j].done /\ \A i : Tells(r, i) <=> Tells(thread[w][t], i)
         \/ /\ v.done = 1 /\ v.status \notin LiveStatuses
            /\ \A i : ~Tells(r, i) /\ (Tells(thread[w][t], i) <=> i = j),
         \A i : /\ Due(thread[w][t], i) =>
                     Due(r, i) \/ (i = j /\ v.status \notin LiveStatuses /\ Leaves(r, i))
                /\ Leaves(thread[w][t], i) => Leaves(r, i),
         r.at \in {"forget", "publish"} =>
           Head(r.todo).job = j /\ v.status \notin LiveStatuses
  PROVE  OneTells' /\ OwnJobs' /\ SomeoneOwes'
<1>1. AgentIds' = AgentIds /\ \A i \in AgentIds : jobs'[i] = IF i = j THEN v ELSE jobs[i]
  BY DEF AgentIds, Ids, Slotted, TypeOK
<1>2. OneTells'
  <2>1. \A i \in AgentIds :
          \/ /\ jobs'[i].done = jobs[i].done /\ (i \in agents' <=> i \in agents)
             /\ Tells(r, i) <=> Tells(thread[w][t], i)
          \/ /\ jobs'[i].done = 1 /\ jobs'[i].status \notin LiveStatuses
             /\ (i \in agents' => i \in agents)
             /\ Tells(thread[w][t], i) /\ ~Tells(r, i)
    BY <1>1
  <2> QED BY <1>1, <2>1, OneTellsMove
<1>3. OwnJobs'
  <2>1. OwnThread(w, r)'
    BY OwnGrows
  <2>2. (claims[w] # None => Own(w, claims[w]))' /\ (wrap[w].job # None => Own(w, wrap[w].job))'
    <3>1. \A i : Own(w, i) => Own(w, i)'
      BY OwnGrows
    <3>2. /\ claims[w] # None => Own(w, claims[w])
          /\ wrap[w].job # None => Own(w, wrap[w].job)
      BY DEF OwnJobs
    <3> QED BY <3>1, <3>2 DEF Own
  <2>3. \A u \in Wraps : u # w => UNCHANGED wrap[u] /\ claims'[u] \in {None, claims[u]}
    OBVIOUS
  <2> QED BY <2>1, <2>2, <2>3, OwnMove
<1>4. SomeoneOwes'
  <2>1. r.at \in {"forget", "publish"} => jobs'[Head(r.todo).job].status \notin LiveStatuses
    BY <1>1
  <2>2. \A i : KeepsIt(w, i) => KeepsIt(w, i)'
    BY DEF KeepsIt
  <2>3. \A i \in AgentIds : Own(w, i) =>
          /\ KeepsIt(w, i) \/ Due(thread[w][t], i) =>
               \/ KeepsIt(w, i)' \/ Due(r, i)
               \/ jobs'[i].status \notin LiveStatuses /\ (i \in agents' => Leaves(r, i))
          /\ Leaves(thread[w][t], i) => i \notin agents' \/ Leaves(r, i)
    BY <1>1, <2>2
  <2> QED BY <1>1, <2>1, <2>3, OwesMove
<1> QED BY <1>2, <1>3, <1>4

(* Of a job a thread is about to announce, nobody was told before.         *)
LEMMA NotTold ==
  ASSUME TypeOK, OneTells, NEW w \in Wraps, NEW t \in Threads, NEW j, Tells(thread[w][t], j)
  PROVE  j \in AgentIds /\ jobs[j] \in Jobs /\ jobs[j].done = 0
<1>1. j \in AgentIds
  BY Named
<1>2. jobs[j] \in Jobs
  BY <1>1 DEF AgentIds, Ids, TypeOK
<1>3. Announced(j)
  BY DEF Announced
<1> QED BY <1>1, <1>2, <1>3 DEF OneTells

LEMMA EvictEnds ==
  ASSUME TypeOK, OneTells, OwnJobs, SomeoneOwes, NEW w \in Wraps, NEW t \in Threads,
         EndEvicted(w, t)
  PROVE  OneTells' /\ OwnJobs' /\ SomeoneOwes'
<1> DEFINE old == thread[w][t].old
           mine == thread[w][t].job
           r == [at |-> "keep", job |-> mine]
           v == [Settled(old, "cancelled") EXCEPT !.done = @ + 1]
<1>1. /\ thread[w][t].at = "evict" /\ Go(w, t, r) /\ UNCHANGED <<agents, claims, wrap>>
      /\ jobs' = [jobs EXCEPT ![old] = v]
  BY DEF EndEvicted, At
<1>2. \A i : Tells(thread[w][t], i) <=> i = old
  BY <1>1 DEF Tells
<1>3. old \in AgentIds /\ jobs[old].done = 0
  BY <1>2, NotTold
<1>4. v.kind = jobs[old].kind /\ v.status \notin LiveStatuses /\ v.done = 1
  <2>1. /\ Settled(old, "cancelled") \in Jobs
        /\ Settled(old, "cancelled").kind = jobs[old].kind
        /\ Settled(old, "cancelled").status \notin LiveStatuses
        /\ Settled(old, "cancelled").done = 0
    BY <1>3, SettledTyped DEF TerminalStatuses
  <2> QED BY <2>1 DEF Jobs
<1>5. JobsGrow
  BY ReportingTyped DEF Reporting
<1>6. wrap[w].stage # "new" /\ OwnThread(w, thread[w][t])
  BY <1>1 DEF OwnJobs, At
<1>7. /\ OwnThread(w, r) /\ r.at = "keep"
      /\ \A i : ~Tells(r, i) /\ (Due(thread[w][t], i) => Due(r, i)) /\ ~Leaves(thread[w][t], i)
  BY <1>1, <1>6 DEF OwnThread, Tells, Due, Leaves
<1> HIDE DEF r, v, old
<1> QED BY <1>1, <1>2, <1>3, <1>4, <1>5, <1>6, <1>7, TellMove

LEMMA SettleEnds ==
  ASSUME TypeOK, OneTells, OwnJobs, SomeoneOwes, NEW w \in Wraps, NEW t \in Threads,
         Settle(w, t)
  PROVE  OneTells' /\ OwnJobs' /\ SomeoneOwes'
<1> DEFINE todo == thread[w][t].todo
           j == Head(todo).job
           r == [thread[w][t] EXCEPT !.at = "forget"]
           v == Settled(j, Head(todo).status)
<1>1. /\ thread[w][t].at = "settle" /\ Go(w, t, r) /\ UNCHANGED <<agents, claims, wrap>>
      /\ jobs' = [jobs EXCEPT ![j] = v]
  BY DEF Settle, At
<1>2. /\ j \in AgentIds /\ Head(todo).status \in TerminalStatuses
      /\ r.at = "forget" /\ r.todo = todo
  <2>1. /\ thread[w][t] \in [at : {"settle", "forget", "publish"},
                 todo : Seq([job : AgentIds, status : TerminalStatuses]) \ {<< >>}]
        /\ Head(todo) \in [job : AgentIds, status : TerminalStatuses]
    BY <1>1, ThreadHolds DEF At
  <2> QED BY <2>1
<1>3. /\ v.kind = jobs[j].kind /\ v.status \notin LiveStatuses /\ v.done = jobs[j].done
  BY <1>2, SettledTyped
<1>4. JobsGrow
  BY ReportingTyped DEF Reporting
<1>5. wrap[w].stage # "new" /\ OwnThread(w, thread[w][t])
  BY <1>1 DEF OwnJobs, At
<1>6. /\ Head(todo) = todo[1] /\ DOMAIN todo = 1..Len(todo) /\ Len(todo) \in Nat
  BY <1>1, Named
<1> HIDE DEF r, v
<1>7. OwnThread(w, r)
  BY <1>1, <1>2, <1>5 DEF OwnThread
<1>8. \A i : ~Tells(r, i) /\ ~Tells(thread[w][t], i) /\ ~Leaves(thread[w][t], i)
  BY <1>1, <1>2 DEF Tells, Leaves
<1>9. \A i : Due(thread[w][t], i) => Due(r, i) \/ (i = j /\ Leaves(r, i))
  <2> SUFFICES ASSUME NEW i, NEW k \in DOMAIN todo, todo[k].job = i
               PROVE  Due(r, i) \/ (i = j /\ Leaves(r, i))
    BY <1>1 DEF Due
  <2>1. CASE k = 1
    BY <1>2, <1>6, <2>1 DEF Leaves
  <2>2. CASE k > 1
    BY <1>2, <2>2 DEF Due
  <2> QED BY <1>6, <2>1, <2>2
<1>10. Head(r.todo).job = j
  BY <1>2
<1> HIDE DEF j
<1> QED BY <1>1, <1>2, <1>3, <1>4, <1>5, <1>7, <1>8, <1>9, <1>10, TellMove

LEMMA PublishEnds ==
  ASSUME TypeOK, OneTells, OwnJobs, SomeoneOwes, NEW w \in Wraps, NEW t \in Threads,
         PublishAgentDone(w, t)
  PROVE  OneTells' /\ OwnJobs' /\ SomeoneOwes'
<1> DEFINE j == Head(thread[w][t].todo).job
           r == Completing(Tail(thread[w][t].todo))
           v == [jobs[j] EXCEPT !.done = @ + 1]
<1>1. /\ thread[w][t].at = "publish" /\ Go(w, t, r) /\ UNCHANGED <<agents, claims, wrap>>
      /\ jobs' = [jobs EXCEPT ![j] = v]
  BY DEF PublishAgentDone, At
<1>2. \A i : Tells(thread[w][t], i) <=> i = j
  BY <1>1 DEF Tells
<1>3. j \in AgentIds /\ jobs[j].done = 0 /\ jobs[j] \in Jobs
  BY <1>2, NotTold
<1>4. v.kind = jobs[j].kind /\ v.status \notin LiveStatuses /\ v.done = 1
  <2>1. jobs[j].status \notin LiveStatuses
    BY <1>1 DEF SomeoneOwes, Live
  <2> HIDE DEF j
  <2> QED BY <1>3, <2>1 DEF Jobs
<1>5. JobsGrow
  BY ReportingTyped DEF Reporting
<1>6. wrap[w].stage # "new"
  BY <1>1 DEF OwnJobs, At
<1>7. /\ OwnThread(w, r) /\ r.at \notin {"forget", "publish"}
      /\ \A i : /\ ~Tells(r, i) /\ (Due(thread[w][t], i) => Due(r, i))
                /\ ~Leaves(thread[w][t], i)
  BY <1>1, RestHolds DEF Leaves
<1> HIDE DEF r, v, j
<1> QED BY <1>1, <1>2, <1>3, <1>4, <1>5, <1>6, <1>7, TellMove

LEMMA ForgetEnds ==
  ASSUME TypeOK, OneTells, OwnJobs, SomeoneOwes, NEW w \in Wraps, NEW t \in Threads,
         Forget(w, t)
  PROVE  OneTells' /\ OwnJobs' /\ SomeoneOwes'
<1> DEFINE todo == thread[w][t].todo
           j == Head(todo).job
           present == j \in agents \/ \E u \in Wraps : claims[u] = j
           rest == Completing(Tail(todo))
           r == [thread[w][t] EXCEPT !.at = "publish"]
<1>1. /\ thread[w][t].at = "forget" /\ UNCHANGED <<jobs, wrap>>
      /\ \/ /\ present /\ Go(w, t, r)
            /\ agents' = agents \ {j} /\ claims' = Forgetting({j})
         \/ ~present /\ Go(w, t, rest) /\ UNCHANGED <<agents, claims>>
  BY DEF Forget, At
<1>2. j \in AgentIds /\ r.at = "publish" /\ r.todo = todo
  <2>1. /\ thread[w][t] \in [at : {"settle", "forget", "publish"},
                 todo : Seq([job : AgentIds, status : TerminalStatuses]) \ {<< >>}]
        /\ Head(todo) \in [job : AgentIds, status : TerminalStatuses]
    BY <1>1, ThreadHolds DEF At
  <2> QED BY <2>1
<1>3. wrap[w].stage # "new" /\ OwnThread(w, thread[w][t])
  BY <1>1 DEF OwnJobs, At
<1>4. \A i : KeepsIt(w, i)' = KeepsIt(w, i)
  BY <1>1 DEF KeepsIt
<1>5. \A i : Leaves(thread[w][t], i) <=> i = j
  BY <1>1 DEF Leaves
<1>6. CASE ~present
  <2>1. /\ OwnThread(w, rest) /\ rest.at \notin {"forget", "publish"}
        /\ \A i : ~Tells(rest, i) /\ (Due(thread[w][t], i) => Due(rest, i))
    BY <1>1, RestHolds
  <2>2. \A i : ~Tells(thread[w][t], i)
    BY <1>1 DEF Tells
  <2>3. \A i : wrap'[w].job = i /\ i # None => Own(w, i)
    BY <1>1 DEF OwnJobs
  <2>4. j \notin agents /\ Go(w, t, rest) /\ UNCHANGED <<jobs, agents, claims, wrap>>
    BY <1>1, <1>6
  <2> HIDE DEF rest, j, present
  <2> QED BY <1>1, <1>3, <1>4, <1>5, <2>1, <2>2, <2>3, <2>4, QuietMove
<1>7. CASE present
  <2>1. j \in agents
    <3>1. \A u \in Wraps : claims[u] = j => j \in agents
      BY <1>2, NoneNoAgent DEF TypeOK
    <3> QED BY <1>7, <3>1
  <2>2. Go(w, t, r) /\ agents' = agents \ {j} /\ claims' = Forgetting({j})
    BY <1>1, <1>7
  <2>3. JobsGrow /\ AgentIds' = AgentIds
    BY <1>1, KeptJobs DEF AgentIds, Ids, Slotted
  <2>4. \A i : /\ Tells(r, i) <=> i = j
               /\ ~Tells(thread[w][t], i)
               /\ Due(thread[w][t], i) => Due(r, i)
    BY <1>1, <1>2 DEF Tells, Due
  <2>5. OwnThread(w, r)
    BY <1>1, <1>2, <1>3 DEF OwnThread
  <2>6. jobs[Head(r.todo).job].status \notin LiveStatuses
    BY <1>1, <1>2 DEF SomeoneOwes, Live
  <2>7. \A i : OwnThread(w, i) => OwnThread(w, i)'
    BY <2>3, OwnGrows
  <2>8. OneTells'
    <3>1. \A i \in AgentIds :
            \/ /\ jobs'[i].done = jobs[i].done /\ (i \in agents' <=> i \in agents)
               /\ Tells(r, i) <=> Tells(thread[w][t], i)
            \/ /\ jobs'[i].done = jobs[i].done /\ i \in agents /\ i \notin agents'
               /\ Tells(r, i)
      BY <1>1, <2>1, <2>2, <2>4
    <3> HIDE DEF r
    <3> QED BY <2>2, <2>3, <3>1, OneTellsMove
  <2>9. OwnJobs'
    <3>1. (claims[w] # None => Own(w, claims[w]))'
      <4>1. claims'[w] \in {None, claims[w]} /\ (claims[w] # None => Own(w, claims[w]))
        BY <2>2 DEF Forgetting, OwnJobs
      <4> QED BY <1>1, <4>1 DEF Own, Ids
    <3>2. (wrap[w].job # None => Own(w, wrap[w].job))'
      BY <1>1 DEF Own, Ids, OwnJobs
    <3>3. \A u \in Wraps : u # w => UNCHANGED wrap[u] /\ claims'[u] \in {None, claims[u]}
      BY <1>1, <2>2 DEF Forgetting
    <3>4. \A q : q = r => OwnThread(w, q)'
      BY <2>5, <2>7
    <3> HIDE DEF r, j
    <3> QED BY <1>1, <1>3, <2>2, <2>3, <3>1, <3>2, <3>3, <3>4, OwnMove
  <2>10. SomeoneOwes'
    <3>1. \A u \in Wraps : u # w => UNCHANGED wrap[u]
      BY <1>1
    <3>2. agents' \cap AgentIds \subseteq agents
      BY <2>2
    <3>3. \A i \in AgentIds : Own(w, i) =>
            /\ KeepsIt(w, i) \/ Due(thread[w][t], i) => KeepsIt(w, i)' \/ Due(r, i)
            /\ Leaves(thread[w][t], i) => i \notin agents' \/ Leaves(r, i)
      BY <1>4, <1>5, <2>2, <2>4
    <3>4. jobs'[Head(r.todo).job].status \notin LiveStatuses
      BY <1>1, <2>6
    <3> HIDE DEF r, j
    <3> QED BY <2>2, <2>3, <3>1, <3>2, <3>3, <3>4, OwesMove
  <2> QED BY <2>8, <2>9, <2>10
<1> QED BY <1>6, <1>7

LEMMA EndNext ==
  ASSUME TypeOK, OneTells, OwnJobs, SomeoneOwes, WorkerTells, [Next]_vars
  PROVE  OneTells' /\ OwnJobs' /\ SomeoneOwes'
<1>0. JobsGrow
  BY NextTyped
<1>1. CASE UNCHANGED agentSide /\ UNCHANGED jobs
  BY <1>0, <1>1, OtherSide DEF AgentIds, Ids, Slotted
(* a step that changes a slot job, or adds one *)
<1>2. ASSUME NEW j \in Ids, Slotted(j), NEW v, v.kind = jobs[j].kind,
             jobs' = [jobs EXCEPT ![j] = v], UNCHANGED agentSide
      PROVE  OneTells' /\ OwnJobs' /\ SomeoneOwes'
  <2>1. AgentIds' = AgentIds /\ \A i \in AgentIds : jobs'[i] = jobs[i]
    BY <1>2 DEF AgentIds, Ids, Slotted, TypeOK
  <2> QED BY <1>0, <1>2, <2>1, OtherSide
<1>3. ASSUME NEW kind \in SlotKinds, jobs' = Append(jobs, NewJob(kind)), UNCHANGED agentSide
      PROVE  OneTells' /\ OwnJobs' /\ SomeoneOwes'
  <2>1. AgentIds' = AgentIds /\ \A i \in AgentIds : jobs'[i] = jobs[i]
    <3>1. /\ Ids' = Ids \cup {Len(jobs) + 1} /\ Len(jobs) + 1 \notin Ids
          /\ jobs'[Len(jobs) + 1] = NewJob(kind) /\ \A i \in Ids : jobs'[i] = jobs[i]
      BY <1>3 DEF Ids, TypeOK
    <3> QED BY <3>1 DEF AgentIds, Slotted, NewJob
  <2> QED BY <1>0, <1>3, <2>1, OtherSide
<1>4. CASE Cancel
  <2>1. slot \in Ids /\ Slotted(slot) /\ UNCHANGED agentSide
    BY <1>4 DEF Cancel, TypeOK
  <2>2. CASE SlotLive
    <3> DEFINE v == [jobs[slot] EXCEPT !.cancel = TRUE]
    <3>1. v.kind = jobs[slot].kind
      BY <2>1 DEF TypeOK, Ids, Jobs
    <3>2. jobs' = [jobs EXCEPT ![slot] = v]
      BY <1>4, <2>2 DEF Cancel
    <3> HIDE DEF v
    <3> QED BY <1>2, <2>1, <3>1, <3>2
  <2> QED BY <1>1, <1>4, <2>1, <2>2 DEF Cancel
<1>5. CASE Workers
  <2>1. PICK j \in Ids : Run(j) \/ Finish(j) \/ FileJob(j) \/ PublishDone(j)
    BY <1>5 DEF Workers, Ids
  <2>2. jobs[j] \in Jobs
    BY DEF TypeOK, Ids
  <2>3. Slotted(j) /\ UNCHANGED agentSide
    BY <2>1 DEF WorkerTells, Run, Finish, FileJob, PublishDone, Work
  <2>4. ASSUME NEW v, v.kind = jobs[j].kind, Work(j, v)
        PROVE  OneTells' /\ OwnJobs' /\ SomeoneOwes'
    BY <1>2, <2>3, <2>4 DEF Work
  <2>5. CASE Run(j)
    <3>1. [jobs[j] EXCEPT !.status = "running"].kind = jobs[j].kind
      BY <2>2 DEF Jobs
    <3> QED BY <2>4, <2>5, <3>1 DEF Run
  <2>6. CASE Finish(j)
    <3>1. \A s : [jobs[j] EXCEPT !.status = s, !.at = "file"].kind = jobs[j].kind
      BY <2>2 DEF Jobs
    <3> QED BY <2>4, <2>6, <3>1 DEF Finish
  <2>7. CASE FileJob(j)
    <3>1. [jobs[j] EXCEPT !.at = "publish"].kind = jobs[j].kind
      BY <2>2 DEF Jobs
    <3> QED BY <2>4, <2>7, <3>1 DEF FileJob
  <2>8. CASE PublishDone(j)
    <3>1. [jobs[j] EXCEPT !.at = "over", !.done = @ + 1].kind = jobs[j].kind
      BY <2>2 DEF Jobs
    <3> QED BY <2>4, <2>8, <3>1 DEF PublishDone
  <2> QED BY <2>1, <2>5, <2>6, <2>7, <2>8
<1>6. ASSUME NEW c \in Callers, Spawning(c) PROVE OneTells' /\ OwnJobs' /\ SomeoneOwes'
  <2>1. CASE TakeSlot(c) /\ ~(UNCHANGED agentSide /\ UNCHANGED jobs)
    <3>1. /\ jobs' = Append(jobs, NewJob(caller[c].kind)) /\ caller[c].kind \in SlotKinds
          /\ UNCHANGED agentSide
      BY <2>1, CallerHolds DEF TakeSlot, Refused, To
    <3> QED BY <1>3, <3>1
  <2> QED BY <1>1, <1>6, <2>1 DEF Spawning, Look, Waited, StillUpdating, CheckSlot, Refused,
                                  Validate, Busy, To
<1>7. ASSUME NEW w \in Wraps, NEW t \in Threads, Reporting(w, t)
      PROVE  OneTells' /\ OwnJobs' /\ SomeoneOwes'
  BY <1>7, EnsureEnds, AdoptClaimedEnds, AdoptNewEnds, EvictEnds, KeepEnds, SettleEnds,
     ForgetEnds, PublishEnds DEF Reporting
<1>8. ASSUME NEW w \in Wraps, NEW how \in TerminalStatuses, Close(w, how)
      PROVE  OneTells' /\ OwnJobs' /\ SomeoneOwes'
  BY <1>8, CloseEnds
<1>9. ASSUME NEW w \in Wraps, Open(w) PROVE OneTells' /\ OwnJobs' /\ SomeoneOwes'
  BY <1>9, OpenEnds
<1> QED BY <1>1, <1>4, <1>5, <1>6, <1>7, <1>8, <1>9
        DEF Next, vars, Asks, Ask, To, slotSide, agentSide

LEMMA EndInit == Init => EndInv
<1> SUFFICES ASSUME Init PROVE EndInv
  OBVIOUS
<1>1. Ids = {} /\ AgentIds = {}
  BY DEF Init, Ids, AgentIds
<1>2. WorkerTells /\ OneTells
  BY <1>1 DEF WorkerTells, OneTells
<1>3. \A w \in Wraps, t \in Threads : thread[w][t].at = "rest"
  BY DEF Init, Rest
<1>4. OwnJobs
  BY <1>3, Resting DEF Init, OwnJobs, At
<1>5. SomeoneOwes
  BY <1>1, <1>3 DEF SomeoneOwes
<1> QED BY <1>2, <1>4, <1>5 DEF EndInv

(* When a tool has ended and its threads are through, nobody of it owes    *)
(* anything any more, so none of its jobs is live or in the catalog; what  *)
(* left the catalog was announced, or is about to be by the tool that      *)
(* evicted it.                                                             *)
LEMMA NothingOwed ==
  ASSUME TypeOK, EndInv
  PROVE  NoJobLeftRunning
<1>1. ASSUME NEW j \in Ids PROVE jobs[j].done <= 1 /\ (jobs[j].done = 1 => ~Live(j))
  <2>1. CASE Slotted(j)
    BY <2>1 DEF EndInv, WorkerTells
  <2>2. CASE ~Slotted(j)
    BY <2>2 DEF EndInv, OneTells, AgentIds
  <2> QED BY <2>1, <2>2
<1>2. ASSUME NEW w \in Wraps, wrap[w].stage = "closed", \A t \in Threads : At(w, t, "rest"),
             NEW j \in Ids, jobs[j].kind = w
      PROVE  /\ ~Live(j) /\ j \notin agents
             /\ \/ jobs[j].done = 1
                \/ \E v \in Wraps, t \in Threads : At(v, t, "evict") /\ thread[v][t].old = j
  <2>1. j \in AgentIds /\ Own(w, j)
    BY <1>2, WrapsAssumption DEF AgentIds, Slotted, Own
  <2>2. ~Owed(w, j) /\ ~Forgets(w, j)
    <3>1. \A t \in Threads : ~Due(thread[w][t], j) /\ ~Leaves(thread[w][t], j)
      BY <1>2, Resting DEF At
    <3> QED BY <1>2, <3>1 DEF Owed, Forgets, KeepsIt
  <2>3. ~Live(j) /\ j \notin agents
    BY <2>1, <2>2 DEF EndInv, SomeoneOwes
  <2>4. jobs[j].done = 1 \/ Announced(j)
    BY <2>1, <2>3 DEF EndInv, OneTells
  <2>5. ASSUME NEW v \in Wraps, NEW t \in Threads, Tells(thread[v][t], j)
        PROVE  At(v, t, "evict") /\ thread[v][t].old = j
    <3>1. CASE thread[v][t].at = "evict"
      BY <2>5, <3>1 DEF Tells, At
    <3>2. CASE thread[v][t].at = "publish"
      <4>1. thread[v][t].todo[1].job = j /\ 1 \in DOMAIN thread[v][t].todo
        BY <2>5, <3>2, Named DEF Tells
      <4>2. Own(v, j)
        BY <3>2, <4>1 DEF EndInv, OwnJobs, OwnThread
      <4>3. v = w
        BY <1>2, <4>2 DEF Own
      <4> QED BY <1>2, <3>2, <4>3 DEF At
    <3> QED BY <2>5, <3>1, <3>2 DEF Tells
  <2> QED BY <2>3, <2>4, <2>5 DEF Announced
<1> QED BY <1>1, <1>2 DEF NoJobLeftRunning

(* However a tool's end, its timer and evictions by other tools meet, no   *)
(* job of a tool that is through is left running, and its listeners are    *)
(* told of its end once.                                                   *)
THEOREM JobsEnd == Spec => []NoJobLeftRunning
<1>1. TypeOK /\ EndInv /\ [Next]_vars => EndInv'
  BY EndNext, WorkerTellsNext DEF EndInv
<1> QED BY TypeCorrect, EndInit, <1>1, NothingOwed, PTL DEF Spec

=============================================================================
