----------------------------- MODULE JobCatalog -----------------------------
(***************************************************************************)
(* Studio's jobs (services/jobs): the one slot that pipeline runs, mix      *)
(* rebuilds, bounces and exports share, the live agent jobs beside it, and  *)
(* the archive that keeps the last finished ones findable.                  *)
(*                                                                         *)
(* Threads meet at the catalog's lock: callers that start or cancel a job,  *)
(* the worker thread of each slot job, and per agent tool the thread that   *)
(* reports its progress and the timer that makes a slow tool visible.  One  *)
(* action is one critical section.  Time is left out: a wait may reach its  *)
(* deadline whenever the code would look at the clock.                      *)
(***************************************************************************)
EXTENDS Naturals, Sequences, FiniteSets

CONSTANTS Callers,        \* threads that ask for slot jobs
          Wraps,          \* agent tool calls; each reports progress once opened
          FinishedLimit,  \* _finished_limit
          AgentLimit,     \* _agent_live_limit
          MaxStarts       \* bound: slot jobs ever asked for

ASSUME CatalogBounds ==
  /\ {FinishedLimit, AgentLimit} \subseteq Nat \ {0} /\ MaxStarts \in Nat

(* An export may wait for a mix rebuild of its project; a rebuild of       *)
(* another project is one more job, as a bounce is.                        *)
SlotKinds == {"render_preview", "bounce", "export"}

ASSUME WrapsAssumption == Wraps \cap SlotKinds = {}

VARIABLES
  jobs,     \* every job made; its id is its index.  An agent job's kind is its wrap
  slot,     \* _job
  agents,   \* _agent_live
  claims,   \* _agent_claims: wrap -> job
  latest,   \* _agent_latest
  filed,    \* every job archived, oldest first
  caller,   \* where each caller is in start_export and _spawn
  wrap,     \* AgentJobFanInReporter: its stage, its job, how it ended, its timer
  thread    \* wrap -> thread -> where it is in _ensure_job or complete_agent_job

vars == <<jobs, slot, agents, claims, latest, filed, caller, wrap, thread>>

slotSide  == <<slot, caller>>
agentSide == <<agents, claims, latest, wrap, thread>>

None     == 0
Idle     == [at |-> "idle"]
Rest     == [at |-> "rest"]
Threads  == {"tool", "timer"}
LiveStatuses     == {"queued", "running"}
TerminalStatuses == {"ok", "error", "cancelled"}

Live(j)    == jobs[j].status \in LiveStatuses
Slotted(j) == jobs[j].kind \in SlotKinds

-----------------------------------------------------------------------------
(* _finished holds the last FinishedLimit jobs archived.  Mutant: one less. *)
FinishedShort(f) ==
  {f[i] : i \in {k \in DOMAIN f : k + FinishedLimit > Len(f) + 1}}

Finished(f) ==
  {f[i] : i \in {k \in DOMAIN f : k + FinishedLimit > Len(f)}}

(* _archive_job *)
File(j, f) == IF j \in Finished(f) THEN f ELSE Append(f, j)

(* get_job *)
Findable(j) == j \in {slot, latest} \cup agents \cup Finished(filed)

SlotLive == slot # None /\ Live(slot)

(* Mutant: a rebuild that has ended still counts.                          *)
MixInSlot == slot # None /\ jobs[slot].kind = "render_preview"

(* _live_mix_rebuild *)
LiveMix == SlotLive /\ jobs[slot].kind = "render_preview"

-----------------------------------------------------------------------------
Init ==
  /\ jobs = << >> /\ filed = << >>
  /\ slot = None /\ latest = None /\ agents = {}
  /\ claims = [w \in Wraps |-> None]
  /\ caller = [c \in Callers |-> Idle]
  /\ wrap   = [w \in Wraps |->
                 [stage |-> "new", job |-> None, how |-> "ok", timer |-> FALSE]]
  /\ thread = [w \in Wraps |-> [t \in Threads |-> Rest]]

-----------------------------------------------------------------------------
(* A caller asks for a slot job.                                           *)
Starts == Cardinality({j \in DOMAIN jobs : Slotted(j)})
          + Cardinality({c \in Callers : caller[c] # Idle})

To(c, record) ==
  /\ caller' = [caller EXCEPT ![c] = record]
  /\ UNCHANGED <<jobs, slot, filed, agentSide>>

Ask(c, kind, waits) ==
  /\ caller[c] = Idle
  /\ Starts < MaxStarts
  /\ waits => kind = "export"
  /\ To(c, [at |-> IF waits THEN "look" ELSE "check", kind |-> kind, waits |-> waits])

(* _wait_out_mix_rebuild: look for a live rebuild, wait for it to end (or  *)
(* for the deadline, which refuses the export), look again.                *)
Look(c) ==
  /\ caller[c].at = "look"
  /\ To(c, IF LiveMix
           THEN [at |-> "wait", kind |-> "export", waits |-> TRUE, for |-> slot]
           ELSE [at |-> "check", kind |-> "export", waits |-> TRUE])

Waited(c) ==
  /\ caller[c].at = "wait"
  /\ ~Live(caller[c].for)
  /\ To(c, [at |-> "look", kind |-> "export", waits |-> TRUE])

StillUpdating(c) ==
  /\ caller[c].at = "wait"
  /\ Live(caller[c].for)
  /\ To(c, Idle)

(* _spawn: refuse early, validate without the lock, look again, take.      *)
Refused(c) ==
  To(c, IF caller[c].waits
        THEN [at |-> "busy", kind |-> "export", waits |-> TRUE, by |-> slot]
        ELSE Idle)

CheckSlot(c) ==
  /\ caller[c].at = "check"
  /\ \/ SlotLive /\ Refused(c)
     \/ ~SlotLive /\ To(c, [caller[c] EXCEPT !.at = "validate"])

(* what is asked for may turn out not to be valid *)
Validate(c) ==
  /\ caller[c].at = "validate"
  /\ \/ To(c, [caller[c] EXCEPT !.at = "take"])
     \/ caller[c].kind = "bounce" /\ To(c, Idle)

NewJob(kind) ==
  [kind |-> kind, status |-> "queued", cancel |-> FALSE, at |-> "work", done |-> 0]

(* Mutant: the slot is not looked at again after the validation.           *)
TakeSlotUnchecked(c) ==
  /\ caller[c].at = "take"
  /\ filed' = IF slot # None /\ ~Live(slot) THEN File(slot, filed) ELSE filed
  /\ jobs' = Append(jobs, NewJob(caller[c].kind))
  /\ slot' = Len(jobs) + 1
  /\ caller' = [caller EXCEPT ![c] = Idle]
  /\ UNCHANGED agentSide

(* Mutant: the job that held the slot is left to its own worker to file.   *)
TakeSlotForgetting(c) ==
  /\ caller[c].at = "take" /\ ~SlotLive
  /\ jobs' = Append(jobs, NewJob(caller[c].kind))
  /\ slot' = Len(jobs) + 1
  /\ caller' = [caller EXCEPT ![c] = Idle]
  /\ UNCHANGED <<filed, agentSide>>

TakeSlot(c) ==
  /\ caller[c].at = "take"
  /\ \/ SlotLive /\ Refused(c)
     \/ /\ ~SlotLive
        /\ filed' = IF slot # None THEN File(slot, filed) ELSE filed
        /\ jobs' = Append(jobs, NewJob(caller[c].kind))
        /\ slot' = Len(jobs) + 1
        /\ caller' = [caller EXCEPT ![c] = Idle]
        /\ UNCHANGED agentSide

(* start_export meets a busy slot: for a live rebuild it waits again.      *)
Busy(c) ==
  /\ caller[c].at = "busy"
  /\ To(c, IF LiveMix THEN [at |-> "look", kind |-> "export", waits |-> TRUE] ELSE Idle)

(* cancel; should the job settle meanwhile, nobody reads the flag any more *)
Cancel ==
  /\ slot # None
  /\ jobs' = IF SlotLive THEN [jobs EXCEPT ![slot].cancel = TRUE] ELSE jobs
  /\ UNCHANGED <<slotSide, filed, agentSide>>

-----------------------------------------------------------------------------
(* _run_job, the worker thread of slot job j.                              *)
Work(j, change) ==
  /\ jobs' = [jobs EXCEPT ![j] = change]
  /\ UNCHANGED <<slotSide, agentSide>>

Run(j) ==
  /\ Slotted(j) /\ jobs[j].status = "queued"
  /\ Work(j, [jobs[j] EXCEPT !.status = "running"])
  /\ UNCHANGED filed

(* it returns, raises, or stops as asked; an error may read "cancelled" too *)
Finish(j) ==
  /\ Slotted(j) /\ jobs[j].status = "running"
  /\ \E s \in IF jobs[j].cancel THEN {"cancelled"} ELSE TerminalStatuses :
        Work(j, [jobs[j] EXCEPT !.status = s, !.at = "file"])
  /\ UNCHANGED filed

FileJob(j) ==
  /\ jobs[j].at = "file"
  /\ Work(j, [jobs[j] EXCEPT !.at = "publish"])
  /\ filed' = IF slot = j THEN File(j, filed) ELSE filed

PublishDone(j) ==
  /\ jobs[j].at = "publish"
  /\ Work(j, [jobs[j] EXCEPT !.at = "over", !.done = @ + 1])
  /\ UNCHANGED filed

-----------------------------------------------------------------------------
(* The tool reports its start, which arms the timer.                       *)
At(w, t, label) == thread[w][t].at = label

Go(w, t, record) == thread' = [thread EXCEPT ![w][t] = record]

Open(w) ==
  /\ wrap[w].stage = "new"
  /\ wrap' = [wrap EXCEPT ![w].stage = "open", ![w].timer = TRUE]
  /\ UNCHANGED <<jobs, slotSide, agents, claims, latest, filed, thread>>

(* _ensure_job, entered by an event of the tool or by the timer: only a    *)
(* wrap that is open and has no job yet goes on to adopt one.              *)
Ensure(w, t) ==
  /\ At(w, t, "rest")
  /\ IF t = "timer" THEN wrap[w].timer ELSE wrap[w].stage = "open" /\ wrap[w].job = None
  /\ wrap' = [wrap EXCEPT ![w].timer = IF t = "timer" THEN FALSE ELSE @]
  /\ IF wrap[w].job = None THEN Go(w, t, [at |-> "adopt"]) ELSE UNCHANGED thread
  /\ UNCHANGED <<jobs, slotSide, agents, claims, latest, filed>>

Oldest == CHOOSE j \in agents : \A k \in agents : j <= k

(* at the limit the oldest live agent job makes room *)
Evicted == IF Cardinality(agents) >= AgentLimit THEN {Oldest} ELSE {}

AgentJob(w) ==
  [kind |-> w, status |-> "running", cancel |-> FALSE, at |-> "agent", done |-> 0]

(* _forget_agent_locked *)
Forgetting(old) == [w \in Wraps |-> IF claims[w] \in old THEN None ELSE claims[w]]

(* Mutant: nobody makes room.                                              *)
AdoptAnyway(w, t) ==
  LET j == Len(jobs) + 1
  IN  /\ At(w, t, "adopt") /\ claims[w] = None
      /\ jobs' = Append(jobs, AgentJob(w))
      /\ agents' = agents \cup {j} /\ latest' = j
      /\ claims' = [claims EXCEPT ![w] = j]
      /\ Go(w, t, [at |-> "keep", job |-> j])
      /\ UNCHANGED <<slotSide, filed, wrap>>

(* adopt_agent_job: the job that holds the claim, or a new one.            *)
Adopt(w, t) ==
  LET j == Len(jobs) + 1
  IN  /\ At(w, t, "adopt")
      /\ \/ /\ claims[w] # None
            /\ Go(w, t, [at |-> "keep", job |-> claims[w]])
            /\ UNCHANGED <<jobs, agents, claims, latest, filed>>
         \/ /\ claims[w] = None
            /\ jobs' = Append(jobs, AgentJob(w))
            /\ agents' = (agents \ Evicted) \cup {j}
            /\ claims' = [Forgetting(Evicted) EXCEPT ![w] = j]
            /\ latest' = j
            /\ IF Evicted = {}
               THEN UNCHANGED filed /\ Go(w, t, [at |-> "keep", job |-> j])
               ELSE /\ filed' = File(Oldest, filed)
                    /\ Go(w, t, [at |-> "evict", job |-> j, old |-> Oldest])
      /\ UNCHANGED <<slotSide, wrap>>

Settled(j, status) ==
  [jobs[j] EXCEPT !.status = IF Live(j) THEN status ELSE @]

(* the evicted job ends, unless its own wrap has ended it meanwhile        *)
EndEvicted(w, t) ==
  LET old == thread[w][t].old
  IN  /\ At(w, t, "evict")
      /\ jobs' = [jobs EXCEPT ![old] = [Settled(old, "cancelled") EXCEPT !.done = @ + 1]]
      /\ Go(w, t, [at |-> "keep", job |-> thread[w][t].job])
      /\ UNCHANGED <<slotSide, agents, claims, latest, filed, wrap>>

-----------------------------------------------------------------------------
(* complete_agent_job for each of todo in turn.                            *)
Completing(todo) == IF todo = << >> THEN Rest ELSE [at |-> "settle", todo |-> todo]

Completion(j, status) == <<[job |-> j, status |-> status]>>

(* Mutant: whether the wrap has been closed meanwhile is not looked at.    *)
KeepOpen(w, t) ==
  /\ At(w, t, "keep")
  /\ wrap' = [wrap EXCEPT ![w].job = IF @ = None THEN thread[w][t].job ELSE @]
  /\ Go(w, t, Completing(IF wrap[w].job \in {None, thread[w][t].job} THEN << >>
                         ELSE Completion(thread[w][t].job, "cancelled")))
  /\ UNCHANGED <<jobs, slotSide, agents, claims, latest, filed>>

(* The wrap keeps the first job adopted for it; another is dropped.  If    *)
(* the wrap closed meanwhile, the job it keeps ends as the wrap did.       *)
Keep(w, t) ==
  LET mine == thread[w][t].job
      kept == IF wrap[w].job = None THEN mine ELSE wrap[w].job
  IN  /\ At(w, t, "keep")
      /\ wrap' = [wrap EXCEPT ![w].job = kept]
      /\ Go(w, t, Completing(
           (IF kept = mine THEN << >> ELSE Completion(mine, "cancelled"))
           \o (IF wrap[w].stage = "closed" THEN Completion(kept, wrap[w].how) ELSE << >>)))
      /\ UNCHANGED <<jobs, slotSide, agents, claims, latest, filed>>

(* _finalize_wrap *)
Close(w, how) ==
  /\ wrap[w].stage = "open" /\ At(w, "tool", "rest")
  /\ wrap' = [wrap EXCEPT ![w].stage = "closed", ![w].how = how, ![w].timer = FALSE]
  /\ Go(w, "tool", Completing(IF wrap[w].job = None THEN << >>
                              ELSE Completion(wrap[w].job, how)))
  /\ UNCHANGED <<jobs, slotSide, agents, claims, latest, filed>>

Settle(w, t) ==
  /\ At(w, t, "settle")
  /\ LET first == Head(thread[w][t].todo)
     IN  jobs' = [jobs EXCEPT ![first.job] = Settled(first.job, first.status)]
  /\ Go(w, t, [thread[w][t] EXCEPT !.at = "forget"])
  /\ UNCHANGED <<slotSide, agents, claims, latest, filed, wrap>>

(* Mutant: a job that is already gone is announced once more.              *)
ForgetAlways(w, t) ==
  LET j == Head(thread[w][t].todo).job
  IN  /\ At(w, t, "forget")
      /\ agents' = agents \ {j} /\ claims' = Forgetting({j})
      /\ filed' = File(j, filed)
      /\ Go(w, t, [thread[w][t] EXCEPT !.at = "publish"])
      /\ UNCHANGED <<jobs, slotSide, latest, wrap>>

(* whoever takes the job out of the catalog files and announces it *)
Forget(w, t) ==
  LET j == Head(thread[w][t].todo).job
      present == j \in agents \/ \E v \in Wraps : claims[v] = j
  IN  /\ At(w, t, "forget")
      /\ \/ /\ present
            /\ agents' = agents \ {j} /\ claims' = Forgetting({j})
            /\ filed' = File(j, filed)
            /\ Go(w, t, [thread[w][t] EXCEPT !.at = "publish"])
         \/ /\ ~present
            /\ Go(w, t, Completing(Tail(thread[w][t].todo)))
            /\ UNCHANGED <<agents, claims, filed>>
      /\ UNCHANGED <<jobs, slotSide, latest, wrap>>

PublishAgentDone(w, t) ==
  /\ At(w, t, "publish")
  /\ jobs' = [jobs EXCEPT ![Head(thread[w][t].todo).job].done = @ + 1]
  /\ Go(w, t, Completing(Tail(thread[w][t].todo)))
  /\ UNCHANGED <<slotSide, agents, claims, latest, filed, wrap>>

-----------------------------------------------------------------------------
Asks == \E c \in Callers, kind \in SlotKinds, waits \in BOOLEAN : Ask(c, kind, waits)

Spawning(c) ==
  \/ Look(c) \/ Waited(c) \/ StillUpdating(c)
  \/ CheckSlot(c) \/ Validate(c) \/ TakeSlot(c) \/ Busy(c)

Workers == \E j \in DOMAIN jobs : Run(j) \/ Finish(j) \/ FileJob(j) \/ PublishDone(j)

Reporting(w, t) ==
  \/ Ensure(w, t) \/ Adopt(w, t) \/ EndEvicted(w, t) \/ Keep(w, t)
  \/ Settle(w, t) \/ Forget(w, t) \/ PublishAgentDone(w, t)

Next ==
  \/ Asks \/ Cancel \/ Workers
  \/ \E c \in Callers : Spawning(c)
  \/ \E w \in Wraps : Open(w) \/ (\E how \in TerminalStatuses : Close(w, how))
                      \/ \E t \in Threads : Reporting(w, t)

Spec == Init /\ [][Next]_vars

(* Every thread between its request and its answer goes on, _wait included, *)
(* which polls; nothing is asked of the workers, a rebuild may hang.        *)
FairSpec == Spec /\ \A c \in Callers : WF_vars(Spawning(c))

-----------------------------------------------------------------------------
Ids == DOMAIN jobs

AgentIds == {j \in Ids : ~Slotted(j)}

Jobs ==
  [kind : SlotKinds \cup Wraps, status : LiveStatuses \cup TerminalStatuses, cancel : BOOLEAN,
   at : {"work", "file", "publish", "over", "agent"}, done : Nat]

CallerStates ==
  LET asked == [at : {"look", "check", "validate", "take"}, kind : SlotKinds, waits : BOOLEAN]
      waiting == [at : {"wait"}, kind : {"export"}, waits : {TRUE}, for : Ids]
      busy == [at : {"busy"}, kind : {"export"}, waits : {TRUE}, by : Ids]
  IN  {Idle} \cup asked \cup waiting \cup busy

ThreadStates ==
  LET completions == Seq([job : AgentIds, status : TerminalStatuses]) \ {<< >>}
  IN  {Rest} \cup [at : {"adopt"}] \cup [at : {"keep"}, job : AgentIds]
      \cup [at : {"evict"}, job : AgentIds, old : AgentIds]
      \cup [at : {"settle", "forget", "publish"}, todo : completions]

(* Every variable has its shape, and no more than AgentLimit agent jobs are *)
(* live: adopt_agent_job makes room before it adds one.                     *)
TypeOK ==
  /\ jobs \in Seq(Jobs)
  /\ slot \in {j \in Ids : Slotted(j)} \cup {None}
  /\ latest \in AgentIds \cup {None}
  /\ agents \subseteq AgentIds /\ Cardinality(agents) <= AgentLimit
  /\ claims \in [Wraps -> agents \cup {None}]
  /\ filed \in Seq(Ids)
  /\ caller \in [Callers -> CallerStates]
  /\ wrap \in [Wraps -> [stage : {"new", "open", "closed"}, job : AgentIds \cup {None},
                         how : TerminalStatuses, timer : BOOLEAN]]
  /\ thread \in [Wraps -> [Threads -> ThreadStates]]

(* A slot job that is queued or running is the one in the slot: of two      *)
(* callers that both found the slot free before they validated, _spawn lets *)
(* one in, so no worker ever runs a job that cancel and wait cannot reach.  *)
OneSlotJob == \A j \in Ids : Slotted(j) /\ Live(j) => j = slot

(* A job stays findable by its id (get_job) until FinishedLimit other jobs  *)
(* have been filed after it, whoever files it: its worker, the successor    *)
(* that takes the slot first, its tool, or the newer tool that evicts it.   *)
FinishedFindable ==
  \A j \in Ids :
     \/ Findable(j)
     \/ \E i \in DOMAIN filed :
          /\ filed[i] = j
          /\ Cardinality({filed[k] : k \in (i + 1)..Len(filed)} \ {j}) >= FinishedLimit

(* Once a tool has ended and its threads are through, none of the jobs made *)
(* for it still shows as running, and its listeners have been told, or the  *)
(* tool that evicted it is about to: the timer may have adopted a job while *)
(* the tool ended, and tool and timer may have adopted one each.  They are  *)
(* told once, and of an end that is one: eviction meets the tool's own end. *)
NoJobLeftRunning ==
  /\ \A j \in Ids : jobs[j].done <= 1 /\ (jobs[j].done = 1 => ~Live(j))
  /\ \A w \in Wraps :
       wrap[w].stage = "closed" /\ (\A t \in Threads : At(w, t, "rest"))
       => \A j \in {i \in Ids : jobs[i].kind = w} :
            /\ ~Live(j) /\ j \notin agents
            /\ \/ jobs[j].done = 1
               \/ \E v \in Wraps, t \in Threads : At(v, t, "evict") /\ thread[v][t].old = j

(* Every request for a slot job is answered, with a job or a refusal, even  *)
(* one that waits for a rebuild that never ends.                            *)
EveryStartAnswered == \A c \in Callers : caller[c] # Idle ~> caller[c] = Idle
=============================================================================
