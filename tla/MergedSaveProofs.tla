--------------------------- MODULE MergedSaveProofs ---------------------------
(***************************************************************************)
(* What a long job's saves keep, for any number of objects, values,        *)
(* labels, entries and other writers.                                      *)
(*                                                                         *)
(* First: a save that is refused or fails leaves nothing behind.  Nothing  *)
(* of that depends on how two projects merge; what matters is where a save *)
(* keeps the index it replaced, and on which revision a checkpoint may     *)
(* keep changes that are not saved yet.                                    *)
(*                                                                         *)
(* Then, from lemmas about what the merge of two lists and of two undo     *)
(* stacks has: neither side's change is lost, what was undone or applied   *)
(* when the job began stays so, and what was merged can be undone.         *)
(*                                                                         *)
(* Last, the loops over a history end where their closed forms say, for    *)
(* any history, and every variable has its type.                           *)
(***************************************************************************)
EXTENDS MergedSave, FiniteSetTheorems, SequenceTheorems, WellFoundedInduction, TLAPS

-----------------------------------------------------------------------------
(* The inductive invariant behind FailureLeavesNoEntry.                    *)

(* a record has these fields and no others *)
HasFields(r, fields) == r = [f \in fields |-> r[f]]

Whole(p) == HasFields(p, {"data", "hist"})

FileShape == HasFields(file, {"data", "hist", "rev"}) /\ file.rev \in Nat \ {0}

(* which fields the job has in each of its phases *)
JobShape ==
  /\ \/ job.at = "open"    /\ HasFields(job, {"at", "mem", "base", "sig"})
     \/ job.at = "read"    /\ HasFields(job, {"at", "mem", "base", "sig", "rev"})
     \/ job.at = "based"   /\ HasFields(job, {"at", "mem", "base", "sig"})
     \/ job.at = "writing" /\ HasFields(job, {"at", "mem", "base", "label", "next",
                                              "own", "indexBefore"})
     \/ job.at = "landed"  /\ HasFields(job, {"at", "mem", "base", "next", "pruned"})
  /\ Whole(job.mem)
  /\ job.at # "open" => Whole(job.base)
  /\ job.at \in {"writing", "landed"} => Whole(job.next)

(* A copy, or a read, taken at the file's revision has the file's history. *)
CopyCurrent ==
  job.at \in {"open", "read", "based"} =>
    /\ job.sig \in Nat /\ job.sig <= file.rev
    /\ job.sig = file.rev => job.mem.hist = file.hist

ReadCurrent ==
  job.at = "read" =>
    /\ job.rev \in Nat /\ job.rev <= file.rev
    /\ job.rev = file.rev => job.base.hist = file.hist

(* from its checkpoint on, the copy has the history of its base *)
BaseHeld == job.at \in {"based", "writing", "landed"} => job.mem.hist = job.base.hist

(* only a save being written has another index on disk, and it kept the    *)
(* one it found                                                            *)
IndexKept ==
  loose \/ (IF job.at = "writing" THEN job.indexBefore ELSE index) = file.hist

IInv == FileShape /\ JobShape /\ CopyCurrent /\ ReadCurrent /\ BaseHeld /\ IndexKept

-----------------------------------------------------------------------------
LEMMA InitInv == Init => IInv
<1> SUFFICES ASSUME Init PROVE IInv
  OBVIOUS
<1>1. PICK data :
        /\ file = [data |-> data, hist |-> InitialHist, rev |-> 1]
        /\ job  = Opened([data |-> data, hist |-> InitialHist], 1)
  BY DEF Init
<1>2. index = InitialHist
  BY DEF Init
<1>3. FileShape
  BY <1>1 DEF FileShape, HasFields
<1>4. JobShape
  BY <1>1 DEF JobShape, HasFields, Whole, Opened
<1>5. CopyCurrent /\ ReadCurrent /\ BaseHeld /\ IndexKept
  BY <1>1, <1>2 DEF CopyCurrent, ReadCurrent, BaseHeld, IndexKept, Opened
<1> QED BY <1>3, <1>4, <1>5 DEF IInv

-----------------------------------------------------------------------------
(* Another writer's whole call: the file moves on to a revision no copy    *)
(* has, and its index with it.                                             *)
LEMMA CommitKeeps ==
  ASSUME IInv, ~Locked, NEW r, Commit(r)
  PROVE  IInv'
<1>1. /\ file' = [data |-> r.data, hist |-> Trimmed(r.hist), rev |-> file.rev + 1]
      /\ index' = Trimmed(r.hist)
      /\ job' = job
  BY DEF Commit
<1>2. file.rev \in Nat \ {0}
  BY DEF IInv, FileShape
<1>3. FileShape'
  BY <1>1, <1>2 DEF FileShape, HasFields
<1>4. JobShape' /\ BaseHeld'
  BY <1>1 DEF IInv, JobShape, HasFields, Whole, BaseHeld
<1>5. file'.rev = file.rev + 1 /\ file'.hist = index'
  BY <1>1
<1>6. CopyCurrent' /\ ReadCurrent'
  BY <1>1, <1>2, <1>5 DEF IInv, CopyCurrent, ReadCurrent
<1>7. IndexKept'
  BY <1>1, <1>5 DEF IndexKept, Locked
<1> QED BY <1>3, <1>4, <1>6, <1>7 DEF IInv

LEMMA WritersKeep ==
  ASSUME IInv, Writers
  PROVE  IInv'
<1>1. CASE \E what \in Edits \cup {Preview} : \E data \in ChangesOf(file.data) : Edit(what, data)
  <2>1. PICK what, data : Edit(what, data)
    BY <1>1
  <2>2. ~Locked /\ \E r : Commit(r)
    BY <2>1 DEF Edit, WriterMayStart
  <2> QED BY <2>2, CommitKeeps
<1>2. CASE \E i \in 1..MaxId : Move(i)
  <2>1. ~Locked /\ \E r : Commit(r)
    BY <1>2 DEF Move, WriterMayStart
  <2> QED BY <2>1, CommitKeeps
<1> QED BY <1>1, <1>2 DEF Writers

-----------------------------------------------------------------------------
(* The job between its saves: none of these steps writes a file.           *)
LEMMA WorkKeeps ==
  ASSUME IInv, NEW data, Work(data)
  PROVE  IInv'
<1>1. /\ job.at \in {"open", "based"}
      /\ job' = [job EXCEPT !.mem.data = data]
      /\ UNCHANGED <<file, index, loose>>
  BY DEF Work
<1>2. /\ HasFields(job, {"at", "mem", "base", "sig"})
      /\ HasFields(job.mem, {"data", "hist"})
  BY <1>1 DEF IInv, JobShape, Whole
<1>3. job' = [job EXCEPT !.mem = [job.mem EXCEPT !.data = data]]
  BY <1>1
<1>4. /\ HasFields(job', {"at", "mem", "base", "sig"})
      /\ job'.at = job.at /\ job'.base = job.base /\ job'.sig = job.sig
      /\ job'.mem = [job.mem EXCEPT !.data = data]
  BY <1>2, <1>3 DEF HasFields
<1>5. HasFields(job'.mem, {"data", "hist"}) /\ job'.mem.hist = job.mem.hist
  BY <1>2, <1>4 DEF HasFields
<1>6. JobShape'
  BY <1>1, <1>4, <1>5 DEF IInv, JobShape, Whole
<1>7. CopyCurrent' /\ ReadCurrent' /\ BaseHeld' /\ IndexKept' /\ FileShape'
  BY <1>1, <1>4, <1>5
  DEF IInv, FileShape, CopyCurrent, ReadCurrent, BaseHeld, IndexKept
<1> QED BY <1>6, <1>7 DEF IInv

LEMMA ReadKeeps ==
  ASSUME IInv, Read
  PROVE  IInv'
<1>1. /\ job.at \in {"open", "based"}
      /\ job' = [at |-> "read", mem |-> job.mem, sig |-> job.sig, base |-> Project,
                 rev |-> file.rev]
      /\ UNCHANGED <<file, index, loose>>
  BY DEF Read
<1>2. JobShape'
  BY <1>1 DEF IInv, JobShape, HasFields, Whole, Project
<1>3. CopyCurrent' /\ ReadCurrent' /\ BaseHeld' /\ IndexKept' /\ FileShape'
  BY <1>1
  DEF IInv, FileShape, CopyCurrent, ReadCurrent, BaseHeld, IndexKept, Project
<1> QED BY <1>2, <1>3 DEF IInv

(* Changes that are kept were made on the very revision the base was read  *)
(* at, so copy and base have one history; otherwise the copy is the base.  *)
LEMMA CheckpointKeeps ==
  ASSUME IInv, Checkpoint
  PROVE  IInv'
<1> DEFINE keeps == file.rev = job.rev /\ job.rev = job.sig
           held  == IF keeps THEN job.mem ELSE job.base
           sig   == IF file.rev = job.rev THEN job.rev ELSE Unknown
<1>1. /\ job.at = "read"
      /\ job' = [at |-> "based", base |-> job.base, mem |-> held, sig |-> sig]
      /\ UNCHANGED <<file, index, loose>>
  BY DEF Checkpoint
<1>2. file.rev \in Nat \ {0} /\ Whole(job.mem) /\ Whole(job.base)
  BY <1>1 DEF IInv, FileShape, JobShape
<1>3. file.rev = job.rev => job.base.hist = file.hist
  BY <1>1 DEF IInv, ReadCurrent
<1>4. file.rev = job.sig => job.mem.hist = file.hist
  BY <1>1 DEF IInv, CopyCurrent
<1>5. held.hist = job.base.hist /\ Whole(held)
  BY <1>2, <1>3, <1>4
<1>6. sig \in Nat /\ sig <= file.rev /\ (sig = file.rev => held.hist = file.hist)
  BY <1>2, <1>3, <1>5 DEF Unknown
<1> HIDE DEF held, sig
<1>7. JobShape'
  BY <1>1, <1>2, <1>5 DEF JobShape, HasFields, Whole
<1>8. CopyCurrent' /\ ReadCurrent' /\ BaseHeld'
  BY <1>1, <1>5, <1>6 DEF CopyCurrent, ReadCurrent, BaseHeld
<1>9. IndexKept' /\ FileShape'
  BY <1>1 DEF IInv, FileShape, IndexKept
<1> QED BY <1>7, <1>8, <1>9 DEF IInv

(* The project is opened again: its data, its history and its revision.    *)
LEMMA OpenedKeeps ==
  ASSUME IInv, job' = Opened(Project, file.rev), UNCHANGED <<file, index>>,
         loose' \/ index = file.hist
  PROVE  IInv'
<1>1. job' = [at |-> "open", mem |-> Project, base |-> NoBase, sig |-> file.rev]
  BY DEF Opened
<1>2. JobShape'
  BY <1>1 DEF JobShape, HasFields, Whole, Project
<1>3. CopyCurrent' /\ ReadCurrent' /\ BaseHeld' /\ IndexKept' /\ FileShape'
  BY <1>1
  DEF IInv, FileShape, CopyCurrent, ReadCurrent, BaseHeld, IndexKept, Project
<1> QED BY <1>2, <1>3 DEF IInv

LEMMA DiscardKeeps ==
  ASSUME IInv, Discard
  PROVE  IInv'
<1>1. /\ job.at = "based"
      /\ job' = Opened(Project, file.rev)
      /\ UNCHANGED <<file, index, loose>>
  BY DEF Discard
<1>2. loose' \/ index = file.hist
  BY <1>1 DEF IInv, IndexKept
<1> QED BY <1>1, <1>2, OpenedKeeps

-----------------------------------------------------------------------------
(* A save.  Until episode.sharecut is replaced the job remembers the index *)
(* it found, and its copy stays as it was.                                 *)
LEMMA BeginSaveKeeps ==
  ASSUME IInv, NEW label, BeginSave(label)
  PROVE  IInv'
<1> DEFINE r == ToSave(label)
<1>1. /\ job.at = "based"
      /\ job' = [at |-> "writing", mem |-> job.mem, base |-> job.base, label |-> label,
                 next |-> [data |-> r.data, hist |-> r.hist],
                 own |-> nextId..(r.id - 1), indexBefore |-> index]
      /\ UNCHANGED <<file, loose>>
  BY DEF BeginSave
<1> HIDE DEF r
<1>2. JobShape'
  BY <1>1 DEF IInv, JobShape, HasFields, Whole
<1>3. CopyCurrent' /\ ReadCurrent' /\ BaseHeld' /\ IndexKept' /\ FileShape'
  BY <1>1 DEF IInv, FileShape, CopyCurrent, ReadCurrent, BaseHeld, IndexKept
<1> QED BY <1>2, <1>3 DEF IInv

LEMMA RefuseSaveKeeps ==
  ASSUME IInv, NEW label, RefuseSave(label)
  PROVE  IInv'
<1>1. /\ job.at = "based"
      /\ job' = [job EXCEPT !.sig = Unknown]
      /\ UNCHANGED <<file, index, loose>>
  BY DEF RefuseSave
<1>2. HasFields(job, {"at", "mem", "base", "sig"})
  BY <1>1 DEF IInv, JobShape
<1>3. /\ HasFields(job', {"at", "mem", "base", "sig"})
      /\ job'.at = "based" /\ job'.mem = job.mem /\ job'.base = job.base
      /\ job'.sig = Unknown
  BY <1>1, <1>2 DEF HasFields
<1>4. JobShape'
  BY <1>1, <1>3 DEF IInv, JobShape, Whole
<1>5. CopyCurrent' /\ ReadCurrent' /\ BaseHeld' /\ IndexKept' /\ FileShape'
  BY <1>1, <1>3
  DEF IInv, FileShape, CopyCurrent, ReadCurrent, BaseHeld, IndexKept, Unknown
<1> QED BY <1>4, <1>5 DEF IInv

LEMMA LandKeeps ==
  ASSUME IInv, Land
  PROVE  IInv'
<1> DEFINE h == Trimmed(job.next.hist)
<1>1. /\ job.at = "writing"
      /\ index' = h
      /\ file' = [data |-> job.next.data, hist |-> h, rev |-> file.rev + 1]
      /\ job' = [at |-> "landed", mem |-> job.mem, base |-> job.base,
                 next |-> [job.next EXCEPT !.hist = h],
                 pruned |-> PrunedIds(job.next.hist)]
  BY DEF Land
<1> HIDE DEF h
<1>2. HasFields([job.next EXCEPT !.hist = h], {"data", "hist"})
  BY <1>1 DEF IInv, JobShape, Whole, HasFields
<1>3. JobShape'
  BY <1>1, <1>2 DEF IInv, JobShape, HasFields, Whole
<1>4. FileShape'
  BY <1>1 DEF IInv, FileShape, HasFields
<1>5. CopyCurrent' /\ ReadCurrent' /\ BaseHeld' /\ IndexKept'
  BY <1>1 DEF IInv, CopyCurrent, ReadCurrent, BaseHeld, IndexKept
<1> QED BY <1>3, <1>4, <1>5 DEF IInv

LEMMA AdoptKeeps ==
  ASSUME IInv, job.at = "landed", Adopt, UNCHANGED <<file, index, loose>>
  PROVE  IInv'
<1>1. job' = [at |-> "based", mem |-> job.next, base |-> job.next, sig |-> Unknown]
  BY DEF Adopt
<1>2. JobShape'
  BY <1>1 DEF IInv, JobShape, HasFields, Whole
<1>3. CopyCurrent' /\ ReadCurrent' /\ BaseHeld' /\ IndexKept' /\ FileShape'
  BY <1>1
  DEF IInv, FileShape, CopyCurrent, ReadCurrent, BaseHeld, IndexKept, Unknown
<1> QED BY <1>2, <1>3 DEF IInv

(* A save that failed, or whose fate nobody knows: the copy has the        *)
(* history of its base, and the index is the file's or known to be loose.  *)
LEMMA BackKeeps ==
  ASSUME IInv, Locked, job' = Back, UNCHANGED file, loose' \/ index' = file.hist
  PROVE  IInv'
<1>1. job' = [at |-> "based", mem |-> job.mem, base |-> job.base, sig |-> Unknown]
  BY DEF Back
<1>2. JobShape'
  BY <1>1 DEF IInv, JobShape, HasFields, Whole, Locked
<1>3. CopyCurrent' /\ ReadCurrent' /\ BaseHeld' /\ IndexKept' /\ FileShape'
  BY <1>1
  DEF IInv, FileShape, CopyCurrent, ReadCurrent, BaseHeld, IndexKept, Unknown, Locked
<1> QED BY <1>2, <1>3 DEF IInv

LEMMA FailuresKeep ==
  ASSUME IInv, FailSave \/ FailUnknown \/ Die
  PROVE  IInv'
<1>1. CASE FailSave
  <2>1. Locked /\ job' = Back /\ UNCHANGED file
    BY <1>1 DEF FailSave, Locked
  <2>2. loose' \/ index' = file.hist
    BY <1>1 DEF FailSave, IInv, IndexKept
  <2> QED BY <2>1, <2>2, BackKeeps
<1>2. CASE FailUnknown
  <2>1. Locked /\ job' = Back /\ UNCHANGED file
    BY <1>2 DEF FailUnknown
  <2>2. loose' \/ index' = file.hist
    BY <1>2 DEF FailUnknown, IInv, IndexKept
  <2> QED BY <2>1, <2>2, BackKeeps
<1>3. CASE Die
  <2>1. job' = Opened(Project, file.rev) /\ UNCHANGED <<file, index>>
    BY <1>3 DEF Die
  <2>2. loose' \/ index = file.hist
    BY <1>3 DEF Die, IInv, IndexKept
  <2> QED BY <2>1, <2>2, OpenedKeeps
<1> QED BY <1>1, <1>2, <1>3

-----------------------------------------------------------------------------
LEMMA NextKeeps ==
  ASSUME IInv, [Next]_vars
  PROVE  IInv'
<1>1. CASE \E data \in ChangesOf(job.mem.data) : Work(data)
  BY <1>1, WorkKeeps
<1>2. CASE Saves
  BY <1>2, BeginSaveKeeps, RefuseSaveKeeps DEF Saves
<1>3. CASE Finish \/ FailLanded
  BY <1>3, AdoptKeeps DEF Finish, FailLanded
<1>4. CASE UNCHANGED vars
  BY <1>4 DEF vars, IInv, FileShape, JobShape, HasFields, Whole, CopyCurrent, ReadCurrent,
              BaseHeld, IndexKept
<1> QED
  BY <1>1, <1>2, <1>3, <1>4, WritersKeep, ReadKeeps, CheckpointKeeps, DiscardKeeps,
     LandKeeps, FailuresKeep DEF Next

(* A refused or failed save leaves no entry, neither in the job's copy nor *)
(* in the index on disk, whatever the projects, the labels and the bounds, *)
(* and whatever the merge makes of two histories.                          *)
THEOREM FailedSaveLeavesNothing == Spec => []FailureLeavesNoEntry
<1>1. IInv /\ [Next]_vars => IInv'
  BY NextKeeps
<1>2. IInv => FailureLeavesNoEntry
  BY DEF IInv, BaseHeld, IndexKept, FailureLeavesNoEntry
<1> QED BY InitInv, <1>1, <1>2, PTL DEF Spec

-----------------------------------------------------------------------------
(* Nth counts a finite set of numbers from its least to its greatest.      *)
LEMMA RankRises ==
  ASSUME NEW keep \in SUBSET Nat, IsFiniteSet(keep)
  PROVE  /\ \A i \in keep : Cardinality(UpTo(keep, i)) \in 1..Cardinality(keep)
         /\ \A i, k \in keep : i < k => Cardinality(UpTo(keep, i)) < Cardinality(UpTo(keep, k))
<1>1. Cardinality(keep) \in Nat
  BY FS_CardinalityType
<1>2. ASSUME NEW i \in keep
      PROVE  /\ IsFiniteSet(UpTo(keep, i))
             /\ Cardinality(UpTo(keep, i)) \in 1..Cardinality(keep)
  <2>1. UpTo(keep, i) \in SUBSET keep /\ i \in UpTo(keep, i)
    BY DEF UpTo
  <2>2. /\ IsFiniteSet(UpTo(keep, i)) /\ Cardinality(UpTo(keep, i)) \in Nat
        /\ Cardinality(UpTo(keep, i)) <= Cardinality(keep)
    BY <2>1, FS_Subset, FS_CardinalityType
  <2>3. Cardinality(UpTo(keep, i)) # 0
    BY <2>1, <2>2, FS_EmptySet
  <2> QED BY <1>1, <2>2, <2>3
<1>3. ASSUME NEW i \in keep, NEW k \in keep, i < k
      PROVE  Cardinality(UpTo(keep, i)) < Cardinality(UpTo(keep, k))
  <2>1. ~(k <= i) /\ k <= k /\ \A j \in keep : j <= i => j <= k
    BY <1>3
  <2> DEFINE lower == UpTo(keep, i)
             upper == UpTo(keep, k)
  <2>2. lower \in SUBSET upper /\ lower # upper
    <3>1. \A j \in lower : j \in upper
      BY <2>1, Zenon DEF UpTo
    <3>2. k \in upper /\ k \notin lower
      BY <2>1, Zenon DEF UpTo
    <3> QED BY <3>1, <3>2
  <2>3. IsFiniteSet(upper) /\ Cardinality(lower) \in Nat /\ Cardinality(upper) \in Nat
    BY <1>2, <1>1
  <2> HIDE DEF lower, upper
  <2>4. Cardinality(lower) < Cardinality(upper)
    BY <2>2, <2>3, FS_Subset
  <2> QED BY <2>4 DEF lower, upper
<1> QED BY <1>2, <1>3

LEMMA NthCounts ==
  ASSUME NEW keep \in SUBSET Nat, IsFiniteSet(keep)
  PROVE  /\ Cardinality(keep) \in Nat
         /\ \A n \in 1..Cardinality(keep) : Nth(keep, n) \in keep
         /\ \A m, n \in 1..Cardinality(keep) : m < n => Nth(keep, m) < Nth(keep, n)
         /\ \A i \in keep : \E n \in 1..Cardinality(keep) : Nth(keep, n) = i
<1> DEFINE rank(i) == Cardinality(UpTo(keep, i))
           size == Cardinality(keep)
<1>1. /\ size \in Nat
      /\ \A i \in keep : rank(i) \in 1..size
      /\ \A i, k \in keep : i < k => rank(i) < rank(k)
  BY RankRises, FS_CardinalityType
<1>2. \A i, k \in keep : rank(i) = rank(k) => i = k
  BY <1>1
<1>3. ASSUME NEW n \in 1..size PROVE \E i \in keep : rank(i) = n
  <2> SUFFICES ASSUME \A i \in keep : rank(i) # n PROVE FALSE
    OBVIOUS
  <2> DEFINE all    == 1..size
             others == all \ {n}
             f      == [i \in keep |-> rank(i)]
  <2>1. IsFiniteSet(all) /\ Cardinality(all) = size /\ n \in all
    BY <1>1, FS_Interval
  <2>2. f \in [keep -> others]
    BY <1>1
  <2>3. \A x, y \in keep : f[x] = f[y] => x = y
    BY <1>2
  <2> HIDE DEF f, all, size
  <2>4. IsFiniteSet(others) /\ Cardinality(others) = size - 1
    BY <2>1, FS_RemoveElement
  <2> HIDE DEF others
  <2>5. Cardinality(others) < Cardinality(keep)
    BY <1>1, <2>4 DEF size
  <2>6. \E x, y \in keep : x # y /\ f[x] = f[y]
    BY <2>2, <2>4, <2>5, FS_PigeonHole
  <2> QED BY <2>3, <2>6
<1>4. \A n \in 1..size : Nth(keep, n) \in keep /\ rank(Nth(keep, n)) = n
  BY <1>3 DEF Nth
<1>5. \A i \in keep : Nth(keep, rank(i)) = i
  BY <1>1, <1>2, <1>4
<1> HIDE DEF rank, size
<1>6. ASSUME NEW m \in 1..size, NEW n \in 1..size, m < n
      PROVE  Nth(keep, m) < Nth(keep, n)
  <2>1. /\ Nth(keep, m) \in keep /\ Nth(keep, n) \in keep
        /\ rank(Nth(keep, m)) = m /\ rank(Nth(keep, n)) = n
    BY <1>4
  <2>2. Nth(keep, n) < Nth(keep, m) => n < m
    BY <1>1, <2>1
  <2>3. Nth(keep, n) = Nth(keep, m) => n = m
    BY <2>1
  <2>4. Nth(keep, n) \in Nat /\ Nth(keep, m) \in Nat
    BY <2>1
  <2>5. m \in Int /\ n \in Int
    OBVIOUS
  <2> QED BY <1>6, <2>2, <2>3, <2>4, <2>5
<1>7. \A i \in keep : \E n \in 1..size : Nth(keep, n) = i
  BY <1>1, <1>5
<1> QED BY <1>1, <1>4, <1>6, <1>7 DEF size

(* What is picked: every member chosen, once, in its order.                *)
LEMMA PickedHas ==
  ASSUME NEW S, NEW keep \in SUBSET Nat, IsFiniteSet(keep),
         NEW f, \A i \in keep : f[i] \in S
  PROVE  /\ Picked(f, keep) \in Seq(S)
         /\ DOMAIN Picked(f, keep) = 1..Cardinality(keep)
         /\ \A n \in DOMAIN Picked(f, keep) :
              Nth(keep, n) \in keep /\ Picked(f, keep)[n] = f[Nth(keep, n)]
         /\ \A m, n \in DOMAIN Picked(f, keep) : m < n => Nth(keep, m) < Nth(keep, n)
         /\ \A i \in keep : \E n \in DOMAIN Picked(f, keep) : Nth(keep, n) = i
<1> DEFINE size == Cardinality(keep)
<1>1. /\ size \in Nat
      /\ \A n \in 1..size : Nth(keep, n) \in keep
      /\ \A m, n \in 1..size : m < n => Nth(keep, m) < Nth(keep, n)
      /\ \A i \in keep : \E n \in 1..size : Nth(keep, n) = i
  BY NthCounts
<1> HIDE DEF size
<1>2. Picked(f, keep) = [n \in 1..size |-> f[Nth(keep, n)]]
  BY DEF Picked, size
<1>3. \A n \in 1..size : f[Nth(keep, n)] \in S
  BY <1>1
<1>4. Picked(f, keep) \in Seq(S)
  BY <1>1, <1>2, <1>3
<1> QED BY <1>1, <1>2, <1>4 DEF size

(* Two sequences of the same things in the same order are the same.        *)
LEMMA SameOrder ==
  ASSUME NEW S, NEW p \in Seq(S), NEW q \in Seq(S),
         \A n \in DOMAIN p : \E k \in DOMAIN q : q[k] = p[n],
         \A k \in DOMAIN q : \E n \in DOMAIN p : p[n] = q[k],
         \A m, n \in DOMAIN p : m < n => p[m] # p[n],
         \A k, l \in DOMAIN q : k < l => q[k] # q[l],
         \A m, n \in DOMAIN p, k, l \in DOMAIN q :
           m < n /\ p[m] = q[l] /\ p[n] = q[k] => l < k
  PROVE  p = q
<1>1. /\ Len(p) \in Nat /\ DOMAIN p = 1..Len(p) /\ Len(q) \in Nat /\ DOMAIN q = 1..Len(q)
  BY LenProperties
<1>2. ASSUME NEW n \in DOMAIN p, NEW k \in DOMAIN q, p[n] = q[k]
      PROVE  n = k
  <2> DEFINE h == [m \in 1..n |-> CHOOSE l \in DOMAIN q : q[l] = p[m]]
  <2>1. \A m \in 1..n : m \in DOMAIN p
    BY <1>1
  <2>2. \A m \in 1..n : h[m] \in DOMAIN q /\ q[h[m]] = p[m]
    BY <2>1
  <2>3. h[n] = k /\ n \in 1..n
    BY <1>1, <1>2, <2>2
  <2> HIDE DEF h
  <2>4. \A m \in 1..n : h[m] \in 1..k
    <3> SUFFICES ASSUME NEW m \in 1..n PROVE h[m] \in 1..k
      OBVIOUS
    <3>1. CASE m = n
      BY <1>1, <2>3, <3>1
    <3>2. CASE m < n
      <4>1. m \in DOMAIN p /\ h[m] \in DOMAIN q /\ q[h[m]] = p[m]
        BY <2>1, <2>2
      <4>2. h[m] < k
        BY <1>2, <3>2, <4>1
      <4> QED BY <1>1, <4>1, <4>2
    <3> QED BY <3>1, <3>2, <1>1
  <2>5. \A i, j \in 1..n : h[i] = h[j] => i = j
    <3> SUFFICES ASSUME NEW i \in 1..n, NEW j \in 1..n, h[i] = h[j] PROVE i = j
      OBVIOUS
    <3>1. p[i] = p[j] /\ i \in DOMAIN p /\ j \in DOMAIN p
      BY <2>1, <2>2
    <3>2. ~(i < j) /\ ~(j < i)
      BY <3>1
    <3> QED BY <3>2
  <2>6. \A l \in 1..k : \E m \in 1..n : h[m] = l
    <3> SUFFICES ASSUME NEW l \in 1..k PROVE \E m \in 1..n : h[m] = l
      OBVIOUS
    <3>1. l \in DOMAIN q
      BY <1>1
    <3>2. PICK m \in DOMAIN p : p[m] = q[l]
      BY <3>1
    <3>3. ~(n < m)
      <4>1. n < m => k < l
        BY <1>2, <3>1, <3>2
      <4> QED BY <1>1, <4>1
    <3>4. m \in 1..n
      BY <1>1, <3>3
    <3>5. q[h[m]] = q[l] /\ h[m] \in DOMAIN q
      BY <2>2, <3>2, <3>4
    <3>6. ~(h[m] < l) /\ ~(l < h[m])
      BY <3>1, <3>5
    <3>7. h[m] \in Int /\ l \in Int
      BY <1>1, <3>5
    <3>8. h[m] = l
      BY <3>6, <3>7
    <3> QED BY <3>4, <3>8
  <2> DEFINE A == 1..n
             B == 1..k
  <2>7. /\ IsFiniteSet(A) /\ Cardinality(A) = n
        /\ Cardinality(B) = k
    BY <1>1, FS_Interval
  <2>8. h \in Bijection(A, B)
    <3>1. h = [m \in A |-> h[m]]
      BY DEF h
    <3>2. h \in [A -> B]
      BY <2>4, <3>1
    <3> QED BY <2>5, <2>6, <3>2 DEF Bijection, Injection, Surjection, IsInjective
  <2> HIDE DEF A, B
  <2>9. ExistsBijection(A, B)
    BY <2>8 DEF ExistsBijection
  <2> QED BY <2>7, <2>9, FS_Bijection
<1>3. Len(p) = Len(q)
  <2>1. \A n \in DOMAIN p : n \in DOMAIN q
    BY <1>2
  <2>2. \A k \in DOMAIN q : k \in DOMAIN p
    BY <1>2
  <2>3. Len(p) > 0 => Len(p) <= Len(q)
    BY <1>1, <2>1
  <2>4. Len(q) > 0 => Len(q) <= Len(p)
    BY <1>1, <2>2
  <2>5. Len(p) \in Nat /\ Len(q) \in Nat
    BY <1>1
  <2> QED BY <2>3, <2>4, <2>5
<1>4. \A n \in 1..Len(p) : p[n] = q[n]
  BY <1>1, <1>2
<1> QED BY <1>3, <1>4, SeqEqual

-----------------------------------------------------------------------------
(* A list: no two of its members have the same id.                         *)
Listed(S, list) ==
  /\ list \in Seq(S)
  /\ \A m, n \in DOMAIN list : list[m].id = list[n].id => m = n

(* The item with an id is the one at its place; other ids have none.       *)
LEMMA ItemFound ==
  ASSUME NEW S, NEW list, Listed(S, list)
  PROVE  /\ \A n \in DOMAIN list : list[n] \in S /\ ItemOf(list, list[n].id) = list[n]
         /\ \A i \in IdsOf(list) : /\ ItemOf(list, i) \in S /\ ItemOf(list, i).id = i
                                   /\ \E n \in DOMAIN list : list[n] = ItemOf(list, i)
         /\ \A i : i \notin IdsOf(list) => ItemOf(list, i) = Absent
<1>1. ASSUME NEW n \in DOMAIN list
      PROVE  list[n] \in S /\ ItemOf(list, list[n].id) = list[n]
  <2>1. list[n] \in ToSet(list) /\ list[n].id \in IdsOf(list)
    BY DEF ToSet, IdsOf
  <2>2. \A x \in ToSet(list) : x.id = list[n].id => x = list[n]
    BY DEF ToSet, Listed
  <2>3. ItemOf(list, list[n].id) = list[n]
    BY <2>1, <2>2 DEF ItemOf
  <2> QED BY <2>3 DEF Listed
<1>2. \A i \in IdsOf(list) : \E n \in DOMAIN list : list[n].id = i
  BY DEF IdsOf
<1>3. ASSUME NEW i \in IdsOf(list)
      PROVE  /\ ItemOf(list, i) \in S /\ ItemOf(list, i).id = i
             /\ \E n \in DOMAIN list : list[n] = ItemOf(list, i)
  BY <1>1, <1>2
<1>4. \A i : i \notin IdsOf(list) => ItemOf(list, i) = Absent
  BY DEF ItemOf
<1> QED BY <1>1, <1>3, <1>4

(* Of two items of a list one comes first.                                 *)
LEMMA BeforeIsStrict ==
  ASSUME NEW S, NEW list, Listed(S, list), NEW x, NEW y, Before(list, x, y)
  PROVE  /\ x \in IdsOf(list) /\ y \in IdsOf(list)
         /\ ~Before(list, y, x)
<1>1. PICK m, n \in DOMAIN list : m < n /\ list[m].id = x /\ list[n].id = y
  BY DEF Before
<1>2. x \in IdsOf(list) /\ y \in IdsOf(list)
  BY <1>1 DEF IdsOf
<1>3. ASSUME NEW k \in DOMAIN list, NEW l \in DOMAIN list, k < l,
             list[k].id = y, list[l].id = x
      PROVE  FALSE
  <2>1. k = n /\ l = m
    BY <1>1, <1>3 DEF Listed
  <2>2. m \in Int /\ n \in Int
    BY DEF Listed
  <2> QED BY <1>1, <1>3, <2>1, <2>2
<1> QED BY <1>2, <1>3 DEF Before

(* Kept takes the ids it is given, in the order they are in.               *)
LEMMA KeptHas ==
  ASSUME NEW N, NEW order \in Seq(N), NEW ids,
         \A m, n \in DOMAIN order : order[m] = order[n] => m = n
  PROVE  /\ Kept(order, ids) \in Seq(N)
         /\ \A n \in DOMAIN Kept(order, ids) :
              Kept(order, ids)[n] \in ids /\ \E k \in DOMAIN order : Kept(order, ids)[n] = order[k]
         /\ \A k \in DOMAIN order : order[k] \in ids =>
              \E n \in DOMAIN Kept(order, ids) : Kept(order, ids)[n] = order[k]
         /\ \A m, n \in DOMAIN Kept(order, ids) : m < n =>
              \E k, l \in DOMAIN order :
                k < l /\ Kept(order, ids)[m] = order[k] /\ Kept(order, ids)[n] = order[l]
         /\ \A m, n \in DOMAIN Kept(order, ids) :
              Kept(order, ids)[m] = Kept(order, ids)[n] => m = n
<1> DEFINE keep == {n \in DOMAIN order : order[n] \in ids}
<1>1. /\ keep \in SUBSET Nat /\ IsFiniteSet(keep)
      /\ \A i \in keep : order[i] \in N
  <2>1. Len(order) \in Nat /\ DOMAIN order = 1..Len(order)
    BY LenProperties
  <2>2. IsFiniteSet(DOMAIN order)
    BY <2>1, FS_Interval
  <2>3. keep \in SUBSET DOMAIN order
    OBVIOUS
  <2>4. IsFiniteSet(keep)
    BY <2>2, <2>3, FS_Subset
  <2> QED BY <2>1, <2>3, <2>4
<1>2. \A i \in keep : i \in DOMAIN order /\ order[i] \in ids
  OBVIOUS
<1>3. \A k \in DOMAIN order : order[k] \in ids => k \in keep
  OBVIOUS
<1>4. Kept(order, ids) = Picked(order, keep)
  BY DEF Kept
<1> HIDE DEF keep
<1> DEFINE p == Picked(order, keep)
<1>5. /\ p \in Seq(N)
      /\ DOMAIN p = 1..Cardinality(keep)
      /\ \A n \in DOMAIN p : Nth(keep, n) \in keep /\ p[n] = order[Nth(keep, n)]
      /\ \A m, n \in DOMAIN p : m < n => Nth(keep, m) < Nth(keep, n)
      /\ \A i \in keep : \E n \in DOMAIN p : Nth(keep, n) = i
  BY <1>1, PickedHas
<1> HIDE DEF p
<1>6. \A n \in DOMAIN p : p[n] \in ids /\ \E k \in DOMAIN order : p[n] = order[k]
  BY <1>2, <1>5
<1>7. \A k \in DOMAIN order : order[k] \in ids => \E n \in DOMAIN p : p[n] = order[k]
  BY <1>3, <1>5
<1>8. ASSUME NEW m \in DOMAIN p, NEW n \in DOMAIN p, m < n
      PROVE  \E k, l \in DOMAIN order : k < l /\ p[m] = order[k] /\ p[n] = order[l]
  BY <1>2, <1>5, <1>8
<1>9. ASSUME NEW m \in DOMAIN p, NEW n \in DOMAIN p, p[m] = p[n]
      PROVE  m = n
  <2>1. Nth(keep, m) = Nth(keep, n) /\ Nth(keep, m) \in Nat
    BY <1>1, <1>2, <1>5, <1>9
  <2>2. ~(m < n) /\ ~(n < m)
    BY <1>5, <2>1
  <2>3. m \in Int /\ n \in Int
    BY <1>5
  <2> QED BY <2>2, <2>3
<1>10. Kept(order, ids) = p
  BY <1>4 DEF p
<1> QED BY <1>10, <1>5, <1>6, <1>7, <1>8, <1>9

(* The order of a list: its ids, each once.                                *)
LEMMA OrderIsListed ==
  ASSUME NEW S, NEW list, Listed(S, list)
  PROVE  /\ OrderOf(list) \in Seq(IdsOf(list))
         /\ DOMAIN OrderOf(list) = DOMAIN list
         /\ \A n \in DOMAIN list : OrderOf(list)[n] = list[n].id
         /\ \A m, n \in DOMAIN OrderOf(list) : OrderOf(list)[m] = OrderOf(list)[n] => m = n
         /\ \A i \in IdsOf(list) : \E n \in DOMAIN OrderOf(list) : OrderOf(list)[n] = i
<1>1. Len(list) \in Nat /\ DOMAIN list = 1..Len(list)
  BY LenProperties DEF Listed
<1>2. OrderOf(list) = [n \in 1..Len(list) |-> list[n].id]
  BY <1>1 DEF OrderOf
<1>3. \A n \in 1..Len(list) : list[n].id \in IdsOf(list)
  BY <1>1 DEF IdsOf
<1>4. OrderOf(list) \in Seq(IdsOf(list))
  BY <1>1, <1>2, <1>3
<1>5. \A i \in IdsOf(list) : \E n \in DOMAIN list : list[n].id = i
  BY DEF IdsOf
<1> QED BY <1>1, <1>2, <1>4, <1>5 DEF Listed

(* Placed lists what either has, what the first has in its order.          *)
LEMMA PlacedHas ==
  ASSUME NEW S, NEW f, Listed(S, f), NEW s, Listed(S, s)
  PROVE  /\ Placed(f, s) \in Seq(IdsOf(f) \cup IdsOf(s))
         /\ \A m, n \in DOMAIN Placed(f, s) : Placed(f, s)[m] = Placed(f, s)[n] => m = n
         /\ \A i \in IdsOf(f) \cup IdsOf(s) : \E n \in DOMAIN Placed(f, s) : Placed(f, s)[n] = i
         /\ \A m, n \in DOMAIN Placed(f, s) :
              m < n /\ Placed(f, s)[n] \in IdsOf(f) =>
                Before(f, Placed(f, s)[m], Placed(f, s)[n])
<1> DEFINE N == IdsOf(f) \cup IdsOf(s)
           p == OrderOf(f)
           q == Kept(OrderOf(s), IdsOf(s) \ IdsOf(f))
           c == p \o q
<1>1. /\ p \in Seq(IdsOf(f)) /\ DOMAIN p = DOMAIN f
      /\ \A n \in DOMAIN f : p[n] = f[n].id
      /\ \A m, n \in DOMAIN p : p[m] = p[n] => m = n
      /\ \A i \in IdsOf(f) : \E n \in DOMAIN p : p[n] = i
  BY OrderIsListed
<1>2. /\ OrderOf(s) \in Seq(IdsOf(s))
      /\ \A m, n \in DOMAIN OrderOf(s) : OrderOf(s)[m] = OrderOf(s)[n] => m = n
      /\ \A i \in IdsOf(s) : \E n \in DOMAIN OrderOf(s) : OrderOf(s)[n] = i
  BY OrderIsListed
<1>3. /\ q \in Seq(IdsOf(s))
      /\ \A n \in DOMAIN q : q[n] \in IdsOf(s) \ IdsOf(f)
      /\ \A k \in DOMAIN OrderOf(s) : OrderOf(s)[k] \in IdsOf(s) \ IdsOf(f) =>
           \E n \in DOMAIN q : q[n] = OrderOf(s)[k]
      /\ \A m, n \in DOMAIN q : q[m] = q[n] => m = n
  BY <1>2, KeptHas, ZenonT(60)
<1>4. \A i \in IdsOf(s) \ IdsOf(f) : \E n \in DOMAIN q : q[n] = i
  BY <1>2, <1>3
<1> HIDE DEF p, q
<1>5. p \in Seq(N) /\ q \in Seq(N)
  BY <1>1, <1>3, SeqMonotonic
<1> HIDE DEF N
<1>6. /\ c \in Seq(N) /\ Len(c) = Len(p) + Len(q)
      /\ \A i \in 1..Len(p) + Len(q) : c[i] = IF i <= Len(p) THEN p[i] ELSE q[i - Len(p)]
  BY <1>5, ConcatProperties
<1>7. /\ Len(p) \in Nat /\ DOMAIN p = 1..Len(p) /\ Len(q) \in Nat /\ DOMAIN q = 1..Len(q)
      /\ DOMAIN c = 1..(Len(p) + Len(q))
  BY <1>5, <1>6, LenProperties
<1> HIDE DEF c
<1>8. \A n \in DOMAIN c : \/ n \in DOMAIN p /\ c[n] = p[n]
                          \/ ~(n <= Len(p)) /\ n - Len(p) \in DOMAIN q /\ c[n] = q[n - Len(p)]
  BY <1>6, <1>7
<1>9. \A n \in DOMAIN p : p[n] \in IdsOf(f)
  BY <1>1
<1>10. ASSUME NEW m \in DOMAIN c, NEW n \in DOMAIN c, c[m] = c[n]
       PROVE  m = n
  <2>1. m \in Int /\ n \in Int /\ Len(p) \in Int
    BY <1>7
  <2>2. CASE m \in DOMAIN p /\ c[m] = p[m] /\ n \in DOMAIN p /\ c[n] = p[n]
    BY <1>1, <1>10, <2>2
  <2>3. CASE /\ m - Len(p) \in DOMAIN q /\ c[m] = q[m - Len(p)]
             /\ n - Len(p) \in DOMAIN q /\ c[n] = q[n - Len(p)]
    <3>1. m - Len(p) = n - Len(p)
      BY <1>3, <1>10, <2>3
    <3> QED BY <2>1, <3>1
  <2> QED BY <1>3, <1>8, <1>9, <1>10, <2>2, <2>3
<1>11. ASSUME NEW i \in N PROVE \E n \in DOMAIN c : c[n] = i
  <2>1. CASE i \in IdsOf(f)
    <3>1. PICK n \in DOMAIN p : p[n] = i
      BY <1>1, <2>1
    <3>2. n \in 1..Len(p) + Len(q) /\ n <= Len(p)
      BY <1>7
    <3> QED BY <1>6, <1>7, <3>1, <3>2
  <2>2. CASE i \notin IdsOf(f)
    <3>1. PICK n \in DOMAIN q : q[n] = i
      BY <1>4, <2>2 DEF N
    <3>2. /\ n + Len(p) \in 1..Len(p) + Len(q) /\ ~(n + Len(p) <= Len(p))
          /\ (n + Len(p)) - Len(p) = n
      BY <1>7
    <3>3. c[n + Len(p)] = q[n]
      BY <1>6, <3>2
    <3> QED BY <1>7, <3>1, <3>2, <3>3
  <2> QED BY <2>1, <2>2
<1>12. ASSUME NEW m \in DOMAIN c, NEW n \in DOMAIN c, m < n, c[n] \in IdsOf(f)
       PROVE  Before(f, c[m], c[n])
  <2>1. n \in DOMAIN p /\ c[n] = p[n]
    BY <1>3, <1>8, <1>12
  <2>2. m \in DOMAIN p /\ c[m] = p[m]
    <3>1. m <= Len(p)
      BY <1>7, <1>12, <2>1
    <3> QED BY <1>8, <3>1
  <2>3. c[m] = f[m].id /\ c[n] = f[n].id /\ m \in DOMAIN f /\ n \in DOMAIN f
    BY <1>1, <2>1, <2>2
  <2> QED BY <1>12, <2>3 DEF Before
<1>13. Placed(f, s) = c
  BY DEF Placed, c, p, q
<1> QED BY <1>6, <1>10, <1>11, <1>12, <1>13 DEF N

(* A side that puts no two of the base's items in another order kept it.   *)
LEMMA OrderKept ==
  ASSUME NEW S, NEW b, Listed(S, b), NEW o, Listed(S, o),
         \A x, y : Before(b, x, y) => ~Before(o, y, x)
  PROVE  KeptOrder(b, o)
<1> DEFINE p == Kept(OrderOf(o), IdsOf(b))
           q == Kept(OrderOf(b), IdsOf(o))
           N == IdsOf(b) \cup IdsOf(o)
<1>1. /\ OrderOf(o) \in Seq(IdsOf(o)) /\ DOMAIN OrderOf(o) = DOMAIN o
      /\ \A n \in DOMAIN o : OrderOf(o)[n] = o[n].id
      /\ \A m, n \in DOMAIN OrderOf(o) : OrderOf(o)[m] = OrderOf(o)[n] => m = n
      /\ \A i \in IdsOf(o) : \E n \in DOMAIN OrderOf(o) : OrderOf(o)[n] = i
  BY OrderIsListed
<1>2. /\ OrderOf(b) \in Seq(IdsOf(b)) /\ DOMAIN OrderOf(b) = DOMAIN b
      /\ \A n \in DOMAIN b : OrderOf(b)[n] = b[n].id
      /\ \A m, n \in DOMAIN OrderOf(b) : OrderOf(b)[m] = OrderOf(b)[n] => m = n
      /\ \A i \in IdsOf(b) : \E n \in DOMAIN OrderOf(b) : OrderOf(b)[n] = i
  BY OrderIsListed
<1>3. /\ p \in Seq(IdsOf(o))
      /\ \A n \in DOMAIN p : p[n] \in IdsOf(b) /\ \E k \in DOMAIN OrderOf(o) : p[n] = OrderOf(o)[k]
      /\ \A k \in DOMAIN OrderOf(o) : OrderOf(o)[k] \in IdsOf(b) =>
           \E n \in DOMAIN p : p[n] = OrderOf(o)[k]
      /\ \A m, n \in DOMAIN p : m < n =>
           \E k, l \in DOMAIN OrderOf(o) : k < l /\ p[m] = OrderOf(o)[k] /\ p[n] = OrderOf(o)[l]
      /\ \A m, n \in DOMAIN p : p[m] = p[n] => m = n
  BY <1>1, KeptHas
<1>4. /\ q \in Seq(IdsOf(b))
      /\ \A n \in DOMAIN q : q[n] \in IdsOf(o) /\ \E k \in DOMAIN OrderOf(b) : q[n] = OrderOf(b)[k]
      /\ \A k \in DOMAIN OrderOf(b) : OrderOf(b)[k] \in IdsOf(o) =>
           \E n \in DOMAIN q : q[n] = OrderOf(b)[k]
      /\ \A m, n \in DOMAIN q : m < n =>
           \E k, l \in DOMAIN OrderOf(b) : k < l /\ q[m] = OrderOf(b)[k] /\ q[n] = OrderOf(b)[l]
      /\ \A m, n \in DOMAIN q : q[m] = q[n] => m = n
  BY <1>2, KeptHas
<1> HIDE DEF p, q
<1>5. p \in Seq(N) /\ q \in Seq(N)
  BY <1>3, <1>4, SeqMonotonic
<1>6. \A n \in DOMAIN p : p[n] \in IdsOf(o) /\ p[n] \in IdsOf(b)
  BY <1>3
<1>7. \A n \in DOMAIN q : q[n] \in IdsOf(b) /\ q[n] \in IdsOf(o)
  BY <1>4
<1>8. \A n \in DOMAIN p : \E k \in DOMAIN q : q[k] = p[n]
  BY <1>2, <1>4, <1>6
<1>9. \A k \in DOMAIN q : \E n \in DOMAIN p : p[n] = q[k]
  BY <1>1, <1>3, <1>7
<1>10. ASSUME NEW m \in DOMAIN p, NEW n \in DOMAIN p, m < n
       PROVE  Before(o, p[m], p[n])
  <2>1. PICK k, l \in DOMAIN OrderOf(o) : k < l /\ p[m] = OrderOf(o)[k] /\ p[n] = OrderOf(o)[l]
    BY <1>3, <1>10
  <2> QED BY <1>1, <2>1 DEF Before
<1>11. ASSUME NEW m \in DOMAIN q, NEW n \in DOMAIN q, m < n
       PROVE  Before(b, q[m], q[n])
  <2>1. PICK k, l \in DOMAIN OrderOf(b) : k < l /\ q[m] = OrderOf(b)[k] /\ q[n] = OrderOf(b)[l]
    BY <1>4, <1>11
  <2> QED BY <1>2, <2>1 DEF Before
<1>12. ASSUME NEW m \in DOMAIN p, NEW n \in DOMAIN p, NEW k \in DOMAIN q, NEW l \in DOMAIN q,
              m < n, p[m] = q[l], p[n] = q[k]
       PROVE  l < k
  <2>1. Before(o, q[l], q[k])
    BY <1>10, <1>12
  <2>2. ~(k < l)
    BY <1>11, <2>1
  <2>3. k # l
    BY <1>3, <1>12
  <2>4. k \in Int /\ l \in Int
    BY <1>5
  <2> QED BY <2>2, <2>3, <2>4
<1>13. \A m, n \in DOMAIN p : m < n => p[m] # p[n]
  BY <1>3, <1>5
<1>14. \A k, l \in DOMAIN q : k < l => q[k] # q[l]
  BY <1>4, <1>5
<1> HIDE DEF N
<1>15. p = q
  BY <1>5, <1>8, <1>9, <1>12, <1>13, <1>14, SameOrder
<1> QED BY <1>15 DEF KeptOrder, p, q

(* What two sides of one base merge to: each item as chosen, and two items *)
(* the leading side has in its order.                                      *)
Leads(b, o, t) == IF KeptOrder(b, o) THEN t ELSE o

LEMMA ListsMerge ==
  ASSUME NEW S, Absent \notin S, NEW b, Listed(S, b), NEW o, Listed(S, o), NEW t, Listed(S, t)
  PROVE  /\ Listed(S, MergedLists(b, o, t))
         /\ \A i : ItemOf(MergedLists(b, o, t), i) = ChosenItem(b, o, t, i)
         /\ \A x, y : Before(MergedLists(b, o, t), x, y) /\ y \in IdsOf(Leads(b, o, t))
                      => Before(Leads(b, o, t), x, y)
<1> DEFINE N     == IdsOf(o) \cup IdsOf(t)
           whole == MergedOrder(b, o, t)
           stay  == Staying(b, o, t)
           order == Kept(whole, stay)
           list  == MergedLists(b, o, t)
           lead  == Leads(b, o, t)
<1>1. /\ whole \in Seq(N)
      /\ \A m, n \in DOMAIN whole : whole[m] = whole[n] => m = n
      /\ \A i \in N : \E n \in DOMAIN whole : whole[n] = i
      /\ \A m, n \in DOMAIN whole : m < n /\ whole[n] \in IdsOf(lead) =>
           Before(lead, whole[m], whole[n])
  <2>1. CASE KeptOrder(b, o)
    <3>1. whole = Placed(t, o) /\ lead = t /\ N = IdsOf(t) \cup IdsOf(o)
      BY <2>1 DEF MergedOrder, Leads
    <3> DEFINE w == Placed(t, o)
    <3> HIDE DEF whole, lead, N
    <3>2. /\ w \in Seq(IdsOf(t) \cup IdsOf(o))
          /\ \A m, n \in DOMAIN w : w[m] = w[n] => m = n
          /\ \A i \in IdsOf(t) \cup IdsOf(o) : \E n \in DOMAIN w : w[n] = i
          /\ \A m, n \in DOMAIN w : m < n /\ w[n] \in IdsOf(t) => Before(t, w[m], w[n])
      BY PlacedHas
    <3> HIDE DEF w
    <3> QED BY <3>1, <3>2 DEF w
  <2>2. CASE ~KeptOrder(b, o)
    <3>1. whole = Placed(o, t) /\ lead = o
      BY <2>2 DEF MergedOrder, Leads
    <3> HIDE DEF whole, lead
    <3> QED BY <3>1, PlacedHas
  <2> QED BY <2>1, <2>2
<1>2. /\ \A i : i \in stay <=> i \in N /\ ChosenItem(b, o, t, i) # Absent
      /\ list = [n \in DOMAIN order |-> ChosenItem(b, o, t, order[n])]
  BY DEF Staying, MergedLists
<1>3. \A i : i \notin N => ChosenItem(b, o, t, i) = Absent
  BY ItemFound DEF ChosenItem, Chosen
<1>4. \A i \in stay : ChosenItem(b, o, t, i) \in S /\ ChosenItem(b, o, t, i).id = i
  BY <1>2, ItemFound DEF ChosenItem, Chosen
<1> HIDE DEF whole, stay, N, list, lead
<1>5. /\ order \in Seq(N)
      /\ \A n \in DOMAIN order : order[n] \in stay /\ \E k \in DOMAIN whole : order[n] = whole[k]
      /\ \A k \in DOMAIN whole : whole[k] \in stay => \E n \in DOMAIN order : order[n] = whole[k]
      /\ \A m, n \in DOMAIN order : m < n =>
           \E k, l \in DOMAIN whole : k < l /\ order[m] = whole[k] /\ order[n] = whole[l]
      /\ \A m, n \in DOMAIN order : order[m] = order[n] => m = n
  BY <1>1, KeptHas
<1> HIDE DEF order
<1>6. /\ DOMAIN list = DOMAIN order
      /\ \A n \in DOMAIN order : list[n] \in S /\ list[n].id = order[n]
                                 /\ list[n] = ChosenItem(b, o, t, order[n])
  BY <1>2, <1>4, <1>5
<1>7. list \in Seq(S)
  <2>1. Len(order) \in Nat /\ DOMAIN order = 1..Len(order)
    BY <1>5, LenProperties
  <2>2. list \in [1..Len(order) -> S]
    BY <1>2, <1>6, <2>1
  <2> QED BY <2>1, <2>2
<1>8. Listed(S, list)
  BY <1>5, <1>6, <1>7 DEF Listed
<1>9. \A i \in stay : \E n \in DOMAIN list : list[n] = ChosenItem(b, o, t, i)
  <2> SUFFICES ASSUME NEW i \in stay
               PROVE  \E n \in DOMAIN list : list[n] = ChosenItem(b, o, t, i)
    OBVIOUS
  <2>1. \E n \in DOMAIN order : order[n] = i
    BY <1>1, <1>2, <1>5
  <2> QED BY <1>6, <2>1
<1>10. ASSUME NEW i PROVE ItemOf(list, i) = ChosenItem(b, o, t, i)
  <2>1. CASE i \in stay
    <3>1. PICK n \in DOMAIN list : list[n] = ChosenItem(b, o, t, i)
      BY <1>9, <2>1
    <3>2. ItemOf(list, list[n].id) = list[n]
      BY <1>8, ItemFound
    <3> QED BY <1>4, <2>1, <3>1, <3>2
  <2>2. CASE i \notin stay
    <3>1. i \notin IdsOf(list)
      BY <1>5, <1>6, <2>2 DEF IdsOf
    <3>2. ItemOf(list, i) = Absent
      BY <3>1 DEF ItemOf
    <3> QED BY <1>2, <1>3, <2>2, <3>2
  <2> QED BY <2>1, <2>2
<1>11. ASSUME NEW x, NEW y, Before(list, x, y), y \in IdsOf(lead)
       PROVE  Before(lead, x, y)
  <2>1. PICK m, n \in DOMAIN order : m < n /\ order[m] = x /\ order[n] = y
    BY <1>6, <1>11 DEF Before
  <2>2. PICK k, l \in DOMAIN whole : k < l /\ x = whole[k] /\ y = whole[l]
    BY <1>5, <2>1
  <2> QED BY <1>1, <1>11, <2>2
<1> QED BY <1>8, <1>10, <1>11 DEF list, lead

(* The same of any two sides, if only one of them changed the list too.    *)
LEMMA ListMerges ==
  ASSUME NEW S, Absent \notin S, NEW b, Listed(S, b), NEW o, Listed(S, o), NEW t, Listed(S, t)
  PROVE  /\ Listed(S, MergedList(b, o, t))
         /\ \A i : ItemOf(MergedList(b, o, t), i) = ChosenItem(b, o, t, i)
         /\ \A x, y : x \in IdsOf(o) \cap IdsOf(t) /\ y \in IdsOf(o) \cap IdsOf(t)
                      /\ Before(MergedList(b, o, t), x, y)
                      => Before(o, x, y) \/ Before(t, x, y)
         /\ \A x, y : Before(t, x, y) /\ Before(MergedList(b, o, t), y, x) =>
              /\ \E v, w : Before(b, v, w) /\ Before(o, w, v)
              /\ x \in IdsOf(o) => Before(o, y, x)
<1>1. CASE OnlyOneChanged(b, o, t)
  <2>1. MergedList(b, o, t) = Chosen(b, o, t)
    BY <1>1 DEF MergedList
  <2>2. \/ o = t /\ Chosen(b, o, t) = o
        \/ t = b /\ Chosen(b, o, t) = o
        \/ o = b /\ Chosen(b, o, t) = t
    BY <1>1 DEF OnlyOneChanged, Chosen
  <2>3. \A i : ItemOf(Chosen(b, o, t), i) = ChosenItem(b, o, t, i)
    BY <2>2 DEF ChosenItem, Chosen
  <2>4. \A x, y : Before(t, x, y) => ~Before(t, y, x)
    BY BeforeIsStrict
  <2> QED BY <2>1, <2>2, <2>3, <2>4
<1>2. CASE ~OnlyOneChanged(b, o, t)
  <2>1. MergedList(b, o, t) = MergedLists(b, o, t)
    BY <1>2 DEF MergedList
  <2> DEFINE list == MergedLists(b, o, t)
  <2>2. /\ Listed(S, list)
        /\ \A i : ItemOf(list, i) = ChosenItem(b, o, t, i)
        /\ \A x, y : Before(list, x, y) /\ y \in IdsOf(Leads(b, o, t))
                     => Before(Leads(b, o, t), x, y)
    BY ListsMerge
  <2> HIDE DEF list
  <2>3. ASSUME NEW x, NEW y, Before(t, x, y), Before(list, y, x)
        PROVE  /\ \E v, w : Before(b, v, w) /\ Before(o, w, v)
               /\ x \in IdsOf(o) => Before(o, y, x)
    <3>1. x \in IdsOf(t) /\ ~Before(t, y, x)
      BY <2>3, BeforeIsStrict
    <3>2. Leads(b, o, t) = o /\ ~KeptOrder(b, o)
      BY <2>2, <2>3, <3>1 DEF Leads
    <3>3. \E v, w : Before(b, v, w) /\ Before(o, w, v)
      BY <3>2, OrderKept
    <3> QED BY <2>2, <2>3, <3>2, <3>3
  <2>4. Leads(b, o, t) \in {o, t}
    BY DEF Leads
  <2> QED BY <2>1, <2>2, <2>3, <2>4 DEF list
<1> QED BY <1>1, <1>2

-----------------------------------------------------------------------------
(* A sound history: ids rise and are below those still to come, and there  *)
(* is a current entry.                                                     *)
AnyEntry == [id : Nat \ {0}, when : Whens, what : Whats]

Rising(es) == \A m, n \in DOMAIN es : m < n => es[m].id < es[n].id

Sound(h, next) ==
  /\ h \in [cursor : Nat, entries : Seq(AnyEntry)]
  /\ HasCurrent(h)
  /\ Rising(h.entries)
  /\ \A i \in EntryIds(h) : i < next

EntryAt(h, i) == ItemOf(h.entries, i)

LEMMA AbsentIsNoEntry == Absent \notin AnyEntry
<1>1. DOMAIN Absent = {"absent"}
  BY DEF Absent
<1>2. \A x \in AnyEntry : DOMAIN x = {"id", "when", "what"}
  BY DEF AnyEntry
<1> QED BY <1>1, <1>2

LEMMA EntryTyped ==
  ASSUME NEW es \in Seq(AnyEntry), NEW n \in DOMAIN es
  PROVE  n \in Int /\ es[n] \in AnyEntry /\ es[n].id \in Nat \ {0} /\ es[n].id \in Int
<1>1. n \in Int /\ es[n] \in AnyEntry
  OBVIOUS
<1>2. es[n].id \in Nat \ {0}
  BY <1>1 DEF AnyEntry
<1> QED BY <1>1, <1>2

(* Entries with rising ids are a list, ordered as their ids are.           *)
LEMMA RisingIsListed ==
  ASSUME NEW es \in Seq(AnyEntry), Rising(es)
  PROVE  /\ Listed(AnyEntry, es)
         /\ IdsOf(es) \subseteq Nat \ {0}
         /\ \A x, y : Before(es, x, y) => x < y
         /\ \A m, n \in DOMAIN es : m < n <=> es[m].id < es[n].id
<1>1. \A n \in DOMAIN es : n \in Int /\ es[n].id \in Nat \ {0} /\ es[n].id \in Int
  BY EntryTyped
<1>2. \A m, n \in DOMAIN es : m < n => es[m].id < es[n].id
  BY DEF Rising
<1>3. \A m, n \in DOMAIN es : es[m].id = es[n].id => m = n
  BY <1>1, <1>2
<1>4. \A m, n \in DOMAIN es : m < n <=> es[m].id < es[n].id
  BY <1>1, <1>2
<1> QED BY <1>1, <1>2, <1>3, <1>4 DEF Listed, IdsOf, Before

(* Of a sound history the entries up to the current one are applied.       *)
LEMMA SoundHas ==
  ASSUME NEW h, NEW n, Sound(h, n)
  PROVE  /\ Listed(AnyEntry, h.entries) /\ IdsOf(h.entries) = EntryIds(h)
         /\ EntryIds(h) \subseteq Nat \ {0}
         /\ CursorId(h) = Current(h).id /\ CursorId(h) \in EntryIds(h)
         /\ Applied(h) = {i \in EntryIds(h) : i <= CursorId(h)}
         /\ \A x, y : Before(h.entries, x, y) => x < y
         /\ h.cursor = Len(h.entries) => Applied(h) = EntryIds(h)
<1>1. h.entries \in Seq(AnyEntry) /\ Rising(h.entries) /\ h.cursor \in DOMAIN h.entries
  BY DEF Sound, HasCurrent
<1>2. /\ Listed(AnyEntry, h.entries) /\ IdsOf(h.entries) \subseteq Nat \ {0}
      /\ \A x, y : Before(h.entries, x, y) => x < y
      /\ \A k, m \in DOMAIN h.entries : k < m <=> h.entries[k].id < h.entries[m].id
  BY <1>1, RisingIsListed
<1>3. IdsOf(h.entries) = EntryIds(h)
  BY DEF IdsOf, EntryIds
<1>4. CursorId(h) = h.entries[h.cursor].id /\ CursorId(h) \in EntryIds(h)
  BY <1>1 DEF CursorId, HasCurrent, Current, EntryIds
<1>5. Len(h.entries) \in Nat /\ DOMAIN h.entries = 1..Len(h.entries) /\ h.cursor \in Nat
  BY <1>1, LenProperties
<1>6. \A k \in DOMAIN h.entries : k <= h.cursor <=> h.entries[k].id <= CursorId(h)
  <2>1. \A k \in DOMAIN h.entries : h.entries[k].id \in Nat
    BY <1>2 DEF IdsOf
  <2>2. \A k \in DOMAIN h.entries : h.cursor < k <=> CursorId(h) < h.entries[k].id
    BY <1>1, <1>2, <1>4
  <2> QED BY <1>1, <1>4, <1>5, <2>1, <2>2
<1>7. \A k : k \in 1..h.cursor <=> k \in DOMAIN h.entries /\ k <= h.cursor
  BY <1>1, <1>5
<1>8. Applied(h) = {i \in EntryIds(h) : i <= CursorId(h)}
  <2>1. ASSUME NEW i \in Applied(h)
        PROVE  i \in EntryIds(h) /\ i <= CursorId(h)
    <3>1. PICK k \in 1..h.cursor : i = h.entries[k].id
      BY DEF Applied
    <3> QED BY <1>6, <1>7, <3>1 DEF EntryIds
  <2>2. ASSUME NEW i \in EntryIds(h), i <= CursorId(h)
        PROVE  i \in Applied(h)
    <3>1. PICK k \in DOMAIN h.entries : i = h.entries[k].id
      BY DEF EntryIds
    <3> QED BY <1>6, <1>7, <2>2, <3>1 DEF Applied
  <2> QED BY <2>1, <2>2
<1>9. h.cursor = Len(h.entries) => Applied(h) = EntryIds(h)
  BY <1>5 DEF Applied, EntryIds
<1> QED BY <1>2, <1>3, <1>4, <1>8, <1>9 DEF Current

(* Recording keeps what is applied and adds the entry, as the current one. *)
LEMMA RecordedHas ==
  ASSUME NEW h, NEW n \in Nat \ {0}, Sound(h, n), NEW e \in AnyEntry, e.id = n
  PROVE  /\ Sound(Recorded(h, e), n + 1)
         /\ CursorId(Recorded(h, e)) = n
         /\ EntryIds(Recorded(h, e)) = Applied(h) \cup {n}
         /\ Applied(Recorded(h, e)) = Applied(h) \cup {n}
         /\ EntryAt(Recorded(h, e), n) = e
         /\ \A i \in Applied(h) : EntryAt(Recorded(h, e), i) = EntryAt(h, i)
<1> DEFINE es == h.entries
           kept == IF h.cursor < Len(es) THEN SubSeq(es, 1, h.cursor) ELSE es
           r == Recorded(h, e)
<1>1. /\ es \in Seq(AnyEntry) /\ Rising(es) /\ h.cursor \in DOMAIN es
      /\ Len(es) \in Nat /\ DOMAIN es = 1..Len(es) /\ h.cursor \in Nat
  BY LenProperties DEF Sound, HasCurrent
<1>2. \A k \in DOMAIN es : es[k] \in AnyEntry /\ es[k].id \in Nat \ {0} /\ es[k].id < n
  <2>1. \A k \in DOMAIN es : es[k].id < n
    BY DEF Sound, EntryIds
  <2> QED BY <1>1, <2>1, EntryTyped
<1>3. /\ kept \in Seq(AnyEntry) /\ Len(kept) = h.cursor
      /\ \A k \in 1..h.cursor : kept[k] = es[k]
  <2>1. CASE h.cursor < Len(es)
    <3>1. \A k \in 1..h.cursor : es[k] \in AnyEntry
      BY <1>1, <1>2
    <3>2. /\ SubSeq(es, 1, h.cursor) \in Seq(AnyEntry)
          /\ Len(SubSeq(es, 1, h.cursor)) = h.cursor
          /\ \A k \in 1..h.cursor : SubSeq(es, 1, h.cursor)[k] = es[k]
      BY <1>1, <3>1
    <3> QED BY <2>1, <3>2
  <2>2. CASE ~(h.cursor < Len(es))
    <3>1. h.cursor = Len(es)
      BY <1>1, <2>2
    <3> QED BY <1>1, <2>2, <3>1
  <2> QED BY <2>1, <2>2
<1>4. r = [cursor |-> Len(kept) + 1, entries |-> Append(kept, e)]
  BY DEF Recorded
<1> HIDE DEF es, kept, r
<1>5. /\ r.entries \in Seq(AnyEntry) /\ r.cursor = h.cursor + 1 /\ Len(r.entries) = h.cursor + 1
      /\ DOMAIN r.entries = 1..(h.cursor + 1)
      /\ \A k \in 1..h.cursor : r.entries[k] = es[k]
      /\ r.entries[h.cursor + 1] = e
      /\ r \in [cursor : Nat, entries : Seq(AnyEntry)]
  <2>1. /\ Append(kept, e) \in Seq(AnyEntry) /\ Len(Append(kept, e)) = h.cursor + 1
        /\ \A k \in 1..h.cursor : Append(kept, e)[k] = es[k]
        /\ Append(kept, e)[h.cursor + 1] = e
    BY <1>3, AppendProperties
  <2>2. r.entries = Append(kept, e) /\ r.cursor = h.cursor + 1
    BY <1>3, <1>4
  <2>3. r \in [cursor : Nat, entries : Seq(AnyEntry)]
    BY <1>1, <1>3, <1>4, <2>1
  <2> QED BY <2>1, <2>2, <2>3, LenProperties
<1>6. \A k \in DOMAIN r.entries : \/ k \in 1..h.cursor /\ k \in DOMAIN es /\ r.entries[k] = es[k]
                                  \/ k = h.cursor + 1 /\ r.entries[k] = e
  BY <1>1, <1>5
<1>7. Rising(r.entries)
  <2> SUFFICES ASSUME NEW k \in DOMAIN r.entries, NEW m \in DOMAIN r.entries, k < m
               PROVE  r.entries[k].id < r.entries[m].id
    BY DEF Rising
  <2>1. k \in 1..h.cursor /\ k \in DOMAIN es /\ r.entries[k] = es[k]
    BY <1>1, <1>5, <1>6
  <2>2. CASE m = h.cursor + 1
    BY <1>2, <1>5, <2>1, <2>2
  <2>3. CASE m # h.cursor + 1
    <3>1. m \in DOMAIN es /\ r.entries[m] = es[m]
      BY <1>6, <2>3
    <3> QED BY <1>1, <2>1, <3>1 DEF Rising
  <2> QED BY <2>2, <2>3
<1>8. EntryIds(r) = Applied(h) \cup {n}
  <2>1. ASSUME NEW i \in EntryIds(r) PROVE i \in Applied(h) \cup {n}
    <3>1. PICK k \in DOMAIN r.entries : i = r.entries[k].id
      BY DEF EntryIds
    <3> QED BY <1>6, <3>1 DEF Applied, es
  <2>2. ASSUME NEW i \in Applied(h) PROVE i \in EntryIds(r)
    <3>1. PICK k \in 1..h.cursor : i = es[k].id
      BY DEF Applied, es
    <3>2. k \in DOMAIN r.entries /\ i = r.entries[k].id
      BY <1>1, <1>5, <3>1
    <3> QED BY <3>2 DEF EntryIds
  <2>3. n \in EntryIds(r)
    <3>1. h.cursor + 1 \in DOMAIN r.entries
      BY <1>1, <1>5
    <3> QED BY <1>5, <3>1 DEF EntryIds
  <2> QED BY <2>1, <2>2, <2>3
<1>9. HasCurrent(r)
  BY <1>1, <1>5 DEF HasCurrent
<1>10. Sound(r, n + 1)
  <2>1. \A i \in EntryIds(r) : i < n + 1
    <3>1. \A i \in Applied(h) : i \in Nat /\ i < n
      BY <1>1, <1>2 DEF Applied, es
    <3> QED BY <1>8, <3>1
  <2> QED BY <1>5, <1>7, <1>9, <2>1 DEF Sound
<1>11. CursorId(r) = n
  BY <1>5, <1>9 DEF CursorId, Current
<1>12. Applied(r) = EntryIds(r)
  BY <1>5, <1>10, SoundHas
<1>13. \A k \in DOMAIN r.entries : EntryAt(r, r.entries[k].id) = r.entries[k]
  BY <1>10, SoundHas, ItemFound DEF EntryAt
<1>14. EntryAt(r, n) = e
  <2>1. h.cursor + 1 \in DOMAIN r.entries
    BY <1>1, <1>5
  <2> QED BY <1>5, <1>13, <2>1
<1>15. ASSUME NEW i \in Applied(h) PROVE EntryAt(r, i) = EntryAt(h, i)
  <2>1. PICK k \in 1..h.cursor : i = es[k].id
    BY DEF Applied, es
  <2>2. k \in DOMAIN r.entries /\ r.entries[k] = es[k] /\ k \in DOMAIN es
    BY <1>1, <1>5, <2>1
  <2>3. EntryAt(h, i) = es[k]
    BY <2>1, <2>2, SoundHas, ItemFound DEF EntryAt, es
  <2> QED BY <1>13, <2>1, <2>2, <2>3
<1> QED BY <1>8, <1>10, <1>11, <1>12, <1>14, <1>15 DEF r

(* A trim takes the pruned entries and nothing else; the current one stays.*)
LEMMA TrimmedHas ==
  ASSUME NEW h, NEW n, Sound(h, n)
  PROVE  /\ Sound(Trimmed(h), n)
         /\ CursorId(Trimmed(h)) = CursorId(h)
         /\ PrunedIds(h) \subseteq EntryIds(h)
         /\ EntryIds(Trimmed(h)) = EntryIds(h) \ PrunedIds(h)
         /\ Applied(Trimmed(h)) = Applied(h) \ PrunedIds(h)
         /\ \A i \in EntryIds(Trimmed(h)) : EntryAt(Trimmed(h), i) = EntryAt(h, i)
<1> DEFINE es == h.entries
           c == TrimCount(h)
           t == Trimmed(h)
<1>1. /\ es \in Seq(AnyEntry) /\ Rising(es) /\ h.cursor \in DOMAIN es
      /\ Len(es) \in Nat /\ DOMAIN es = 1..Len(es) /\ h.cursor \in Nat
  BY LenProperties DEF Sound, HasCurrent
<1>2. c \in 0..(h.cursor - 1)
  <2>1. Limit \in Nat
    BY MergeBounds
  <2> DEFINE excess == IF Len(es) > Limit THEN Len(es) - Limit ELSE 0
             below == IF h.cursor > 0 THEN h.cursor - 1 ELSE 0
             most == IF excess < below THEN excess ELSE below
  <2>2. below = h.cursor - 1 /\ excess \in Nat /\ most \in 0..(h.cursor - 1)
    BY <1>1, <2>1
  <2>3. c = IF SplitsPair(es, most) THEN most - 1 ELSE most
    BY DEF TrimCount
  <2>4. SplitsPair(es, most) => most >= 1
    BY <1>1, <2>2 DEF SplitsPair
  <2> HIDE DEF most, c
  <2> QED BY <1>1, <2>2, <2>3, <2>4
<1>3. CASE c = 0
  <2>1. t = h
    BY <1>3 DEF Trimmed
  <2>2. PrunedIds(h) = {}
    BY <1>3 DEF PrunedIds
  <2> QED BY <2>1, <2>2
<1>4. CASE c # 0
  <2>1. t = [cursor |-> h.cursor - c, entries |-> SubSeq(es, c + 1, Len(es))]
    BY <1>4 DEF Trimmed
  <2> HIDE DEF es, c, t
  <2>2. c \in Nat \ {0} /\ c < h.cursor /\ h.cursor <= Len(es)
    BY <1>1, <1>2, <1>4
  <2>3. /\ t.entries \in Seq(AnyEntry) /\ DOMAIN t.entries = 1..(Len(es) - c)
        /\ \A k \in 1..(Len(es) - c) : t.entries[k] = es[k + c]
        /\ t.cursor = h.cursor - c /\ t \in [cursor : Nat, entries : Seq(AnyEntry)]
    <3>1. \A k \in (c + 1)..Len(es) : es[k] \in AnyEntry
      BY <1>1, <2>2
    <3>2. /\ SubSeq(es, c + 1, Len(es)) \in Seq(AnyEntry)
          /\ Len(SubSeq(es, c + 1, Len(es))) = Len(es) - c
          /\ \A k \in 1..(Len(es) - c) : SubSeq(es, c + 1, Len(es))[k] = es[c + 1 + k - 1]
      <4>1. /\ Len(es) \in Int /\ c + 1 \in Int /\ c + 1 <= Len(es) + 1
            /\ Len(es) - (c + 1) + 1 = Len(es) - c
        BY <1>1, <2>2
      <4>2. /\ SubSeq(es, c + 1, Len(es)) \in Seq(AnyEntry)
            /\ Len(SubSeq(es, c + 1, Len(es))) = Len(es) - (c + 1) + 1
            /\ \A k \in 1..(Len(es) - (c + 1) + 1) :
                 SubSeq(es, c + 1, Len(es))[k] = es[c + 1 + k - 1]
        BY <3>1, <4>1, SubSeqProperties
      <4> QED BY <4>1, <4>2
    <3>3. \A k \in 1..(Len(es) - c) : c + 1 + k - 1 = k + c
      BY <1>1, <2>2
    <3>4. t.entries = SubSeq(es, c + 1, Len(es)) /\ t.cursor = h.cursor - c
      BY <2>1
    <3>5. t \in [cursor : Nat, entries : Seq(AnyEntry)]
      <4>1. h.cursor - c \in Nat
        BY <1>1, <2>2
      <4>2. SubSeq(es, c + 1, Len(es)) \in Seq(AnyEntry)
        BY <3>2
      <4> QED BY <2>1, <4>1, <4>2
    <3> QED BY <3>2, <3>3, <3>4, <3>5, LenProperties
  <2>4. \A k \in DOMAIN t.entries : k + c \in DOMAIN es /\ t.entries[k] = es[k + c]
    BY <1>1, <2>2, <2>3
  <2>5. Rising(t.entries)
    <3> SUFFICES ASSUME NEW k \in DOMAIN t.entries, NEW m \in DOMAIN t.entries, k < m
                 PROVE  t.entries[k].id < t.entries[m].id
      BY DEF Rising
    <3>1. k + c < m + c
      <4>1. k \in Int /\ m \in Int /\ c \in Int
        BY <2>2, <2>3
      <4> QED BY <4>1
    <3> QED BY <1>1, <2>4, <3>1 DEF Rising
  <2>6. HasCurrent(t) /\ t.entries[t.cursor] = es[h.cursor]
    <3>0. h.cursor \in Int /\ c \in Int /\ Len(es) \in Int
      BY <1>1, <2>2
    <3>1. t.cursor \in DOMAIN t.entries /\ t.cursor + c = h.cursor
      <4>1. h.cursor - c \in 1..(Len(es) - c) /\ h.cursor - c + c = h.cursor
        BY <2>2, <3>0
      <4> QED BY <2>3, <4>1
    <3> QED BY <2>4, <3>1 DEF HasCurrent
  <2>7. PrunedIds(h) = {es[k].id : k \in 1..c}
    BY DEF PrunedIds, c, es
  <2>8. EntryIds(h) = {es[k].id : k \in DOMAIN es}
    BY DEF EntryIds, es
  <2>9. PrunedIds(h) \subseteq EntryIds(h)
    <3>1. \A k \in 1..c : k \in DOMAIN es
      BY <1>1, <2>2
    <3> QED BY <2>7, <2>8, <3>1
  <2>10. EntryIds(t) = EntryIds(h) \ PrunedIds(h)
    <3>0. \A k, m \in DOMAIN es : es[k].id = es[m].id => k = m
      BY <1>1, RisingIsListed DEF Listed
    <3>1. ASSUME NEW i \in EntryIds(t) PROVE i \in EntryIds(h) \ PrunedIds(h)
      <4>1. PICK k \in DOMAIN t.entries : i = t.entries[k].id
        BY DEF EntryIds
      <4>2. k + c \in DOMAIN es /\ i = es[k + c].id
        BY <2>4, <4>1
      <4>3. \A m \in 1..c : m \in DOMAIN es /\ m # k + c
        BY <1>1, <2>2, <2>3
      <4> QED BY <2>7, <2>8, <3>0, <4>2, <4>3
    <3>2. ASSUME NEW i \in EntryIds(h) \ PrunedIds(h) PROVE i \in EntryIds(t)
      <4>1. PICK k \in DOMAIN es : i = es[k].id
        BY <2>8
      <4>2. k \notin 1..c
        BY <2>7, <3>2, <4>1
      <4>3. k - c \in DOMAIN t.entries /\ (k - c) + c = k
        BY <1>1, <2>2, <2>3, <4>2
      <4> QED BY <2>4, <4>1, <4>3 DEF EntryIds
    <3> QED BY <3>1, <3>2
  <2>11. Sound(t, n)
    BY <2>3, <2>5, <2>6, <2>10 DEF Sound
  <2>12. CursorId(t) = CursorId(h)
    BY <2>6 DEF CursorId, Current, Sound, es
  <2>13. Applied(t) = Applied(h) \ PrunedIds(h)
    BY <2>10, <2>11, <2>12, SoundHas
  <2>14. ASSUME NEW i \in EntryIds(t) PROVE EntryAt(t, i) = EntryAt(h, i)
    <3>1. PICK k \in DOMAIN t.entries : i = t.entries[k].id
      BY DEF EntryIds
    <3>2. EntryAt(t, i) = t.entries[k]
      BY <2>11, <3>1, SoundHas, ItemFound DEF EntryAt
    <3>3. EntryAt(h, i) = es[k + c]
      BY <2>4, <3>1, SoundHas, ItemFound DEF EntryAt, es
    <3> QED BY <2>4, <3>1, <3>2, <3>3
  <2> QED BY <2>9, <2>10, <2>11, <2>12, <2>13, <2>14 DEF t
<1> QED BY <1>3, <1>4

(* What the base has stays first; what is new follows by its id.           *)
LEMMA OldFirstHas ==
  ASSUME NEW list, Listed(AnyEntry, list), NEW old,
         \A x, y \in old : Before(list, x, y) => x < y,
         \A x \in IdsOf(list) \cap old, y \in IdsOf(list) \ old : x < y
  PROVE  /\ OldFirst(list, old) \in Seq(AnyEntry)
         /\ Rising(OldFirst(list, old))
         /\ IdsOf(OldFirst(list, old)) = IdsOf(list)
         /\ \A i : ItemOf(OldFirst(list, old), i) = ItemOf(list, i)
<1> DEFINE ids  == IdsOf(list)
           held == {n \in DOMAIN list : list[n].id \in old}
           more == ids \ old
           at   == [i \in ids |-> ItemOf(list, i)]
           p    == Picked(list, held)
           q    == Picked(at, more)
           c    == p \o q
<1>1. /\ list \in Seq(AnyEntry) /\ Len(list) \in Nat /\ DOMAIN list = 1..Len(list)
      /\ \A n \in DOMAIN list : n \in Int /\ list[n] \in AnyEntry /\ list[n].id \in Nat \ {0}
  BY LenProperties, EntryTyped DEF Listed
<1>2. /\ \A n \in DOMAIN list : ItemOf(list, list[n].id) = list[n]
      /\ \A i \in ids : /\ ItemOf(list, i) \in AnyEntry /\ ItemOf(list, i).id = i
                        /\ \E n \in DOMAIN list : list[n] = ItemOf(list, i)
      /\ \A i : i \notin ids => ItemOf(list, i) = Absent
  BY ItemFound
<1>3. \A n \in DOMAIN list : list[n].id \in ids
  BY DEF IdsOf
<1>4. ids \subseteq Nat
  BY <1>1 DEF IdsOf
<1>5. IsFiniteSet(DOMAIN list)
  BY <1>1, FS_Interval
<1>6. IsFiniteSet(ids)
  <2> DEFINE f == [n \in DOMAIN list |-> list[n].id]
  <2>1. \A n \in DOMAIN list : list[n].id \in ids
    BY DEF IdsOf
  <2>2. \A i \in ids : \E n \in DOMAIN list : list[n].id = i
    BY DEF IdsOf
  <2> HIDE DEF ids
  <2>3. f \in [DOMAIN list -> ids]
    BY <2>1
  <2>4. f \in Surjection(DOMAIN list, ids)
    BY <2>2, <2>3 DEF Surjection
  <2> HIDE DEF f
  <2> QED BY <1>5, <2>4, FS_Surjection
<1>7. held \in SUBSET Nat /\ IsFiniteSet(held) /\ \A n \in held : list[n] \in AnyEntry
  <2>1. held \in SUBSET DOMAIN list
    OBVIOUS
  <2>2. IsFiniteSet(held)
    BY <1>5, <2>1, FS_Subset
  <2> QED BY <1>1, <2>1, <2>2
<1>8. more \in SUBSET Nat /\ IsFiniteSet(more) /\ \A i \in more : at[i] \in AnyEntry
  <2>1. more \in SUBSET ids
    OBVIOUS
  <2>2. IsFiniteSet(more)
    BY <1>6, <2>1, FS_Subset
  <2> QED BY <1>2, <1>4, <2>1, <2>2
<1>9. \A n \in held : n \in DOMAIN list /\ list[n].id \in old
  OBVIOUS
<1>10. \A n \in DOMAIN list : list[n].id \in old => n \in held
  OBVIOUS
<1>11. \A i \in more : i \in ids /\ i \notin old /\ at[i] = ItemOf(list, i)
  OBVIOUS
<1>12. \A i \in ids : i \notin old => i \in more
  OBVIOUS
<1> HIDE DEF held, more, at, ids
<1>13. /\ p \in Seq(AnyEntry)
       /\ DOMAIN p = 1..Cardinality(held)
       /\ \A n \in DOMAIN p : Nth(held, n) \in held /\ p[n] = list[Nth(held, n)]
       /\ \A m, n \in DOMAIN p : m < n => Nth(held, m) < Nth(held, n)
       /\ \A i \in held : \E n \in DOMAIN p : Nth(held, n) = i
  BY <1>7, PickedHas
<1>14. /\ q \in Seq(AnyEntry)
       /\ DOMAIN q = 1..Cardinality(more)
       /\ \A n \in DOMAIN q : Nth(more, n) \in more /\ q[n] = at[Nth(more, n)]
       /\ \A m, n \in DOMAIN q : m < n => Nth(more, m) < Nth(more, n)
       /\ \A i \in more : \E n \in DOMAIN q : Nth(more, n) = i
  BY <1>8, PickedHas, ZenonT(60)
<1> HIDE DEF p, q
<1>15. \A n \in DOMAIN p : /\ p[n].id \in old /\ p[n].id \in ids
                           /\ p[n] = ItemOf(list, p[n].id)
  BY <1>2, <1>3, <1>9, <1>13
<1>16. \A n \in DOMAIN q : /\ q[n].id = Nth(more, n) /\ q[n].id \in more
                           /\ q[n] = ItemOf(list, q[n].id)
  BY <1>2, <1>11, <1>14
<1>17. /\ c \in Seq(AnyEntry) /\ Len(c) = Len(p) + Len(q)
       /\ \A i \in 1..Len(p) + Len(q) : c[i] = IF i <= Len(p) THEN p[i] ELSE q[i - Len(p)]
  BY <1>13, <1>14, ConcatProperties
<1>18. /\ Len(p) \in Nat /\ DOMAIN p = 1..Len(p) /\ Len(q) \in Nat /\ DOMAIN q = 1..Len(q)
       /\ DOMAIN c = 1..(Len(p) + Len(q))
  BY <1>13, <1>14, <1>17, LenProperties
<1> HIDE DEF c
<1>19. \A n \in DOMAIN c : \/ n \in DOMAIN p /\ c[n] = p[n]
                           \/ ~(n <= Len(p)) /\ n - Len(p) \in DOMAIN q /\ c[n] = q[n - Len(p)]
  BY <1>17, <1>18
<1>20. \A n \in DOMAIN c : c[n].id \in ids /\ c[n] = ItemOf(list, c[n].id)
  BY <1>11, <1>15, <1>16, <1>19
<1>21. ASSUME NEW i \in ids PROVE \E n \in DOMAIN c : c[n].id = i
  <2>1. CASE i \in old
    <3>1. PICK m \in DOMAIN list : list[m] = ItemOf(list, i) /\ list[m].id = i
      BY <1>2
    <3>2. PICK n \in DOMAIN p : p[n] = list[m]
      BY <1>10, <1>13, <2>1, <3>1
    <3>3. n \in 1..Len(p) + Len(q) /\ n <= Len(p)
      BY <1>18
    <3> QED BY <1>17, <1>18, <3>1, <3>2, <3>3
  <2>2. CASE i \notin old
    <3>1. PICK n \in DOMAIN q : q[n].id = i
      BY <1>12, <1>14, <1>16, <2>2
    <3>2. /\ n + Len(p) \in 1..Len(p) + Len(q) /\ ~(n + Len(p) <= Len(p))
          /\ (n + Len(p)) - Len(p) = n
      BY <1>18
    <3> QED BY <1>17, <1>18, <3>1, <3>2
  <2> QED BY <2>1, <2>2
<1>22. IdsOf(c) = ids
  BY <1>20, <1>21 DEF IdsOf
<1>23. ASSUME NEW m \in DOMAIN p, NEW n \in DOMAIN p, m < n
       PROVE  p[m].id < p[n].id
  <2>1. /\ Nth(held, m) \in DOMAIN list /\ Nth(held, n) \in DOMAIN list
        /\ Nth(held, m) < Nth(held, n)
        /\ p[m] = list[Nth(held, m)] /\ p[n] = list[Nth(held, n)]
    BY <1>9, <1>13, <1>23
  <2>2. Before(list, p[m].id, p[n].id)
    BY <2>1 DEF Before
  <2> QED BY <1>15, <2>2
<1>24. ASSUME NEW m \in DOMAIN q, NEW n \in DOMAIN q, m < n
       PROVE  q[m].id < q[n].id
  BY <1>14, <1>16, <1>24
<1>25. ASSUME NEW m \in DOMAIN p, NEW n \in DOMAIN q
       PROVE  p[m].id < q[n].id
  BY <1>11, <1>15, <1>16 DEF ids
<1>26. Rising(c)
  <2> SUFFICES ASSUME NEW m \in DOMAIN c, NEW n \in DOMAIN c, m < n
               PROVE  c[m].id < c[n].id
    BY DEF Rising
  <2>1. m \in Int /\ n \in Int /\ Len(p) \in Int
    BY <1>18
  <2>2. CASE n \in DOMAIN p /\ c[n] = p[n]
    <3>1. m \in DOMAIN p /\ c[m] = p[m]
      <4>1. m <= Len(p)
        BY <1>18, <2>1, <2>2
      <4> QED BY <1>19, <4>1
    <3> QED BY <1>23, <2>2, <3>1
  <2>3. CASE ~(n <= Len(p)) /\ n - Len(p) \in DOMAIN q /\ c[n] = q[n - Len(p)]
    <3>1. CASE m \in DOMAIN p /\ c[m] = p[m]
      BY <1>25, <2>3, <3>1
    <3>2. CASE ~(m <= Len(p)) /\ m - Len(p) \in DOMAIN q /\ c[m] = q[m - Len(p)]
      <4>1. m - Len(p) < n - Len(p)
        BY <2>1
      <4> QED BY <1>24, <2>3, <3>2, <4>1
    <3> QED BY <1>19, <3>1, <3>2
  <2> QED BY <1>19, <2>2, <2>3
<1>27. Listed(AnyEntry, c)
  BY <1>17, <1>26, RisingIsListed
<1>28. ASSUME NEW i PROVE ItemOf(c, i) = ItemOf(list, i)
  <2>1. CASE i \in ids
    <3>1. PICK n \in DOMAIN c : c[n].id = i
      BY <1>21, <2>1
    <3>2. ItemOf(c, c[n].id) = c[n]
      BY <1>27, ItemFound
    <3> QED BY <1>20, <3>1, <3>2
  <2>2. CASE i \notin ids
    BY <1>2, <1>22, <2>2 DEF ItemOf
  <2> QED BY <2>1, <2>2
<1>29. OldFirst(list, old) = c
  BY DEF OldFirst, c, p, q, held, more, at, ids
<1> QED BY <1>17, <1>22, <1>26, <1>28, <1>29 DEF ids

(* The history now was grown from another: what both list is the same      *)
(* entry, and what only it lists came later.                               *)
Grown(was, now) ==
  /\ \A i \in EntryIds(was) \cap EntryIds(now) : EntryAt(now, i) = EntryAt(was, i)
  /\ \A i \in EntryIds(now) \ EntryIds(was), j \in EntryIds(was) : j < i

LEMMA SoundLonger ==
  ASSUME NEW h, NEW m \in Nat, NEW n \in Nat, Sound(h, m), m <= n
  PROVE  Sound(h, n)
<1>1. \A i \in EntryIds(h) : i \in Nat /\ i < m
  BY SoundHas DEF Sound
<1>2. \A i \in EntryIds(h) : i < n
  BY <1>1
<1> QED BY <1>2 DEF Sound

LEMMA EntryHas ==
  ASSUME NEW h, NEW n, Sound(h, n)
  PROVE  /\ \A i \in EntryIds(h) : EntryAt(h, i) \in AnyEntry /\ EntryAt(h, i).id = i
                                   /\ EntryAt(h, i) # Absent
         /\ \A i : i \notin EntryIds(h) => EntryAt(h, i) = Absent
<1>1. Listed(AnyEntry, h.entries) /\ IdsOf(h.entries) = EntryIds(h)
  BY SoundHas
<1>2. Absent \notin AnyEntry
  BY AbsentIsNoEntry
<1> QED BY <1>1, <1>2, ItemFound DEF EntryAt

(* The entries of a merge: what both sides kept of the base, and what      *)
(* either added, in the order of their ids.                                *)
LEMMA MergedEntriesHave ==
  ASSUME NEW n, NEW B, Sound(B, n), NEW O, Sound(O, n), NEW T, Sound(T, n),
         Grown(B, O), Grown(B, T),
         \A i \in EntryIds(O) \cap EntryIds(T) : i \in EntryIds(B)
  PROVE  /\ MergedEntries(B, O, T) \in Seq(AnyEntry)
         /\ Rising(MergedEntries(B, O, T))
         /\ IdsOf(MergedEntries(B, O, T))
              = (EntryIds(O) \cap EntryIds(T)) \cup (EntryIds(O) \ EntryIds(B))
                                               \cup (EntryIds(T) \ EntryIds(B))
         /\ \A i \in IdsOf(MergedEntries(B, O, T)) :
              /\ i \in EntryIds(O) => ItemOf(MergedEntries(B, O, T), i) = EntryAt(O, i)
              /\ i \in EntryIds(T) => ItemOf(MergedEntries(B, O, T), i) = EntryAt(T, i)
<1> DEFINE list == MergedList(B.entries, O.entries, T.entries)
           old  == EntryIds(B)
           es   == MergedEntries(B, O, T)
           ids  == (EntryIds(O) \cap EntryIds(T)) \cup (EntryIds(O) \ EntryIds(B))
                                                  \cup (EntryIds(T) \ EntryIds(B))
<1>1. /\ Listed(AnyEntry, B.entries) /\ IdsOf(B.entries) = EntryIds(B)
      /\ Listed(AnyEntry, O.entries) /\ IdsOf(O.entries) = EntryIds(O)
      /\ Listed(AnyEntry, T.entries) /\ IdsOf(T.entries) = EntryIds(T)
      /\ \A x, y : Before(O.entries, x, y) => x < y
      /\ \A x, y : Before(T.entries, x, y) => x < y
  BY SoundHas
<1>2. Absent \notin AnyEntry
  BY AbsentIsNoEntry
<1>3. /\ Listed(AnyEntry, list)
      /\ \A i : ItemOf(list, i) = ChosenItem(B.entries, O.entries, T.entries, i)
      /\ \A x, y : x \in IdsOf(O.entries) \cap IdsOf(T.entries)
                   /\ y \in IdsOf(O.entries) \cap IdsOf(T.entries)
                   /\ Before(list, x, y)
                   => Before(O.entries, x, y) \/ Before(T.entries, x, y)
  BY <1>1, <1>2, ListMerges, ZenonT(30)
<1>4. es = OldFirst(list, old)
  BY DEF MergedEntries
<1> HIDE DEF list, es
<1>5. \A i : ItemOf(list, i) = Chosen(EntryAt(B, i), EntryAt(O, i), EntryAt(T, i))
  BY <1>3 DEF ChosenItem, EntryAt
<1>6. \A i \in IdsOf(list) : ItemOf(list, i) # Absent
  BY <1>2, <1>3, ItemFound
<1>7. \A i : i \notin IdsOf(list) => ItemOf(list, i) = Absent
  BY <1>3, ItemFound
<1>8. ASSUME NEW i
      PROVE  /\ i \in IdsOf(list) <=> i \in ids
             /\ i \in IdsOf(list) =>
                  /\ i \in EntryIds(O) => ItemOf(list, i) = EntryAt(O, i)
                  /\ i \in EntryIds(T) => ItemOf(list, i) = EntryAt(T, i)
  <2>1. /\ i \in EntryIds(B) => EntryAt(B, i) # Absent
        /\ i \in EntryIds(O) => EntryAt(O, i) # Absent
        /\ i \in EntryIds(T) => EntryAt(T, i) # Absent
        /\ i \notin EntryIds(B) => EntryAt(B, i) = Absent
        /\ i \notin EntryIds(O) => EntryAt(O, i) = Absent
        /\ i \notin EntryIds(T) => EntryAt(T, i) = Absent
    BY EntryHas
  <2>2. /\ i \in EntryIds(B) /\ i \in EntryIds(O) => EntryAt(O, i) = EntryAt(B, i)
        /\ i \in EntryIds(B) /\ i \in EntryIds(T) => EntryAt(T, i) = EntryAt(B, i)
    BY DEF Grown
  <2>3. i \in IdsOf(list) <=> Chosen(EntryAt(B, i), EntryAt(O, i), EntryAt(T, i)) # Absent
    BY <1>5, <1>6, <1>7
  <2>4. ItemOf(list, i) = Chosen(EntryAt(B, i), EntryAt(O, i), EntryAt(T, i))
    BY <1>5
  <2>5. i \in EntryIds(O) /\ i \in EntryIds(T) => i \in EntryIds(B)
    OBVIOUS
  <2>6. i \in ids <=> \/ i \in EntryIds(O) /\ i \in EntryIds(T)
                      \/ i \in EntryIds(O) /\ i \notin EntryIds(B)
                      \/ i \in EntryIds(T) /\ i \notin EntryIds(B)
    OBVIOUS
  <2> HIDE DEF ids
  <2> QED BY <2>1, <2>2, <2>3, <2>4, <2>5, <2>6 DEF Chosen
<1> HIDE DEF ids
<1>9. IdsOf(list) = ids
  BY <1>8
<1>10. ASSUME NEW x \in old, NEW y \in old, Before(list, x, y)
       PROVE  x < y
  <2>1. x \in IdsOf(list) /\ y \in IdsOf(list)
    BY <1>3, <1>10, BeforeIsStrict
  <2>2. /\ x \in EntryIds(O) \cap EntryIds(T)
        /\ y \in EntryIds(O) \cap EntryIds(T)
    BY <1>9, <2>1 DEF ids
  <2> QED BY <1>1, <1>3, <1>10, <2>2
<1>11. \A x \in IdsOf(list) \cap old, y \in IdsOf(list) \ old : x < y
  BY <1>9 DEF ids, Grown
<1> HIDE DEF old
<1>12. /\ OldFirst(list, old) \in Seq(AnyEntry)
       /\ Rising(OldFirst(list, old))
       /\ IdsOf(OldFirst(list, old)) = IdsOf(list)
       /\ \A i : ItemOf(OldFirst(list, old), i) = ItemOf(list, i)
  BY <1>3, <1>10, <1>11, OldFirstHas
<1>13. /\ es \in Seq(AnyEntry) /\ Rising(es) /\ IdsOf(es) = ids
       /\ \A i \in IdsOf(es) : /\ i \in EntryIds(O) => ItemOf(es, i) = EntryAt(O, i)
                               /\ i \in EntryIds(T) => ItemOf(es, i) = EntryAt(T, i)
  BY <1>4, <1>8, <1>9, <1>12
<1> QED BY <1>13 DEF es, ids

(* A history that was recorded on, and one as it is, grew.                 *)
LEMMA RecordedGrew ==
  ASSUME NEW h, NEW n \in Nat \ {0}, Sound(h, n), NEW e \in AnyEntry, e.id = n
  PROVE  Grown(h, Recorded(h, e))
<1> DEFINE r == Recorded(h, e)
<1>1. /\ EntryIds(r) = Applied(h) \cup {n}
      /\ \A i \in Applied(h) : EntryAt(r, i) = EntryAt(h, i)
  BY RecordedHas
<1>2. /\ \A i \in Applied(h) : i \in EntryIds(h)
      /\ \A i \in EntryIds(h) : i \in Nat /\ i < n
  BY SoundHas DEF Sound
<1> HIDE DEF r
<1>3. \A i \in EntryIds(h) \cap EntryIds(r) : EntryAt(r, i) = EntryAt(h, i)
  BY <1>1, <1>2
<1>4. \A i \in EntryIds(r) \ EntryIds(h), j \in EntryIds(h) : j < i
  BY <1>1, <1>2
<1> QED BY <1>3, <1>4 DEF Grown, r

LEMMA GrewItself ==
  ASSUME NEW h
  PROVE  Grown(h, h)
BY DEF Grown

(* Both undo stacks merged.  The base's entries keep the place the others  *)
(* left them in; only where the job added none may some that the others    *)
(* had undone below a later edit be back.                                  *)
LEMMA MergedHistHas ==
  ASSUME NEW n \in Nat, NEW k \in Nat \ {0}, k <= n,
         NEW B, Sound(B, k), NEW T, Sound(T, k), NEW O, Sound(O, n),
         Grown(B, T), O = B \/ \E e \in AnyEntry : e.id = k /\ O = Recorded(B, e),
         ~LineageClash(B, O, T)
  PROVE  /\ Sound(MergedHist(B, O, T), n)
         /\ EntryIds(MergedHist(B, O, T)) \subseteq EntryIds(T) \cup (EntryIds(O) \ EntryIds(B))
         /\ \A i \in EntryIds(MergedHist(B, O, T)) :
              /\ i \in EntryIds(O) => EntryAt(MergedHist(B, O, T), i) = EntryAt(O, i)
              /\ i \in EntryIds(T) => EntryAt(MergedHist(B, O, T), i) = EntryAt(T, i)
         /\ Grown(B, MergedHist(B, O, T))
         /\ \A i \in EntryIds(B) \cap Applied(MergedHist(B, O, T)) :
              i \in Applied(T) \/ (O = B /\ Added(B, T) /\ T.cursor < Len(T.entries))
         /\ Applied(T) \cap Applied(B) \subseteq Applied(MergedHist(B, O, T))
<1> DEFINE M    == MergedHist(B, O, T)
           es   == MergedEntries(B, O, T)
           new  == {i \in DOMAIN es : es[i].id \notin EntryIds(B)}
           want == Chosen(CursorId(B), CursorId(O), CursorId(T))
           at   == {i \in DOMAIN es : es[i].id = want}
<1>1. Sound(B, n) /\ Sound(T, n) /\ n \in Nat \ {0}
  BY SoundLonger
<1>2. /\ Grown(B, O)
      /\ \/ O = B
         \/ /\ EntryIds(O) = Applied(B) \cup {k}
            /\ k \notin EntryIds(B) /\ k \notin EntryIds(T)
  <2>1. \A i \in EntryIds(B) \cup EntryIds(T) : i \in Nat /\ i < k
    BY SoundHas DEF Sound
  <2>2. k \notin EntryIds(B) /\ k \notin EntryIds(T)
    BY <2>1
  <2>3. CASE O = B
    BY <2>3, GrewItself
  <2>4. ASSUME NEW e \in AnyEntry, e.id = k, O = Recorded(B, e)
        PROVE  Grown(B, O) /\ EntryIds(O) = Applied(B) \cup {k}
    BY <2>4, RecordedGrew, RecordedHas
  <2> QED BY <2>2, <2>3, <2>4
<1>3. /\ EntryIds(B) \subseteq Nat /\ EntryIds(T) \subseteq Nat
      /\ Applied(B) \subseteq EntryIds(B) /\ Applied(T) \subseteq EntryIds(T)
      /\ Applied(B) = {i \in EntryIds(B) : i <= CursorId(B)}
      /\ Applied(T) = {i \in EntryIds(T) : i <= CursorId(T)}
      /\ CursorId(B) \in EntryIds(B) /\ CursorId(T) \in EntryIds(T)
      /\ T.cursor = Len(T.entries) => Applied(T) = EntryIds(T)
  BY SoundHas
<1>4. \A i \in EntryIds(O) \cap EntryIds(T) : i \in EntryIds(B)
  BY <1>2, <1>3
<1>5. /\ es \in Seq(AnyEntry) /\ Rising(es)
      /\ IdsOf(es) = (EntryIds(O) \cap EntryIds(T)) \cup (EntryIds(O) \ EntryIds(B))
                                                    \cup (EntryIds(T) \ EntryIds(B))
      /\ \A i \in IdsOf(es) : /\ i \in EntryIds(O) => ItemOf(es, i) = EntryAt(O, i)
                              /\ i \in EntryIds(T) => ItemOf(es, i) = EntryAt(T, i)
  BY <1>1, <1>2, <1>4, MergedEntriesHave
<1>6. M = [entries |-> es,
           cursor  |-> IF new = {} /\ at # {} THEN CHOOSE i \in at : TRUE ELSE Len(es)]
  BY DEF MergedHist
<1> HIDE DEF M, es
<1>7. Len(es) \in Nat /\ DOMAIN es = 1..Len(es) /\ \A i \in DOMAIN es : i \in Nat
  BY <1>5, LenProperties
<1>8. \A i \in IdsOf(es) : \E m \in DOMAIN es : es[m].id = i
  BY DEF IdsOf
<1>9. \A m \in DOMAIN es : es[m].id \in IdsOf(es)
  BY DEF IdsOf
<1>10. EntryIds(M) = IdsOf(es) /\ M.entries = es
  BY <1>6 DEF EntryIds, IdsOf
<1>11. /\ M.cursor \in DOMAIN es
       /\ IF new = {} THEN es[M.cursor].id = want ELSE M.cursor = Len(es)
       /\ new = {} => O = B /\ EntryIds(T) \subseteq EntryIds(B)
       /\ want = CursorId(T) \/ O # B
  <2>1. CASE new = {}
    <3>1. IdsOf(es) \subseteq EntryIds(B)
      BY <1>8, <2>1
    <3>2. O = B /\ EntryIds(T) \subseteq EntryIds(B)
      BY <1>2, <1>5, <3>1
    <3>3. want = CursorId(T)
      BY <3>2 DEF Chosen
    <3>4. want \in IdsOf(es)
      BY <1>3, <1>5, <3>2, <3>3
    <3>5. at # {}
      BY <1>8, <3>4
    <3>6. M.cursor = CHOOSE i \in at : TRUE
      BY <1>6, <2>1, <3>5
    <3>7. M.cursor \in at
      BY <3>5, <3>6
    <3> QED BY <2>1, <3>2, <3>3, <3>7
  <2>2. CASE new # {}
    <3>1. M.cursor = Len(es)
      BY <1>6, <2>2
    <3>2. Len(es) \in DOMAIN es
      BY <1>7, <2>2
    <3>3. want = CursorId(T) \/ O # B
      BY DEF Chosen
    <3> QED BY <2>2, <3>1, <3>2, <3>3
  <2> QED BY <2>1, <2>2
<1>12. M \in [cursor : Nat, entries : Seq(AnyEntry)]
  <2>1. M = [cursor |-> M.cursor, entries |-> es]
    BY <1>6
  <2> QED BY <1>5, <1>7, <1>11, <2>1
<1>13. \A i \in EntryIds(M) : i < n
  <2>1. \A i \in EntryIds(O) : i < n
    BY DEF Sound
  <2>2. \A i \in EntryIds(T) : i < n
    BY <1>1 DEF Sound
  <2> QED BY <1>5, <1>10, <2>1, <2>2
<1>14. Sound(M, n)
  BY <1>5, <1>10, <1>11, <1>12, <1>13 DEF Sound, HasCurrent
<1>15. /\ Applied(M) = {i \in EntryIds(M) : i <= CursorId(M)}
       /\ CursorId(M) = es[M.cursor].id
       /\ M.cursor = Len(es) => Applied(M) = EntryIds(M)
  BY <1>10, <1>14, SoundHas DEF Current
<1>16. EntryIds(M) \subseteq EntryIds(T) \cup (EntryIds(O) \ EntryIds(B))
  BY <1>5, <1>10
<1>17. \A i \in EntryIds(M) : /\ i \in EntryIds(O) => EntryAt(M, i) = EntryAt(O, i)
                              /\ i \in EntryIds(T) => EntryAt(M, i) = EntryAt(T, i)
  BY <1>5, <1>10 DEF EntryAt
<1>18. Grown(B, M)
  <2>1. \A i \in EntryIds(B) \cap EntryIds(M) : EntryAt(M, i) = EntryAt(B, i)
    BY <1>16, <1>17 DEF Grown
  <2>2. \A i \in EntryIds(M) \ EntryIds(B), j \in EntryIds(B) : j < i
    BY <1>2, <1>16 DEF Grown
  <2> QED BY <2>1, <2>2 DEF Grown
<1>19. CASE O = B
  <2>1. EntryIds(M) = EntryIds(T) \cup (EntryIds(T) \cap EntryIds(B))
    BY <1>5, <1>10, <1>19
  <2>2. EntryIds(M) = EntryIds(T)
    BY <2>1
  <2>3. CASE new = {}
    <3>1. CursorId(M) = CursorId(T)
      BY <1>11, <1>15, <1>19, <2>3
    <3>2. Applied(M) = Applied(T)
      BY <1>3, <1>15, <2>2, <3>1
    <3> QED BY <1>14, <1>16, <1>17, <1>18, <3>2 DEF M
  <2>4. CASE new # {}
    <3>1. Applied(M) = EntryIds(T)
      BY <1>11, <1>15, <2>2, <2>4
    <3>2. Added(B, T)
      BY <1>9, <1>10, <2>2, <2>4 DEF Added
    <3>3. T.cursor \in 1..Len(T.entries) /\ Len(T.entries) \in Nat
      BY LenProperties DEF Sound, HasCurrent
    <3>4. T.cursor < Len(T.entries) \/ Applied(T) = EntryIds(T)
      BY <1>3, <3>3
    <3> QED BY <1>3, <1>14, <1>16, <1>17, <1>18, <1>19, <3>1, <3>2, <3>4 DEF M
  <2> QED BY <2>3, <2>4
<1>20. CASE O # B
  <2>1. EntryIds(O) = Applied(B) \cup {k} /\ k \notin EntryIds(B)
    BY <1>2, <1>20
  <2>2. Applied(M) = EntryIds(M)
    BY <1>11, <1>15, <1>20
  <2>3. CursorId(B) \in Applied(T)
    <3>1. Added(B, O)
      BY <2>1 DEF Added
    <3>2. DescendsFromBase(B, T)
      BY <3>1 DEF LineageClash
    <3>3. PICK i \in DOMAIN T.entries : T.entries[i].id = CursorId(B) /\ i <= T.cursor
      BY <3>2 DEF DescendsFromBase, Sound
    <3>4. i \in 1..T.cursor
      BY <3>3, LenProperties DEF Sound, HasCurrent
    <3> QED BY <3>3, <3>4 DEF Applied
  <2>4. CursorId(B) <= CursorId(T)
    BY <1>3, <2>3
  <2>5. ASSUME NEW i \in EntryIds(B) \cap Applied(M) PROVE i \in Applied(T)
    <3>1. i \in Applied(B) /\ i \in EntryIds(T)
      BY <1>5, <1>10, <2>1, <2>2
    <3>2. i \in Nat /\ i <= CursorId(B) /\ CursorId(B) \in Nat /\ CursorId(T) \in Nat
      BY <1>3, <3>1
    <3> QED BY <1>3, <2>4, <3>1, <3>2
  <2>6. Applied(T) \cap Applied(B) \subseteq Applied(M)
    BY <1>3, <1>5, <1>10, <2>1, <2>2
  <2> QED BY <1>14, <1>16, <1>17, <1>18, <2>5, <2>6 DEF M
<1> QED BY <1>19, <1>20

-----------------------------------------------------------------------------
(* What is recorded: a list of objects, a sound history, snapshots of      *)
(* lists.  A history can be read when each of its entries has a snapshot.  *)
Stored(s) ==
  /\ HasFields(s, Ids)
  /\ \A i \in Ids : Listed(Objects, s[i]) \/ s[i] = NoSnap

Fits(r) ==
  /\ HasFields(r, {"data", "hist", "snaps", "id"})
  /\ Listed(Objects, r.data)
  /\ r.id \in Nat \ {0}
  /\ Sound(r.hist, r.id)
  /\ Stored(r.snaps)

Readable(h, s) == \A i \in EntryIds(h) : i \in Ids /\ s[i] # NoSnap

(* The entries of a history are another's or were made from id n on.       *)
Follows(h, n, g) ==
  \A i \in EntryIds(g) : n <= i \/ (i \in EntryIds(h) /\ EntryAt(g, i) = EntryAt(h, i))

LEMMA FollowsGrown ==
  ASSUME NEW b, NEW h, NEW g, NEW n \in Nat, NEW m, Sound(b, n), Sound(g, m),
         Grown(b, h), Follows(h, n, g)
  PROVE  Grown(b, g)
<1>1. \A j \in EntryIds(b) : j \in Nat /\ j < n
  BY SoundHas DEF Sound
<1>2. \A i \in EntryIds(g) : i \in Nat
  BY SoundHas
<1>3. ASSUME NEW i \in EntryIds(b) \cap EntryIds(g)
      PROVE  EntryAt(g, i) = EntryAt(b, i)
  <2>1. ~(n <= i)
    BY <1>1
  <2>2. i \in EntryIds(h) /\ EntryAt(g, i) = EntryAt(h, i)
    BY <2>1 DEF Follows
  <2> QED BY <2>2 DEF Grown
<1>4. ASSUME NEW i \in EntryIds(g) \ EntryIds(b), NEW j \in EntryIds(b)
      PROVE  j < i
  <2>1. CASE n <= i
    BY <1>1, <1>2, <2>1
  <2>2. CASE i \in EntryIds(h)
    BY <2>2 DEF Grown
  <2> QED BY <2>1, <2>2 DEF Follows
<1> QED BY <1>3, <1>4 DEF Grown

LEMMA RecordedFollows ==
  ASSUME NEW h, NEW n \in Nat \ {0}, Sound(h, n), NEW e \in AnyEntry, e.id = n
  PROVE  Follows(h, n, Recorded(h, e))
<1>1. /\ EntryIds(Recorded(h, e)) = Applied(h) \cup {n}
      /\ \A i \in Applied(h) : EntryAt(Recorded(h, e), i) = EntryAt(h, i)
  BY RecordedHas
<1>2. \A i \in Applied(h) : i \in EntryIds(h)
  BY SoundHas
<1>3. n <= n
  OBVIOUS
<1> QED BY <1>1, <1>2, <1>3 DEF Follows

LEMMA FollowsOn ==
  ASSUME NEW h, NEW g, NEW f, NEW n \in Nat, NEW m \in Nat, n <= m,
         Follows(h, n, g), Follows(g, m, f), NEW k, Sound(f, k)
  PROVE  Follows(h, n, f)
<1> SUFFICES ASSUME NEW i \in EntryIds(f)
             PROVE  n <= i \/ (i \in EntryIds(h) /\ EntryAt(f, i) = EntryAt(h, i))
  BY DEF Follows
<1>1. i \in Nat
  BY SoundHas
<1>2. m <= i \/ (i \in EntryIds(g) /\ EntryAt(f, i) = EntryAt(g, i))
  BY DEF Follows
<1>3. CASE m <= i
  BY <1>1, <1>3
<1>4. CASE i \in EntryIds(g) /\ EntryAt(f, i) = EntryAt(g, i)
  BY <1>4 DEF Follows
<1> QED BY <1>2, <1>3, <1>4

LEMMA MovedHas ==
  ASSUME NEW h, NEW n, Sound(h, n), NEW i \in DOMAIN h.entries
  PROVE  /\ Sound(MovedTo(h, i), n)
         /\ EntryIds(MovedTo(h, i)) = EntryIds(h)
         /\ \A k : EntryAt(MovedTo(h, i), k) = EntryAt(h, k)
<1>1. MovedTo(h, i) = [cursor |-> i, entries |-> h.entries]
  BY DEF MovedTo, Sound
<1>2. i \in Nat
  BY DEF Sound
<1>3. EntryIds(MovedTo(h, i)) = EntryIds(h)
  BY <1>1 DEF EntryIds
<1>4. \A k : EntryAt(MovedTo(h, i), k) = EntryAt(h, k)
  BY <1>1 DEF EntryAt
<1>5. Sound(MovedTo(h, i), n)
  BY <1>1, <1>2, <1>3 DEF Sound, HasCurrent
<1> QED BY <1>3, <1>4, <1>5

-----------------------------------------------------------------------------
(* One more entry, unless the current one holds the very data: after it    *)
(* the current entry's snapshot is the data.                               *)
LEMMA AfterRecordHas ==
  ASSUME NEW r, Fits(r), NEW when \in Whens, NEW what \in Whats,
         NEW s, s = AfterRecord(r, when, what), s.id <= MaxId + 1
  PROVE  /\ Fits(s) /\ s.data = r.data /\ r.id <= s.id
         /\ s.snaps[CursorId(s.hist)] = s.data
         /\ \A i \in Ids : i < r.id => s.snaps[i] = r.snaps[i]
         /\ \/ s = r
            \/ /\ s.id = r.id + 1 /\ r.id \in Ids /\ s.snaps[r.id] = r.data
               /\ \E e \in AnyEntry : /\ e.id = r.id /\ e.what = what
                                      /\ s.hist = Recorded(r.hist, e)
<1>1. /\ HasFields(r, {"data", "hist", "snaps", "id"})
      /\ Listed(Objects, r.data) /\ r.id \in Nat \ {0} /\ Sound(r.hist, r.id)
      /\ HasFields(r.snaps, Ids)
      /\ \A i \in Ids : Listed(Objects, r.snaps[i]) \/ r.snaps[i] = NoSnap
  BY DEF Fits, Stored
<1>2. CASE HeldBy(r)
  <2>1. s = r
    BY <1>2 DEF AfterRecord
  <2>2. r.snaps[CursorId(r.hist)] = r.data
    BY <1>2 DEF HeldBy, CursorId
  <2> QED BY <1>1, <2>1, <2>2
<1>3. CASE ~HeldBy(r)
  <2> DEFINE e == [id |-> r.id, when |-> when, what |-> what]
             kept == [i \in Ids |-> IF i = r.id THEN r.data ELSE r.snaps[i]]
  <2>1. s = [r EXCEPT !.hist = Recorded(r.hist, e), !.snaps = kept, !.id = r.id + 1]
    BY <1>3 DEF AfterRecord
  <2>2. e \in AnyEntry /\ e.id = r.id /\ e.what = what
    BY <1>1 DEF AnyEntry
  <2> HIDE DEF e, kept
  <2>3. /\ s = [data |-> r.data, hist |-> Recorded(r.hist, e), snaps |-> kept, id |-> r.id + 1]
        /\ s.data = r.data /\ s.hist = Recorded(r.hist, e) /\ s.snaps = kept
        /\ s.id = r.id + 1
    BY <1>1, <2>1 DEF HasFields
  <2>4. HasFields(s, {"data", "hist", "snaps", "id"})
    BY <2>3 DEF HasFields
  <2>5. r.id \in Ids
    BY <1>1, <2>3, MergeBounds DEF Ids
  <2>6. kept[r.id] = r.data /\ HasFields(kept, Ids)
    BY <2>5 DEF kept, HasFields
  <2>7. \A i \in Ids : Listed(Objects, kept[i]) \/ kept[i] = NoSnap
    BY <1>1 DEF kept
  <2>8. Sound(s.hist, s.id) /\ CursorId(s.hist) = r.id
    BY <1>1, <2>2, <2>3, RecordedHas
  <2>9. \A i \in Ids : i < r.id => kept[i] = r.snaps[i]
    BY <1>1 DEF kept, Ids
  <2>10. s.id \in Nat \ {0} /\ r.id <= s.id
    BY <1>1, <2>3
  <2>11. Fits(s)
    BY <1>1, <2>3, <2>4, <2>6, <2>7, <2>8, <2>10 DEF Fits, Stored
  <2> QED BY <2>2, <2>3, <2>5, <2>6, <2>8, <2>9, <2>10, <2>11
<1> QED BY <1>2, <1>3

LEMMA AfterRecordReads ==
  ASSUME NEW r, Fits(r), NEW when \in Whens, NEW what \in Whats,
         NEW s, s = AfterRecord(r, when, what), s.id <= MaxId + 1
  PROVE  /\ Follows(r.hist, r.id, s.hist)
         /\ \A h : Sound(h, r.id) /\ Readable(h, r.snaps) => Readable(h, s.snaps)
         /\ Readable(r.hist, r.snaps) => Readable(s.hist, s.snaps)
<1>1. /\ Fits(s) /\ s.data = r.data /\ r.id <= s.id
      /\ s.snaps[CursorId(s.hist)] = s.data
      /\ \A i \in Ids : i < r.id => s.snaps[i] = r.snaps[i]
      /\ \/ s = r
         \/ /\ s.id = r.id + 1 /\ r.id \in Ids /\ s.snaps[r.id] = r.data
            /\ \E e \in AnyEntry : /\ e.id = r.id /\ e.what = what
                                   /\ s.hist = Recorded(r.hist, e)
  BY AfterRecordHas
<1>2. r.id \in Nat \ {0} /\ Sound(r.hist, r.id) /\ Listed(Objects, r.data)
  BY DEF Fits
<1>3. r.data # NoSnap
  BY <1>2, NoSnapIsNoList DEF Listed
<1>4. ASSUME NEW h, Sound(h, r.id), Readable(h, r.snaps) PROVE Readable(h, s.snaps)
  BY <1>1, <1>4 DEF Readable, Sound
<1>5. CASE s = r
  <2>1. Follows(r.hist, r.id, r.hist)
    BY DEF Follows
  <2> QED BY <1>4, <1>5, <2>1
<1>6. ASSUME NEW e \in AnyEntry, e.id = r.id, s.hist = Recorded(r.hist, e),
             r.id \in Ids, s.snaps[r.id] = r.data
      PROVE  /\ Follows(r.hist, r.id, s.hist)
             /\ Readable(r.hist, r.snaps) => Readable(s.hist, s.snaps)
  <2>1. Follows(r.hist, r.id, s.hist)
    BY <1>2, <1>6, RecordedFollows
  <2>2. EntryIds(s.hist) = Applied(r.hist) \cup {r.id}
    BY <1>2, <1>6, RecordedHas
  <2>3. \A i \in Applied(r.hist) : i \in EntryIds(r.hist)
    BY <1>2, SoundHas
  <2>4. ASSUME Readable(r.hist, r.snaps) PROVE Readable(s.hist, s.snaps)
    <3>1. Readable(r.hist, s.snaps)
      BY <1>2, <1>4, <2>4
    <3> QED BY <1>3, <1>6, <2>2, <2>3, <3>1 DEF Readable
  <2> QED BY <2>1, <2>4
<1> QED BY <1>1, <1>4, <1>5, <1>6

-----------------------------------------------------------------------------
(* The inductive invariant behind the action properties.                   *)

(* What is on disk: the file with its history and the snapshots.           *)
DiskFits == Fits(Recording) /\ Readable(file.hist, snaps)

(* The job's copy and its base; the file's history was grown from that of  *)
(* the base.                                                               *)
CopyFits ==
  /\ Listed(Objects, job.mem.data)
  /\ job.at # "open" =>
       /\ Listed(Objects, job.base.data)
       /\ Sound(job.base.hist, nextId)
       /\ Grown(job.base.hist, file.hist)

(* A base read at the file's revision is the file's data.                  *)
BaseCurrent == job.at = "read" /\ job.rev = file.rev => job.base.data = file.data

(* A job that changed nothing has the data of the revision it was loaded   *)
(* at, and from its checkpoint on that of its base.                        *)
Untouched ==
  /\ work \in Nat
  /\ work = 0 =>
       /\ job.at \in {"open", "read", "based"} /\ job.sig = file.rev
          => job.mem.data = file.data
       /\ job.at \in {"based", "writing", "landed"} => job.mem.data = job.base.data

(* No entry of the base that somebody undid is applied in what is saved,   *)
(* except beside an edit undone later, and none left applied is undone.    *)
LineageHeld ==
  \A i \in EntryIds(job.base.hist) :
    /\ i \in Applied(job.next.hist) =>
         i \in Applied(file.hist) \/ (EditUndone /\ NothingLabelled)
    /\ i \in Applied(file.hist) \cap Applied(job.base.hist) => i \in Applied(job.next.hist)

(* A save on its way: what will replace the file.                          *)
SaveFits ==
  job.at = "writing" =>
    /\ job.next.data = MergedList(job.base.data, job.mem.data, file.data)
    /\ ~ListClashes(job.base.data, job.mem.data, file.data)
    /\ Sound(job.next.hist, nextId) /\ Grown(job.base.hist, job.next.hist)
    /\ Readable(job.next.hist, snaps)
    /\ job.label # NoLabel \/ Moved => snaps[CursorId(job.next.hist)] = job.next.data
    /\ job.own \cap EntryIds(file.hist) = {}
    /\ LineageHeld

LandedFits ==
  job.at = "landed" => job.next = Project /\ job.pruned \cap EntryIds(file.hist) = {}

DInv == DiskFits /\ CopyFits /\ BaseCurrent /\ Untouched /\ SaveFits /\ LandedFits

-----------------------------------------------------------------------------
(* What another writer, or the job, makes of a list is a list.             *)
LEMMA ChangesListed ==
  ASSUME NEW data, Listed(Objects, data), NEW d \in ChangesOf(data)
  PROVE  Listed(Objects, d)
<1>1. /\ data \in Seq(Objects) /\ Len(data) \in Nat /\ DOMAIN data = 1..Len(data)
      /\ \A n \in DOMAIN data : data[n] \in Objects
      /\ \A m, n \in DOMAIN data : data[m].id = data[n].id => m = n
  BY LenProperties DEF Listed
<1>2. ASSUME NEW i \in DOMAIN data, NEW v \in Values, d = [data EXCEPT ![i].val = v]
      PROVE  Listed(Objects, d)
  <2>1. d = [data EXCEPT ![i] = [data[i] EXCEPT !.val = v]]
    BY <1>2
  <2>2. [data[i] EXCEPT !.val = v] \in Objects /\ [data[i] EXCEPT !.val = v].id = data[i].id
    BY <1>1 DEF Objects
  <2>3. d \in Seq(Objects) /\ DOMAIN d = DOMAIN data
    BY <1>1, <2>1, <2>2
  <2>4. \A n \in DOMAIN data : d[n].id = data[n].id
    BY <1>1, <2>1, <2>2
  <2> QED BY <1>1, <2>3, <2>4 DEF Listed
<1>3. ASSUME NEW x \in Objects, x.id \notin IdsOf(data), d = Append(data, x)
      PROVE  Listed(Objects, d)
  <2>1. /\ d \in Seq(Objects) /\ DOMAIN d = 1..(Len(data) + 1)
        /\ \A n \in 1..Len(data) : d[n] = data[n]
        /\ d[Len(data) + 1] = x
    BY <1>1, <1>3
  <2>2. \A n \in DOMAIN d : \/ n \in DOMAIN data /\ d[n] = data[n]
                            \/ n = Len(data) + 1 /\ d[n] = x
    BY <1>1, <2>1
  <2>3. \A n \in DOMAIN data : data[n].id # x.id
    BY <1>3 DEF IdsOf
  <2> QED BY <1>1, <2>1, <2>2, <2>3 DEF Listed
<1>4. ASSUME NEW i \in DOMAIN data, d = RemoveAt(data, i)
      PROVE  Listed(Objects, d)
  <2> DEFINE p == SubSeq(data, 1, i - 1)
             q == SubSeq(data, i + 1, Len(data))
  <2>1. d = p \o q
    BY <1>4 DEF RemoveAt
  <2>2. i \in Int /\ 1 <= i /\ i <= Len(data)
    BY <1>1
  <2>3. p \in Seq(Objects) /\ Len(p) = i - 1 /\ \A n \in 1..(i - 1) : p[n] = data[n]
    <3>1. \A n \in 1..(i - 1) : data[n] \in Objects
      BY <1>1, <2>2
    <3>2. 1 \in Int /\ i - 1 \in Int
      BY <2>2
    <3>3. /\ p \in Seq(Objects)
          /\ Len(p) = IF 1 <= i - 1 THEN (i - 1) - 1 + 1 ELSE 0
          /\ \A n \in 1..((i - 1) - 1 + 1) : p[n] = data[1 + n - 1]
      BY <3>1, <3>2, SubSeqProperties
    <3> QED BY <2>2, <3>3
  <2>4. /\ q \in Seq(Objects) /\ Len(q) = Len(data) - i
        /\ \A n \in 1..(Len(data) - i) : q[n] = data[i + n]
    <3>1. \A n \in (i + 1)..Len(data) : data[n] \in Objects
      BY <1>1, <2>2
    <3>2. i + 1 \in Int /\ Len(data) \in Int
      BY <1>1, <2>2
    <3>3. /\ q \in Seq(Objects)
          /\ Len(q) = IF i + 1 <= Len(data) THEN Len(data) - (i + 1) + 1 ELSE 0
          /\ \A n \in 1..(Len(data) - (i + 1) + 1) : q[n] = data[i + 1 + n - 1]
      BY <3>1, <3>2, SubSeqProperties
    <3> QED BY <1>1, <2>2, <3>3
  <2> HIDE DEF p, q
  <2>5. /\ d \in Seq(Objects) /\ Len(d) = Len(data) - 1
        /\ \A n \in 1..(i - 1) + (Len(data) - i) :
             d[n] = IF n <= i - 1 THEN p[n] ELSE q[n - (i - 1)]
    <3>1. /\ d \in Seq(Objects) /\ Len(d) = Len(p) + Len(q)
          /\ \A n \in 1..Len(p) + Len(q) : d[n] = IF n <= Len(p) THEN p[n] ELSE q[n - Len(p)]
      BY <2>1, <2>3, <2>4, ConcatProperties
    <3> QED BY <1>1, <2>2, <2>3, <2>4, <3>1
  <2>6. DOMAIN d = 1..(Len(data) - 1)
    BY <2>5, LenProperties
  <2>7. \A n \in DOMAIN d : \/ n <= i - 1 /\ n \in DOMAIN data /\ d[n] = data[n]
                            \/ ~(n <= i - 1) /\ n + 1 \in DOMAIN data /\ d[n] = data[n + 1]
    <3> SUFFICES ASSUME NEW n \in DOMAIN d
                 PROVE  \/ n <= i - 1 /\ n \in DOMAIN data /\ d[n] = data[n]
                        \/ ~(n <= i - 1) /\ n + 1 \in DOMAIN data /\ d[n] = data[n + 1]
      OBVIOUS
    <3>1. n \in 1..(i - 1) + (Len(data) - i) /\ n \in Int
      BY <1>1, <2>2, <2>6
    <3>2. CASE n <= i - 1
      BY <1>1, <2>2, <2>3, <2>5, <3>1, <3>2
    <3>3. CASE ~(n <= i - 1)
      <4>1. n - (i - 1) \in 1..(Len(data) - i) /\ i + (n - (i - 1)) = n + 1
        BY <1>1, <2>2, <3>1, <3>3
      <4>2. d[n] = data[n + 1]
        BY <2>4, <2>5, <3>1, <3>3, <4>1
      <4> QED BY <1>1, <2>2, <3>1, <3>3, <4>2
    <3> QED BY <3>2, <3>3
  <2>8. ASSUME NEW m \in DOMAIN d, NEW n \in DOMAIN d, d[m].id = d[n].id
        PROVE  m = n
    <3>1. m \in Int /\ n \in Int
      BY <2>6
    <3>2. CASE m <= i - 1 /\ n <= i - 1
      BY <1>1, <2>7, <2>8, <3>2
    <3>3. CASE ~(m <= i - 1) /\ ~(n <= i - 1)
      <4>1. m + 1 = n + 1
        BY <1>1, <2>7, <2>8, <3>3
      <4> QED BY <3>1, <4>1
    <3>4. CASE m <= i - 1 /\ ~(n <= i - 1)
      <4>1. m = n + 1
        BY <1>1, <2>7, <2>8, <3>4
      <4> QED BY <2>2, <3>1, <3>4, <4>1
    <3>5. CASE ~(m <= i - 1) /\ n <= i - 1
      <4>1. m + 1 = n
        BY <1>1, <2>7, <2>8, <3>5
      <4> QED BY <2>2, <3>1, <3>5, <4>1
    <3> QED BY <3>2, <3>3, <3>4, <3>5
  <2> QED BY <2>5, <2>8 DEF Listed
<1>5. ASSUME d = Reverse(data) PROVE Listed(Objects, d)
  <2>1. d = [n \in 1..Len(data) |-> data[(Len(data) - n) + 1]]
    BY <1>5 DEF Reverse
  <2>2. \A n \in 1..Len(data) : (Len(data) - n) + 1 \in DOMAIN data
    BY <1>1
  <2>3. d \in Seq(Objects) /\ DOMAIN d = 1..Len(data)
    BY <1>1, <2>1, <2>2
  <2>4. ASSUME NEW m \in DOMAIN d, NEW n \in DOMAIN d, d[m].id = d[n].id
        PROVE  m = n
    <3>1. (Len(data) - m) + 1 = (Len(data) - n) + 1
      BY <1>1, <2>1, <2>2, <2>3, <2>4
    <3> QED BY <1>1, <2>3, <3>1
  <2> QED BY <2>3, <2>4 DEF Listed
<1> QED BY <1>2, <1>3, <1>4, <1>5 DEF ChangesOf

LEMMA AbsentIsNoObject == Absent \notin Objects
<1>1. DOMAIN Absent = {"absent"}
  BY DEF Absent
<1>2. \A x \in Objects : DOMAIN x = {"id", "val"}
  BY DEF Objects
<1> QED BY <1>1, <1>2

LEMMA AfterRecordIds ==
  ASSUME NEW r, HasFields(r, {"data", "hist", "snaps", "id"}), NEW when, NEW what
  PROVE  /\ HasFields(AfterRecord(r, when, what), {"data", "hist", "snaps", "id"})
         /\ AfterRecord(r, when, what).data = r.data
         /\ AfterRecord(r, when, what).id \in {r.id, r.id + 1}
<1> DEFINE e    == [id |-> r.id, when |-> when, what |-> what]
           kept == [i \in Ids |-> IF i = r.id THEN r.data ELSE r.snaps[i]]
           s    == AfterRecord(r, when, what)
<1>1. s = r \/ s = [r EXCEPT !.hist = Recorded(r.hist, e), !.snaps = kept, !.id = r.id + 1]
  BY DEF AfterRecord
<1> HIDE DEF e, kept, s
<1>2. \/ s = r
      \/ s = [data |-> r.data, hist |-> Recorded(r.hist, e), snaps |-> kept, id |-> r.id + 1]
  BY <1>1 DEF HasFields
<1>3. HasFields(s, {"data", "hist", "snaps", "id"}) /\ s.data = r.data /\ s.id \in {r.id, r.id + 1}
  BY <1>2 DEF HasFields
<1> QED BY <1>3 DEF s

(* What the trim and the removal of its snapshots leave.                   *)
LEMMA TrimReads ==
  ASSUME NEW h, NEW n, Sound(h, n), NEW s, Stored(s), Readable(h, s)
  PROVE  /\ Stored(Without(s, PrunedIds(h)))
         /\ Readable(Trimmed(h), Without(s, PrunedIds(h)))
         /\ Readable(Trimmed(h), s)
         /\ Sound(Trimmed(h), n)
         /\ \A i \in EntryIds(Trimmed(h)) : /\ i \in EntryIds(h) /\ i \notin PrunedIds(h)
                                            /\ EntryAt(Trimmed(h), i) = EntryAt(h, i)
<1>1. /\ Sound(Trimmed(h), n)
      /\ EntryIds(Trimmed(h)) = EntryIds(h) \ PrunedIds(h)
      /\ \A i \in EntryIds(Trimmed(h)) : EntryAt(Trimmed(h), i) = EntryAt(h, i)
  BY TrimmedHas
<1>2. Stored(Without(s, PrunedIds(h)))
  BY DEF Stored, Without, HasFields
<1>3. Readable(Trimmed(h), Without(s, PrunedIds(h)))
  BY <1>1 DEF Readable, Without
<1>4. Readable(Trimmed(h), s)
  BY <1>1 DEF Readable
<1> QED BY <1>1, <1>2, <1>3, <1>4

-----------------------------------------------------------------------------
LEMMA DiskHas ==
  ASSUME DInv
  PROVE  /\ Listed(Objects, file.data) /\ Sound(file.hist, nextId)
         /\ nextId \in Nat \ {0} /\ Stored(snaps) /\ Readable(file.hist, snaps)
         /\ Fits(Recording)
         /\ Recording.data = file.data /\ Recording.hist = file.hist
         /\ Recording.snaps = snaps /\ Recording.id = nextId
         /\ HasFields(Recording, {"data", "hist", "snaps", "id"})
BY DEF DInv, DiskFits, Fits, Recording

(* Another writer's call.                                                  *)
LEMMA CommitFits ==
  ASSUME IInv, DInv, ~Locked, NEW r, Commit(r), Fits(r), Readable(r.hist, r.snaps),
         Follows(file.hist, nextId, r.hist), nextId <= r.id
  PROVE  DInv'
<1> DEFINE t == Trimmed(r.hist)
           gone == PrunedIds(r.hist)
<1>1. /\ file' = [data |-> r.data, hist |-> t, rev |-> file.rev + 1]
      /\ snaps' = Without(r.snaps, gone) /\ nextId' = r.id
      /\ job' = job /\ work' = work
  BY DEF Commit
<1>2. /\ Listed(Objects, r.data) /\ r.id \in Nat \ {0} /\ Sound(r.hist, r.id) /\ Stored(r.snaps)
      /\ nextId \in Nat \ {0}
  BY DiskHas DEF Fits
<1>3. /\ Stored(Without(r.snaps, gone)) /\ Readable(t, Without(r.snaps, gone))
      /\ Sound(t, r.id)
      /\ \A i \in EntryIds(t) : i \in EntryIds(r.hist) /\ EntryAt(t, i) = EntryAt(r.hist, i)
  BY <1>2, TrimReads
<1>4. Follows(file.hist, nextId, t)
  BY <1>3 DEF Follows
<1> HIDE DEF t, gone
<1>5. DiskFits'
  BY <1>1, <1>2, <1>3 DEF DiskFits, Fits, Recording, HasFields
<1>6. CopyFits'
  <2>1. CASE job.at = "open"
    BY <1>1, <2>1 DEF DInv, CopyFits
  <2>2. CASE job.at # "open"
    <3>1. /\ Listed(Objects, job.base.data) /\ Listed(Objects, job.mem.data)
          /\ Sound(job.base.hist, nextId) /\ Grown(job.base.hist, file.hist)
      BY <2>2 DEF DInv, CopyFits
    <3>2. Sound(job.base.hist, r.id)
      BY <1>2, <3>1, SoundLonger
    <3>3. Grown(job.base.hist, t)
      BY <1>2, <1>3, <1>4, <3>1, FollowsGrown
    <3> QED BY <1>1, <3>1, <3>2, <3>3 DEF CopyFits
  <2> QED BY <2>1, <2>2
<1>7. file'.rev = file.rev + 1 /\ file.rev \in Nat
  BY <1>1 DEF IInv, FileShape
<1>8. BaseCurrent'
  BY <1>1, <1>7 DEF IInv, ReadCurrent, BaseCurrent
<1>9. Untouched'
  BY <1>1, <1>7 DEF IInv, CopyCurrent, DInv, Untouched
<1>10. SaveFits' /\ LandedFits'
  BY <1>1 DEF Locked, SaveFits, LandedFits
<1> QED BY <1>5, <1>6, <1>8, <1>9, <1>10 DEF DInv

LEMMA EditFits ==
  ASSUME IInv, DInv, NEW what \in Edits \cup {Preview}, NEW data \in ChangesOf(file.data),
         Edit(what, data)
  PROVE  DInv'
<1> DEFINE b == AfterRecord(Recording, "before", what)
           m == [b EXCEPT !.data = data]
           r == AfterRecord(m, "after", what)
<1>1. ~Locked /\ Commit(r) /\ r.id <= MaxId + 1
  BY DEF Edit, WriterMayStart, Commit
<1>2. what \in Whats /\ "before" \in Whens /\ "after" \in Whens
  BY DEF Whats, Whens
<1>3. /\ HasFields(b, {"data", "hist", "snaps", "id"}) /\ b.id \in {nextId, nextId + 1}
  BY DiskHas, AfterRecordIds
<1>4. /\ HasFields(m, {"data", "hist", "snaps", "id"}) /\ m.data = data
      /\ m.id = b.id /\ m.hist = b.hist /\ m.snaps = b.snaps
  <2> HIDE DEF b
  <2>1. m = [data |-> data, hist |-> b.hist, snaps |-> b.snaps, id |-> b.id]
    BY <1>3 DEF HasFields
  <2> QED BY <2>1 DEF HasFields
<1>5. r.id \in {m.id, m.id + 1}
  BY <1>4, AfterRecordIds
<1>6. nextId \in Nat /\ MaxId \in Nat
  BY DiskHas, MergeBounds
<1>7. b.id <= MaxId + 1
  BY <1>1, <1>3, <1>4, <1>5, <1>6
<1>8. /\ Fits(b) /\ nextId <= b.id
      /\ Follows(file.hist, nextId, b.hist) /\ Readable(b.hist, b.snaps)
  BY <1>2, <1>7, DiskHas, AfterRecordHas, AfterRecordReads
<1>9. Listed(Objects, data)
  BY DiskHas, ChangesListed
<1>10. Fits(m) /\ Readable(m.hist, m.snaps)
  BY <1>4, <1>8, <1>9 DEF Fits
<1> HIDE DEF b, m
<1>11. /\ Fits(r) /\ m.id <= r.id
       /\ Follows(m.hist, m.id, r.hist) /\ Readable(r.hist, r.snaps)
  BY <1>1, <1>2, <1>10, AfterRecordHas, AfterRecordReads
<1> HIDE DEF r
<1>12. m.id \in Nat /\ r.id \in Nat /\ Sound(r.hist, r.id)
  BY <1>10, <1>11 DEF Fits
<1>13. Follows(file.hist, nextId, r.hist) /\ nextId <= r.id
  <2>1. nextId <= m.id
    BY <1>4, <1>8
  <2>2. Follows(file.hist, nextId, m.hist)
    BY <1>4, <1>8
  <2>3. Follows(file.hist, nextId, r.hist)
    BY <1>6, <1>11, <1>12, <2>1, <2>2, FollowsOn
  <2> QED BY <1>6, <1>11, <1>12, <2>1, <2>3
<1> QED BY <1>1, <1>11, <1>13, CommitFits

LEMMA MoveFits ==
  ASSUME IInv, DInv, NEW i, Move(i)
  PROVE  DInv'
<1> DEFINE e == file.hist.entries[i]
           r == [Recording EXCEPT !.data = snaps[e.id], !.hist = MovedTo(file.hist, i)]
<1>1. ~Locked /\ i \in DOMAIN file.hist.entries /\ snaps[e.id] # NoSnap /\ Commit(r)
  BY DEF Move, WriterMayStart
<1>2. r = [data |-> snaps[e.id], hist |-> MovedTo(file.hist, i), snaps |-> snaps,
           id |-> nextId]
  <2> DEFINE d == snaps[e.id]
             h == MovedTo(file.hist, i)
  <2>0. r = [Recording EXCEPT !.data = d, !.hist = h]
    OBVIOUS
  <2> HIDE DEF e, d, h, r
  <2>1. /\ HasFields(Recording, {"data", "hist", "snaps", "id"})
        /\ Recording.snaps = snaps /\ Recording.id = nextId
    BY DiskHas
  <2>2. r = [data |-> d, hist |-> h, snaps |-> snaps, id |-> nextId]
    BY <2>0, <2>1 DEF HasFields
  <2> QED BY <2>2 DEF d, h
<1>3. e.id \in EntryIds(file.hist)
  BY <1>1 DEF EntryIds
<1>4. e.id \in Ids
  BY <1>3, DiskHas DEF Readable
<1> HIDE DEF e
<1>5. Listed(Objects, snaps[e.id])
  BY <1>1, <1>4, DiskHas DEF Stored
<1>6. /\ Sound(MovedTo(file.hist, i), nextId)
      /\ EntryIds(MovedTo(file.hist, i)) = EntryIds(file.hist)
      /\ \A k : EntryAt(MovedTo(file.hist, i), k) = EntryAt(file.hist, k)
  BY <1>1, DiskHas, MovedHas
<1> HIDE DEF r
<1>7. /\ r.data = snaps[e.id] /\ r.hist = MovedTo(file.hist, i) /\ r.snaps = snaps
      /\ r.id = nextId /\ HasFields(r, {"data", "hist", "snaps", "id"})
  BY <1>2 DEF HasFields
<1>8. Fits(r)
  BY <1>5, <1>6, <1>7, DiskHas DEF Fits
<1>9. Readable(r.hist, r.snaps)
  BY <1>6, <1>7, DiskHas DEF Readable
<1>10. Follows(file.hist, nextId, r.hist)
  BY <1>6, <1>7 DEF Follows
<1>11. nextId <= r.id
  BY <1>7, DiskHas
<1> QED BY <1>1, <1>8, <1>9, <1>10, <1>11, CommitFits, Zenon DEF r

-----------------------------------------------------------------------------
LEMMA WorkFits ==
  ASSUME IInv, DInv, NEW data \in ChangesOf(job.mem.data), Work(data)
  PROVE  DInv'
<1>1. /\ job.at \in {"open", "based"} /\ work' = work + 1
      /\ job' = [job EXCEPT !.mem.data = data]
      /\ UNCHANGED <<file, index, snaps, nextId, loose>>
  BY DEF Work
<1>2. HasFields(job, {"at", "mem", "base", "sig"}) /\ HasFields(job.mem, {"data", "hist"})
  BY <1>1 DEF IInv, JobShape, Whole
<1>3. /\ job'.at = job.at /\ job'.base = job.base
      /\ job'.mem = [job.mem EXCEPT !.data = data]
  BY <1>1, <1>2 DEF HasFields
<1>4. job'.mem.data = data
  BY <1>2, <1>3 DEF HasFields
<1>5. Listed(Objects, data)
  BY ChangesListed DEF DInv, CopyFits
<1>6. DiskFits'
  BY <1>1 DEF DInv, DiskFits, Recording
<1>7. CopyFits'
  BY <1>1, <1>3, <1>4, <1>5 DEF DInv, CopyFits
<1>8. Untouched'
  BY <1>1 DEF DInv, Untouched
<1>9. BaseCurrent' /\ SaveFits' /\ LandedFits'
  BY <1>1, <1>3 DEF BaseCurrent, SaveFits, LandedFits
<1> QED BY <1>6, <1>7, <1>8, <1>9 DEF DInv

LEMMA ReadFits ==
  ASSUME IInv, DInv, Read
  PROVE  DInv'
<1>1. /\ job.at \in {"open", "based"}
      /\ job' = [at |-> "read", mem |-> job.mem, sig |-> job.sig, base |-> Project,
                 rev |-> file.rev]
      /\ UNCHANGED <<file, index, snaps, nextId, work, loose>>
  BY DEF Read
<1>2. /\ job'.at = "read" /\ job'.mem = job.mem /\ job'.sig = job.sig
      /\ job'.base.data = file.data /\ job'.base.hist = file.hist
  BY <1>1 DEF Project
<1>3. DiskFits'
  BY <1>1 DEF DInv, DiskFits, Recording
<1>4. CopyFits'
  BY <1>1, <1>2, DiskHas, GrewItself DEF DInv, CopyFits
<1>5. BaseCurrent' /\ SaveFits' /\ LandedFits'
  BY <1>1, <1>2 DEF BaseCurrent, SaveFits, LandedFits
<1>6. Untouched'
  BY <1>1, <1>2 DEF DInv, Untouched
<1> QED BY <1>3, <1>4, <1>5, <1>6 DEF DInv

LEMMA CheckpointFits ==
  ASSUME IInv, DInv, Checkpoint
  PROVE  DInv'
<1> DEFINE keeps == file.rev = job.rev /\ job.rev = job.sig
           held  == IF keeps THEN job.mem ELSE job.base
           sig   == IF file.rev = job.rev THEN job.rev ELSE Unknown
<1>1. /\ job.at = "read"
      /\ job' = [at |-> "based", base |-> job.base, mem |-> held, sig |-> sig]
      /\ UNCHANGED <<file, index, snaps, nextId, work, loose>>
  BY DEF Checkpoint
<1>2. file.rev \in Nat \ {0}
  BY DEF IInv, FileShape
<1>3. file.rev = job.rev => job.base.data = file.data
  BY <1>1 DEF DInv, BaseCurrent
<1>4. work = 0 /\ job.sig = file.rev => job.mem.data = file.data
  BY <1>1 DEF DInv, Untouched
<1>5. work = 0 => held.data = job.base.data
  BY <1>3, <1>4
<1>6. Listed(Objects, held.data)
  BY <1>1 DEF DInv, CopyFits
<1>7. sig = file.rev => file.rev = job.rev
  BY <1>2 DEF Unknown
<1> HIDE DEF held, sig
<1>8. /\ job'.at = "based" /\ job'.base = job.base /\ job'.mem = held /\ job'.sig = sig
  BY <1>1
<1>9. DiskFits'
  BY <1>1 DEF DInv, DiskFits, Recording
<1>10. CopyFits'
  BY <1>1, <1>6, <1>8 DEF DInv, CopyFits
<1>11. Untouched'
  BY <1>1, <1>3, <1>5, <1>7, <1>8 DEF DInv, Untouched
<1>12. BaseCurrent' /\ SaveFits' /\ LandedFits'
  BY <1>8 DEF BaseCurrent, SaveFits, LandedFits
<1> QED BY <1>9, <1>10, <1>11, <1>12 DEF DInv

LEMMA OpenedFits ==
  ASSUME IInv, DInv, job' = Opened(Project, file.rev),
         UNCHANGED <<file, snaps, nextId, work>>
  PROVE  DInv'
<1>1. /\ job'.at = "open" /\ job'.mem.data = file.data
  BY DEF Opened, Project
<1>2. DiskFits'
  BY DEF DInv, DiskFits, Recording
<1>3. CopyFits'
  BY <1>1, DiskHas DEF CopyFits
<1>4. Untouched'
  BY <1>1 DEF DInv, Untouched
<1>5. BaseCurrent' /\ SaveFits' /\ LandedFits'
  BY <1>1 DEF BaseCurrent, SaveFits, LandedFits
<1> QED BY <1>2, <1>3, <1>4, <1>5 DEF DInv

LEMMA RefuseSaveFits ==
  ASSUME IInv, DInv, NEW label, RefuseSave(label)
  PROVE  DInv'
<1>1. /\ job.at = "based"
      /\ job' = [job EXCEPT !.sig = Unknown]
      /\ UNCHANGED <<file, index, snaps, nextId, work, loose>>
  BY DEF RefuseSave
<1>2. HasFields(job, {"at", "mem", "base", "sig"})
  BY <1>1 DEF IInv, JobShape
<1>3. /\ job'.at = "based" /\ job'.mem = job.mem /\ job'.base = job.base
      /\ job'.sig = Unknown
  BY <1>1, <1>2 DEF HasFields
<1>4. file.rev # Unknown
  BY DEF IInv, FileShape, Unknown
<1>5. DiskFits'
  BY <1>1 DEF DInv, DiskFits, Recording
<1>6. CopyFits'
  BY <1>1, <1>3 DEF DInv, CopyFits
<1>7. Untouched'
  BY <1>1, <1>3, <1>4 DEF DInv, Untouched
<1>8. BaseCurrent' /\ SaveFits' /\ LandedFits'
  BY <1>3 DEF BaseCurrent, SaveFits, LandedFits
<1> QED BY <1>5, <1>6, <1>7, <1>8 DEF DInv

(* The job's copy as it was, or as it was saved.                           *)
LEMMA BasedFits ==
  ASSUME IInv, DInv, Locked, NEW s, snaps' = s, Stored(s), Readable(file.hist, s),
         UNCHANGED <<file, nextId, work>>,
         job'.at = "based", job'.sig = Unknown,
         \/ job'.mem = job.mem /\ job'.base = job.base
         \/ job'.mem = Project /\ job'.base = Project
  PROVE  DInv'
<1>1. file.rev # Unknown /\ job.at \in {"writing", "landed"}
  BY DEF IInv, FileShape, Unknown, Locked
<1>2. DiskFits'
  BY DEF DInv, DiskFits, Recording, Fits, HasFields
<1>3. CopyFits' /\ Untouched'
  <2>1. CASE job'.mem = job.mem /\ job'.base = job.base
    BY <1>1, <2>1 DEF DInv, CopyFits, Untouched
  <2>2. CASE job'.mem = Project /\ job'.base = Project
    <3>1. /\ job'.mem.data = file.data /\ job'.base.data = file.data
          /\ job'.base.hist = file.hist
      BY <2>2 DEF Project
    <3>2. CopyFits'
      BY <3>1, DiskHas, GrewItself DEF CopyFits
    <3>3. Untouched'
      BY <1>1, <3>1 DEF DInv, Untouched
    <3> QED BY <3>2, <3>3
  <2> QED BY <2>1, <2>2
<1>4. BaseCurrent' /\ SaveFits' /\ LandedFits'
  BY DEF BaseCurrent, SaveFits, LandedFits
<1> QED BY <1>2, <1>3, <1>4 DEF DInv

(* What the job saves under its label.                                     *)
LEMMA LabelledHas ==
  ASSUME IInv, DInv, job.at = "based", NEW label \in Labels \cup {NoLabel},
         NEW l, l = Labelled(label), l.id <= MaxId + 1
  PROVE  /\ Fits(l) /\ l.data = job.mem.data /\ nextId <= l.id
         /\ \A h : Sound(h, nextId) /\ Readable(h, snaps) => Readable(h, l.snaps)
         /\ Readable(job.base.hist, snaps) => Readable(l.hist, l.snaps)
         /\ label # NoLabel => l.snaps[CursorId(l.hist)] = l.data
         /\ \/ l.hist = job.base.hist /\ l.id = nextId
            \/ /\ l.id = nextId + 1 /\ nextId \in Ids /\ l.snaps[nextId] # NoSnap
               /\ \E e \in AnyEntry : e.id = nextId /\ l.hist = Recorded(job.base.hist, e)
<1> DEFINE d == job.mem.data
           h == job.mem.hist
           mine == [Recording EXCEPT !.data = d, !.hist = h]
<1>1. h = job.base.hist
  BY DEF IInv, BaseHeld
<1>2. /\ Listed(Objects, d) /\ Sound(h, nextId)
  BY <1>1 DEF DInv, CopyFits
<1>3. l = IF label = NoLabel THEN mine ELSE AfterRecord(mine, label.when, label.what)
  BY DEF Labelled
<1> HIDE DEF d, h
<1>4. /\ HasFields(Recording, {"data", "hist", "snaps", "id"})
      /\ Recording.snaps = snaps /\ Recording.id = nextId /\ nextId \in Nat \ {0} /\ Stored(snaps)
  BY DiskHas
<1>5. mine = [data |-> d, hist |-> h, snaps |-> snaps, id |-> nextId]
  <2>1. mine = [Recording EXCEPT !.data = d, !.hist = h]
    OBVIOUS
  <2> HIDE DEF mine
  <2> QED BY <1>4, <2>1 DEF HasFields
<1> HIDE DEF mine
<1>6. /\ mine.data = d /\ mine.hist = h /\ mine.snaps = snaps /\ mine.id = nextId
      /\ HasFields(mine, {"data", "hist", "snaps", "id"})
  BY <1>5 DEF HasFields
<1>7. Fits(mine)
  BY <1>2, <1>4, <1>6 DEF Fits
<1>8. CASE label = NoLabel
  <2>1. l = mine
    BY <1>3, <1>8
  <2>2. nextId <= nextId
    BY <1>4
  <2> QED BY <1>1, <1>6, <1>7, <1>8, <2>1, <2>2 DEF d
<1>9. CASE label # NoLabel
  <2>1. l = AfterRecord(mine, label.when, label.what)
    BY <1>3, <1>9
  <2>2. label \in Labels
    BY <1>9
  <2>3. label.when \in Whens /\ label.what \in Whats
    BY <2>2, LabelledWhens DEF Whats
  <2>4. /\ Fits(l) /\ l.data = mine.data /\ mine.id <= l.id
        /\ l.snaps[CursorId(l.hist)] = l.data
        /\ \/ l = mine
           \/ /\ l.id = mine.id + 1 /\ mine.id \in Ids /\ l.snaps[mine.id] = mine.data
              /\ \E e \in AnyEntry : /\ e.id = mine.id /\ e.what = label.what
                                     /\ l.hist = Recorded(mine.hist, e)
    BY <1>7, <2>1, <2>3, AfterRecordHas
  <2>5. /\ \A g : Sound(g, mine.id) /\ Readable(g, mine.snaps) => Readable(g, l.snaps)
        /\ Readable(mine.hist, mine.snaps) => Readable(l.hist, l.snaps)
    BY <1>7, <2>1, <2>3, AfterRecordReads
  <2>6. d # NoSnap
    BY <1>2, NoSnapIsNoList DEF Listed
  <2> QED BY <1>1, <1>6, <2>4, <2>5, <2>6 DEF d
<1> QED BY <1>8, <1>9

-----------------------------------------------------------------------------
(* A save of a project nobody else touched.                                *)
LEMMA UnmovedSaves ==
  ASSUME IInv, DInv, job.at = "based", NEW label \in Labels \cup {NoLabel}, ~Moved,
         NEW r, r = ToSave(label), r.id <= MaxId + 1
  PROVE  /\ Fits(r) /\ nextId <= r.id
         /\ r.data = MergedList(job.base.data, job.mem.data, file.data)
         /\ ~ListClashes(job.base.data, job.mem.data, file.data)
         /\ Grown(job.base.hist, r.hist) /\ Readable(r.hist, r.snaps)
         /\ \A h : Sound(h, nextId) /\ Readable(h, snaps) => Readable(h, r.snaps)
         /\ label # NoLabel \/ Moved => r.snaps[CursorId(r.hist)] = r.data
         /\ \A i \in EntryIds(job.base.hist) :
              i \in Applied(r.hist) <=> i \in Applied(file.hist)
<1>1. r = Labelled(label)
  BY DEF ToSave
<1>2. job.base.data = file.data /\ job.base.hist = file.hist
  BY DEF Moved, Project
<1>3. /\ Fits(r) /\ r.data = job.mem.data /\ nextId <= r.id
      /\ \A h : Sound(h, nextId) /\ Readable(h, snaps) => Readable(h, r.snaps)
      /\ Readable(job.base.hist, snaps) => Readable(r.hist, r.snaps)
      /\ label # NoLabel => r.snaps[CursorId(r.hist)] = r.data
      /\ \/ r.hist = job.base.hist /\ r.id = nextId
         \/ /\ r.id = nextId + 1 /\ nextId \in Ids /\ r.snaps[nextId] # NoSnap
            /\ \E e \in AnyEntry : e.id = nextId /\ r.hist = Recorded(job.base.hist, e)
  BY <1>1, LabelledHas
<1>4. /\ MergedList(job.base.data, job.mem.data, file.data) = job.mem.data
      /\ ~ListClashes(job.base.data, job.mem.data, file.data)
  BY <1>2 DEF MergedList, ListClashes, OnlyOneChanged, Chosen
<1>5. Sound(file.hist, nextId) /\ nextId \in Nat \ {0} /\ Readable(file.hist, snaps)
  BY DiskHas
<1>6. /\ Grown(job.base.hist, r.hist)
      /\ \A i \in EntryIds(job.base.hist) : i \in Applied(r.hist) <=> i \in Applied(file.hist)
  <2>1. CASE r.hist = job.base.hist
    BY <1>2, <2>1, GrewItself
  <2>2. ASSUME NEW e \in AnyEntry, e.id = nextId, r.hist = Recorded(job.base.hist, e)
        PROVE  /\ Grown(job.base.hist, r.hist)
               /\ \A i \in EntryIds(job.base.hist) :
                    i \in Applied(r.hist) <=> i \in Applied(file.hist)
    <3>1. Grown(job.base.hist, r.hist)
      BY <1>2, <1>5, <2>2, RecordedGrew
    <3>2. Applied(r.hist) = Applied(file.hist) \cup {nextId}
      BY <1>2, <1>5, <2>2, RecordedHas
    <3>3. nextId \notin EntryIds(job.base.hist)
      BY <1>2, <1>5 DEF Sound
    <3> QED BY <3>1, <3>2, <3>3
  <2> QED BY <1>3, <2>1, <2>2
<1>7. Readable(r.hist, r.snaps)
  BY <1>2, <1>3, <1>5
<1> QED BY <1>3, <1>4, <1>6, <1>7

(* A save of what was merged.                                              *)
LEMMA MovedSaves ==
  ASSUME IInv, DInv, job.at = "based", NEW label \in Labels \cup {NoLabel}, Moved,
         ~Refused(label), NEW r, r = ToSave(label), r.id <= MaxId + 1
  PROVE  /\ Fits(r) /\ nextId <= r.id
         /\ r.data = MergedList(job.base.data, job.mem.data, file.data)
         /\ ~ListClashes(job.base.data, job.mem.data, file.data)
         /\ Grown(job.base.hist, r.hist) /\ Readable(r.hist, r.snaps)
         /\ \A h : Sound(h, nextId) /\ Readable(h, snaps) => Readable(h, r.snaps)
         /\ r.snaps[CursorId(r.hist)] = r.data
         /\ \A i \in EntryIds(job.base.hist) :
              /\ i \in Applied(r.hist) =>
                   \/ i \in Applied(file.hist)
                   \/ /\ EditUndone
                      /\ \A n \in DOMAIN r.hist.entries :
                           r.hist.entries[n].id \in nextId..(r.id - 1)
                           => r.hist.entries[n].what = Merging
              /\ i \in Applied(file.hist) \cap Applied(job.base.hist) => i \in Applied(r.hist)
<1> DEFINE B == job.base.hist
           T == file.hist
           l == Labelled(label)
           O == l.hist
           M == MergedHist(B, O, T)
           d == MergedList(job.base.data, job.mem.data, file.data)
           m == [l EXCEPT !.data = d, !.hist = M]
<1>1. /\ Sound(B, nextId) /\ Sound(T, nextId) /\ Grown(B, T) /\ nextId \in Nat \ {0}
      /\ Listed(Objects, job.base.data) /\ Listed(Objects, job.mem.data)
      /\ Listed(Objects, file.data) /\ Readable(T, snaps)
  BY DiskHas DEF DInv, CopyFits
<1>2. /\ HasFields(l, {"data", "hist", "snaps", "id"}) /\ l.data = job.mem.data
      /\ l.id \in {nextId, nextId + 1}
  <2> DEFINE mine == [Recording EXCEPT !.data = job.mem.data, !.hist = job.mem.hist]
             dd == job.mem.data
             hh == job.mem.hist
  <2>1. l = IF label = NoLabel THEN mine ELSE AfterRecord(mine, label.when, label.what)
    BY DEF Labelled
  <2>2. mine = [Recording EXCEPT !.data = dd, !.hist = hh]
    OBVIOUS
  <2>3. HasFields(Recording, {"data", "hist", "snaps", "id"}) /\ Recording.id = nextId
    BY DiskHas
  <2> HIDE DEF l, mine, dd, hh
  <2>4. /\ HasFields(mine, {"data", "hist", "snaps", "id"}) /\ mine.data = dd
        /\ mine.id = nextId
    BY <2>2, <2>3 DEF HasFields
  <2>5. CASE label = NoLabel
    BY <2>1, <2>4, <2>5 DEF dd
  <2>6. CASE label # NoLabel
    <3>1. l = AfterRecord(mine, label.when, label.what)
      BY <2>1, <2>6
    <3> QED BY <2>4, <3>1, AfterRecordIds DEF dd
  <2> QED BY <2>5, <2>6
<1>3. r = AfterRecord(m, "after", Merging)
  <2> DEFINE ours == [data |-> l.data, hist |-> l.hist]
             mg   == Merged(job.base, ours, Project)
  <2>1. mg = [data |-> MergedList(job.base.data, l.data, file.data), hist |-> M]
    BY DEF Merged, Project
  <2>2. mg.data = d /\ mg.hist = M
    BY <1>2, <2>1
  <2>3. r = AfterRecord([l EXCEPT !.data = mg.data, !.hist = mg.hist], "after", Merging)
    BY DEF ToSave, Ours
  <2> HIDE DEF mg
  <2> QED BY <2>2, <2>3
<1>4. /\ ~ListClashes(job.base.data, job.mem.data, file.data)
      /\ ~LineageClash(B, O, T)
  <2>1. ~Conflict(job.base, Ours(label), Project)
    BY DEF Refused
  <2>2. /\ Ours(label).data = l.data /\ Ours(label).hist = O
        /\ Project.data = file.data /\ Project.hist = T
    BY DEF Ours, Project
  <2> QED BY <1>2, <2>1, <2>2 DEF Conflict, HistClash
<1> HIDE DEF B, T, l, O, M, d
<1>5. m = [data |-> d, hist |-> M, snaps |-> l.snaps, id |-> l.id]
  <2>1. m = [l EXCEPT !.data = d, !.hist = M]
    OBVIOUS
  <2> HIDE DEF m
  <2> QED BY <1>2, <2>1 DEF HasFields
<1> HIDE DEF m
<1>6. /\ HasFields(m, {"data", "hist", "snaps", "id"})
      /\ m.data = d /\ m.hist = M /\ m.snaps = l.snaps /\ m.id = l.id
  BY <1>5 DEF HasFields
<1>7. MaxId \in Nat
  BY MergeBounds
<1>8. l.id <= MaxId + 1
  <2>1. r.id \in {l.id, l.id + 1}
    BY <1>3, <1>6, AfterRecordIds
  <2> QED BY <1>1, <1>2, <1>7, <2>1
<1>9. /\ Fits(l) /\ nextId <= l.id
      /\ \A h : Sound(h, nextId) /\ Readable(h, snaps) => Readable(h, l.snaps)
      /\ \/ O = B /\ l.id = nextId
         \/ /\ l.id = nextId + 1 /\ nextId \in Ids /\ l.snaps[nextId] # NoSnap
            /\ \E e \in AnyEntry : e.id = nextId /\ O = Recorded(B, e)
  BY <1>8, LabelledHas DEF l, O, B
<1>10. l.id \in Nat \ {0} /\ Sound(O, l.id) /\ Stored(l.snaps)
  BY <1>9 DEF Fits, O
<1>11. /\ Sound(M, l.id)
       /\ EntryIds(M) \subseteq EntryIds(T) \cup (EntryIds(O) \ EntryIds(B))
       /\ Grown(B, M)
       /\ \A i \in EntryIds(B) \cap Applied(M) :
            i \in Applied(T) \/ (O = B /\ Added(B, T) /\ T.cursor < Len(T.entries))
       /\ Applied(T) \cap Applied(B) \subseteq Applied(M)
  <2>1. O = B \/ \E e \in AnyEntry : e.id = nextId /\ O = Recorded(B, e)
    BY <1>9
  <2>2. nextId \in Nat /\ l.id \in Nat
    BY <1>1, <1>10
  <2> QED BY <1>1, <1>4, <1>9, <1>10, <2>1, <2>2, MergedHistHas DEF M
<1>12. Listed(Objects, d)
  BY <1>1, ListMerges, AbsentIsNoObject DEF d
<1>13. Fits(m)
  BY <1>6, <1>10, <1>11, <1>12 DEF Fits
<1>14. \A i \in EntryIds(O) \ EntryIds(B) : i \in Ids /\ l.snaps[i] # NoSnap
  <2>1. CASE O = B
    BY <2>1
  <2>2. ASSUME nextId \in Ids, l.snaps[nextId] # NoSnap,
               NEW e \in AnyEntry, e.id = nextId, O = Recorded(B, e)
        PROVE  \A i \in EntryIds(O) \ EntryIds(B) : i \in Ids /\ l.snaps[i] # NoSnap
    <3>1. EntryIds(O) = Applied(B) \cup {nextId}
      BY <1>1, <2>2, RecordedHas
    <3>2. Applied(B) \subseteq EntryIds(B)
      BY <1>1, SoundHas
    <3> QED BY <2>2, <3>1, <3>2
  <2> QED BY <1>9, <2>1, <2>2
<1>15. Readable(T, l.snaps)
  BY <1>1, <1>9
<1>16. Readable(m.hist, m.snaps)
  BY <1>6, <1>11, <1>14, <1>15 DEF Readable
<1>17. "after" \in Whens /\ Merging \in Whats
  BY DEF Whens, Whats
<1>18. /\ Fits(r) /\ r.data = m.data /\ m.id <= r.id
       /\ r.snaps[CursorId(r.hist)] = r.data
       /\ \/ r = m
          \/ /\ r.id = m.id + 1
             /\ \E e \in AnyEntry : /\ e.id = m.id /\ e.what = Merging
                                    /\ r.hist = Recorded(m.hist, e)
  BY <1>3, <1>13, <1>17, AfterRecordHas
<1>19. /\ Follows(m.hist, m.id, r.hist)
       /\ \A h : Sound(h, m.id) /\ Readable(h, m.snaps) => Readable(h, r.snaps)
       /\ Readable(m.hist, m.snaps) => Readable(r.hist, r.snaps)
  BY <1>3, <1>13, <1>17, AfterRecordReads
<1>20. r.id \in Nat \ {0} /\ Sound(r.hist, r.id)
  BY <1>18 DEF Fits
<1>21. nextId <= r.id
  BY <1>1, <1>6, <1>9, <1>10, <1>18, <1>20
<1>22. Readable(r.hist, r.snaps)
  BY <1>16, <1>19
<1>23. Grown(B, r.hist)
  <2>1. Sound(B, l.id)
    BY <1>1, <1>9, <1>10, SoundLonger
  <2> QED BY <1>6, <1>10, <1>11, <1>19, <1>20, <2>1, FollowsGrown
<1>24. ASSUME NEW h, Sound(h, nextId), Readable(h, snaps)
       PROVE  Readable(h, r.snaps)
  <2>1. Readable(h, l.snaps)
    BY <1>9, <1>24
  <2>2. Sound(h, l.id)
    BY <1>1, <1>9, <1>10, <1>24, SoundLonger
  <2> QED BY <1>6, <1>19, <2>1, <2>2
<1>25. \A i \in EntryIds(B) : i \in Applied(r.hist) <=> i \in Applied(M)
  <2>1. CASE r = m
    BY <1>6, <2>1
  <2>2. ASSUME NEW e \in AnyEntry, e.id = m.id, r.hist = Recorded(m.hist, e)
        PROVE  \A i \in EntryIds(B) : i \in Applied(r.hist) <=> i \in Applied(M)
    <3>1. Applied(r.hist) = Applied(M) \cup {l.id}
      BY <1>6, <1>10, <1>11, <2>2, RecordedHas
    <3>2. l.id \notin EntryIds(B)
      BY <1>1, <1>9, <1>10 DEF Sound
    <3> QED BY <3>1, <3>2
  <2> QED BY <1>18, <2>1, <2>2
<1>26. ASSUME O = B
       PROVE  \A n \in DOMAIN r.hist.entries :
                r.hist.entries[n].id \in nextId..(r.id - 1) => r.hist.entries[n].what = Merging
  <2>1. l.id = nextId
    <3>1. ASSUME NEW e \in AnyEntry, e.id = nextId, O = Recorded(B, e) PROVE FALSE
      <4>0. nextId \in EntryIds(Recorded(B, e))
        BY <1>1, <3>1, RecordedHas
      <4>1. nextId \in EntryIds(B)
        BY <1>26, <3>1, <4>0
      <4> QED BY <1>1, <4>1 DEF Sound
    <3> QED BY <1>9, <3>1
  <2>2. CASE r = m
    <3>1. r.id = nextId
      BY <1>6, <2>1, <2>2
    <3>2. nextId..(nextId - 1) = {}
      BY <1>1
    <3> QED BY <3>1, <3>2
  <2>3. ASSUME r.id = m.id + 1, NEW e \in AnyEntry, e.id = m.id, e.what = Merging,
               r.hist = Recorded(m.hist, e)
        PROVE  \A n \in DOMAIN r.hist.entries :
                 r.hist.entries[n].id \in nextId..(r.id - 1) => r.hist.entries[n].what = Merging
    <3>1. nextId..(r.id - 1) = {nextId}
      BY <1>1, <1>6, <2>1, <2>3
    <3>2. EntryAt(r.hist, nextId) = e
      BY <1>1, <1>6, <1>11, <2>1, <2>3, RecordedHas
    <3>3. \A n \in DOMAIN r.hist.entries :
            ItemOf(r.hist.entries, r.hist.entries[n].id) = r.hist.entries[n]
      BY <1>20, SoundHas, ItemFound
    <3> QED BY <2>3, <3>1, <3>2, <3>3 DEF EntryAt
  <2> QED BY <1>18, <2>2, <2>3
<1>27. O = B /\ Added(B, T) /\ T.cursor < Len(T.entries) => EditUndone
  BY DEF EditUndone, B, T
<1>28. \A i \in EntryIds(B) :
         /\ i \in Applied(r.hist) =>
              \/ i \in Applied(T)
              \/ /\ EditUndone
                 /\ \A n \in DOMAIN r.hist.entries :
                      r.hist.entries[n].id \in nextId..(r.id - 1)
                      => r.hist.entries[n].what = Merging
         /\ i \in Applied(T) \cap Applied(B) => i \in Applied(r.hist)
  BY <1>11, <1>25, <1>26, <1>27
<1> QED BY <1>4, <1>6, <1>18, <1>21, <1>22, <1>23, <1>24, <1>28 DEF B, T, d

LEMMA BeginSaveFits ==
  ASSUME IInv, DInv, NEW label \in Labels \cup {NoLabel}, BeginSave(label)
  PROVE  DInv'
<1> DEFINE r == ToSave(label)
           own == nextId..(r.id - 1)
<1>1. /\ job.at = "based" /\ ~Refused(label) /\ r.id <= MaxId + 1
      /\ snaps' = r.snaps /\ nextId' = r.id
      /\ job' = [at |-> "writing", mem |-> job.mem, base |-> job.base, label |-> label,
                 next |-> [data |-> r.data, hist |-> r.hist],
                 own |-> own, indexBefore |-> index]
      /\ UNCHANGED <<file, work, loose>>
  BY DEF BeginSave
<1>2. /\ Listed(Objects, file.data) /\ Sound(file.hist, nextId)
      /\ nextId \in Nat \ {0} /\ Readable(file.hist, snaps)
  BY DiskHas
<1>3. /\ Listed(Objects, job.mem.data) /\ Listed(Objects, job.base.data)
      /\ Sound(job.base.hist, nextId) /\ Grown(job.base.hist, file.hist)
  BY <1>1 DEF DInv, CopyFits
<1>4. /\ Fits(r) /\ nextId <= r.id
      /\ r.data = MergedList(job.base.data, job.mem.data, file.data)
      /\ ~ListClashes(job.base.data, job.mem.data, file.data)
      /\ Grown(job.base.hist, r.hist) /\ Readable(r.hist, r.snaps)
      /\ \A h : Sound(h, nextId) /\ Readable(h, snaps) => Readable(h, r.snaps)
      /\ label # NoLabel \/ Moved => r.snaps[CursorId(r.hist)] = r.data
      /\ \A i \in EntryIds(job.base.hist) :
           /\ i \in Applied(r.hist) =>
                \/ i \in Applied(file.hist)
                \/ /\ EditUndone
                   /\ \A n \in DOMAIN r.hist.entries :
                        r.hist.entries[n].id \in own => r.hist.entries[n].what = Merging
           /\ i \in Applied(file.hist) \cap Applied(job.base.hist) => i \in Applied(r.hist)
  <2>1. CASE Moved
    BY <1>1, <2>1, MovedSaves
  <2>2. CASE ~Moved
    <3> HIDE DEF r
    <3>1. /\ Fits(r) /\ nextId <= r.id
          /\ r.data = MergedList(job.base.data, job.mem.data, file.data)
          /\ ~ListClashes(job.base.data, job.mem.data, file.data)
          /\ Grown(job.base.hist, r.hist) /\ Readable(r.hist, r.snaps)
          /\ \A h : Sound(h, nextId) /\ Readable(h, snaps) => Readable(h, r.snaps)
          /\ label # NoLabel \/ Moved => r.snaps[CursorId(r.hist)] = r.data
          /\ \A i \in EntryIds(job.base.hist) :
               i \in Applied(r.hist) <=> i \in Applied(file.hist)
      BY <1>1, <2>2, UnmovedSaves DEF r
    <3> QED BY <3>1
  <2> QED BY <2>1, <2>2
<1> HIDE DEF r, own
<1>5. r.id \in Nat \ {0} /\ Sound(r.hist, r.id) /\ Stored(r.snaps)
  BY <1>4 DEF Fits
<1>6. /\ Sound(file.hist, r.id) /\ Sound(job.base.hist, r.id)
  BY <1>2, <1>3, <1>4, <1>5, SoundLonger
<1>7. Readable(file.hist, r.snaps)
  BY <1>2, <1>4
<1>8. own \cap EntryIds(file.hist) = {}
  <2>1. \A i \in EntryIds(file.hist) : i \in Nat /\ i < nextId
    BY <1>2, SoundHas DEF Sound
  <2>2. \A i \in own : nextId <= i /\ i \in Int
    BY <1>2, <1>5 DEF own
  <2> QED BY <1>2, <2>1, <2>2
<1>9. /\ job'.at = "writing" /\ job'.mem = job.mem /\ job'.base = job.base
      /\ job'.label = label /\ job'.next.data = r.data /\ job'.next.hist = r.hist
      /\ job'.own = own
  BY <1>1
<1>10. file' = file /\ work' = work /\ snaps' = r.snaps /\ nextId' = r.id
  BY <1>1
<1>11. DiskFits'
  BY <1>2, <1>5, <1>6, <1>7, <1>10 DEF DiskFits, Fits, Recording, HasFields
<1>12. CopyFits'
  BY <1>3, <1>6, <1>9, <1>10 DEF CopyFits
<1>13. Untouched'
  BY <1>1, <1>9, <1>10 DEF DInv, Untouched
<1>14. BaseCurrent' /\ LandedFits'
  BY <1>9 DEF BaseCurrent, LandedFits
<1>15. LineageHeld'
  <2>1. EditUndone' <=> EditUndone
    BY <1>9, <1>10 DEF EditUndone
  <2>2. NothingLabelled' <=> \A n \in DOMAIN r.hist.entries :
                               r.hist.entries[n].id \in own => r.hist.entries[n].what = Merging
    BY <1>9 DEF NothingLabelled
  <2> QED BY <1>4, <1>9, <1>10, <2>1, <2>2 DEF LineageHeld
<1>16. Moved' <=> Moved
  BY <1>9, <1>10 DEF Moved, Project
<1>17. SaveFits'
  BY <1>4, <1>5, <1>8, <1>9, <1>10, <1>15, <1>16 DEF SaveFits
<1> QED BY <1>11, <1>12, <1>13, <1>14, <1>17 DEF DInv

-----------------------------------------------------------------------------
LEMMA WritingHas ==
  ASSUME DInv, job.at = "writing"
  PROVE  /\ job.next.data = MergedList(job.base.data, job.mem.data, file.data)
         /\ ~ListClashes(job.base.data, job.mem.data, file.data)
         /\ Sound(job.next.hist, nextId) /\ Grown(job.base.hist, job.next.hist)
         /\ Readable(job.next.hist, snaps)
         /\ job.label # NoLabel \/ Moved => snaps[CursorId(job.next.hist)] = job.next.data
         /\ job.own \cap EntryIds(file.hist) = {}
         /\ LineageHeld
         /\ Listed(Objects, job.mem.data) /\ Listed(Objects, job.base.data)
         /\ Listed(Objects, file.data)
         /\ Sound(job.base.hist, nextId) /\ nextId \in Nat \ {0} /\ Stored(snaps)
         /\ work = 0 => job.mem.data = job.base.data
BY DiskHas DEF DInv, SaveFits, CopyFits, Untouched

LEMMA MergedIsListed ==
  ASSUME NEW b, Listed(Objects, b), NEW o, Listed(Objects, o), NEW t, Listed(Objects, t)
  PROVE  Listed(Objects, MergedList(b, o, t))
BY ListMerges, AbsentIsNoObject

LEMMA LandFits ==
  ASSUME IInv, DInv, Land
  PROVE  DInv'
<1> DEFINE h == job.next.hist
           t == Trimmed(h)
           d == job.next.data
<1>1. /\ job.at = "writing"
      /\ file' = [data |-> d, hist |-> t, rev |-> file.rev + 1]
      /\ job' = [at |-> "landed", mem |-> job.mem, base |-> job.base,
                 next |-> [job.next EXCEPT !.hist = t], pruned |-> PrunedIds(h)]
      /\ UNCHANGED <<snaps, nextId, work>>
  BY DEF Land
<1>2. HasFields(job.next, {"data", "hist"})
  BY <1>1 DEF IInv, JobShape, Whole
<1>3. /\ Sound(h, nextId) /\ Grown(job.base.hist, h) /\ Readable(h, snaps)
      /\ Sound(job.base.hist, nextId) /\ nextId \in Nat \ {0} /\ Stored(snaps)
      /\ Listed(Objects, job.mem.data) /\ Listed(Objects, job.base.data)
      /\ work = 0 => job.mem.data = job.base.data
  BY <1>1, WritingHas
<1>4. Listed(Objects, d)
  BY <1>1, WritingHas, MergedIsListed
<1>5. /\ Sound(t, nextId) /\ Readable(t, snaps)
      /\ \A i \in EntryIds(t) : /\ i \in EntryIds(h) /\ i \notin PrunedIds(h)
                                /\ EntryAt(t, i) = EntryAt(h, i)
  BY <1>3, TrimReads
<1>6. Grown(job.base.hist, t)
  <2>1. Follows(h, nextId, t)
    BY <1>5 DEF Follows
  <2>2. nextId \in Nat
    BY <1>3
  <2> QED BY <1>3, <1>5, <2>1, <2>2, FollowsGrown
<1> HIDE DEF t
<1>7. [job.next EXCEPT !.hist = t] = [data |-> d, hist |-> t]
  BY <1>2 DEF HasFields
<1> HIDE DEF d, h
<1>8. /\ job'.at = "landed" /\ job'.mem = job.mem /\ job'.base = job.base
      /\ job'.next = [data |-> d, hist |-> t] /\ job'.pruned = PrunedIds(h)
      /\ file'.data = d /\ file'.hist = t
      /\ snaps' = snaps /\ nextId' = nextId /\ work' = work
  BY <1>1, <1>7
<1>9. DiskFits'
  BY <1>3, <1>4, <1>5, <1>8 DEF DiskFits, Fits, Recording, HasFields
<1>10. CopyFits'
  BY <1>3, <1>6, <1>8 DEF CopyFits
<1>11. Untouched'
  BY <1>3, <1>8 DEF DInv, Untouched
<1>12. BaseCurrent' /\ SaveFits'
  BY <1>8 DEF BaseCurrent, SaveFits
<1>13. LandedFits'
  BY <1>5, <1>8 DEF LandedFits, Project
<1> QED BY <1>9, <1>10, <1>11, <1>12, <1>13 DEF DInv

LEMMA AdoptFits ==
  ASSUME IInv, DInv, Finish \/ FailLanded
  PROVE  DInv'
<1>1. /\ job.at = "landed" /\ Locked
      /\ job'.at = "based" /\ job'.sig = Unknown
      /\ job'.mem = job.next /\ job'.base = job.next
      /\ UNCHANGED <<file, nextId, work>>
  BY DEF Finish, FailLanded, Adopt, Locked
<1>2. job.next = Project /\ job.pruned \cap EntryIds(file.hist) = {}
  BY <1>1 DEF DInv, LandedFits
<1>3. Stored(snaps) /\ Readable(file.hist, snaps)
  BY DiskHas
<1>4. CASE Finish
  <2>1. snaps' = Without(snaps, job.pruned)
    BY <1>4 DEF Finish
  <2>2. Stored(Without(snaps, job.pruned)) /\ Readable(file.hist, Without(snaps, job.pruned))
    BY <1>2, <1>3 DEF Stored, Readable, Without, HasFields
  <2> QED BY <1>1, <1>2, <2>1, <2>2, BasedFits
<1>5. CASE FailLanded
  <2>1. snaps' = snaps
    BY <1>5 DEF FailLanded
  <2> QED BY <1>1, <1>2, <1>3, <2>1, BasedFits
<1> QED BY <1>4, <1>5

LEMMA FailuresFit ==
  ASSUME IInv, DInv, FailSave \/ FailUnknown \/ Die
  PROVE  DInv'
<1>1. Stored(snaps) /\ Readable(file.hist, snaps)
  BY DiskHas
<1>2. CASE FailSave
  <2>1. /\ job.at = "writing" /\ Locked
        /\ snaps' = Without(snaps, job.own)
        /\ job'.at = "based" /\ job'.sig = Unknown /\ job'.mem = job.mem /\ job'.base = job.base
        /\ UNCHANGED <<file, nextId, work>>
    BY <1>2 DEF FailSave, Back, Locked
  <2>2. job.own \cap EntryIds(file.hist) = {}
    BY <2>1, WritingHas
  <2>3. Stored(Without(snaps, job.own)) /\ Readable(file.hist, Without(snaps, job.own))
    BY <1>1, <2>2 DEF Stored, Readable, Without, HasFields
  <2> QED BY <2>1, <2>3, BasedFits
<1>3. CASE FailUnknown
  <2>1. /\ Locked /\ snaps' = snaps
        /\ job'.at = "based" /\ job'.sig = Unknown /\ job'.mem = job.mem /\ job'.base = job.base
        /\ UNCHANGED <<file, nextId, work>>
    BY <1>3 DEF FailUnknown, Back
  <2> QED BY <1>1, <2>1, BasedFits
<1>4. CASE Die
  BY <1>4, OpenedFits DEF Die
<1> QED BY <1>2, <1>3, <1>4

LEMMA NextFits ==
  ASSUME IInv, DInv, [Next]_vars
  PROVE  DInv'
<1>1. CASE Writers
  BY <1>1, EditFits, MoveFits DEF Writers
<1>2. CASE \E data \in ChangesOf(job.mem.data) : Work(data)
  BY <1>2, WorkFits
<1>3. CASE Saves
  BY <1>3, BeginSaveFits, RefuseSaveFits DEF Saves
<1>4. CASE Discard
  BY <1>4, OpenedFits DEF Discard
<1>5. CASE UNCHANGED vars
  <2>1. UNCHANGED <<file, snaps, job, nextId, work>>
    BY <1>5 DEF vars
  <2>2. DiskFits' /\ CopyFits' /\ BaseCurrent' /\ Untouched' /\ LandedFits'
    BY <2>1 DEF DInv, DiskFits, Recording, CopyFits, BaseCurrent, Untouched, LandedFits, Project
  <2>3. SaveFits'
    BY <2>1 DEF DInv, SaveFits, LineageHeld, EditUndone, NothingLabelled, Moved, Project
  <2> QED BY <2>2, <2>3 DEF DInv
<1> QED
  BY <1>1, <1>2, <1>3, <1>4, <1>5, ReadFits, CheckpointFits, LandFits, AdoptFits,
     FailuresFit DEF Next

-----------------------------------------------------------------------------
LEMMA FirstListed ==
  ASSUME NEW v \in Values
  PROVE  Listed(Objects, SetToSeq([id : Items, val : {v}]))
<1> DEFINE S == [id : Items, val : {v}]
           f == [i \in Items |-> [id |-> i, val |-> v]]
           n == Cardinality(S)
           q == SetToSeq(S)
<1>1. \A x \in S : x.id \in Items /\ x = f[x.id] /\ x \in Objects
  BY DEF Objects
<1>2. f \in Surjection(Items, S)
  <2>1. f \in [Items -> S]
    OBVIOUS
  <2>2. \A x \in S : \E i \in Items : f[i] = x
    BY <1>1
  <2> QED BY <2>1, <2>2 DEF Surjection
<1> HIDE DEF S, f
<1>3. IsFiniteSet(S)
  BY <1>2, FewItems, FS_Surjection
<1>4. n \in Nat /\ ExistsBijection(1..n, S)
  BY <1>3, FS_CardinalityType
<1> HIDE DEF n
<1>5. \E g \in [1..n -> S] : IsInjective(g)
  <2>1. PICK g : g \in Bijection(1..n, S)
    BY <1>4 DEF ExistsBijection
  <2> QED BY <2>1 DEF Bijection, Injection, IsInjective
<1>6. q \in [1..n -> S] /\ IsInjective(q)
  BY <1>5 DEF SetToSeq, n
<1> HIDE DEF q
<1>7. DOMAIN q = 1..n /\ \A i \in 1..n : q[i] \in S
  BY <1>6
<1>8. q \in Seq(Objects)
  BY <1>1, <1>4, <1>6, <1>7
<1>9. ASSUME NEW i \in DOMAIN q, NEW k \in DOMAIN q, q[i].id = q[k].id
      PROVE  i = k
  <2>1. q[i] = q[k]
    BY <1>1, <1>7, <1>9
  <2> QED BY <1>6, <1>7, <2>1 DEF IsInjective
<1>10. Listed(Objects, q)
  BY <1>8, <1>9 DEF Listed
<1> QED BY <1>10 DEF q, S

LEMMA InitFits == Init => DInv
<1> SUFFICES ASSUME Init PROVE DInv
  OBVIOUS
<1>1. PICK v \in Values :
        LET data == SetToSeq([id : Items, val : {v}])
        IN  /\ file  = [data |-> data, hist |-> InitialHist, rev |-> 1]
            /\ snaps = [i \in Ids |-> IF i = 1 THEN data ELSE NoSnap]
            /\ job   = Opened([data |-> data, hist |-> InitialHist], 1)
  BY DEF Init
<1> DEFINE data == SetToSeq([id : Items, val : {v}])
           first == [id |-> 1, when |-> "mark", what |-> "initial"]
<1>2. Listed(Objects, data)
  BY FirstListed
<1> HIDE DEF data
<1>3. /\ file.data = data /\ file.hist = InitialHist
      /\ snaps = [i \in Ids |-> IF i = 1 THEN data ELSE NoSnap]
      /\ job.at = "open" /\ job.mem.data = data
  BY <1>1 DEF data, Opened
<1>4. nextId = 2 /\ work = 0
  BY DEF Init
<1>5. first \in AnyEntry /\ first.id = 1
  BY DEF AnyEntry, Whens, Whats
<1>6. /\ InitialHist.entries = <<first>> /\ InitialHist.cursor = 1
      /\ InitialHist = [cursor |-> 1, entries |-> <<first>>]
  BY DEF InitialHist
<1> HIDE DEF first
<1>7. /\ <<first>> \in Seq(AnyEntry) /\ DOMAIN <<first>> = {1} /\ <<first>>[1] = first
  BY <1>5
<1>8. EntryIds(InitialHist) = {1}
  BY <1>5, <1>6, <1>7 DEF EntryIds
<1>9. Sound(InitialHist, 2)
  <2>1. InitialHist \in [cursor : Nat, entries : Seq(AnyEntry)]
    BY <1>6, <1>7
  <2>2. HasCurrent(InitialHist) /\ Rising(InitialHist.entries)
    BY <1>6, <1>7 DEF HasCurrent, Rising
  <2> QED BY <1>8, <2>1, <2>2 DEF Sound
<1>10. 1 \in Ids /\ data # NoSnap
  BY <1>2, MergeBounds, NoSnapIsNoList DEF Ids, Listed
<1>11. Stored(snaps) /\ Readable(file.hist, snaps)
  BY <1>2, <1>3, <1>8, <1>10 DEF Stored, Readable, HasFields
<1>12. DiskFits
  BY <1>2, <1>3, <1>4, <1>9, <1>11 DEF DiskFits, Fits, Recording, HasFields
<1>13. CopyFits /\ BaseCurrent /\ Untouched /\ SaveFits /\ LandedFits
  BY <1>2, <1>3, <1>4 DEF CopyFits, BaseCurrent, Untouched, SaveFits, LandedFits
<1> QED BY <1>12, <1>13 DEF DInv

LEMMA Invariance == Spec => [](IInv /\ DInv)
<1>1. Init => IInv /\ DInv
  BY InitInv, InitFits
<1>2. IInv /\ DInv /\ [Next]_vars => (IInv /\ DInv)'
  BY NextKeeps, NextFits
<1> QED BY <1>1, <1>2, PTL DEF Spec

-----------------------------------------------------------------------------
(* Only Land replaces the file while the job is writing.                   *)
LEMMA LandsIsLand ==
  ASSUME [Next]_vars, Lands
  PROVE  Land
<1>1. job.at = "writing" /\ file' # file
  BY DEF Lands
<1>2. ~Writers
  BY <1>1 DEF Writers, Edit, Move, WriterMayStart, Locked
<1>3. ~(UNCHANGED vars)
  BY <1>1 DEF vars
<1>4. /\ ~Read /\ ~Checkpoint /\ ~Discard /\ ~Saves
      /\ ~Finish /\ ~FailLanded /\ ~FailSave /\ ~FailUnknown /\ ~Die
  BY <1>1 DEF Read, Checkpoint, Discard, Saves, BeginSave, RefuseSave, Finish, FailLanded,
              FailSave, FailUnknown, Die
<1> QED BY <1>1, <1>2, <1>3, <1>4 DEF Next

LEMMA LandHas ==
  ASSUME Land
  PROVE  /\ job.at = "writing"
         /\ file'.data = job.next.data /\ file'.hist = Trimmed(job.next.hist)
         /\ snaps' = snaps
BY DEF Land

(* Without a conflict every item either side changed is that side's.       *)
LEMMA ItemsSurvive ==
  ASSUME NEW b, Listed(Objects, b), NEW o, Listed(Objects, o), NEW t, Listed(Objects, t),
         ~ListClashes(b, o, t), NEW i
  PROVE  /\ ItemOf(o, i) # ItemOf(b, i) => ItemOf(MergedList(b, o, t), i) = ItemOf(o, i)
         /\ ItemOf(t, i) # ItemOf(b, i) => ItemOf(MergedList(b, o, t), i) = ItemOf(t, i)
<1>1. ItemOf(MergedList(b, o, t), i) = Chosen(ItemOf(b, i), ItemOf(o, i), ItemOf(t, i))
  <2>1. ItemOf(MergedList(b, o, t), i) = ChosenItem(b, o, t, i)
    BY ListMerges, AbsentIsNoObject
  <2> QED BY <2>1 DEF ChosenItem
<1>2. OnlyOneChanged(ItemOf(b, i), ItemOf(o, i), ItemOf(t, i))
  <2>1. CASE OnlyOneChanged(b, o, t)
    BY <2>1 DEF OnlyOneChanged
  <2>2. CASE i \in IdsOf(o) \cup IdsOf(t)
    BY <2>2, <2>1 DEF ListClashes, Clashes
  <2>3. CASE i \notin IdsOf(o) \cup IdsOf(t)
    BY <2>3 DEF ItemOf, OnlyOneChanged
  <2> QED BY <2>1, <2>2, <2>3
<1> QED BY <1>1, <1>2 DEF OnlyOneChanged, Chosen

-----------------------------------------------------------------------------
(* Whatever the job and the other writers changed, added, removed or put   *)
(* in another order meanwhile: what save_merged commits has each side's    *)
(* changes, or it refuses (merge_project_data, _merge_keyed_lists).        *)
THEOREM NeitherSideIsLost == Spec => BothSidesSurvive
<1> DEFINE A == Lands =>
       /\ \A i \in Items :
            LET was == ItemOf(job.base.data, i)
                now == ItemOf(file'.data, i)
            IN  /\ ItemOf(job.mem.data, i) # was => now = ItemOf(job.mem.data, i)
                /\ ItemOf(file.data, i) # was => now = ItemOf(file.data, i)
       /\ \A i, j \in Items :
            Before(file.data, i, j) /\ Before(file'.data, j, i)
            => /\ Reordered(job.base.data, job.mem.data)
               /\ i \in IdsOf(job.mem.data) => Before(job.mem.data, j, i)
       /\ work = 0 => file'.data = file.data
<1>1. ASSUME IInv, DInv, [Next]_vars PROVE A
  <2> SUFFICES ASSUME Lands
               PROVE  /\ \A i \in Items :
                           /\ ItemOf(job.mem.data, i) # ItemOf(job.base.data, i)
                              => ItemOf(file'.data, i) = ItemOf(job.mem.data, i)
                           /\ ItemOf(file.data, i) # ItemOf(job.base.data, i)
                              => ItemOf(file'.data, i) = ItemOf(file.data, i)
                      /\ \A i, j \in Items :
                           Before(file.data, i, j) /\ Before(file'.data, j, i)
                           => /\ Reordered(job.base.data, job.mem.data)
                              /\ i \in IdsOf(job.mem.data) => Before(job.mem.data, j, i)
                      /\ work = 0 => file'.data = file.data
    OBVIOUS
  <2> DEFINE b == job.base.data
             o == job.mem.data
             t == file.data
             m == file'.data
  <2>1. /\ m = MergedList(b, o, t) /\ ~ListClashes(b, o, t)
        /\ Listed(Objects, b) /\ Listed(Objects, o) /\ Listed(Objects, t)
        /\ work = 0 => o = b
    BY <1>1, LandsIsLand, LandHas, WritingHas
  <2> HIDE DEF b, o, t, m
  <2>2. ASSUME NEW i \in Items
        PROVE  /\ ItemOf(o, i) # ItemOf(b, i) => ItemOf(m, i) = ItemOf(o, i)
               /\ ItemOf(t, i) # ItemOf(b, i) => ItemOf(m, i) = ItemOf(t, i)
    BY <2>1, ItemsSurvive
  <2>3. ASSUME NEW i \in Items, NEW j \in Items, Before(t, i, j), Before(m, j, i)
        PROVE  Reordered(b, o) /\ (i \in IdsOf(o) => Before(o, j, i))
    <3>1. /\ \E v, w : Before(b, v, w) /\ Before(o, w, v)
          /\ i \in IdsOf(o) => Before(o, j, i)
      BY <2>1, <2>3, ListMerges, AbsentIsNoObject
    <3>2. PICK v, w : Before(b, v, w) /\ Before(o, w, v)
      BY <3>1
    <3>3. v \in Items /\ w \in Items
      <4>1. v \in IdsOf(b) /\ w \in IdsOf(b)
        BY <2>1, <3>2, BeforeIsStrict
      <4>2. \A k \in IdsOf(b) : ItemOf(b, k) \in Objects /\ ItemOf(b, k).id = k
        BY <2>1, ItemFound
      <4> QED BY <4>1, <4>2 DEF Objects
    <3> QED BY <3>1, <3>2, <3>3 DEF Reordered
  <2>4. work = 0 => m = t
    BY <2>1 DEF MergedList, OnlyOneChanged, Chosen
  <2> QED BY <2>2, <2>3, <2>4 DEF b, o, t, m
<1>2. IInv /\ DInv /\ [Next]_vars => [A]_vars
  BY <1>1
<1> HIDE DEF A
<1>3. Spec => [][A]_vars
  BY <1>2, Invariance, PTL DEF Spec
<1> QED BY <1>3 DEF A, BothSidesSurvive

(* A merge neither redoes what others undid of the history the job began   *)
(* with nor undoes what they left applied (_merge_history); a save that    *)
(* records nothing of its own may, beside an edit made and undone.         *)
THEOREM LineageIsKept == Spec => BaseLineageKept
<1> DEFINE A == Lands =>
       \A i \in EntryIds(job.base.hist) :
          /\ i \in Applied(file'.hist) =>
               i \in Applied(file.hist) \/ (EditUndone /\ NothingLabelled)
          /\ i \in Applied(file.hist) \cap Applied(job.base.hist)
             => i \in Applied(file'.hist) \/ i \in PrunedIds(job.next.hist)
<1>1. ASSUME IInv, DInv, [Next]_vars PROVE A
  <2> SUFFICES ASSUME Lands, NEW i \in EntryIds(job.base.hist)
               PROVE  /\ i \in Applied(file'.hist) =>
                           i \in Applied(file.hist) \/ (EditUndone /\ NothingLabelled)
                      /\ i \in Applied(file.hist) \cap Applied(job.base.hist)
                         => i \in Applied(file'.hist) \/ i \in PrunedIds(job.next.hist)
    OBVIOUS
  <2>1. /\ job.at = "writing" /\ file'.hist = Trimmed(job.next.hist)
        /\ Sound(job.next.hist, nextId) /\ LineageHeld
    BY <1>1, LandsIsLand, LandHas, WritingHas
  <2>2. Applied(file'.hist) = Applied(job.next.hist) \ PrunedIds(job.next.hist)
    BY <2>1, TrimmedHas
  <2>3. /\ i \in Applied(job.next.hist) =>
             i \in Applied(file.hist) \/ (EditUndone /\ NothingLabelled)
        /\ i \in Applied(file.hist) \cap Applied(job.base.hist) => i \in Applied(job.next.hist)
    BY <2>1 DEF LineageHeld
  <2> QED BY <2>2, <2>3
<1>2. IInv /\ DInv /\ [Next]_vars => [A]_vars
  BY <1>1
<1> HIDE DEF A
<1>3. Spec => [][A]_vars
  BY <1>2, Invariance, PTL DEF Spec
<1> QED BY <1>3 DEF A, BaseLineageKept

(* After a save that merged or was labelled, the current entry's snapshot  *)
(* is what was saved, and every entry of a saved history can be read       *)
(* (_merged_with, HistoryManager.record, ProjectStore.commit).             *)
THEOREM SavesAreUndoable == Spec => MergeIsUndoable
<1> DEFINE A ==
     /\ Lands /\ (job.label # NoLabel \/ Moved) =>
          HasCurrent(file'.hist) /\ snaps'[Current(file'.hist).id] = file'.data
     /\ file' # file => \A i \in EntryIds(file'.hist) : snaps'[i] # NoSnap
<1>1. ASSUME IInv, DInv, [Next]_vars PROVE A
  <2>1. ASSUME Lands, job.label # NoLabel \/ Moved
        PROVE  HasCurrent(file'.hist) /\ snaps'[Current(file'.hist).id] = file'.data
    <3> DEFINE h == job.next.hist
    <3>1. /\ file'.data = job.next.data /\ file'.hist = Trimmed(h) /\ snaps' = snaps
          /\ Sound(h, nextId) /\ snaps[CursorId(h)] = job.next.data
      BY <1>1, <2>1, LandsIsLand, LandHas, WritingHas
    <3>2. Sound(Trimmed(h), nextId) /\ CursorId(Trimmed(h)) = CursorId(h)
      BY <3>1, TrimmedHas
    <3>3. HasCurrent(Trimmed(h)) /\ CursorId(Trimmed(h)) = Current(Trimmed(h)).id
      BY <3>2 DEF Sound, CursorId
    <3> QED BY <3>1, <3>2, <3>3
  <2>2. \A i \in EntryIds(file'.hist) : snaps'[i] # NoSnap
    BY <1>1, NextFits DEF DInv, DiskFits, Readable
  <2> QED BY <2>1, <2>2
<1>2. IInv /\ DInv /\ [Next]_vars => [A]_vars
  BY <1>1
<1> HIDE DEF A
<1>3. Spec => [][A]_vars
  BY <1>2, Invariance, PTL DEF Spec
<1> QED BY <1>3 DEF A, MergeIsUndoable

-----------------------------------------------------------------------------
(* The loops of the history code.                                          *)
(*                                                                         *)
(* A loop is a recursive function, and that is the CHOOSE of a function    *)
(* with its equation.  So a function that has the equation is exhibited    *)
(* first: then the chosen one has it too, and a smallest argument where it *)
(* would not be what is claimed leads to a contradiction.                  *)
LEMMA LeastMember ==
  ASSUME NEW S \in SUBSET Nat, S # {}
  PROVE  \E j \in S : \A k \in S : j <= k
<1> DEFINE R == {ss \in Nat \X Nat : ss[1] < ss[2]}
<1>1. IsWellFoundedOn(R, Nat)
  BY NatLessThanWellFounded DEF OpToRel
<1>2. PICK j \in S : \A k \in S : ~ (<<k, j>> \in R)
  <2> HIDE DEF R
  <2> QED BY <1>1, WFMin
<1>3. ASSUME NEW k \in S PROVE j <= k
  <2>1. <<k, j>> \notin R
    BY <1>2
  <2> QED BY <2>1
<1> QED BY <1>2, <1>3

(* Where the trim of es by at most m entries ends, from start on.          *)
TrimEnd(es, m, start) ==
  IF start >= m THEN start ELSE IF SplitsPair(es, m) THEN m - 1 ELSE m

(* One turn of the trim ends where the closed form says, as the pairs of   *)
(* two edits do not overlap.                                               *)
LEMMA TrimTurn ==
  ASSUME NEW es, Len(es) \in Nat, NEW m \in Nat, m < Len(es), NEW start \in Nat
  PROVE  /\ NextStart(es, start) \in Nat /\ NextStart(es, start) > start
         /\ TrimEnd(es, m, start) =
              IF start >= m \/ NextStart(es, start) > m THEN start
              ELSE TrimEnd(es, m, NextStart(es, start))
<1>1. NextStart(es, start) = start + (IF SplitsPair(es, start + 1) THEN 2 ELSE 1)
  <2>1. /\ start + 1 \in 1..(Len(es) - 1) <=> start + 1 < Len(es)
        /\ (start + 1) + 1 = start + 2
    OBVIOUS
  <2> QED BY <2>1 DEF NextStart, SplitsPair
<1>2. SplitsPair(es, start + 1) => ~SplitsPair(es, start + 2)
  <2>1. (start + 1) + 1 = start + 2
    OBVIOUS
  <2>2. SplitsPair(es, start + 1) => es[start + 2].when = "after"
    BY <2>1 DEF SplitsPair
  <2> QED BY <2>2 DEF SplitsPair
<1>3. CASE start >= m
  BY <1>1, <1>3 DEF TrimEnd
<1>4. CASE start + 1 = m
  <2>1. NextStart(es, start) = IF SplitsPair(es, m) THEN m + 1 ELSE m
    BY <1>1, <1>4
  <2> QED BY <1>4, <2>1 DEF TrimEnd
<1>5. CASE start + 2 = m
  <2>1. SplitsPair(es, start + 1) => ~SplitsPair(es, m)
    BY <1>2, <1>5
  <2>2. NextStart(es, start) = IF SplitsPair(es, start + 1) THEN m ELSE m - 1
    BY <1>1, <1>5
  <2>3. CASE SplitsPair(es, start + 1)
    BY <1>5, <2>1, <2>2, <2>3 DEF TrimEnd
  <2>4. CASE ~SplitsPair(es, start + 1)
    BY <1>5, <2>2, <2>4 DEF TrimEnd
  <2> QED BY <2>3, <2>4
<1>6. CASE start + 2 < m
  <2>1. NextStart(es, start) \in {start + 1, start + 2}
    BY <1>1
  <2> QED BY <1>6, <2>1 DEF TrimEnd
<1> QED BY <1>3, <1>4, <1>5, <1>6

(* _trim_history's loop: from 0 it ends where TrimEnd says.                *)
LEMMA TrimFromEnds ==
  ASSUME NEW es, Len(es) \in Nat, NEW m \in Nat, m < Len(es)
  PROVE  \A start \in Nat : TrimFrom(es, m)[start] = TrimEnd(es, m, start)
<1> DEFINE N(start) == NextStart(es, start)
           P(f) == f = [start \in Nat |-> IF start >= m \/ N(start) > m THEN start
                                          ELSE f[N(start)]]
           from == TrimFrom(es, m)
<1>1. P([start \in Nat |-> TrimEnd(es, m, start)])
  <2> DEFINE g == [start \in Nat |-> TrimEnd(es, m, start)]
  <2>1. \A start \in Nat : /\ N(start) \in Nat
                           /\ TrimEnd(es, m, start) = IF start >= m \/ N(start) > m THEN start
                                                      ELSE TrimEnd(es, m, N(start))
    BY TrimTurn
  <2> HIDE DEF N
  <2>2. \A start \in Nat : TrimEnd(es, m, start) = IF start >= m \/ N(start) > m THEN start
                                                   ELSE g[N(start)]
    BY <2>1
  <2> QED BY <2>2
<1>2. P(from)
  <2>1. from = CHOOSE f : P(f)
    BY DEF TrimFrom
  <2>2. \E f : P(f)
    BY <1>1
  <2> HIDE DEF P, from
  <2>3. P(CHOOSE f : P(f))
    BY <2>2, Zenon
  <2> QED BY <2>1, <2>3
<1>3. ASSUME NEW start \in Nat
      PROVE  from[start] = IF start >= m \/ N(start) > m THEN start ELSE from[N(start)]
  <2> HIDE DEF N, from
  <2> QED BY <1>2
<1>4. ASSUME NEW wrong \in Nat, from[wrong] # TrimEnd(es, m, wrong) PROVE FALSE
  <2> DEFINE W == {left \in 0..m : \E start \in 0..m : /\ left = m - start
                                        /\ from[start] # TrimEnd(es, m, start)}
  <2> HIDE DEF from, N
  <2>1. wrong < m
    BY <1>3, <1>4 DEF TrimEnd
  <2>2. m - wrong \in W
    BY <1>4, <2>1
  <2>3. PICK left \in W : \A k \in W : left <= k
    <3>1. W \in SUBSET Nat
      OBVIOUS
    <3>2. W # {}
      <4> HIDE DEF W
      <4> QED BY <2>2
    <3> HIDE DEF W
    <3> QED BY <3>1, <3>2, LeastMember
  <2>4. PICK start \in 0..m : left = m - start /\ from[start] # TrimEnd(es, m, start)
    BY <2>3
  <2>5. /\ N(start) \in Nat /\ N(start) > start
        /\ TrimEnd(es, m, start) = IF start >= m \/ N(start) > m THEN start
                                   ELSE TrimEnd(es, m, N(start))
    BY TrimTurn DEF N
  <2>6. ~(start >= m \/ N(start) > m) /\ from[N(start)] # TrimEnd(es, m, N(start))
    BY <1>3, <2>4, <2>5
  <2>7. m - N(start) \in W
    BY <2>5, <2>6
  <2> QED BY <2>3, <2>4, <2>5, <2>6, <2>7
<1> QED BY <1>4

(* Where an undo from entry i of es stops: at j.                           *)
StopsAt(es, i, j) ==
  /\ j \in 1..i
  /\ j = 1 \/ ~IsPreview(es[j])
  /\ \A k \in (j + 1)..i : IsPreview(es[k])

LEMMA OneStop ==
  ASSUME NEW es, NEW i \in Nat, NEW j, NEW k, StopsAt(es, i, j), StopsAt(es, i, k)
  PROVE  j = k
<1>1. j \in 1..i /\ k \in 1..i
  BY DEF StopsAt
<1>2. CASE j < k
  <2>1. k \in (j + 1)..i /\ k # 1
    BY <1>1, <1>2
  <2> QED BY <2>1 DEF StopsAt
<1>3. CASE k < j
  <2>1. j \in (k + 1)..i /\ j # 1
    BY <1>1, <1>3
  <2> QED BY <2>1 DEF StopsAt
<1> QED BY <1>1, <1>2, <1>3

(* One step back: a preview above the first entry is stepped over.         *)
LEMMA StepBack ==
  ASSUME NEW es, NEW i \in Nat \ {0}
  PROVE  IF 1 < i /\ IsPreview(es[i]) THEN \A j : StopsAt(es, i - 1, j) => StopsAt(es, i, j)
                                      ELSE StopsAt(es, i, i)
<1>1. CASE 1 < i /\ IsPreview(es[i])
  <2> SUFFICES ASSUME NEW j, StopsAt(es, i - 1, j) PROVE StopsAt(es, i, j)
    BY <1>1
  <2>1. j \in 1..(i - 1) /\ (j = 1 \/ ~IsPreview(es[j]))
    BY DEF StopsAt
  <2>2. \A k \in (j + 1)..i : k = i \/ k \in (j + 1)..(i - 1)
    BY <2>1
  <2>3. \A k \in (j + 1)..i : IsPreview(es[k])
    BY <1>1, <2>2 DEF StopsAt
  <2> QED BY <2>1, <2>3 DEF StopsAt
<1>2. CASE ~(1 < i /\ IsPreview(es[i]))
  BY <1>2 DEF StopsAt
<1> QED BY <1>1, <1>2

(* There is a stop: the last entry that is the first or no preview.        *)
LEMMA SomeStop ==
  ASSUME NEW es, NEW i \in Nat \ {0}
  PROVE  \E j : StopsAt(es, i, j)
<1> DEFINE D == {d \in 0..(i - 1) : i - d = 1 \/ ~IsPreview(es[i - d])}
<1>1. D \in SUBSET Nat /\ D # {}
  <2>1. i - 1 \in D
    <3>1. i - 1 \in 0..(i - 1) /\ i - (i - 1) = 1
      OBVIOUS
    <3> QED BY <3>1
  <2>2. D # {}
    <3> HIDE DEF D
    <3> QED BY <2>1
  <2> QED BY <2>2
<1>2. PICK d \in D : \A k \in D : d <= k
  <2> HIDE DEF D
  <2> QED BY <1>1, LeastMember
<1>3. i - d \in 1..i /\ (i - d = 1 \/ ~IsPreview(es[i - d]))
  BY <1>2
<1>4. ASSUME NEW k \in (i - d + 1)..i PROVE IsPreview(es[k])
  <2>1. i - k \in 0..(i - 1) /\ i - k < d /\ i - (i - k) = k
    BY <1>2, <1>4
  <2>2. i - k \notin D
    BY <1>2, <2>1
  <2> QED BY <2>1, <2>2
<1>5. StopsAt(es, i, i - d)
  BY <1>3, <1>4 DEF StopsAt
<1> QED BY <1>5

(* undo_origin's loop stops there.                                         *)
LEMMA OriginFromStops ==
  ASSUME NEW es, Len(es) \in Nat, NEW top \in 1..Len(es)
  PROVE  StopsAt(es, top, OriginFrom(es)[top])
<1> DEFINE Over(i) == 1 < i /\ i <= Len(es) /\ IsPreview(es[i])
           P(f) == f = [i \in Nat |-> IF Over(i) THEN f[i - 1] ELSE i]
           Stop(i) == CHOOSE j : StopsAt(es, i, j)
           End(i) == IF i \in 1..Len(es) THEN Stop(i) ELSE i
           at == OriginFrom(es)
<1>1. ASSUME NEW i \in Nat PROVE End(i) = IF Over(i) THEN End(i - 1) ELSE i
  <2>1. CASE i \in 1..Len(es)
    <3>1. StopsAt(es, i, Stop(i))
      <4>1. \E j : StopsAt(es, i, j)
        BY <2>1, SomeStop
      <4> QED BY <4>1, Zenon
    <3>2. CASE Over(i)
      <4>1. i - 1 \in 1..Len(es) /\ i - 1 \in Nat \ {0} /\ i \in Nat \ {0}
        BY <2>1, <3>2
      <4>2. StopsAt(es, i - 1, Stop(i - 1))
        <5>1. \E j : StopsAt(es, i - 1, j)
          BY <4>1, SomeStop
        <5> QED BY <5>1, Zenon
      <4> HIDE DEF Stop
      <4>3. StopsAt(es, i, Stop(i - 1))
        BY <3>2, <4>1, <4>2, StepBack
      <4>4. Stop(i) = Stop(i - 1)
        BY <3>1, <4>3, OneStop
      <4> QED BY <2>1, <3>2, <4>1, <4>4
    <3>3. CASE ~Over(i)
      <4>1. StopsAt(es, i, i)
        BY <2>1, <3>3, StepBack
      <4> HIDE DEF Stop
      <4>2. Stop(i) = i
        BY <3>1, <4>1, OneStop
      <4> QED BY <2>1, <3>3, <4>2
    <3> QED BY <3>2, <3>3
  <2>2. CASE i \notin 1..Len(es)
    <3> HIDE DEF Stop
    <3>1. ~Over(i)
      BY <2>2
    <3> QED BY <2>2, <3>1
  <2> QED BY <2>1, <2>2
<1>2. P([i \in Nat |-> End(i)])
  <2> DEFINE g == [i \in Nat |-> End(i)]
  <2>1. \A i \in Nat : Over(i) => i - 1 \in Nat
    OBVIOUS
  <2> HIDE DEF End, Over
  <2>2. \A i \in Nat : End(i) = IF Over(i) THEN g[i - 1] ELSE i
    BY <1>1, <2>1
  <2> QED BY <2>2
<1>3. P(at)
  <2>1. at = CHOOSE f : P(f)
    BY DEF OriginFrom
  <2>2. \E f : P(f)
    <3> HIDE DEF P
    <3> QED BY <1>2
  <2> HIDE DEF P, at
  <2>3. P(CHOOSE f : P(f))
    BY <2>2, Zenon
  <2> QED BY <2>1, <2>3
<1>4. ASSUME NEW i \in Nat PROVE at[i] = IF Over(i) THEN at[i - 1] ELSE i
  <2> HIDE DEF Over, at
  <2> QED BY <1>3
<1>5. ASSUME ~StopsAt(es, top, at[top]) PROVE FALSE
  <2> DEFINE W == {i \in 1..Len(es) : ~StopsAt(es, i, at[i])}
  <2> HIDE DEF at
  <2>1. PICK i \in W : \A k \in W : i <= k
    <3>1. W \in SUBSET Nat /\ W # {}
      BY <1>5
    <3> HIDE DEF W
    <3> QED BY <3>1, LeastMember
  <2>2. i \in Nat \ {0} /\ i <= Len(es) /\ ~StopsAt(es, i, at[i])
    BY <2>1
  <2>3. CASE Over(i)
    <3>1. i - 1 \in 1..Len(es) /\ ~(i <= i - 1)
      BY <2>2, <2>3
    <3>2. StopsAt(es, i - 1, at[i - 1])
      BY <2>1, <3>1
    <3>3. StopsAt(es, i, at[i - 1])
      BY <2>2, <2>3, <3>2, StepBack
    <3> QED BY <1>4, <2>2, <2>3, <3>3
  <2>4. CASE ~Over(i)
    BY <1>4, <2>2, <2>4, StepBack
  <2> QED BY <2>3, <2>4
<1> QED BY <1>5

(* How many entries a trim removes.                                        *)
LEMMA TrimCounts ==
  ASSUME NEW E, NEW h \in [cursor : Nat, entries : Seq(E)], HasCurrent(h), Limit \in Nat
  PROVE  LET n == Len(h.entries)
             m == IF n <= Limit THEN 0 ELSE Lesser(n - Limit, h.cursor - 1)
         IN  /\ m \in 0..(h.cursor - 1) /\ m < n /\ m <= n
             /\ TrimCount(h) = IF SplitsPair(h.entries, m) THEN m - 1 ELSE m
             /\ SplitsPair(h.entries, m) => m >= 1
<1> DEFINE es == h.entries
           n == Len(es)
           m == IF n <= Limit THEN 0 ELSE Lesser(n - Limit, h.cursor - 1)
           excess == IF n > Limit THEN n - Limit ELSE 0
           below == IF h.cursor > 0 THEN h.cursor - 1 ELSE 0
           most == IF excess < below THEN excess ELSE below
<1>1. n \in Nat /\ h.cursor \in 1..n
  BY LenProperties DEF HasCurrent
<1>2. TrimCount(h) = IF SplitsPair(es, most) THEN most - 1 ELSE most
  BY DEF TrimCount
<1> HIDE DEF n
<1>3. most = m /\ m \in 0..(h.cursor - 1) /\ m < n
  BY <1>1 DEF Lesser
<1>4. SplitsPair(es, m) => m >= 1
  BY <1>3 DEF SplitsPair
<1> HIDE DEF m, most, es
<1>5. m <= n
  BY <1>1, <1>3
<1> QED BY <1>2, <1>3, <1>4, <1>5 DEF m, n, es

LEMMA TrimWalks ==
  ASSUME NEW E, NEW h \in [cursor : Nat, entries : Seq(E)], HasCurrent(h), Limit \in Nat
  PROVE  TrimCount(h) = TrimWalk(h)
<1> DEFINE es == h.entries
           n == Len(es)
           m == IF n <= Limit THEN 0 ELSE Lesser(n - Limit, h.cursor - 1)
<1>1. n \in Nat /\ h.cursor \in 1..n
  BY LenProperties DEF HasCurrent
<1>2. /\ m \in 0..(h.cursor - 1) /\ m < n
      /\ TrimCount(h) = IF SplitsPair(es, m) THEN m - 1 ELSE m
  BY TrimCounts
<1>3. CASE n <= Limit
  <2>1. ~SplitsPair(es, 0)
    BY DEF SplitsPair
  <2> QED BY <1>2, <1>3, <2>1 DEF TrimWalk
<1>4. CASE ~(n <= Limit)
  <2>1. TrimWalk(h) = TrimFrom(es, m)[0]
    BY <1>4 DEF TrimWalk
  <2> HIDE DEF n, m
  <2>2. m \in Nat
    BY <1>1, <1>2
  <2>3. TrimFrom(es, m)[0] = TrimEnd(es, m, 0)
    <3> HIDE DEF es
    <3> QED BY <1>1, <1>2, <2>2, TrimFromEnds DEF n
  <2>4. m = 0 => ~SplitsPair(es, m)
    BY DEF SplitsPair
  <2>5. TrimEnd(es, m, 0) = IF SplitsPair(es, m) THEN m - 1 ELSE m
    BY <2>2, <2>4 DEF TrimEnd
  <2> QED BY <1>2, <2>1, <2>3, <2>5
<1> QED BY <1>3, <1>4

(* What a trim leaves fits, and a second trim finds nothing more.          *)
LEMMA TrimSettles ==
  ASSUME NEW E, NEW h \in [cursor : Nat, entries : Seq(E)], HasCurrent(h), Limit \in Nat
  PROVE  /\ HasCurrent(Trimmed(h)) /\ Current(Trimmed(h)) = Current(h)
         /\ Len(Trimmed(h).entries) - Trimmed(h).cursor = Len(h.entries) - h.cursor
         /\ TrimCount(Trimmed(h)) = 0
<1> DEFINE es == h.entries
           n == Len(es)
           m == IF n <= Limit THEN 0 ELSE Lesser(n - Limit, h.cursor - 1)
           c == TrimCount(h)
           t == Trimmed(h)
<1>1. n \in Nat /\ h.cursor \in 1..n /\ es \in Seq(E)
  BY LenProperties DEF HasCurrent
<1>2. /\ m \in 0..(h.cursor - 1) /\ m < n
      /\ c = IF SplitsPair(es, m) THEN m - 1 ELSE m
      /\ SplitsPair(es, m) => m >= 1
  BY TrimCounts
<1>3. CASE c = 0
  <2>1. t = h
    BY <1>3 DEF Trimmed
  <2> HIDE DEF t, c
  <2> QED BY <1>3, <2>1 DEF t, c
<1>4. CASE c # 0
  <2>1. t = [cursor |-> h.cursor - c, entries |-> SubSeq(es, c + 1, n)]
    BY <1>4 DEF Trimmed
  <2>2. m = n - Limit \/ m = h.cursor - 1 \/ m = 0
    BY DEF Lesser
  <2>3. m = 0 \/ (m <= n - Limit /\ m <= h.cursor - 1)
    BY <1>1 DEF Lesser
  <2> HIDE DEF es, n, m, c, t
  <2>4. c \in Nat /\ c <= m /\ m <= c + 1 /\ c < h.cursor /\ h.cursor <= n /\ m \in Nat
    BY <1>1, <1>2, <1>4
  <2>5. /\ t.entries \in Seq(E) /\ Len(t.entries) = n - c
        /\ \A k \in 1..(n - c) : t.entries[k] = es[k + c]
    <3>1. \A k \in (c + 1)..n : es[k] \in E
      <4>1. \A k \in (c + 1)..n : k \in 1..n
        BY <1>1, <2>4
      <4> QED BY <1>1, <4>1 DEF n
    <3>2. n \in Int /\ c + 1 \in Int /\ c + 1 <= n + 1 /\ n - (c + 1) + 1 = n - c
      BY <1>1, <2>4
    <3>3. /\ SubSeq(es, c + 1, n) \in Seq(E)
          /\ Len(SubSeq(es, c + 1, n)) = n - (c + 1) + 1
          /\ \A k \in 1..(n - (c + 1) + 1) : SubSeq(es, c + 1, n)[k] = es[c + 1 + k - 1]
      BY <3>1, <3>2, SubSeqProperties
    <3>4. \A k \in 1..(n - c) : c + 1 + k - 1 = k + c
      BY <1>1, <2>4
    <3> QED BY <2>1, <3>2, <3>3, <3>4
  <2>6. t.cursor = h.cursor - c /\ t.cursor \in 1..(n - c) /\ t.cursor + c = h.cursor
    BY <1>1, <2>1, <2>4
  <2>7. DOMAIN t.entries = 1..(n - c)
    BY <2>5, LenProperties
  <2>8. HasCurrent(t) /\ Current(t) = Current(h)
    BY <2>5, <2>6, <2>7 DEF HasCurrent, Current, es
  <2>9. Len(t.entries) - t.cursor = n - h.cursor
    BY <1>1, <2>4, <2>5, <2>6
  <2>10. TrimCount(t) = 0
    <3> DEFINE m2 == IF n - c <= Limit THEN 0 ELSE Lesser(n - c - Limit, t.cursor - 1)
    <3>0. t \in [cursor : Nat, entries : Seq(E)]
      <4>1. h.cursor - c \in Nat /\ SubSeq(es, c + 1, n) \in Seq(E)
        BY <2>1, <2>5, <2>6
      <4> QED BY <2>1, <4>1
    <3>1. /\ TrimCount(t) = IF SplitsPair(t.entries, m2) THEN m2 - 1 ELSE m2
          /\ SplitsPair(t.entries, m2) => m2 >= 1
      BY <2>5, <2>8, <3>0, TrimCounts
    <3>2. CASE SplitsPair(es, m)
      <4>1. c = m - 1 /\ m >= 1 /\ c \in Int /\ m \in Int
        BY <1>2, <2>4, <3>2
      <4>2. m2 = 1
        <5>0. /\ n \in Int /\ c \in Int /\ m \in Int /\ Limit \in Int
              /\ h.cursor \in Int /\ t.cursor \in Int
          BY <1>1, <2>4, <2>6
        <5>1. ~(n - c <= Limit) /\ n - c - Limit >= 1 /\ t.cursor - 1 >= 1
          BY <1>1, <2>3, <2>4, <2>6, <4>1, <5>0
        <5>2. n - c - Limit = 1 \/ t.cursor - 1 = 1
          BY <1>1, <2>2, <2>4, <2>6, <4>1, <5>0
        <5> QED BY <1>1, <5>0, <5>1, <5>2 DEF Lesser
      <4>3. t.entries[1] = es[m] /\ t.entries[2] = es[m + 1] /\ 1 \in 1..(n - c - 1)
        BY <1>1, <1>2, <2>4, <2>5, <4>1
      <4>4. SplitsPair(t.entries, 1)
        BY <2>5, <3>2, <4>3 DEF SplitsPair
      <4> QED BY <3>1, <4>2, <4>4
    <3>3. CASE ~SplitsPair(es, m)
      <4>1. c = m
        BY <1>2, <3>3
      <4>2. m2 = 0
        <5>0. /\ n \in Int /\ c \in Int /\ m \in Int /\ Limit \in Int
              /\ h.cursor \in Int /\ t.cursor \in Int
          BY <1>1, <2>4, <2>6
        <5>1. n - c >= Limit /\ t.cursor - 1 >= 0
          BY <1>1, <1>4, <2>3, <2>6, <4>1, <5>0
        <5>2. n - c - Limit = 0 \/ t.cursor - 1 = 0
          BY <1>1, <1>4, <2>2, <2>6, <4>1, <5>0
        <5> QED BY <1>1, <5>0, <5>1, <5>2 DEF Lesser
      <4> QED BY <3>1, <4>2
    <3> QED BY <3>2, <3>3
  <2> QED BY <2>8, <2>9, <2>10 DEF t, n, es
<1> QED BY <1>3, <1>4

(* Whatever the history: with a current entry, the loops do what the       *)
(* closed forms say.                                                       *)
LEMMA LoopsEnd ==
  ASSUME NEW E, NEW h \in [cursor : Nat, entries : Seq(E)], HasCurrent(h), Limit \in Nat
  PROVE  LoopsAgree(h)
<1> DEFINE o == OriginWalk(h)
<1>1. h.cursor \in 1..Len(h.entries) /\ Len(h.entries) \in Nat /\ h.cursor \in Nat
  BY LenProperties DEF HasCurrent
<1>2. StopsAt(h.entries, h.cursor, o)
  BY <1>1, OriginFromStops DEF OriginWalk
<1> HIDE DEF o
<1>3. ASSUME NEW i \in 1..h.cursor PROVE IsUndoOrigin(h, i) <=> i = o
  <2>1. IsUndoOrigin(h, i) <=> StopsAt(h.entries, h.cursor, i)
    BY DEF IsUndoOrigin, StopsAt
  <2> QED BY <1>1, <1>2, <2>1, OneStop
<1>4. CanUndo(h) <=> o > 1
  <2>1. o \in 1..h.cursor
    BY <1>2 DEF StopsAt
  <2>2. ASSUME o > 1 PROVE CanUndo(h)
    <3>1. o \in 2..h.cursor /\ ~IsPreview(h.entries[o])
      BY <1>2, <2>1, <2>2 DEF StopsAt
    <3> QED BY <3>1 DEF CanUndo
  <2>3. ASSUME CanUndo(h) PROVE o > 1
    <3>1. PICK i \in 2..h.cursor : ~IsPreview(h.entries[i])
      BY <2>3 DEF CanUndo
    <3>2. i \notin (o + 1)..h.cursor
      BY <1>2, <3>1 DEF StopsAt
    <3> QED BY <2>1, <3>1, <3>2
  <2> QED BY <2>2, <2>3
<1> QED BY <1>3, <1>4, TrimWalks, TrimSettles DEF LoopsAgree, o

-----------------------------------------------------------------------------
(* The histories the loops run on have a current entry.                    *)
LEMMA WalkedHas ==
  ASSUME DInv, NEW g \in Walked
  PROVE  g \in [cursor : Nat, entries : Seq(AnyEntry)] /\ HasCurrent(g)
<1> DEFINE now == {file.hist} \cup (IF job.at = "writing" THEN {job.next.hist} ELSE {})
           more == {[id |-> MaxId + 1, when |-> l.when, what |-> l.what] : l \in Labels}
<1>1. ASSUME NEW h \in now PROVE Sound(h, MaxId + 1)
  <2>1. Sound(h, nextId) /\ Readable(h, snaps)
    <3>1. CASE h = file.hist
      BY <3>1 DEF DInv, DiskFits, Fits, Recording
    <3>2. CASE job.at = "writing" /\ h = job.next.hist
      BY <3>2, WritingHas
    <3> QED BY <3>1, <3>2
  <2>2. \A i \in EntryIds(h) : i < MaxId + 1
    BY <2>1, MergeBounds DEF Readable, Ids
  <2> QED BY <2>1, <2>2 DEF Sound
<1>2. ASSUME NEW e \in more PROVE e \in AnyEntry /\ e.id = MaxId + 1
  <2>1. PICK l \in Labels : e = [id |-> MaxId + 1, when |-> l.when, what |-> l.what]
    OBVIOUS
  <2>2. l.when \in Whens /\ l.what \in Whats /\ MaxId + 1 \in Nat \ {0}
    BY LabelledWhens, MergeBounds DEF Whats
  <2> QED BY <2>1, <2>2 DEF AnyEntry
<1>3. CASE g \in now
  BY <1>1, <1>3 DEF Sound
<1>4. CASE \E h \in now, e \in more : g = Recorded(h, e)
  <2>1. PICK h \in now, e \in more : g = Recorded(h, e)
    BY <1>4
  <2> HIDE DEF now, more
  <2>2. Sound(g, MaxId + 1 + 1)
    BY <1>1, <1>2, <2>1, MergeBounds, RecordedHas
  <2> QED BY <2>2 DEF Sound
<1>5. g \in now \/ \E h \in now, e \in more : g = Recorded(h, e)
  BY DEF Walked
<1> QED BY <1>3, <1>4, <1>5

(* The loops of _trim_history and undo_origin, turn by turn, end where     *)
(* TrimCount, IsUndoOrigin and CanUndo say, on every history a project     *)
(* has: a trim keeps the current and every redo entry and both halves of   *)
(* an edit, and a second one removes nothing.                              *)
THEOREM LoopsEndAsStated == Spec => []WalksAgree
<1>1. DInv => WalksAgree
  <2> SUFFICES ASSUME DInv, NEW g \in Walked PROVE LoopsAgree(g)
    BY DEF WalksAgree
  <2>1. g \in [cursor : Nat, entries : Seq(AnyEntry)] /\ HasCurrent(g)
    BY WalkedHas
  <2>2. Limit \in Nat
    BY MergeBounds
  <2> HIDE DEF AnyEntry
  <2> QED BY <2>1, <2>2, LoopsEnd
<1> QED BY <1>1, Invariance, PTL

-----------------------------------------------------------------------------
(* Types.  What a sound history or a list has, the invariants say; the     *)
(* rest is the bounds, and the histories nothing else speaks of.           *)
TInv ==
  /\ nextId <= MaxId + 1 /\ work \in 0..MaxWork /\ loose \in BOOLEAN
  /\ index \in Hists /\ job.mem.hist \in Hists
  /\ job.at = "open" => job.base = NoBase
  /\ job.at = "writing" => /\ job.label \in Labels \cup {NoLabel}
                           /\ job.own \in SUBSET Ids /\ job.indexBefore \in Hists
  /\ job.at = "landed" => job.pruned \in SUBSET Ids

LEMMA SoundIsTyped ==
  ASSUME NEW h, NEW n \in Nat, Sound(h, n), n <= MaxId + 1
  PROVE  h \in Hists
<1>1. /\ h \in [cursor : Nat, entries : Seq(AnyEntry)] /\ \A i \in EntryIds(h) : i < n
      /\ h.entries \in Seq(AnyEntry) /\ h.cursor \in Nat
  BY DEF Sound
<1>2. ASSUME NEW k \in 1..Len(h.entries) PROVE h.entries[k] \in Entries
  <2>1. h.entries[k] \in AnyEntry /\ h.entries[k].id \in EntryIds(h)
    BY <1>1 DEF EntryIds
  <2>2. h.entries[k].id \in Nat \ {0} /\ h.entries[k].id < n
    BY <1>1, <2>1 DEF AnyEntry
  <2>3. h.entries[k].id \in Ids
    BY <2>2, MergeBounds DEF Ids
  <2> QED BY <2>1, <2>3 DEF AnyEntry, Entries
<1>3. h.entries \in Seq(Entries)
  <2>1. h.entries = [k \in 1..Len(h.entries) |-> h.entries[k]] /\ Len(h.entries) \in Nat
    BY <1>1
  <2> QED BY <1>2, <2>1
<1> QED BY <1>1, <1>3 DEF Hists

(* A save takes its own entry before that of the merge.                    *)
LEMMA LabelledComesFirst ==
  ASSUME DInv, NEW label
  PROVE  /\ Labelled(label).id \in {nextId, nextId + 1}
         /\ ToSave(label).id \in {Labelled(label).id, Labelled(label).id + 1}
<1> DEFINE l == Labelled(label)
           dd == job.mem.data
           hh == job.mem.hist
           mine == [Recording EXCEPT !.data = dd, !.hist = hh]
<1>1. HasFields(Recording, {"data", "hist", "snaps", "id"}) /\ Recording.id = nextId
  BY DiskHas
<1>2. l = IF label = NoLabel THEN mine ELSE AfterRecord(mine, label.when, label.what)
  BY DEF Labelled
<1>3. mine = [Recording EXCEPT !.data = dd, !.hist = hh]
  OBVIOUS
<1> HIDE DEF l, dd, hh, mine
<1>4. HasFields(mine, {"data", "hist", "snaps", "id"}) /\ mine.id = nextId
  BY <1>1, <1>3 DEF HasFields
<1>5. HasFields(l, {"data", "hist", "snaps", "id"}) /\ l.id \in {nextId, nextId + 1}
  BY <1>2, <1>4, AfterRecordIds
<1>6. CASE ~Moved
  BY <1>5, <1>6 DEF ToSave, l
<1>7. CASE Moved
  <2>1. PICK d, h : ToSave(label) = AfterRecord([l EXCEPT !.data = d, !.hist = h], "after", Merging)
    BY <1>7 DEF ToSave, l
  <2> DEFINE m == [l EXCEPT !.data = d, !.hist = h]
  <2>2. m = [l EXCEPT !.data = d, !.hist = h]
    OBVIOUS
  <2>3. ToSave(label) = AfterRecord(m, "after", Merging)
    BY <2>1
  <2> HIDE DEF m
  <2>4. HasFields(m, {"data", "hist", "snaps", "id"}) /\ m.id = l.id
    BY <1>5, <2>2 DEF HasFields
  <2> QED BY <1>5, <2>3, <2>4, AfterRecordIds DEF l
<1> QED BY <1>6, <1>7

LEMMA TypesInit == Init => TInv
<1> SUFFICES ASSUME Init PROVE TInv
  OBVIOUS
<1>1. /\ nextId = 2 /\ work = 0 /\ loose = FALSE /\ index = InitialHist
      /\ job.at = "open" /\ job.base = NoBase /\ job.mem.hist = InitialHist
      /\ nextId <= MaxId + 1 /\ work \in 0..MaxWork
  BY MergeBounds DEF Init, Opened
<1>2. InitialHist \in Hists
  <2>1. DInv /\ file.hist = InitialHist
    BY InitFits DEF Init
  <2>2. Sound(InitialHist, 2) /\ 2 <= MaxId + 1
    BY <1>1, <2>1, DiskHas, MergeBounds
  <2> QED BY <2>2, SoundIsTyped
<1> QED BY <1>1, <1>2 DEF TInv

LEMMA TypesKept ==
  ASSUME IInv, DInv, TInv, [Next]_vars
  PROVE  TInv'
<1>1. /\ DInv' /\ MaxId \in Nat \ {0} /\ MaxWork \in Nat
      /\ nextId \in Nat \ {0} /\ Sound(file.hist, nextId) /\ nextId <= MaxId + 1
      /\ file.hist \in Hists
  BY NextFits, DiskHas, SoundIsTyped, MergeBounds DEF TInv
<1>2. ASSUME nextId' <= MaxId + 1
      PROVE  file'.hist \in Hists
  <2>1. nextId' \in Nat \ {0} /\ Sound(file'.hist, nextId')
    BY <1>1 DEF DInv, DiskFits, Fits, Recording
  <2> QED BY <1>2, <2>1, SoundIsTyped
<1>3. ASSUME NEW r, Commit(r), ~Locked PROVE TInv'
  <2>1. /\ index' = file'.hist /\ nextId' <= MaxId + 1 /\ loose' = FALSE
        /\ job' = job /\ work' = work
    BY <1>3 DEF Commit
  <2> QED BY <1>2, <2>1 DEF TInv
<1>4. CASE Writers
  BY <1>3, <1>4 DEF Writers, Edit, Move, WriterMayStart
<1>5. ASSUME NEW data, Work(data) PROVE TInv'
  <2>1. /\ job.at \in {"open", "based"} /\ work < MaxWork
        /\ job' = [job EXCEPT !.mem.data = data]
        /\ work' = work + 1 /\ UNCHANGED <<index, nextId, loose>>
    BY <1>5 DEF Work
  <2>2. HasFields(job, {"at", "mem", "base", "sig"}) /\ HasFields(job.mem, {"data", "hist"})
    BY <2>1 DEF IInv, JobShape, Whole
  <2>3. /\ job'.at = job.at /\ job'.base = job.base
        /\ job'.mem = [job.mem EXCEPT !.data = data]
    BY <2>1, <2>2 DEF HasFields
  <2>4. job'.mem.hist = job.mem.hist
    BY <2>2, <2>3 DEF HasFields
  <2>5. work' \in 0..MaxWork
    BY <1>1, <2>1 DEF TInv
  <2> QED BY <2>1, <2>3, <2>4, <2>5 DEF TInv
<1>6. CASE Read
  <2>1. /\ job'.at = "read" /\ job'.mem = job.mem /\ UNCHANGED <<index, nextId, work, loose>>
    BY <1>6 DEF Read
  <2> QED BY <2>1 DEF TInv
<1>7. CASE Checkpoint
  <2>1. /\ job.at = "read" /\ job'.at = "based" /\ UNCHANGED <<index, nextId, work, loose>>
        /\ job'.mem \in {job.mem, job.base}
    BY <1>7 DEF Checkpoint
  <2>2. job.base.hist \in Hists
    BY <1>1, <2>1, SoundIsTyped DEF DInv, CopyFits
  <2> QED BY <2>1, <2>2 DEF TInv
<1>8. CASE Discard \/ Die
  <2>1. job' = Opened(Project, file.rev) /\ UNCHANGED <<index, nextId, work>>
    BY <1>8 DEF Discard, Die
  <2>2. job'.at = "open" /\ job'.base = NoBase /\ job'.mem.hist = file.hist
    BY <2>1 DEF Opened, Project
  <2>3. loose' = loose \/ loose' = (loose \/ job.at = "writing")
    BY <1>8 DEF Discard, Die
  <2>4. loose' \in BOOLEAN
    BY <2>3, Zenon DEF TInv
  <2> QED BY <1>1, <2>1, <2>2, <2>4 DEF TInv
<1>9. ASSUME NEW label \in Labels \cup {NoLabel}, BeginSave(label) PROVE TInv'
  <2> DEFINE r == ToSave(label)
             l == Labelled(label)
  <2>1. /\ job.at = "based" /\ r.id <= MaxId + 1 /\ nextId' = r.id
        /\ index' = IF r.id > l.id THEN r.hist ELSE IF r.id > nextId THEN l.hist ELSE index
        /\ job' = [at |-> "writing", mem |-> job.mem, base |-> job.base, label |-> label,
                   next |-> [data |-> r.data, hist |-> r.hist],
                   own |-> nextId..(r.id - 1), indexBefore |-> index]
        /\ UNCHANGED <<work, loose>>
    BY <1>9 DEF BeginSave
  <2>2. l.id \in {nextId, nextId + 1} /\ r.id \in {l.id, l.id + 1}
    BY LabelledComesFirst
  <2> HIDE DEF r, l
  <2>3. l.id <= MaxId + 1 /\ l.id \in Nat /\ r.id \in Nat
    BY <1>1, <2>1, <2>2
  <2>4. l.hist \in Hists
    <3>1. Fits(l)
      BY <2>1, <2>3, LabelledHas DEF l
    <3> QED BY <2>3, <3>1, SoundIsTyped DEF Fits
  <2>5. r.hist \in Hists
    <3>1. Sound(job'.next.hist, nextId') /\ job'.next.hist = r.hist
      BY <1>1, <2>1 DEF DInv, SaveFits
    <3>2. Sound(r.hist, r.id)
      BY <2>1, <3>1
    <3> QED BY <2>1, <2>3, <3>2, SoundIsTyped
  <2>6. nextId..(r.id - 1) \in SUBSET Ids
    BY <1>1, <2>1, <2>3 DEF Ids
  <2>7. /\ job'.at = "writing" /\ job'.mem = job.mem /\ job'.label = label
        /\ job'.own = nextId..(r.id - 1) /\ job'.indexBefore = index
    BY <2>1
  <2>8. index' \in Hists
    BY <2>1, <2>4, <2>5 DEF TInv
  <2> QED BY <2>1, <2>6, <2>7, <2>8 DEF TInv
<1>10. ASSUME NEW label, RefuseSave(label) PROVE TInv'
  <2>1. /\ job.at = "based" /\ job' = [job EXCEPT !.sig = Unknown]
        /\ UNCHANGED <<index, nextId, work, loose>>
    BY <1>10 DEF RefuseSave
  <2>2. HasFields(job, {"at", "mem", "base", "sig"})
    BY <2>1 DEF IInv, JobShape
  <2>3. job'.at = "based" /\ job'.mem = job.mem
    BY <2>1, <2>2 DEF HasFields
  <2> QED BY <2>1, <2>3 DEF TInv
<1>11. CASE Land
  <2>1. /\ job.at = "writing" /\ index' = file'.hist /\ loose' = FALSE
        /\ job'.at = "landed" /\ job'.mem = job.mem /\ job'.pruned = PrunedIds(job.next.hist)
        /\ UNCHANGED <<nextId, work>>
    BY <1>11 DEF Land
  <2>2. PrunedIds(job.next.hist) \in SUBSET Ids
    <3>1. Sound(job.next.hist, nextId) /\ Readable(job.next.hist, snaps)
      BY <2>1, WritingHas
    <3>2. PrunedIds(job.next.hist) \subseteq EntryIds(job.next.hist)
      BY <3>1, TrimmedHas
    <3> QED BY <3>1, <3>2 DEF Readable
  <2>3. file'.hist \in Hists
    BY <1>1, <1>2, <2>1
  <2> QED BY <2>1, <2>2, <2>3 DEF TInv
<1>12. CASE Finish \/ FailLanded
  <2>1. /\ job.at = "landed" /\ job'.at = "based" /\ job'.mem = job.next
        /\ UNCHANGED <<index, nextId, work, loose>>
    BY <1>12 DEF Finish, FailLanded, Adopt
  <2>2. job.next.hist = file.hist
    BY <2>1 DEF DInv, LandedFits, Project
  <2> QED BY <1>1, <2>1, <2>2 DEF TInv
<1>13. CASE FailSave \/ FailUnknown
  <2>1. job' = Back /\ UNCHANGED <<nextId, work>>
    BY <1>13 DEF FailSave, FailUnknown
  <2>2. job'.at = "based" /\ job'.mem = job.mem
    BY <2>1 DEF Back
  <2>3. loose' = loose \/ loose' = (loose \/ job.at = "writing")
    BY <1>13 DEF FailSave, FailUnknown
  <2>4. loose' \in BOOLEAN
    BY <2>3, Zenon DEF TInv
  <2>5. index' \in Hists
    <3>1. index' = index \/ (job.at = "writing" /\ index' = job.indexBefore)
      BY <1>13 DEF FailSave, FailUnknown
    <3> QED BY <3>1 DEF TInv
  <2> QED BY <2>1, <2>2, <2>4, <2>5 DEF TInv
<1>14. CASE UNCHANGED vars
  BY <1>14 DEF vars, TInv
<1> QED
  BY <1>4, <1>5, <1>6, <1>7, <1>8, <1>9, <1>10, <1>11, <1>12, <1>13, <1>14 DEF Next, Saves

(* Every variable has its type: whatever is merged, a project is a list of *)
(* objects without a hole and a history.                                   *)
THEOREM TypeCorrect == Spec => []TypeOK
<1>1. Init => IInv /\ DInv /\ TInv
  BY InitInv, InitFits, TypesInit
<1>2. IInv /\ DInv /\ TInv /\ [Next]_vars => (IInv /\ DInv /\ TInv)'
  BY NextKeeps, NextFits, TypesKept
<1>3. IInv /\ DInv /\ TInv => TypeOK
  <2> SUFFICES ASSUME IInv, DInv, TInv PROVE TypeOK
    OBVIOUS
  <2>1. /\ nextId \in Nat \ {0} /\ nextId <= MaxId + 1 /\ MaxId \in Nat
        /\ Sound(file.hist, nextId) /\ Listed(Objects, file.data) /\ Stored(snaps)
    BY DiskHas, MergeBounds DEF TInv
  <2>2. nextId \in 1..(MaxId + 1) /\ file.hist \in Hists /\ file.data \in Seq(Objects)
    BY <2>1, SoundIsTyped DEF Listed
  <2>3. file \in [data : Seq(Objects), hist : Hists, rev : Nat \ {0}]
    BY <2>2 DEF IInv, FileShape, HasFields
  <2>4. \A i \in Ids : snaps[i] \in Seq(Objects) \/ snaps[i] = NoSnap
    BY <2>1 DEF Stored, Listed
  <2>5. job \in Jobs
    <3>1. job.mem \in Projects
      <4>1. /\ job.mem.data \in Seq(Objects) /\ job.mem.hist \in Hists
            /\ HasFields(job.mem, {"data", "hist"})
        BY DEF DInv, CopyFits, Listed, TInv, IInv, JobShape, Whole
      <4> QED BY <4>1 DEF HasFields, Projects
    <3>2. job.at # "open" => job.base \in Projects
      <4>1. ASSUME job.at # "open"
            PROVE  /\ job.base.data \in Seq(Objects) /\ Sound(job.base.hist, nextId)
                   /\ HasFields(job.base, {"data", "hist"})
        BY <4>1 DEF DInv, CopyFits, Listed, IInv, JobShape, Whole
      <4>2. job.at # "open" => job.base.hist \in Hists
        BY <2>1, <4>1, SoundIsTyped
      <4> QED BY <4>1, <4>2 DEF HasFields, Projects
    <3>3. job.at \in {"writing", "landed"} => job.next \in Projects
      <4>1. ASSUME job.at = "writing"
            PROVE  job.next.data \in Seq(Objects) /\ job.next.hist \in Hists
        <5>1. /\ job.next.data = MergedList(job.base.data, job.mem.data, file.data)
              /\ Sound(job.next.hist, nextId) /\ Listed(Objects, job.mem.data)
              /\ Listed(Objects, job.base.data)
          BY <4>1, WritingHas
        <5>2. Listed(Objects, job.next.data)
          BY <2>1, <5>1, MergedIsListed
        <5> QED BY <2>1, <5>1, <5>2, SoundIsTyped DEF Listed
      <4>2. ASSUME job.at = "landed"
            PROVE  job.next.data \in Seq(Objects) /\ job.next.hist \in Hists
        BY <2>2, <4>2 DEF DInv, LandedFits, Project
      <4>3. job.at \in {"writing", "landed"} => HasFields(job.next, {"data", "hist"})
        BY DEF IInv, JobShape, Whole
      <4> QED BY <4>1, <4>2, <4>3 DEF HasFields, Projects
    <3>4. CASE job.at = "open"
      <4>1. HasFields(job, {"at", "mem", "base", "sig"}) /\ job.sig \in Nat /\ job.base = NoBase
        BY <3>4 DEF IInv, JobShape, CopyCurrent, TInv
      <4> QED BY <3>1, <3>4, <4>1 DEF HasFields, Jobs
    <3>5. CASE job.at = "read"
      <4>1. /\ HasFields(job, {"at", "mem", "base", "sig", "rev"})
            /\ job.sig \in Nat /\ job.rev \in Nat
        BY <3>5 DEF IInv, JobShape, CopyCurrent, ReadCurrent
      <4> QED BY <3>1, <3>2, <3>5, <4>1 DEF HasFields, Jobs
    <3>6. CASE job.at = "based"
      <4>1. HasFields(job, {"at", "mem", "base", "sig"}) /\ job.sig \in Nat
        BY <3>6 DEF IInv, JobShape, CopyCurrent
      <4> QED BY <3>1, <3>2, <3>6, <4>1 DEF HasFields, Jobs
    <3>7. CASE job.at = "writing"
      <4>1. /\ HasFields(job, {"at", "mem", "base", "label", "next", "own", "indexBefore"})
            /\ job.label \in Labels \cup {NoLabel}
            /\ job.own \in SUBSET Ids /\ job.indexBefore \in Hists
        BY <3>7 DEF IInv, JobShape, TInv
      <4> QED BY <3>1, <3>2, <3>3, <3>7, <4>1 DEF HasFields, Jobs
    <3>8. CASE job.at = "landed"
      <4>1. /\ HasFields(job, {"at", "mem", "base", "next", "pruned"})
            /\ job.pruned \in SUBSET Ids
        BY <3>8 DEF IInv, JobShape, TInv
      <4> QED BY <3>1, <3>2, <3>3, <3>8, <4>1 DEF HasFields, Jobs
    <3>9. job.at \in {"open", "read", "based", "writing", "landed"}
      BY DEF IInv, JobShape
    <3> QED BY <3>4, <3>5, <3>6, <3>7, <3>8, <3>9
  <2> QED BY <2>2, <2>3, <2>4, <2>5 DEF TypeOK, TInv
<1> QED BY <1>1, <1>2, <1>3, PTL DEF Spec
===============================================================================
