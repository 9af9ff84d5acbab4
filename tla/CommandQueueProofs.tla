-------------------------- MODULE CommandQueueProofs --------------------------
EXTENDS CommandQueue, FiniteSetTheorems, TLAPS

-----------------------------------------------------------------------------
LEMMA RankRises ==
  ASSUME NEW len \in Nat, NEW keep \in SUBSET (1..len)
  PROVE  /\ IsFiniteSet(keep) /\ Cardinality(keep) \in Nat
         /\ \A i \in keep : Cardinality(UpTo(keep, i)) \in 1..Cardinality(keep)
         /\ \A i, k \in keep : i < k => Cardinality(UpTo(keep, i)) < Cardinality(UpTo(keep, k))
<1>1. IsFiniteSet(keep) /\ Cardinality(keep) \in Nat
  <2>1. IsFiniteSet(1..len)
    BY FS_Interval
  <2> QED BY <2>1, FS_Subset, FS_CardinalityType
<1>2. \A i \in keep : /\ IsFiniteSet(UpTo(keep, i)) /\ Cardinality(UpTo(keep, i)) \in Nat
                      /\ Cardinality(UpTo(keep, i)) <= Cardinality(keep)
  <2> SUFFICES ASSUME NEW i \in keep
               PROVE  /\ IsFiniteSet(UpTo(keep, i)) /\ Cardinality(UpTo(keep, i)) \in Nat
                      /\ Cardinality(UpTo(keep, i)) <= Cardinality(keep)
    OBVIOUS
  <2>1. UpTo(keep, i) \in SUBSET keep
    BY DEF UpTo
  <2> QED BY <1>1, <2>1, FS_Subset, FS_CardinalityType
<1>3. \A i \in keep : Cardinality(UpTo(keep, i)) # 0
  <2> SUFFICES ASSUME NEW i \in keep, Cardinality(UpTo(keep, i)) = 0 PROVE FALSE
    OBVIOUS
  <2>1. UpTo(keep, i) = {}
    BY <1>2, FS_EmptySet
  <2> QED BY <2>1 DEF UpTo
<1>4. ASSUME NEW i \in keep, NEW k \in keep, i < k
      PROVE  Cardinality(UpTo(keep, i)) < Cardinality(UpTo(keep, k))
  <2>0. keep \in SUBSET Int /\ i \in Int /\ k \in Int
    OBVIOUS
  <2>1. UpTo(keep, i) \in SUBSET UpTo(keep, k) /\ k \in UpTo(keep, k) /\ k \notin UpTo(keep, i)
    <3>1. ~(k <= i) /\ k <= k /\ \A j \in keep : j <= i => j <= k
      BY <1>4, <2>0
    <3>2. \A j \in UpTo(keep, i) : j \in UpTo(keep, k)
      BY <3>1, Zenon DEF UpTo
    <3>3. k \in UpTo(keep, k) /\ k \notin UpTo(keep, i)
      BY <3>1, Zenon DEF UpTo
    <3> QED BY <3>2, <3>3
  <2> DEFINE lower == UpTo(keep, i)
             upper == UpTo(keep, k)
  <2>2. IsFiniteSet(upper) /\ lower \in SUBSET upper /\ lower # upper
    BY <1>2, <2>1
  <2>3. Cardinality(lower) \in Nat /\ Cardinality(upper) \in Nat
    BY <1>2
  <2> HIDE DEF lower, upper
  <2>4. Cardinality(lower) < Cardinality(upper)
    BY <2>2, <2>3, FS_Subset
  <2> QED BY <2>4 DEF lower, upper
<1>5. \A i \in keep : Cardinality(UpTo(keep, i)) \in 1..Cardinality(keep)
  BY <1>1, <1>2, <1>3
<1> QED BY <1>1, <1>4, <1>5

(* Nth counts keep from its least element to its greatest.                 *)
LEMMA NthCounts ==
  ASSUME NEW len \in Nat, NEW keep \in SUBSET (1..len)
  PROVE  /\ Cardinality(keep) \in Nat
         /\ \A n \in 1..Cardinality(keep) : Nth(keep, n) \in keep
         /\ \A m, n \in 1..Cardinality(keep) : m < n <=> Nth(keep, m) < Nth(keep, n)
         /\ \A i \in keep : \E n \in 1..Cardinality(keep) : Nth(keep, n) = i
<1> DEFINE rank(i) == Cardinality(UpTo(keep, i))
           size == Cardinality(keep)
<1>1. /\ IsFiniteSet(keep) /\ size \in Nat
      /\ \A i \in keep : rank(i) \in 1..size
      /\ \A i, k \in keep : i < k => rank(i) < rank(k)
  BY RankRises
<1>2. \A i, k \in keep : rank(i) = rank(k) => i = k
  BY <1>1
<1>3. ASSUME NEW n \in 1..size PROVE \E i \in keep : rank(i) = n
  <2> SUFFICES ASSUME \A i \in keep : rank(i) # n PROVE FALSE
    OBVIOUS
  <2> DEFINE others == (1..size) \ {n}
             f == [i \in keep |-> rank(i)]
  <2>1. IsFiniteSet(1..size) /\ Cardinality(1..size) = size
    BY <1>1, FS_Interval
  <2>2. IsFiniteSet(others) /\ Cardinality(others) = size - 1
    <3> DEFINE all == 1..size
    <3>1. IsFiniteSet(all) /\ n \in all /\ Cardinality(all) = size /\ others = all \ {n}
      BY <2>1
    <3> HIDE DEF all, others
    <3> QED BY <3>1, FS_RemoveElement
  <2>3. Cardinality(others) < size
    BY <1>1, <2>2
  <2>4. f \in [keep -> others]
    BY <1>1
  <2>5. \E x, y \in keep : x # y /\ f[x] = f[y]
    <3>1. IsFiniteSet(keep) /\ Cardinality(others) < Cardinality(keep)
      BY <1>1, <2>3
    <3> HIDE DEF others, f
    <3> QED BY <2>2, <2>4, <3>1, FS_PigeonHole
  <2> QED BY <1>2, <2>5
<1>4. \A n \in 1..size : Nth(keep, n) \in keep /\ rank(Nth(keep, n)) = n
  BY <1>3 DEF Nth
<1>5. \A i \in keep : Nth(keep, rank(i)) = i
  BY <1>1, <1>2, <1>4
<1> HIDE DEF rank, size
<1>6. ASSUME NEW m \in 1..size, NEW n \in 1..size
      PROVE  m < n <=> Nth(keep, m) < Nth(keep, n)
  <2>1. /\ Nth(keep, m) \in keep /\ Nth(keep, n) \in keep
        /\ Nth(keep, m) \in 1..len /\ Nth(keep, n) \in 1..len
        /\ rank(Nth(keep, m)) = m /\ rank(Nth(keep, n)) = n
    BY <1>4
  <2>2. Nth(keep, m) < Nth(keep, n) => m < n
    BY <1>1, <2>1
  <2>3. Nth(keep, n) < Nth(keep, m) => n < m
    BY <1>1, <2>1
  <2>4. Nth(keep, n) = Nth(keep, m) => n = m
    BY <2>1
  <2> QED BY <1>1, <2>1, <2>2, <2>3, <2>4
<1>7. \A i \in keep : \E n \in 1..size : Nth(keep, n) = i
  BY <1>1, <1>5
<1> QED BY <1>1, <1>4, <1>6, <1>7 DEF size

LEMMA PickedHas ==
  ASSUME NEW S, NEW s \in Seq(S), NEW keep \in SUBSET DOMAIN s
  PROVE  /\ Picked(s, keep) \in Seq(S)
         /\ DOMAIN Picked(s, keep) = 1..Cardinality(keep)
         /\ \A n \in DOMAIN Picked(s, keep) :
              Nth(keep, n) \in keep /\ Picked(s, keep)[n] = s[Nth(keep, n)]
         /\ \A m, n \in DOMAIN Picked(s, keep) : m < n <=> Nth(keep, m) < Nth(keep, n)
         /\ \A i \in keep : \E n \in DOMAIN Picked(s, keep) : Nth(keep, n) = i
<1>1. Len(s) \in Nat /\ keep \in SUBSET (1..Len(s))
  OBVIOUS
<1> DEFINE size == Cardinality(keep)
<1>2. /\ size \in Nat
      /\ \A n \in 1..size : Nth(keep, n) \in keep
      /\ \A m, n \in 1..size : m < n <=> Nth(keep, m) < Nth(keep, n)
      /\ \A i \in keep : \E n \in 1..size : Nth(keep, n) = i
  BY <1>1, NthCounts
<1> HIDE DEF size
<1>3. Picked(s, keep) = [n \in 1..size |-> s[Nth(keep, n)]]
  BY DEF Picked, size
<1>4. \A n \in 1..size : s[Nth(keep, n)] \in S
  BY <1>2
<1>5. Picked(s, keep) \in Seq(S)
  BY <1>2, <1>3, <1>4
<1> QED BY <1>2, <1>3, <1>5 DEF size

(* Without takes out what it names and leaves the rest in its order.       *)
LEMMA WithoutKeeps ==
  ASSUME NEW S, NEW q \in Seq(S), NEW gone
  PROVE  /\ Without(q, gone) \in Seq(S)
         /\ IsInjective(q) => IsInjective(Without(q, gone))
         /\ ToSet(Without(q, gone)) = ToSet(q) \ gone
         /\ \A n \in DOMAIN Without(q, gone) : \E i \in DOMAIN q :
              /\ Without(q, gone)[n] = q[i]
              /\ \A j \in 1..(i - 1) : q[j] \notin gone =>
                   \E m \in 1..(n - 1) : Without(q, gone)[m] = q[j]
<1> DEFINE keep == {i \in DOMAIN q : q[i] \notin gone}
           w == Picked(q, keep)
<1>1. keep \in SUBSET DOMAIN q
  OBVIOUS
<1>2. Without(q, gone) = w
  BY DEF Without
<1>3. \A i \in keep : q[i] \notin gone
  OBVIOUS
<1>4. \A i \in DOMAIN q : q[i] \notin gone => i \in keep
  OBVIOUS
<1> HIDE DEF keep
<1>5. /\ w \in Seq(S) /\ DOMAIN w = 1..Cardinality(keep)
      /\ \A n \in DOMAIN w : Nth(keep, n) \in keep /\ w[n] = q[Nth(keep, n)]
      /\ \A m, n \in DOMAIN w : m < n <=> Nth(keep, m) < Nth(keep, n)
      /\ \A i \in keep : \E n \in DOMAIN w : Nth(keep, n) = i
  BY <1>1, PickedHas
<1>6. Len(w) \in Nat /\ DOMAIN w = 1..Len(w) /\ Len(q) \in Nat /\ DOMAIN q = 1..Len(q)
  <2>1. w \in Seq(S)
    BY <1>5
  <2> HIDE DEF w
  <2> QED BY <2>1
<1> HIDE DEF w
<1>7. ASSUME IsInjective(q), NEW m \in DOMAIN w, NEW n \in DOMAIN w, w[m] = w[n] PROVE m = n
  <2>1. Nth(keep, m) = Nth(keep, n)
    BY <1>1, <1>5, <1>7 DEF IsInjective
  <2>2. ~(m < n) /\ ~(n < m)
    <3>1. Nth(keep, m) \in Nat /\ Nth(keep, n) \in Nat
      BY <1>1, <1>5, <1>6
    <3>2. ~(Nth(keep, m) < Nth(keep, n)) /\ ~(Nth(keep, n) < Nth(keep, m))
      BY <2>1, <3>1
    <3> QED BY <1>5, <3>2
  <2> QED BY <1>6, <2>2
<1>8. ToSet(w) = ToSet(q) \ gone
  <2>1. \A x \in ToSet(w) : x \in ToSet(q) \ gone
    BY <1>1, <1>3, <1>5 DEF ToSet
  <2>2. ASSUME NEW x \in ToSet(q) \ gone PROVE x \in ToSet(w)
    <3>1. PICK i \in DOMAIN q : q[i] = x
      BY DEF ToSet
    <3>2. i \in keep
      BY <1>4, <3>1
    <3>3. PICK n \in DOMAIN w : Nth(keep, n) = i
      BY <1>5, <3>2
    <3> QED BY <1>5, <3>1, <3>3 DEF ToSet
  <2> QED BY <2>1, <2>2
<1>9. ASSUME NEW n \in DOMAIN w
      PROVE  \E i \in DOMAIN q :
               /\ w[n] = q[i]
               /\ \A j \in 1..(i - 1) : q[j] \notin gone => \E m \in 1..(n - 1) : w[m] = q[j]
  <2> DEFINE i == Nth(keep, n)
  <2>1. i \in DOMAIN q /\ i \in keep /\ w[n] = q[i]
    BY <1>1, <1>5
  <2>2. ASSUME NEW j \in 1..(i - 1), q[j] \notin gone
        PROVE  \E m \in 1..(n - 1) : w[m] = q[j]
    <3>1. j \in DOMAIN q /\ j < i
      BY <1>6, <2>1
    <3>2. j \in keep
      BY <1>4, <2>2, <3>1
    <3>3. PICK m \in DOMAIN w : Nth(keep, m) = j
      BY <1>5, <3>2
    <3>4. m < n
      BY <1>5, <3>1, <3>3
    <3>5. m \in 1..(n - 1)
      BY <1>6, <3>4
    <3> QED BY <1>5, <3>3, <3>5
  <2> HIDE DEF i
  <2> QED BY <2>1, <2>2
<1>10. IsInjective(q) => IsInjective(w)
  BY <1>7 DEF IsInjective
<1> QED BY <1>2, <1>5, <1>8, <1>9, <1>10

-----------------------------------------------------------------------------
(* What the queue and the log of the server have in common.                *)
LEMMA AppendNew ==
  ASSUME NEW S, NEW q \in Seq(S), NEW c \in S
  PROVE  /\ Append(q, c) \in Seq(S)
         /\ ToSet(Append(q, c)) = ToSet(q) \cup {c}
         /\ ~Contains(q, c) /\ IsInjective(q) => IsInjective(Append(q, c))
         /\ Contains(q, c) <=> c \in ToSet(q)
<1>1. /\ Append(q, c) \in Seq(S) /\ Len(q) \in Nat /\ DOMAIN q = 1..Len(q)
      /\ DOMAIN Append(q, c) = 1..(Len(q) + 1)
      /\ \A i \in DOMAIN q : Append(q, c)[i] = q[i]
      /\ Append(q, c)[Len(q) + 1] = c
  OBVIOUS
<1>2. \A i \in 1..(Len(q) + 1) : i \in 1..Len(q) \/ i = Len(q) + 1
  BY <1>1
<1>3. \A i \in 1..Len(q) : i \in 1..(Len(q) + 1)
  BY <1>1
<1>4. Len(q) + 1 \in 1..(Len(q) + 1)
  BY <1>1
<1>5. Contains(q, c) <=> c \in ToSet(q)
  BY <1>1 DEF Contains, ToSet
<1> DEFINE new == Append(q, c)
<1>6. /\ DOMAIN new = 1..(Len(q) + 1) /\ \A i \in DOMAIN q : new[i] = q[i]
      /\ new[Len(q) + 1] = c
  BY <1>1
<1> HIDE DEF new
<1>7. ToSet(new) = ToSet(q) \cup {c}
  <2>1. \A x \in ToSet(new) : x \in ToSet(q) \cup {c}
    BY <1>1, <1>2, <1>6 DEF ToSet
  <2>2. \A x \in ToSet(q) : x \in ToSet(new)
    BY <1>1, <1>3, <1>6 DEF ToSet
  <2>3. c \in ToSet(new)
    BY <1>4, <1>6 DEF ToSet
  <2> QED BY <2>1, <2>2, <2>3
<1>8. ~Contains(q, c) /\ IsInjective(q) => IsInjective(new)
  <2> SUFFICES ASSUME ~Contains(q, c), IsInjective(q),
                      NEW a \in DOMAIN new, NEW b \in DOMAIN new, new[a] = new[b]
               PROVE  a = b
    BY DEF IsInjective
  <2>1. \A i \in DOMAIN q : q[i] # c
    BY <1>5 DEF ToSet
  <2>2. (a \in DOMAIN q \/ a = Len(q) + 1) /\ (b \in DOMAIN q \/ b = Len(q) + 1)
    BY <1>1, <1>2, <1>6
  <2> QED BY <1>6, <2>1, <2>2 DEF IsInjective
<1> QED BY <1>1, <1>5, <1>7, <1>8 DEF new

LEMMA AdmitKeeps ==
  ASSUME NEW q \in Seq(Commands), IsInjective(q), NEW c \in Commands
  PROVE  /\ AdmitRow(q, c) \in Seq(Commands) /\ IsInjective(AdmitRow(q, c))
         /\ ToSet(AdmitRow(q, c)) = ToSet(q) \cup {c}
BY AppendNew DEF AdmitRow

CallType ==
  [at : {"idle", "begun", "wait", "behind", "look", "posted", "hold", "done"},
   tab : Tabs \cup {Nobody}, earlier : SUBSET Commands,
   ahead : SUBSET Edits, behindRun : BOOLEAN, saved : BOOLEAN, head : Nat]

RunType ==
  [at : {"idle", "read", "gate", "claim", "posted", "end"}, again : BOOLEAN,
   rest : Seq(Commands), live : SUBSET Commands, recheck : BOOLEAN,
   news : BOOLEAN, present : SUBSET Commands, done : SUBSET Commands,
   awaited : SUBSET Commands]

LEMMA TypeParts ==
  TypeOK <=>
    /\ side \in Sides
    /\ queue \in Seq(Commands) /\ IsInjective(queue)
    /\ line \in Seq(SUBSET (Commands \cup Tabs))
    /\ op \in [Commands -> CallType]
    /\ drain \in [Tabs -> RunType]
    /\ wire \subseteq [cmd : Commands, by : Tabs \cup {Live, Gone}]
    /\ log \in Seq(Commands) /\ IsInjective(log)
    /\ told \subseteq Edits /\ faults \in 0..MaxFaults
BY DEF TypeOK, CallType, RunType

LEMMA TypePartsNext ==
  TypeOK' <=>
    /\ side' \in Sides
    /\ queue' \in Seq(Commands) /\ IsInjective(queue')
    /\ line' \in Seq(SUBSET (Commands \cup Tabs))
    /\ op' \in [Commands -> CallType]
    /\ drain' \in [Tabs -> RunType]
    /\ wire' \subseteq [cmd : Commands, by : Tabs \cup {Live, Gone}]
    /\ log' \in Seq(Commands) /\ IsInjective(log')
    /\ told' \subseteq Edits /\ faults' \in 0..MaxFaults
BY DEF TypeOK, CallType, RunType

(* What a pass makes of its record.                                        *)
LEMMA RunsKept ==
  ASSUME NEW d \in RunType
  PROVE  /\ NoRun(d.awaited) \in RunType /\ NoRun({}) \in RunType
         /\ Asked(d) \in RunType /\ Stopped(d) \in RunType
         /\ Stopped(d).at = "end" /\ Stopped(d).rest = <<>> /\ Stopped(d).done = d.done
         /\ Tidy(d) \in RunType
         /\ Tidy(d).at = d.at /\ Tidy(d).rest = d.rest /\ Tidy(d).done = d.done
         /\ Tidy(d).present = d.present \cap ToSet(d.rest)
<1>1. NoRun(d.awaited) \in RunType /\ NoRun({}) \in RunType
  BY DEF NoRun, RunType
<1>2. Asked(d) \in RunType
  BY DEF Asked, RunType
<1>3. /\ Stopped(d) \in RunType
      /\ Stopped(d).at = "end" /\ Stopped(d).rest = <<>> /\ Stopped(d).done = d.done
  <2> DEFINE again == d.again
             done == d.done
             base == NoRun(d.awaited)
  <2>1. again \in BOOLEAN /\ done \in SUBSET Commands
    BY DEF RunType
  <2>2. base \in RunType /\ base.rest = <<>>
    BY <1>1 DEF NoRun
  <2>3. Stopped(d) = [base EXCEPT !.at = "end", !.again = again, !.done = done]
    BY DEF Stopped
  <2> HIDE DEF again, done, base
  <2>4. /\ Stopped(d) \in RunType
        /\ Stopped(d).at = "end" /\ Stopped(d).rest = <<>> /\ Stopped(d).done = done
    BY <2>1, <2>2, <2>3 DEF RunType
  <2> QED BY <2>4 DEF done
<1>4. /\ Tidy(d) \in RunType
      /\ Tidy(d).at = d.at /\ Tidy(d).rest = d.rest /\ Tidy(d).done = d.done
      /\ Tidy(d).present = d.present \cap ToSet(d.rest)
  <2> DEFINE live == d.live \cap ToSet(d.rest)
             recheck == d.recheck /\ d.rest # <<>>
             news == d.news /\ (d.recheck \/ live # {})
             present == d.present \cap ToSet(d.rest)
  <2>1. /\ live \in SUBSET Commands /\ recheck \in BOOLEAN /\ news \in BOOLEAN
        /\ present \in SUBSET Commands
    BY DEF RunType
  <2>2. Tidy(d) = [d EXCEPT !.live = live, !.present = present,
                            !.recheck = recheck, !.news = news]
    BY DEF Tidy, RunType
  <2> HIDE DEF live, recheck, news, present
  <2>3. /\ Tidy(d) \in RunType
        /\ Tidy(d).at = d.at /\ Tidy(d).rest = d.rest /\ Tidy(d).done = d.done
        /\ Tidy(d).present = present
    BY <2>1, <2>2 DEF RunType
  <2> QED BY <2>3 DEF present
<1> QED BY <1>1, <1>2, <1>3, <1>4

LEMMA PassesKept ==
  ASSUME NEW d \in RunType, d.rest # <<>>, NEW c \in Commands, queue \in Seq(Commands)
  PROVE  /\ Onward(d) \in RunType
         /\ Onward(d).at = "gate" /\ Onward(d).rest = Tail(d.rest)
         /\ Onward(d).done = d.done
         /\ Onward(d).present = d.present \cap ToSet(Tail(d.rest))
         /\ Checked(d, c) \in RunType
         /\ Checked(d, c).at = d.at /\ Checked(d, c).rest = d.rest
         /\ Checked(d, c).done = d.done
         /\ Checked(d, c).present \in {d.present, Rows \cap ToSet(d.rest)}
<1>1. d.rest \in Seq(Commands) /\ Tail(d.rest) \in Seq(Commands)
  BY DEF RunType
<1> DEFINE tail == Tail(d.rest)
           next == [d EXCEPT !.at = "gate", !.rest = tail]
<1>2. Onward(d) = Tidy(next)
  BY DEF Onward
<1>3. tail \in Seq(Commands)
  BY <1>1
<1> HIDE DEF tail
<1>4. /\ next \in RunType /\ next.at = "gate" /\ next.rest = tail
      /\ next.done = d.done /\ next.present = d.present
  BY <1>3 DEF RunType
<1> HIDE DEF next
<1>5. /\ Onward(d) \in RunType
      /\ Onward(d).at = "gate" /\ Onward(d).rest = tail
      /\ Onward(d).done = d.done
      /\ Onward(d).present = d.present \cap ToSet(tail)
  BY <1>2, <1>4, RunsKept
<1> DEFINE seen == [d EXCEPT !.present = Rows, !.news = FALSE, !.recheck = FALSE]
<1>6. Rows \in SUBSET Commands
  BY DEF Rows, ToSet
<1>7. Checked(d, c) = Tidy(seen) \/ Checked(d, c) = d
  BY DEF Checked
<1>8. /\ seen \in RunType /\ seen.at = d.at /\ seen.rest = d.rest
      /\ seen.done = d.done /\ seen.present = Rows
  BY <1>6 DEF RunType
<1> HIDE DEF seen
<1>9. CASE Checked(d, c) = Tidy(seen)
  BY <1>5, <1>8, <1>9, RunsKept DEF tail
<1>10. CASE Checked(d, c) = d
  BY <1>5, <1>10 DEF tail
<1> QED BY <1>7, <1>9, <1>10

(* The line for the Web Lock.                                              *)
LEMMA LineKept ==
  ASSUME line \in Seq(SUBSET (Commands \cup Tabs)), NEW who \in Commands \cup Tabs, NEW gone
  PROVE  /\ Request(who) => line' \in Seq(SUBSET (Commands \cup Tabs))
         /\ LineWithout(gone) \in Seq(SUBSET (Commands \cup Tabs))
<1> DEFINE groups == SUBSET (Commands \cup Tabs)
           one == {who}
<1>1. line \in Seq(groups) /\ one \in groups
  OBVIOUS
<1>2. ASSUME line # <<>> PROVE [line EXCEPT ![Len(line)] = @ \cup one] \in Seq(groups)
  <2> DEFINE more == line[Len(line)] \cup one
  <2>1. Len(line) \in DOMAIN line
    BY <1>1, <1>2
  <2>2. more \in groups
    BY <1>1, <2>1
  <2>3. [line EXCEPT ![Len(line)] = @ \cup one] = [line EXCEPT ![Len(line)] = more]
    OBVIOUS
  <2> HIDE DEF more, groups
  <2>4. \A i \in DOMAIN line : [line EXCEPT ![i] = more] \in Seq(groups)
    BY <1>1, <2>2
  <2> QED BY <2>1, <2>3, <2>4
<1>3. Append(line, one) \in Seq(groups)
  <2> HIDE DEF groups, one
  <2> QED BY <1>1
<1>4. Request(who) => line' \in Seq(groups)
  <2>1. Request(who) => \/ line' = line
                        \/ line # <<>> /\ line' = [line EXCEPT ![Len(line)] = @ \cup one]
                        \/ line' = Append(line, one)
    BY DEF Request
  <2> HIDE DEF groups, one
  <2> QED BY <1>1, <1>2, <1>3, <2>1
<1>5. LineWithout(gone) \in Seq(groups)
  <2> DEFINE left == [i \in DOMAIN line |-> line[i] \ gone]
             keep == {i \in DOMAIN left : left[i] # {}}
  <2>1. left \in Seq(groups)
    <3>1. DOMAIN line = 1..Len(line) /\ Len(line) \in Nat
      BY <1>1
    <3>2. \A i \in DOMAIN line : line[i] \ gone \in groups
      BY <1>1
    <3>3. left \in [1..Len(line) -> groups]
      BY <3>1, <3>2
    <3> HIDE DEF left, groups
    <3> QED BY <3>1, <3>3
  <2>2. keep \in SUBSET DOMAIN left
    OBVIOUS
  <2>3. LineWithout(gone) = Picked(left, keep)
    BY DEF LineWithout
  <2> HIDE DEF left, keep, groups
  <2> QED BY <2>1, <2>2, <2>3, PickedHas
<1> QED BY <1>4, <1>5

(* What a pass remembers that the argument is about.                       *)
SameRun(d, e) == e.at = d.at /\ e.rest = d.rest /\ e.present = d.present /\ e.done = d.done

LEMMA NotesKeep ==
  ASSUME NEW d \in RunType, NEW c
  PROVE  /\ Noted(d, c) \in RunType /\ SameRun(d, Noted(d, c))
         /\ Asked(d) \in RunType /\ SameRun(d, Asked(d))
<1>1. \A x \in RunType : Asked(x) \in RunType /\ SameRun(x, Asked(x))
  BY DEF Asked, RunType, SameRun
<1> DEFINE news == d.at = "read" \/ d.recheck \/ d.live # {}
           awaited == d.awaited \ {c}
           heard == [d EXCEPT !.awaited = awaited, !.news = news]
<1>2. Noted(d, c) = heard \/ Noted(d, c) = Asked(heard)
  BY DEF Noted
<1>3. news \in BOOLEAN /\ awaited \in SUBSET Commands
  BY DEF RunType
<1> HIDE DEF news, awaited
<1>4. heard \in RunType /\ SameRun(d, heard)
  BY <1>3 DEF RunType, SameRun
<1> HIDE DEF heard
<1>5. Noted(d, c) \in RunType /\ SameRun(d, Noted(d, c))
  <2>1. Asked(heard) \in RunType /\ SameRun(heard, Asked(heard))
    BY <1>1, <1>4
  <2>2. SameRun(d, Asked(heard))
    BY <1>4, <2>1 DEF SameRun
  <2> QED BY <1>2, <1>4, <2>1, <2>2
<1> QED BY <1>1, <1>5

-----------------------------------------------------------------------------
(* What an edit no longer waits for: it landed, or its sender was told.    *)
Landed == told \cup ToSet(log)

(* In q, a command stands behind what it may not overtake.                 *)
BehindIn(q, calls, over) ==
  \A i \in DOMAIN q : \A e \in calls[q[i]].ahead :
    e \in over \/ \E j \in 1..(i - 1) : q[j] = e

LEMMA BehindGrows ==
  ASSUME NEW q, NEW calls, NEW over, BehindIn(q, calls, over),
         NEW calls2, \A i \in DOMAIN q : calls2[q[i]].ahead = calls[q[i]].ahead,
         NEW over2, over \subseteq over2
  PROVE  BehindIn(q, calls2, over2)
BY DEF BehindIn

LEMMA BehindWithout ==
  ASSUME NEW q \in Seq(Commands), NEW calls, NEW over, BehindIn(q, calls, over),
         \A c \in Commands : calls[c].ahead \subseteq Edits,
         NEW gone, gone \cap ToSet(q) \cap Edits \subseteq over
  PROVE  BehindIn(Without(q, gone), calls, over)
<1> DEFINE w == Without(q, gone)
<1>1. \A n \in DOMAIN w : \E i \in DOMAIN q :
        w[n] = q[i] /\ \A j \in 1..(i - 1) : q[j] \notin gone =>
                         \E m \in 1..(n - 1) : w[m] = q[j]
  BY WithoutKeeps
<1> HIDE DEF w
<1>2. ASSUME NEW n \in DOMAIN w, NEW e \in calls[w[n]].ahead, e \notin over
      PROVE  \E m \in 1..(n - 1) : w[m] = e
  <2>1. PICK i \in DOMAIN q :
          w[n] = q[i] /\ \A j \in 1..(i - 1) : q[j] \notin gone =>
                           \E m \in 1..(n - 1) : w[m] = q[j]
    BY <1>1
  <2>2. PICK j \in 1..(i - 1) : q[j] = e
    BY <1>2, <2>1 DEF BehindIn
  <2>3. j \in DOMAIN q
    OBVIOUS
  <2>4. q[i] \in Commands
    OBVIOUS
  <2>5. e \in Edits
    BY <2>1, <2>4
  <2>6. q[j] \notin gone
    BY <1>2, <2>2, <2>3, <2>5 DEF ToSet
  <2> QED BY <2>1, <2>2, <2>6
<1>3. BehindIn(w, calls, over)
  BY <1>2 DEF BehindIn
<1> QED BY <1>3 DEF w

LEMMA BehindAdmit ==
  ASSUME NEW q \in Seq(Commands), NEW calls, NEW over, BehindIn(q, calls, over),
         NEW c \in Commands, calls[c].ahead \subseteq over \cup ToSet(q)
  PROVE  BehindIn(AdmitRow(q, c), calls, over)
<1> DEFINE w == Append(q, c)
<1>1. /\ Len(q) \in Nat /\ DOMAIN q = 1..Len(q) /\ DOMAIN w = 1..(Len(q) + 1)
      /\ \A i \in DOMAIN q : w[i] = q[i]
      /\ w[Len(q) + 1] = c
  OBVIOUS
<1> HIDE DEF w
<1>2. ASSUME NEW n \in DOMAIN w, NEW e \in calls[w[n]].ahead, e \notin over
      PROVE  \E m \in 1..(n - 1) : w[m] = e
  <2>1. CASE n \in DOMAIN q
    <3>1. PICK j \in 1..(n - 1) : q[j] = e
      BY <1>1, <1>2, <2>1 DEF BehindIn
    <3>2. j \in DOMAIN q
      BY <1>1, <2>1
    <3> QED BY <1>1, <3>1, <3>2
  <2>2. CASE n = Len(q) + 1
    <3>1. e \in ToSet(q)
      BY <1>1, <1>2, <2>2
    <3>2. PICK j \in DOMAIN q : q[j] = e
      BY <3>1 DEF ToSet
    <3>3. j \in 1..(n - 1)
      BY <1>1, <2>2
    <3> QED BY <1>1, <3>2, <3>3
  <2> QED BY <1>1, <2>1, <2>2
<1>3. BehindIn(w, calls, over)
  BY <1>2 DEF BehindIn
<1> QED BY <1>3 DEF w, AdmitRow

LEMMA BehindTail ==
  ASSUME NEW q \in Seq(Commands), q # <<>>,
         NEW calls, NEW over, BehindIn(q, calls, over)
  PROVE  /\ Head(q) \in Commands /\ Head(q) \in ToSet(q)
         /\ Tail(q) \in Seq(Commands) /\ ToSet(Tail(q)) \subseteq ToSet(q)
         /\ calls[Head(q)].ahead \subseteq over
         /\ /\ \A c \in Commands : calls[c].ahead \subseteq Edits
            /\ Head(q) \in Edits => Head(q) \in over
            => BehindIn(Tail(q), calls, over)
<1> DEFINE w == Tail(q)
<1>1. /\ Len(q) \in Nat /\ Len(q) > 0 /\ DOMAIN q = 1..Len(q) /\ Head(q) = q[1] /\ 1 \in DOMAIN q
      /\ w \in Seq(Commands) /\ DOMAIN w = 1..(Len(q) - 1)
      /\ \A n \in DOMAIN w : w[n] = q[n + 1] /\ n + 1 \in DOMAIN q
  OBVIOUS
<1>2. \A i \in DOMAIN q : q[i] \in Commands
  OBVIOUS
<1> HIDE DEF w
<1>3. \A x \in ToSet(w) : x \in ToSet(q)
  BY <1>1 DEF ToSet
<1>4. ASSUME NEW e \in calls[Head(q)].ahead PROVE e \in over
  <2>1. e \in over \/ \E j \in 1..(1 - 1) : q[j] = e
    BY <1>1 DEF BehindIn
  <2>2. \A j \in 1..(1 - 1) : FALSE
    OBVIOUS
  <2> QED BY <2>1, <2>2
<1>5. ASSUME \A c \in Commands : calls[c].ahead \subseteq Edits,
             Head(q) \in Edits => Head(q) \in over,
             NEW n \in DOMAIN w, NEW e \in calls[w[n]].ahead, e \notin over
      PROVE  \E m \in 1..(n - 1) : w[m] = e
  <2>1. PICK j \in 1..n : q[j] = e
    <3> DEFINE k == n + 1
    <3>1. k \in DOMAIN q /\ w[n] = q[k] /\ k - 1 = n
      BY <1>1
    <3> HIDE DEF k
    <3>2. \E j \in 1..(k - 1) : q[j] = e
      BY <1>5, <3>1 DEF BehindIn
    <3> QED BY <3>1, <3>2
  <2>2. w[n] \in Commands
    BY <1>1, <1>2
  <2>3. e \in Edits
    BY <1>5, <2>2
  <2>4. j # 1
    BY <1>1, <1>5, <2>1, <2>3
  <2>5. n \in Nat /\ n <= Len(q) - 1 /\ j \in Nat /\ j <= n /\ j >= 1
    BY <1>1, <2>1
  <2>6. j - 1 \in 1..(n - 1) /\ j - 1 \in DOMAIN w /\ j - 1 + 1 = j
    BY <1>1, <2>4, <2>5
  <2>7. w[j - 1] = q[j]
    BY <1>1, <2>6
  <2> QED BY <2>1, <2>6, <2>7
<1>6. /\ \A c \in Commands : calls[c].ahead \subseteq Edits
      /\ Head(q) \in Edits => Head(q) \in over
      => BehindIn(w, calls, over)
  BY <1>5 DEF BehindIn
<1>7. Head(q) \in Commands /\ Head(q) \in ToSet(q)
  BY <1>1, <1>2 DEF ToSet
<1> QED BY <1>1, <1>3, <1>4, <1>6, <1>7 DEF w

-----------------------------------------------------------------------------
(* What a call keeps while a step is about another; the end of a drain     *)
(* lets it on.                                                             *)
SameCall(x, y) ==
  /\ y.at = x.at \/ (x.at = "behind" /\ y.at = "look")
  /\ y.tab = x.tab /\ y.earlier = x.earlier
  /\ y.ahead = x.ahead /\ y.saved = x.saved

LEMMA FinishKeeps ==
  ASSUME TypeOK, NEW c \in Commands, NEW asks, Finish(c, asks)
  PROVE  /\ op' \in [Commands -> CallType] /\ drain' \in [Tabs -> RunType]
         /\ line' \in Seq(SUBSET (Commands \cup Tabs))
         /\ \A x \in Commands \ {c} : op'[x] = op[x]
         /\ op'[c].at = "done" /\ op'[c].saved = op[c].saved /\ op'[c].ahead = op[c].ahead
         /\ \A t \in Tabs : SameRun(drain[t], drain'[t])
<1>1. op \in [Commands -> CallType] /\ drain \in [Tabs -> RunType]
      /\ line \in Seq(SUBSET (Commands \cup Tabs))
  BY TypeParts
<1>2. Ended(c) \in CallType /\ Ended(c).at = "done" /\ Ended(c).saved = op[c].saved
      /\ Ended(c).ahead = op[c].ahead
  <2> DEFINE o == op[c]
  <2>1. o \in CallType
    BY <1>1
  <2>2. Ended(c) = [o EXCEPT !.at = "done", !.tab = Nobody, !.earlier = {}, !.behindRun = FALSE]
    BY DEF Ended
  <2> HIDE DEF o
  <2>3. Ended(c) \in CallType /\ Ended(c).at = "done" /\ Ended(c).saved = o.saved
        /\ Ended(c).ahead = o.ahead
    BY <2>1, <2>2 DEF CallType
  <2> QED BY <2>3 DEF o
<1>3. op' = [op EXCEPT ![c] = Ended(c)]
  BY DEF Finish
<1>4. /\ op' \in [Commands -> CallType]
      /\ \A x \in Commands \ {c} : op'[x] = op[x]
      /\ op'[c] = Ended(c)
  BY <1>1, <1>2, <1>3
<1>5. line' = LineWithout({c})
  BY DEF Finish
<1>6. line' \in Seq(SUBSET (Commands \cup Tabs))
  BY <1>1, <1>5, LineKept
<1> DEFINE t == op[c].tab
           d == IF c \in Sending(t) THEN Noted(drain[t], c) ELSE drain[t]
           e == IF asks THEN Asked(d) ELSE d
<1>7. drain' = [drain EXCEPT ![t] = e]
  BY DEF Finish
<1>8. ASSUME t \in Tabs PROVE e \in RunType /\ SameRun(drain[t], e)
  <2>1. drain[t] \in RunType
    BY <1>1, <1>8
  <2>2. d = Noted(drain[t], c) \/ d = drain[t]
    OBVIOUS
  <2>3. e = Asked(d) \/ e = d
    OBVIOUS
  <2> HIDE DEF d, e
  <2>4. d \in RunType /\ SameRun(drain[t], d)
    BY <2>1, <2>2, NotesKeep DEF SameRun
  <2>5. Asked(d) \in RunType /\ SameRun(d, Asked(d))
    BY <2>4, NotesKeep
  <2> QED BY <2>3, <2>4, <2>5 DEF SameRun
<1>9. drain' \in [Tabs -> RunType] /\ \A s \in Tabs : SameRun(drain[s], drain'[s])
  <2> HIDE DEF t, d, e
  <2>1. CASE t \in Tabs
    BY <1>1, <1>7, <1>8, <2>1 DEF SameRun
  <2>2. CASE t \notin Tabs
    BY <1>1, <1>7, <2>2 DEF SameRun
  <2> QED BY <2>1, <2>2
<1> QED BY <1>2, <1>4, <1>6, <1>9

(* The calls a drain lets on were queued, and so they are when it does.    *)
LEMMA EndRunKeeps ==
  ASSUME TypeOK, NEW t \in Tabs, EndRun(t)
  PROVE  /\ op' \in [Commands -> CallType] /\ drain' \in [Tabs -> RunType]
         /\ \A c \in Commands : SameCall(op[c], op'[c])
         /\ \A s \in Tabs \ {t} : drain'[s] = drain[s]
         /\ drain'[t].at = "idle" /\ drain'[t].rest = <<>> /\ drain'[t].done = {}
<1>1. op \in [Commands -> CallType] /\ drain \in [Tabs -> RunType]
  BY TypeParts
<1>2. ASSUME NEW c \in Commands
      PROVE  /\ op'[c] \in CallType
             /\ op'[c].tab = op[c].tab /\ op'[c].earlier = op[c].earlier
             /\ op'[c].ahead = op[c].ahead /\ op'[c].saved = op[c].saved
             /\ op'[c].at = op[c].at \/ (op[c].at = "behind" /\ op'[c].at = "look")
  <2> DEFINE o == op[c]
             at == IF o.at = "behind" THEN "look" ELSE o.at
  <2>1. o \in CallType
    BY <1>1
  <2>2. op'[c] = o \/ op'[c] = [o EXCEPT !.at = at, !.behindRun = FALSE]
    BY DEF EndRun
  <2>3. /\ at \in {"idle", "begun", "wait", "behind", "look", "posted", "hold", "done"}
        /\ at = o.at \/ (o.at = "behind" /\ at = "look")
    BY <2>1 DEF CallType
  <2> HIDE DEF o, at
  <2>4. /\ op'[c] \in CallType
        /\ op'[c].tab = o.tab /\ op'[c].earlier = o.earlier
        /\ op'[c].ahead = o.ahead /\ op'[c].saved = o.saved
        /\ op'[c].at = o.at \/ op'[c].at = at
    BY <2>1, <2>2, <2>3 DEF CallType
  <2> QED BY <2>3, <2>4 DEF o
<1>3. op' \in [Commands -> CallType]
  <2>1. op' = [c \in Commands |-> op'[c]]
    BY DEF EndRun
  <2> QED BY <1>2, <2>1
<1>4. NoRun(drain[t].awaited) \in RunType
  BY <1>1, RunsKept
<1>5. drain' = [drain EXCEPT ![t] = NoRun(drain[t].awaited)]
  BY DEF EndRun
<1>6. /\ drain' \in [Tabs -> RunType]
      /\ \A s \in Tabs \ {t} : drain'[s] = drain[s]
      /\ drain'[t] = NoRun(drain[t].awaited)
  BY <1>1, <1>4, <1>5
<1>7. drain'[t].at = "idle" /\ drain'[t].rest = <<>> /\ drain'[t].done = {}
  BY <1>6 DEF NoRun
<1> QED BY <1>2, <1>3, <1>6, <1>7 DEF SameCall

-----------------------------------------------------------------------------
(* The inductive invariant.  A call is out once it was queued or posted; a *)
(* command that is queued, posted or applied is out.  A saved edit is      *)
(* kept: it is in the queue, or it landed, or its sender was told.         *)
Out(c) == op[c].at \notin {"idle", "begun", "hold"}
Kept(e) == e \in Rows \cup Landed

QueueOK == /\ BehindIn(queue, op, Landed)
           /\ \A c \in Rows : Out(c) /\ op[c].saved

WireOK == \A p \in wire : Out(p.cmd) /\ op[p.cmd].ahead \subseteq Landed

LogOK == NoOvertaking /\ \A c \in ToSet(log) : Out(c)

(* A pass holds a part of the queue as it was, in order; an edit it takes  *)
(* for gone has gone because it is over.                                   *)
RunOK(t) ==
  /\ BehindIn(drain[t].rest, op, Landed)
  /\ \A c \in ToSet(drain[t].rest) : Out(c) /\ op[c].saved
  /\ drain[t].at \in {"gate", "claim", "posted"} =>
       ToSet(drain[t].rest) \cap Edits \subseteq drain[t].present \cup Landed
  /\ drain[t].at \in {"claim", "posted"} => drain[t].rest # <<>>
  /\ drain[t].done \subseteq ToSet(log)

(* What an undo waits for is kept, or is still in the hands of its tab.    *)
CallOK(c) ==
  /\ op[c].saved => Out(c) /\ (c \in Edits => Kept(c))
  /\ op[c].at \in {"wait", "behind", "look"} => op[c].saved
  /\ c \in Edits => op[c].at # "hold" /\ (~op[c].saved => op[c].ahead = {})
  /\ op[c].at = "hold" => \A e \in op[c].ahead :
       /\ e \in op[c].earlier
       /\ Kept(e) \/ (op[e].tab = op[c].tab /\ op[e].at \notin {"idle", "done"})
  /\ op[c].at = "begun" => \A e \in op[c].ahead : Kept(e)

IInv == /\ TypeOK /\ QueueOK /\ WireOK /\ LogOK
        /\ \A t \in Tabs : RunOK(t)
        /\ \A c \in Commands : CallOK(c)

(* How the steps move each variable.                                       *)
QueueMoves ==
  \/ queue' = queue
  \/ \E gone \in SUBSET Commands :
       queue' = Without(queue, gone) /\ gone \cap Rows \cap Edits \subseteq Landed'
  \/ \E c \in Commands :
       /\ queue' = AdmitRow(queue, c)
       /\ Out(c)' /\ op'[c].saved /\ op'[c].ahead \subseteq Landed' \cup Rows

LogMoves ==
  \/ log' = log
  \/ \E c \in Commands : /\ log' = Append(log, c) /\ ~Contains(log, c)
                         /\ Out(c) /\ op[c].ahead \subseteq Landed

WireMoves ==
  \A p \in wire' :
    \/ \E r \in wire : r.cmd = p.cmd
    \/ p.cmd \in Commands /\ Out(p.cmd)' /\ op'[p.cmd].ahead \subseteq Landed'

Lands(c) ==
  c \in Edits /\ op[c].at \notin {"idle", "done"} =>
    \/ Kept(c)'
    \/ op'[c].tab = op[c].tab /\ op'[c].at \notin {"idle", "done"}
    \/ \A u \in Commands : op[u].tab = op[c].tab => op'[u].at # "hold"

CallMoves(c) ==
  \/ SameCall(op[c], op'[c])
  \/ /\ Out(c) => Out(c)' /\ op'[c].ahead = op[c].ahead /\ (op[c].saved => op'[c].saved)
     /\ CallOK(c)' /\ Lands(c)

RunMoves(t) == SameRun(drain[t], drain'[t]) \/ RunOK(t)'

Moves == /\ told \subseteq told' /\ QueueMoves /\ LogMoves /\ WireMoves
         /\ \A c \in Commands : CallMoves(c)
         /\ \A t \in Tabs : RunMoves(t)

(* What is over stays over, and what is kept is kept.                      *)
LEMMA MovesGrow ==
  ASSUME TypeOK, TypeOK', told \subseteq told', QueueMoves, LogMoves
  PROVE  /\ Landed \subseteq Landed' /\ ToSet(log) \subseteq ToSet(log')
         /\ \A e \in Edits : Kept(e) => Kept(e)'
         /\ \A e \in Edits \cap Rows : Kept(e)'
<1>1. /\ queue \in Seq(Commands) /\ IsInjective(queue) /\ log \in Seq(Commands)
  BY TypeParts
<1>2. ToSet(log) \subseteq ToSet(log')
  <2>1. ASSUME NEW c \in Commands, log' = Append(log, c)
        PROVE  ToSet(log) \subseteq ToSet(log')
    <3>1. ToSet(Append(log, c)) = ToSet(log) \cup {c}
      BY <1>1, AppendNew
    <3> QED BY <2>1, <3>1
  <2> QED BY <2>1 DEF LogMoves
<1>3. Landed \subseteq Landed'
  BY <1>2 DEF Landed
<1>4. \A e \in Rows \cap Edits : e \in Rows' \/ e \in Landed'
  <2>1. CASE queue' = queue
    BY <2>1 DEF Rows
  <2>2. ASSUME NEW gone \in SUBSET Commands, queue' = Without(queue, gone),
               gone \cap Rows \cap Edits \subseteq Landed'
        PROVE  \A e \in Rows \cap Edits : e \in Rows' \/ e \in Landed'
    <3>1. Rows' = Rows \ gone
      BY <1>1, <2>2, WithoutKeeps DEF Rows
    <3> QED BY <2>2, <3>1
  <2>3. ASSUME NEW c \in Commands, queue' = AdmitRow(queue, c)
        PROVE  \A e \in Rows \cap Edits : e \in Rows' \/ e \in Landed'
    BY <1>1, <2>3, AdmitKeeps DEF Rows
  <2> QED BY <2>1, <2>2, <2>3 DEF QueueMoves
<1> QED BY <1>2, <1>3, <1>4 DEF Kept

LEMMA CallKept ==
  ASSUME TypeOK, TypeOK', Moves, \A c \in Commands : CallOK(c), NEW c \in Commands
  PROVE  /\ CallOK(c)'
         /\ Out(c) => Out(c)' /\ op'[c].ahead = op[c].ahead /\ (op[c].saved => op'[c].saved)
<1>1. /\ \A e \in Edits : Kept(e) => Kept(e)'
      /\ \A e \in Commands : CallMoves(e)
  BY MovesGrow DEF Moves
<1>2. op \in [Commands -> CallType] /\ op' \in [Commands -> CallType] /\ op[c].ahead \subseteq Edits
  <2>1. op \in [Commands -> CallType] /\ op' \in [Commands -> CallType]
    BY TypeParts, TypePartsNext
  <2>2. op[c] \in CallType
    BY <2>1
  <2> QED BY <2>1, <2>2 DEF CallType
<1>3. CASE SameCall(op[c], op'[c])
  <2>1. /\ op'[c].saved = op[c].saved /\ op'[c].ahead = op[c].ahead
        /\ op'[c].earlier = op[c].earlier /\ op'[c].tab = op[c].tab
        /\ op'[c].at = op[c].at \/ (op[c].at = "behind" /\ op'[c].at = "look")
    BY <1>3, Zenon DEF SameCall
  <2>2. CallOK(c)
    OBVIOUS
  <2>3. op'[c].at = "hold" => \A e \in op[c].ahead :
          /\ e \in op[c].earlier
          /\ Kept(e)' \/ (op'[e].tab = op[c].tab /\ op'[e].at \notin {"idle", "done"})
    <3> SUFFICES ASSUME op'[c].at = "hold", NEW e \in op[c].ahead
                 PROVE  /\ e \in op[c].earlier
                        /\ Kept(e)' \/ (op'[e].tab = op[c].tab /\ op'[e].at \notin {"idle", "done"})
      OBVIOUS
    <3>1. op[c].at = "hold" /\ e \in Edits /\ e \in Commands
      BY <1>2, <2>1 DEF Commands
    <3>2. /\ e \in op[c].earlier
          /\ Kept(e) \/ (op[e].tab = op[c].tab /\ op[e].at \notin {"idle", "done"})
      BY <2>2, <3>1 DEF CallOK
    <3>3. CASE Kept(e)
      BY <1>1, <3>1, <3>2, <3>3
    <3>4. CASE op[e].tab = op[c].tab /\ op[e].at \notin {"idle", "done"}
      <4>1. CASE SameCall(op[e], op'[e])
        BY <3>2, <3>4, <4>1 DEF SameCall
      <4>2. CASE Lands(e)
        BY <3>1, <3>2, <3>4, <4>2 DEF Lands
      <4> QED BY <1>1, <3>1, <4>1, <4>2 DEF CallMoves
    <3> QED BY <3>2, <3>3, <3>4
  <2>4. op'[c].at = "begun" => \A e \in op[c].ahead : Kept(e)'
    BY <1>1, <1>2, <2>1, <2>2 DEF CallOK
  <2>5. op'[c].saved => Out(c)' /\ (c \in Edits => Kept(c)')
    BY <1>1, <2>1, <2>2 DEF CallOK, Out
  <2>6. op'[c].at \in {"wait", "behind", "look"} => op'[c].saved
    BY <2>1, <2>2 DEF CallOK
  <2>7. c \in Edits => op'[c].at # "hold" /\ (~op'[c].saved => op'[c].ahead = {})
    BY <2>1, <2>2 DEF CallOK
  <2>8. Out(c) => Out(c)'
    BY <2>1 DEF Out
  <2>9. CallOK(c)'
    BY <2>1, <2>3, <2>4, <2>5, <2>6, <2>7 DEF CallOK
  <2> QED BY <2>1, <2>8, <2>9
<1> QED BY <1>1, <1>3 DEF CallMoves

(* The moves keep the invariant.                                           *)
LEMMA MovesKeep ==
  ASSUME IInv, TypeOK', Moves
  PROVE  IInv'
<1>1. /\ Landed \subseteq Landed' /\ ToSet(log) \subseteq ToSet(log')
      /\ \A e \in Edits : Kept(e) => Kept(e)'
  BY MovesGrow DEF Moves, IInv
<1>2. \A c \in Commands :
        /\ CallOK(c)'
        /\ Out(c) => Out(c)' /\ op'[c].ahead = op[c].ahead /\ (op[c].saved => op'[c].saved)
  BY CallKept DEF IInv
<1>3. /\ queue \in Seq(Commands) /\ IsInjective(queue) /\ log \in Seq(Commands)
      /\ drain \in [Tabs -> RunType] /\ wire \subseteq [cmd : Commands, by : Tabs \cup {Live, Gone}]
      /\ told \subseteq Edits
  BY TypeParts DEF IInv
<1>4. \A c \in Commands : op'[c].ahead \subseteq Edits
  <2> SUFFICES ASSUME NEW c \in Commands PROVE op'[c].ahead \subseteq Edits
    OBVIOUS
  <2>1. op' \in [Commands -> CallType]
    BY TypePartsNext
  <2>2. op'[c] \in CallType
    BY <2>1
  <2> QED BY <2>2 DEF CallType
<1>5. ASSUME NEW q \in Seq(Commands), BehindIn(q, op, Landed), \A c \in ToSet(q) : Out(c)
      PROVE  BehindIn(q, op', Landed')
  <2>1. \A i \in DOMAIN q : q[i] \in Commands /\ q[i] \in ToSet(q)
    BY DEF ToSet
  <2>2. \A i \in DOMAIN q : op'[q[i]].ahead = op[q[i]].ahead
    BY <1>2, <1>5, <2>1
  <2> QED BY <1>1, <1>5, <2>2, BehindGrows
<1>6. QueueOK'
  <2>1. /\ BehindIn(queue, op', Landed')
        /\ \A c \in Rows : c \in Commands /\ Out(c)' /\ op'[c].saved
    <3>1. BehindIn(queue, op, Landed) /\ \A c \in ToSet(queue) : Out(c) /\ op[c].saved
      BY DEF IInv, QueueOK, Rows
    <3>2. ToSet(queue) \subseteq Commands
      BY <1>3 DEF ToSet
    <3>3. BehindIn(queue, op', Landed')
      BY <1>3, <1>5, <3>1
    <3> QED BY <1>2, <3>1, <3>2, <3>3 DEF Rows
  <2>2. CASE queue' = queue
    BY <2>1, <2>2 DEF QueueOK, Rows
  <2>3. ASSUME NEW gone \in SUBSET Commands, queue' = Without(queue, gone),
               gone \cap Rows \cap Edits \subseteq Landed'
        PROVE  QueueOK'
    <3>1. BehindIn(queue', op', Landed')
      BY <1>3, <1>4, <2>1, <2>3, BehindWithout DEF Rows
    <3>2. Rows' = Rows \ gone
      BY <1>3, <2>3, WithoutKeeps DEF Rows
    <3> QED BY <2>1, <3>1, <3>2 DEF QueueOK
  <2>4. ASSUME NEW c \in Commands, queue' = AdmitRow(queue, c),
               Out(c)', op'[c].saved, op'[c].ahead \subseteq Landed' \cup Rows
        PROVE  QueueOK'
    <3>1. BehindIn(queue', op', Landed')
      BY <1>3, <2>1, <2>4, BehindAdmit DEF Rows
    <3>2. Rows' = Rows \cup {c}
      BY <1>3, <2>4, AdmitKeeps DEF Rows
    <3> QED BY <2>1, <2>4, <3>1, <3>2 DEF QueueOK
  <2> QED BY <2>2, <2>3, <2>4 DEF Moves, QueueMoves
<1>7. WireOK'
  <2> SUFFICES ASSUME NEW p \in wire' PROVE Out(p.cmd)' /\ op'[p.cmd].ahead \subseteq Landed'
    BY DEF WireOK
  <2>1. CASE \E r \in wire : r.cmd = p.cmd
    <3>1. PICK r \in wire : r.cmd = p.cmd
      BY <2>1
    <3>2. r.cmd \in Commands /\ Out(r.cmd) /\ op[r.cmd].ahead \subseteq Landed
      BY <1>3 DEF IInv, WireOK
    <3> QED BY <1>1, <1>2, <3>1, <3>2
  <2>2. CASE p.cmd \in Commands /\ Out(p.cmd)' /\ op'[p.cmd].ahead \subseteq Landed'
    BY <2>2
  <2> QED BY <2>1, <2>2 DEF Moves, WireMoves
<1>8. LogOK'
  <2>1. \A c \in ToSet(log) : c \in Commands /\ Out(c)' /\ op'[c].ahead = op[c].ahead
    <3>1. ToSet(log) \subseteq Commands
      BY <1>3 DEF ToSet
    <3> QED BY <1>2, <3>1 DEF IInv, LogOK
  <2>2. \A i \in DOMAIN log : log[i] \in ToSet(log)
    BY DEF ToSet
  <2>3. told \subseteq told'
    BY DEF Moves
  <2>4. \A i \in DOMAIN log : \A e \in op'[log[i]].ahead \ told' :
          \E j \in 1..(i - 1) : log[j] = e
    BY <2>1, <2>2, <2>3 DEF IInv, LogOK, NoOvertaking
  <2>5. CASE log' = log
    BY <2>1, <2>4, <2>5 DEF LogOK, NoOvertaking
  <2>6. ASSUME NEW c \in Commands, log' = Append(log, c), Out(c), op[c].ahead \subseteq Landed
        PROVE  LogOK'
    <3> DEFINE new == Append(log, c)
    <3>1. /\ Len(log) \in Nat /\ DOMAIN log = 1..Len(log) /\ DOMAIN new = 1..(Len(log) + 1)
          /\ \A i \in DOMAIN log : new[i] = log[i]
          /\ new[Len(log) + 1] = c
      BY <1>3
    <3>2. ToSet(new) = ToSet(log) \cup {c}
      BY <1>3, AppendNew
    <3>3. log' = new
      BY <2>6
    <3> HIDE DEF new
    <3>4. Out(c)' /\ op'[c].ahead = op[c].ahead
      BY <1>2, <2>6
    <3>5. ASSUME NEW i \in DOMAIN new, NEW e \in op'[new[i]].ahead, e \notin told'
          PROVE  \E j \in 1..(i - 1) : new[j] = e
      <4>1. CASE i \in DOMAIN log
        <5>1. PICK j \in 1..(i - 1) : log[j] = e
          BY <2>4, <3>1, <3>5, <4>1
        <5>2. j \in DOMAIN log
          BY <3>1, <4>1
        <5> QED BY <3>1, <5>1, <5>2
      <4>2. CASE i = Len(log) + 1
        <5>1. e \in ToSet(log)
          BY <2>3, <2>6, <3>1, <3>4, <3>5, <4>2 DEF Landed
        <5>2. PICK j \in DOMAIN log : log[j] = e
          BY <5>1 DEF ToSet
        <5>3. j \in 1..(i - 1)
          BY <3>1, <4>2
        <5> QED BY <3>1, <5>2, <5>3
      <4> QED BY <3>1, <4>1, <4>2
    <3>6. NoOvertaking'
      BY <3>3, <3>5 DEF NoOvertaking
    <3>7. \A x \in ToSet(log') : Out(x)'
      BY <2>1, <3>2, <3>3, <3>4
    <3> QED BY <3>6, <3>7 DEF LogOK
  <2> QED BY <2>5, <2>6 DEF Moves, LogMoves
<1>9. ASSUME NEW t \in Tabs PROVE RunOK(t)'
  <2>1. CASE SameRun(drain[t], drain'[t])
    <3>1. /\ drain'[t].rest = drain[t].rest /\ drain'[t].at = drain[t].at
          /\ drain'[t].present = drain[t].present /\ drain'[t].done = drain[t].done
      BY <2>1 DEF SameRun
    <3>2. drain[t].rest \in Seq(Commands) /\ ToSet(drain[t].rest) \subseteq Commands
      <4>1. drain[t] \in RunType
        BY <1>3
      <4>2. drain[t].rest \in Seq(Commands)
        BY <4>1 DEF RunType
      <4> QED BY <4>2 DEF ToSet
    <3>3. RunOK(t)
      BY DEF IInv
    <3>4. BehindIn(drain[t].rest, op', Landed')
      BY <1>5, <3>2, <3>3 DEF RunOK
    <3>5. \A c \in ToSet(drain[t].rest) : Out(c)' /\ op'[c].saved
      BY <1>2, <3>2, <3>3 DEF RunOK
    <3> QED BY <1>1, <3>1, <3>3, <3>4, <3>5 DEF RunOK
  <2> QED BY <2>1 DEF Moves, RunMoves
<1>10. \A c \in Commands : CallOK(c)'
  BY <1>2
<1> QED BY <1>6, <1>7, <1>8, <1>9, <1>10 DEF IInv

-----------------------------------------------------------------------------
(* Each step of a call keeps the types and is such a move.                 *)
LEMMA InvTypes ==
  ASSUME IInv
  PROVE  /\ TypeOK /\ queue \in Seq(Commands) /\ IsInjective(queue)
         /\ line \in Seq(SUBSET (Commands \cup Tabs))
         /\ op \in [Commands -> CallType] /\ drain \in [Tabs -> RunType]
         /\ wire \subseteq [cmd : Commands, by : Tabs \cup {Live, Gone}]
         /\ log \in Seq(Commands) /\ IsInjective(log)
         /\ told \subseteq Edits /\ faults \in 0..MaxFaults /\ side \in Sides
         /\ \A c \in Commands : op[c] \in CallType /\ op[c].ahead \subseteq Edits
         /\ Rows \subseteq Commands
<1>1. /\ op \in [Commands -> CallType] /\ queue \in Seq(Commands)
  BY TypeParts DEF IInv
<1>2. \A c \in Commands : op[c] \in CallType
  BY <1>1
<1>3. \A c \in Commands : op[c].ahead \subseteq Edits
  BY <1>2 DEF CallType
<1>4. Rows \subseteq Commands
  BY <1>1 DEF Rows, ToSet
<1> QED BY <1>2, <1>3, <1>4, TypeParts DEF IInv

LEMMA OneCall ==
  ASSUME op \in [Commands -> CallType], NEW c \in Commands, NEW o \in CallType,
         op' = [op EXCEPT ![c] = o]
  PROVE  /\ op' \in [Commands -> CallType] /\ op'[c] = o
         /\ \A x \in Commands \ {c} : op'[x] = op[x] /\ SameCall(op[x], op'[x])
BY DEF SameCall

LEMMA StillMoves ==
  /\ queue' = queue => QueueMoves
  /\ log' = log => LogMoves
  /\ wire' = wire => WireMoves
  /\ drain' = drain => \A t \in Tabs : RunMoves(t)
BY DEF QueueMoves, LogMoves, WireMoves, RunMoves, SameRun

LEMMA BeginMoves ==
  ASSUME IInv, NEW t \in Tabs, NEW c \in Commands, Begin(t, c)
  PROVE  TypeOK' /\ Moves
<1> DEFINE o == [op[c] EXCEPT !.at = "begun", !.tab = t]
<1>1. /\ c \in Edits /\ op[c].at = "idle" /\ op' = [op EXCEPT ![c] = o]
      /\ UNCHANGED <<side, queue, drain, wire, log, told, faults>> /\ Request(c)
  BY DEF Begin
<1>2. /\ o \in CallType /\ o.at = "begun" /\ o.tab = t /\ o.saved = op[c].saved
      /\ o.ahead = op[c].ahead
  <2>1. op[c] \in CallType
    BY InvTypes
  <2> QED BY <2>1 DEF CallType
<1> HIDE DEF o
<1>3. /\ op' \in [Commands -> CallType] /\ op'[c] = o
      /\ \A x \in Commands \ {c} : SameCall(op[x], op'[x])
  BY <1>1, <1>2, InvTypes, OneCall
<1>4. TypeOK'
  <2>1. line' \in Seq(SUBSET (Commands \cup Tabs))
    BY <1>1, InvTypes, LineKept
  <2> QED BY <1>1, <1>3, <2>1, InvTypes, TypePartsNext
<1>5. CallMoves(c)
  <2>1. ~op[c].saved /\ op[c].ahead = {}
    BY <1>1 DEF IInv, CallOK, Out
  <2>2. ~op'[c].saved /\ op'[c].ahead = {} /\ op'[c].at = "begun"
    BY <1>2, <1>3, <2>1
  <2>3. CallOK(c)'
    BY <2>2 DEF CallOK
  <2> QED BY <1>1, <2>3 DEF CallMoves, Out, Lands
<1> QED BY <1>1, <1>3, <1>4, <1>5, StillMoves DEF Moves, CallMoves

LEMMA FallBehindMoves ==
  ASSUME IInv, NEW c \in Commands, FallBehind(c)
  PROVE  TypeOK' /\ Moves
<1> DEFINE o == [op[c] EXCEPT !.at = "behind"]
<1>1. /\ op[c].at = "wait" /\ op' = [op EXCEPT ![c] = o]
      /\ UNCHANGED <<side, queue, line, drain, wire, log, told, faults>>
  BY DEF FallBehind
<1>2. /\ o \in CallType /\ o.at = "behind" /\ o.tab = op[c].tab /\ o.saved = op[c].saved
      /\ o.ahead = op[c].ahead
  <2>1. op[c] \in CallType
    BY InvTypes
  <2> QED BY <2>1 DEF CallType
<1> HIDE DEF o
<1>3. /\ op' \in [Commands -> CallType] /\ op'[c] = o
      /\ \A x \in Commands \ {c} : SameCall(op[x], op'[x])
  BY <1>1, <1>2, InvTypes, OneCall
<1>4. TypeOK'
  BY <1>1, <1>3, InvTypes, TypePartsNext
<1>5. CallMoves(c)
  <2>1. CallOK(c)
    BY DEF IInv
  <2>2. op[c].saved
    BY <1>1, <2>1 DEF CallOK
  <2>3. op'[c].saved /\ op'[c].ahead = op[c].ahead /\ op'[c].at = "behind" /\ op'[c].tab = op[c].tab
    BY <1>2, <1>3, <2>2
  <2>4. Kept(c)' <=> Kept(c)
    BY <1>1 DEF Kept, Rows, Landed
  <2>5. CallOK(c)'
    BY <2>1, <2>2, <2>3, <2>4 DEF CallOK, Out
  <2>6. Lands(c)
    BY <2>3 DEF Lands
  <2> QED BY <2>3, <2>5, <2>6 DEF CallMoves, Out
<1> QED BY <1>1, <1>3, <1>4, <1>5, StillMoves DEF Moves, CallMoves

LEMMA AskLockMoves ==
  ASSUME IInv, NEW c \in Commands, AskLock(c)
  PROVE  TypeOK' /\ Moves
<1> DEFINE o == [op[c] EXCEPT !.at = "begun", !.head = Len(log)]
<1>1. /\ op[c].at = "hold" /\ op' = [op EXCEPT ![c] = o] /\ EarlierDone(c) /\ Request(c)
      /\ UNCHANGED <<side, queue, drain, wire, log, told, faults>>
  BY DEF AskLock
<1>2. /\ o \in CallType /\ o.at = "begun" /\ o.tab = op[c].tab /\ o.saved = op[c].saved
      /\ o.ahead = op[c].ahead
  <2>1. op[c] \in CallType
    BY InvTypes
  <2>2. Len(log) \in Nat
    BY InvTypes
  <2> QED BY <2>1, <2>2 DEF CallType
<1> HIDE DEF o
<1>3. /\ op' \in [Commands -> CallType] /\ op'[c] = o
      /\ \A x \in Commands \ {c} : SameCall(op[x], op'[x])
  BY <1>1, <1>2, InvTypes, OneCall
<1>4. TypeOK'
  <2>1. line' \in Seq(SUBSET (Commands \cup Tabs))
    BY <1>1, InvTypes, LineKept
  <2> QED BY <1>1, <1>3, <2>1, InvTypes, TypePartsNext
<1>5. CallMoves(c)
  <2>1. CallOK(c)
    BY DEF IInv
  <2>2. c \notin Edits /\ ~op[c].saved /\ ~Out(c)
    BY <1>1, <2>1 DEF CallOK, Out
  <2>3. ~op'[c].saved /\ op'[c].ahead = op[c].ahead /\ op'[c].at = "begun"
    BY <1>2, <1>3, <2>2
  <2>4. \A e \in op[c].ahead : Kept(e)
    BY <1>1, <2>1 DEF CallOK, EarlierDone
  <2>5. \A e : Kept(e)' <=> Kept(e)
    BY <1>1 DEF Kept, Rows, Landed
  <2>6. \A e \in op'[c].ahead : Kept(e)'
    BY <2>3, <2>4, <2>5
  <2>7. CallOK(c)'
    BY <2>2, <2>3, <2>6 DEF CallOK
  <2> QED BY <2>2, <2>7 DEF CallMoves, Lands
<1> QED BY <1>1, <1>3, <1>4, <1>5, StillMoves DEF Moves, CallMoves

LEMMA FinishMoves ==
  ASSUME IInv, NEW c \in Commands, NEW asks, Finish(c, asks), c \in Edits => Kept(c)'
  PROVE  /\ op' \in [Commands -> CallType] /\ drain' \in [Tabs -> RunType]
         /\ line' \in Seq(SUBSET (Commands \cup Tabs))
         /\ \A x \in Commands : CallMoves(x)
         /\ \A t \in Tabs : RunMoves(t)
<1>1. /\ op' \in [Commands -> CallType] /\ drain' \in [Tabs -> RunType]
      /\ line' \in Seq(SUBSET (Commands \cup Tabs))
      /\ \A x \in Commands \ {c} : op'[x] = op[x]
      /\ op'[c].at = "done" /\ op'[c].saved = op[c].saved /\ op'[c].ahead = op[c].ahead
      /\ \A t \in Tabs : SameRun(drain[t], drain'[t])
  BY InvTypes, FinishKeeps
<1>2. CallOK(c)
  BY DEF IInv
<1>3. CallOK(c)'
  BY <1>1, <1>2 DEF CallOK, Out
<1>4. CallMoves(c)
  BY <1>1, <1>3 DEF CallMoves, Lands, Out
<1>5. \A x \in Commands \ {c} : CallMoves(x)
  BY <1>1 DEF CallMoves, SameCall
<1> QED BY <1>1, <1>4, <1>5 DEF RunMoves

LEMMA GiveUpMoves ==
  ASSUME IInv, NEW c \in Commands, GiveUp(c)
  PROVE  TypeOK' /\ Moves
<1>1. /\ op[c].at \in {"wait", "behind"} /\ Finish(c, TRUE)
      /\ UNCHANGED <<side, queue, wire, log, told, faults>>
  BY DEF GiveUp
<1>2. c \in Edits => Kept(c)'
  <2>1. CallOK(c)
    BY DEF IInv
  <2>2. c \in Edits => Kept(c)
    BY <1>1, <2>1 DEF CallOK
  <2> QED BY <1>1, <2>2 DEF Kept, Rows, Landed
<1>3. /\ op' \in [Commands -> CallType] /\ drain' \in [Tabs -> RunType]
      /\ line' \in Seq(SUBSET (Commands \cup Tabs))
      /\ \A x \in Commands : CallMoves(x)
      /\ \A t \in Tabs : RunMoves(t)
  BY <1>1, <1>2, FinishMoves
<1>4. TypeOK'
  BY <1>1, <1>3, InvTypes, TypePartsNext
<1> QED BY <1>1, <1>3, <1>4, StillMoves DEF Moves

(* A call that is posted is out, and what it stands behind is over.        *)
LEMMA PostedMoves ==
  ASSUME IInv, NEW c \in Commands, op[c].at \in {"wait", "look"},
         op[c].ahead \subseteq Landed, op' = [op EXCEPT ![c].at = "posted"],
         wire' = wire \cup {Post(c, Live)}, UNCHANGED <<queue, log, told>>
  PROVE  /\ op' \in [Commands -> CallType]
         /\ wire' \subseteq [cmd : Commands, by : Tabs \cup {Live, Gone}]
         /\ WireMoves
         /\ \A x \in Commands : CallMoves(x)
<1> DEFINE o == [op[c] EXCEPT !.at = "posted"]
<1>1. op' = [op EXCEPT ![c] = o]
  OBVIOUS
<1>2. /\ o \in CallType /\ o.at = "posted" /\ o.tab = op[c].tab /\ o.saved = op[c].saved
      /\ o.ahead = op[c].ahead
  <2>1. op[c] \in CallType
    BY InvTypes
  <2> QED BY <2>1 DEF CallType
<1> HIDE DEF o
<1>3. /\ op' \in [Commands -> CallType] /\ op'[c] = o
      /\ \A x \in Commands \ {c} : SameCall(op[x], op'[x])
  BY <1>1, <1>2, InvTypes, OneCall
<1>4. CallMoves(c)
  <2>1. CallOK(c)
    BY DEF IInv
  <2>2. op[c].saved
    BY <2>1 DEF CallOK
  <2>3. op'[c].saved /\ op'[c].ahead = op[c].ahead /\ op'[c].at = "posted" /\ op'[c].tab = op[c].tab
    BY <1>2, <1>3, <2>2
  <2>4. Kept(c)' <=> Kept(c)
    BY DEF Kept, Rows, Landed
  <2>5. CallOK(c)'
    BY <2>1, <2>2, <2>3, <2>4 DEF CallOK, Out
  <2>6. Lands(c)
    BY <2>3 DEF Lands
  <2> QED BY <2>3, <2>5, <2>6 DEF CallMoves, Out
<1>5. wire' \subseteq [cmd : Commands, by : Tabs \cup {Live, Gone}]
  BY InvTypes DEF Post
<1>6. WireMoves
  <2>1. Out(c)' /\ op'[c].ahead \subseteq Landed'
    BY <1>2, <1>3 DEF Out, Landed
  <2>2. Post(c, Live).cmd = c
    BY DEF Post
  <2> QED BY <2>1, <2>2 DEF WireMoves
<1> QED BY <1>3, <1>4, <1>5, <1>6 DEF CallMoves

LEMMA LookMoves ==
  ASSUME IInv, NEW c \in Commands, Look(c)
  PROVE  TypeOK' /\ Moves
<1>1. /\ op[c].at \in {"wait", "look"} /\ UNCHANGED <<side, queue, log, told, faults>>
  BY DEF Look
<1>2. CASE MayPost(c)
  <2>1. /\ op' = [op EXCEPT ![c].at = "posted"] /\ wire' = wire \cup {Post(c, Live)}
        /\ UNCHANGED <<line, drain>>
    BY <1>2 DEF Look
  <2>2. op[c].ahead \subseteq Landed
    <3>1. queue # <<>> /\ Head(queue) = c /\ BehindIn(queue, op, Landed)
      BY <1>2 DEF MayPost, IInv, QueueOK
    <3> QED BY <3>1, InvTypes, BehindTail
  <2>3. /\ op' \in [Commands -> CallType]
        /\ wire' \subseteq [cmd : Commands, by : Tabs \cup {Live, Gone}]
        /\ WireMoves
        /\ \A x \in Commands : CallMoves(x)
    BY <1>1, <2>1, <2>2, PostedMoves
  <2>4. TypeOK'
    BY <1>1, <2>1, <2>3, InvTypes, TypePartsNext
  <2> QED BY <1>1, <2>1, <2>3, <2>4, StillMoves DEF Moves
<1>3. CASE ~MayPost(c)
  <2>1. Finish(c, TRUE) /\ wire' = wire
    BY <1>3 DEF Look
  <2>2. c \in Edits => Kept(c)'
    <3>1. CallOK(c)
      BY DEF IInv
    <3>2. c \in Edits => Kept(c)
      BY <1>1, <3>1 DEF CallOK
    <3> QED BY <1>1, <3>2 DEF Kept, Rows, Landed
  <2>3. /\ op' \in [Commands -> CallType] /\ drain' \in [Tabs -> RunType]
        /\ line' \in Seq(SUBSET (Commands \cup Tabs))
        /\ \A x \in Commands : CallMoves(x)
        /\ \A t \in Tabs : RunMoves(t)
    BY <2>1, <2>2, FinishMoves
  <2>4. TypeOK'
    BY <1>1, <2>1, <2>3, InvTypes, TypePartsNext
  <2> QED BY <1>1, <2>1, <2>3, <2>4, StillMoves DEF Moves
<1> QED BY <1>2, <1>3

LEMMA FaultTyped == ASSUME IInv, Fault PROVE faults' \in 0..MaxFaults
BY InvTypes, QueueAssumption DEF Fault

LEMMA AdmitMoves ==
  ASSUME IInv, NEW c \in Commands, Admit(c)
  PROVE  TypeOK' /\ Moves
<1> DEFINE at == IF queue = <<>> THEN "posted" ELSE "wait"
           earlier == Sending(op[c].tab)
           ahead == Rows \cap Edits
           o == [op[c] EXCEPT !.at = at, !.earlier = earlier, !.ahead = ahead, !.saved = TRUE]
<1>1. /\ c \in Edits /\ op[c].at = "begun" /\ queue' = AdmitRow(queue, c)
      /\ wire' = IF queue = <<>> THEN wire \cup {Post(c, Live)} ELSE wire
      /\ UNCHANGED <<side, line, drain, log, told, faults>>
  BY DEF Admit
<1>2. op' = [op EXCEPT ![c] = o]
  BY DEF Admit
<1>3. earlier \subseteq Commands /\ ahead \subseteq Edits /\ at \in {"posted", "wait"}
  BY DEF Sending
<1>4. queue = <<>> => ahead = {}
  BY DEF Rows, ToSet
<1>5. ahead \subseteq Rows
  OBVIOUS
<1> HIDE DEF at, earlier, ahead
<1>6. /\ o \in CallType /\ o.at \in {"posted", "wait"} /\ o.tab = op[c].tab /\ o.saved
      /\ o.ahead = ahead
  <2>1. op[c] \in CallType
    BY InvTypes
  <2> QED BY <1>3, <2>1 DEF CallType
<1> HIDE DEF o
<1>7. /\ op' \in [Commands -> CallType] /\ op'[c] = o
      /\ \A x \in Commands \ {c} : SameCall(op[x], op'[x])
  BY <1>2, <1>6, InvTypes, OneCall
<1>8. /\ queue' \in Seq(Commands) /\ IsInjective(queue') /\ Rows' = Rows \cup {c}
  BY <1>1, InvTypes, AdmitKeeps DEF Rows
<1>9. wire' \subseteq [cmd : Commands, by : Tabs \cup {Live, Gone}]
  BY <1>1, InvTypes DEF Post
<1>10. TypeOK'
  BY <1>1, <1>7, <1>8, <1>9, InvTypes, TypePartsNext
<1>11. Out(c)' /\ op'[c].saved /\ op'[c].ahead = ahead
  BY <1>6, <1>7 DEF Out
<1>12. CallMoves(c)
  <2>1. Kept(c)'
    BY <1>8 DEF Kept
  <2>2. CallOK(c)'
    BY <1>6, <1>7, <1>11, <2>1 DEF CallOK
  <2> QED BY <1>1, <2>1, <2>2 DEF CallMoves, Lands, Out
<1>13. QueueMoves
  BY <1>1, <1>5, <1>11 DEF QueueMoves
<1>14. WireMoves
  <2> SUFFICES ASSUME NEW p \in wire', p \notin wire
               PROVE  p.cmd \in Commands /\ Out(p.cmd)' /\ op'[p.cmd].ahead \subseteq Landed'
    BY DEF WireMoves
  <2>1. queue = <<>> /\ p.cmd = c
    BY <1>1 DEF Post
  <2> QED BY <1>4, <1>11, <2>1
<1> QED BY <1>1, <1>7, <1>10, <1>12, <1>13, <1>14, StillMoves DEF Moves, CallMoves

LEMMA UnsavedMoves ==
  ASSUME IInv, NEW c \in Commands, Unsaved(c)
  PROVE  TypeOK' /\ Moves
<1>1. op[c].at = "begun" /\ Fault /\ UNCHANGED <<side, queue, log>>
  BY DEF Unsaved
<1>2. faults' \in 0..MaxFaults
  BY <1>1, FaultTyped
<1>3. CASE c \in Edits /\ ~side.guest /\ queue = <<>>
  <2> DEFINE o == [op[c] EXCEPT !.at = "posted"]
  <2>1. op' = [op EXCEPT ![c] = o] /\ wire' = wire \cup {Post(c, Live)}
        /\ UNCHANGED <<line, drain, told>>
    BY <1>3 DEF Unsaved
  <2>2. /\ o \in CallType /\ o.at = "posted" /\ o.tab = op[c].tab /\ o.saved = op[c].saved
        /\ o.ahead = op[c].ahead
    <3>1. op[c] \in CallType
      BY InvTypes
    <3> QED BY <3>1 DEF CallType
  <2> HIDE DEF o
  <2>3. /\ op' \in [Commands -> CallType] /\ op'[c] = o
        /\ \A x \in Commands \ {c} : SameCall(op[x], op'[x])
    BY <2>1, <2>2, InvTypes, OneCall
  <2>4. wire' \subseteq [cmd : Commands, by : Tabs \cup {Live, Gone}]
    BY <2>1, InvTypes DEF Post
  <2>5. TypeOK'
    BY <1>1, <1>2, <2>1, <2>3, <2>4, InvTypes, TypePartsNext
  <2>6. ~op[c].saved /\ op[c].ahead = {}
    BY <1>1, <1>3 DEF IInv, CallOK, Out
  <2>7. ~op'[c].saved /\ op'[c].ahead = {} /\ op'[c].at = "posted" /\ op'[c].tab = op[c].tab
    BY <2>2, <2>3, <2>6
  <2>8. CallMoves(c)
    <3>1. CallOK(c)'
      BY <2>7 DEF CallOK
    <3>2. Lands(c)
      BY <2>7 DEF Lands
    <3> QED BY <1>1, <3>1, <3>2 DEF CallMoves, Out
  <2>9. WireMoves
    <3>1. Out(c)' /\ op'[c].ahead \subseteq Landed'
      BY <2>7 DEF Out
    <3>2. Post(c, Live).cmd = c
      BY DEF Post
    <3> QED BY <2>1, <3>1, <3>2 DEF WireMoves
  <2> QED BY <1>1, <2>1, <2>3, <2>5, <2>8, <2>9, StillMoves DEF Moves, CallMoves
<1>4. CASE ~(c \in Edits /\ ~side.guest /\ queue = <<>>)
  <2>1. Finish(c, FALSE) /\ told' = told \cup ({c} \cap Edits) /\ wire' = wire
    BY <1>4 DEF Unsaved
  <2>2. c \in Edits => Kept(c)'
    BY <2>1 DEF Kept, Landed
  <2>3. /\ op' \in [Commands -> CallType] /\ drain' \in [Tabs -> RunType]
        /\ line' \in Seq(SUBSET (Commands \cup Tabs))
        /\ \A x \in Commands : CallMoves(x)
        /\ \A t \in Tabs : RunMoves(t)
    BY <2>1, <2>2, FinishMoves
  <2>4. told' \subseteq Edits
    BY <2>1, InvTypes
  <2>5. TypeOK'
    BY <1>1, <1>2, <2>1, <2>3, <2>4, InvTypes, TypePartsNext
  <2> QED BY <1>1, <2>1, <2>3, <2>5, StillMoves DEF Moves
<1> QED BY <1>3, <1>4

LEMMA PressMoves ==
  ASSUME IInv, NEW t \in Tabs, NEW u \in Commands, Press(t, u)
  PROVE  TypeOK' /\ Moves
<1> DEFINE flying == InFlight(t)
           o == [Unsent EXCEPT !.at = "hold", !.tab = t, !.earlier = flying,
                               !.ahead = flying \cap Edits, !.behindRun = Running(t)]
<1>1. /\ u \in Undos /\ op[u].at = "idle" /\ op' = [op EXCEPT ![u] = o]
      /\ UNCHANGED <<side, queue, line, drain, wire, log, told, faults>>
  BY DEF Press
<1>2. flying \subseteq Commands /\ \A e \in flying : op[e].tab = t /\ op[e].at \notin {"idle", "done"}
  BY DEF InFlight
<1>3. Running(t) \in BOOLEAN
  BY DEF Running
<1> HIDE DEF flying
<1>4. /\ o \in CallType /\ o.at = "hold" /\ o.tab = t /\ o.saved = FALSE
      /\ o.ahead = flying \cap Edits /\ o.earlier = flying
  <2> DEFINE running == Running(t)
             ahead == flying \cap Edits
             base == Unsent
  <2>1. base \in CallType /\ base.saved = FALSE
    BY DEF CallType, Unsent
  <2>2. running \in BOOLEAN /\ ahead \subseteq Edits
    BY <1>3
  <2> HIDE DEF running, ahead, base
  <2>3. /\ [base EXCEPT !.at = "hold", !.tab = t, !.earlier = flying,
                        !.ahead = ahead, !.behindRun = running] \in CallType
        /\ [base EXCEPT !.at = "hold", !.tab = t, !.earlier = flying,
                        !.ahead = ahead, !.behindRun = running].saved = FALSE
        /\ [base EXCEPT !.at = "hold", !.tab = t, !.earlier = flying,
                        !.ahead = ahead, !.behindRun = running].ahead = ahead
    BY <1>2, <2>1, <2>2 DEF CallType
  <2>4. o.at = "hold" /\ o.tab = t /\ o.earlier = flying
    BY DEF Unsent
  <2> QED BY <2>3, <2>4 DEF running, ahead, base
<1> HIDE DEF o
<1>5. /\ op' \in [Commands -> CallType] /\ op'[u] = o
      /\ \A x \in Commands \ {u} : op'[x] = op[x] /\ SameCall(op[x], op'[x])
  BY <1>1, <1>4, InvTypes, OneCall
<1>6. TypeOK'
  BY <1>1, <1>5, InvTypes, TypePartsNext
<1>7. u \notin Edits
  BY <1>1, QueueAssumption
<1>8. CallMoves(u)
  <2>1. \A e \in op'[u].ahead : e \in op'[u].earlier
                               /\ op'[e].tab = op'[u].tab /\ op'[e].at \notin {"idle", "done"}
    <3> SUFFICES ASSUME NEW e \in flying \cap Edits
                 PROVE  e \in flying /\ op'[e].tab = t /\ op'[e].at \notin {"idle", "done"}
      BY <1>4, <1>5
    <3>1. e \in Commands \ {u}
      BY <1>2, <1>7
    <3> QED BY <1>2, <1>5, <3>1
  <2>2. ~op'[u].saved /\ op'[u].at = "hold"
    BY <1>4, <1>5
  <2>3. CallOK(u)'
    BY <1>7, <2>1, <2>2 DEF CallOK
  <2> QED BY <1>1, <1>7, <2>3 DEF CallMoves, Lands, Out
<1> QED BY <1>1, <1>5, <1>6, <1>8, StillMoves DEF Moves, CallMoves

LEMMA EnterMoves ==
  ASSUME IInv, NEW u \in Commands, Enter(u)
  PROVE  TypeOK' /\ Moves
<1> DEFINE ahead == op[u].ahead \cup (Rows \cap Edits)
           o == [op[u] EXCEPT !.at = "look", !.ahead = ahead, !.saved = TRUE]
<1>1. /\ u \in Undos /\ op[u].at = "begun" /\ queue' = AdmitRow(queue, u)
      /\ UNCHANGED <<side, line, drain, wire, log, told, faults>>
  BY DEF Enter
<1>2. op' = [op EXCEPT ![u] = o]
  BY DEF Enter
<1>3. ahead \subseteq Edits /\ u \notin Edits
  BY <1>1, InvTypes, QueueAssumption
<1>4. ahead \subseteq Landed \cup Rows
  <2>1. \A e \in op[u].ahead : Kept(e)
    BY <1>1 DEF IInv, CallOK
  <2> QED BY <2>1 DEF Kept
<1> HIDE DEF ahead
<1>5. o \in CallType /\ o.at = "look" /\ o.tab = op[u].tab /\ o.saved /\ o.ahead = ahead
  <2>1. op[u] \in CallType
    BY InvTypes
  <2> QED BY <1>3, <2>1 DEF CallType
<1> HIDE DEF o
<1>6. /\ op' \in [Commands -> CallType] /\ op'[u] = o
      /\ \A x \in Commands \ {u} : SameCall(op[x], op'[x])
  BY <1>2, <1>5, InvTypes, OneCall
<1>7. queue' \in Seq(Commands) /\ IsInjective(queue')
  BY <1>1, InvTypes, AdmitKeeps
<1>8. TypeOK'
  BY <1>1, <1>6, <1>7, InvTypes, TypePartsNext
<1>9. Out(u)' /\ op'[u].saved /\ op'[u].ahead = ahead /\ op'[u].at = "look"
  BY <1>5, <1>6 DEF Out
<1>10. CallMoves(u)
  <2>1. CallOK(u)'
    BY <1>3, <1>9 DEF CallOK
  <2> QED BY <1>1, <1>3, <2>1 DEF CallMoves, Lands, Out
<1>11. QueueMoves
  <2>1. Landed' = Landed
    BY <1>1 DEF Landed
  <2> QED BY <1>1, <1>4, <1>9, <2>1 DEF QueueMoves
<1> QED BY <1>1, <1>6, <1>8, <1>10, <1>11, StillMoves DEF Moves, CallMoves

LEMMA LookUndoMoves ==
  ASSUME IInv, NEW u \in Commands, LookUndo(u)
  PROVE  TypeOK' /\ Moves
<1>1. /\ u \in Undos /\ u \notin Edits /\ op[u].at = "look"
      /\ UNCHANGED <<side, log, told, faults>>
  BY QueueAssumption DEF LookUndo
<1>2. CASE FirstEffective(u)
  <2>1. /\ op' = [op EXCEPT ![u].at = "posted"] /\ wire' = wire \cup {Post(u, Live)}
        /\ UNCHANGED <<queue, line, drain>>
    BY <1>2 DEF LookUndo
  <2>2. op[u].ahead \subseteq Landed
    <3> SUFFICES ASSUME NEW e \in op[u].ahead, e \notin Landed PROVE FALSE
      OBVIOUS
    <3>1. PICK i \in DOMAIN queue : queue[i] = u /\ \A j \in 1..(i - 1) : queue[j] \in Undos
      BY <1>2 DEF FirstEffective
    <3>2. BehindIn(queue, op, Landed)
      BY DEF IInv, QueueOK
    <3>3. PICK j \in 1..(i - 1) : queue[j] = e
      BY <3>1, <3>2 DEF BehindIn
    <3>4. e \in Edits /\ e \in Undos
      BY <3>1, <3>3, InvTypes
    <3> QED BY <3>4, QueueAssumption
  <2>3. /\ op' \in [Commands -> CallType]
        /\ wire' \subseteq [cmd : Commands, by : Tabs \cup {Live, Gone}]
        /\ WireMoves
        /\ \A x \in Commands : CallMoves(x)
    BY <1>1, <2>1, <2>2, PostedMoves
  <2>4. TypeOK'
    BY <1>1, <2>1, <2>3, InvTypes, TypePartsNext
  <2> QED BY <1>1, <2>1, <2>3, <2>4, StillMoves DEF Moves
<1>3. CASE ~FirstEffective(u)
  <2>1. /\ queue' = Without(queue, {u}) /\ Finish(u, side.guest => u \in Rows)
        /\ wire' = wire
    BY <1>3 DEF LookUndo
  <2>2. /\ op' \in [Commands -> CallType] /\ drain' \in [Tabs -> RunType]
        /\ line' \in Seq(SUBSET (Commands \cup Tabs))
        /\ \A x \in Commands : CallMoves(x)
        /\ \A t \in Tabs : RunMoves(t)
    BY <1>1, <2>1, FinishMoves
  <2>3. queue' \in Seq(Commands) /\ IsInjective(queue')
    BY <2>1, InvTypes, WithoutKeeps
  <2>4. TypeOK'
    BY <1>1, <2>1, <2>2, <2>3, InvTypes, TypePartsNext
  <2>5. QueueMoves
    <3>1. {u} \in SUBSET Commands /\ {u} \cap Rows \cap Edits = {}
      BY <1>1
    <3> QED BY <2>1, <3>1 DEF QueueMoves
  <2> QED BY <1>1, <2>1, <2>2, <2>4, <2>5, StillMoves DEF Moves
<1> QED BY <1>2, <1>3

(* What an answer does to the log.                                         *)
LEMMA AnswerMoves ==
  ASSUME IInv, NEW c \in Commands, Out(c), op[c].ahead \subseteq Landed,
         NEW answer, Answer(c, answer)
  PROVE  /\ LogMoves /\ log' \in Seq(Commands) /\ IsInjective(log')
         /\ ToSet(log) \subseteq ToSet(log')
         /\ faults' \in 0..MaxFaults
         /\ answer \in {"ok", "refused"} /\ (answer = "ok" => c \in ToSet(log'))
<1>1. log \in Seq(Commands) /\ IsInjective(log) /\ faults \in 0..MaxFaults
  BY InvTypes
<1>2. /\ Append(log, c) \in Seq(Commands)
      /\ ToSet(Append(log, c)) = ToSet(log) \cup {c}
      /\ ~Contains(log, c) => IsInjective(Append(log, c))
      /\ Contains(log, c) <=> c \in ToSet(log)
  BY <1>1, AppendNew
<1>3. CASE answer = "ok" /\ Contains(log, c) /\ UNCHANGED <<log, faults>>
  BY <1>1, <1>2, <1>3 DEF LogMoves
<1>4. CASE answer = "ok" /\ ~Contains(log, c) /\ log' = Append(log, c) /\ UNCHANGED faults
  <2>1. LogMoves
    BY <1>4 DEF LogMoves
  <2> QED BY <1>1, <1>2, <1>4, <2>1
<1>5. CASE answer = "refused" /\ UNCHANGED log /\ (UNCHANGED faults \/ Fault)
  BY <1>1, <1>5, FaultTyped DEF LogMoves
<1> QED BY <1>3, <1>4, <1>5 DEF Answer

LEMMA SettleMoves ==
  ASSUME IInv, NEW c \in Commands, Settle(c)
  PROVE  TypeOK' /\ Moves
<1>1. PICK answer \in {"ok", "refused"} :
        /\ Post(c, Live) \in wire /\ Answer(c, answer) /\ Tell(c, answer)
        /\ queue' = Without(queue, {c}) /\ wire' = wire \ {Post(c, Live)}
        /\ Finish(c, FALSE) /\ UNCHANGED side
  BY DEF Settle
<1>2. Out(c) /\ op[c].ahead \subseteq Landed
  <2>1. Post(c, Live).cmd = c
    BY DEF Post
  <2> QED BY <1>1, <2>1 DEF IInv, WireOK
<1>3. /\ LogMoves /\ log' \in Seq(Commands) /\ IsInjective(log')
      /\ ToSet(log) \subseteq ToSet(log')
      /\ faults' \in 0..MaxFaults
      /\ answer = "ok" => c \in ToSet(log')
  BY <1>1, <1>2, AnswerMoves
<1>4. told \subseteq told' /\ told' \subseteq Edits /\ (c \in Edits => c \in Landed')
  BY <1>1, <1>3, InvTypes DEF Tell, Landed
<1>5. /\ op' \in [Commands -> CallType] /\ drain' \in [Tabs -> RunType]
      /\ line' \in Seq(SUBSET (Commands \cup Tabs))
      /\ \A x \in Commands : CallMoves(x)
      /\ \A t \in Tabs : RunMoves(t)
  <2>1. c \in Edits => Kept(c)'
    BY <1>4 DEF Kept
  <2> QED BY <1>1, <2>1, FinishMoves
<1>6. queue' \in Seq(Commands) /\ IsInjective(queue')
  BY <1>1, InvTypes, WithoutKeeps
<1>7. TypeOK'
  BY <1>1, <1>3, <1>4, <1>5, <1>6, InvTypes, TypePartsNext
<1>8. QueueMoves
  <2>1. {c} \in SUBSET Commands /\ {c} \cap Rows \cap Edits \subseteq Landed'
    BY <1>4
  <2> QED BY <1>1, <2>1 DEF QueueMoves
<1>9. WireMoves
  BY <1>1 DEF WireMoves
<1> QED BY <1>3, <1>4, <1>5, <1>7, <1>8, <1>9 DEF Moves

(* Nothing new is on the wire when its posts are given up.                 *)
LEMMA OrphanedMoves ==
  ASSUME IInv, NEW posts \in SUBSET wire, wire' = Orphaned(posts)
  PROVE  WireMoves /\ wire' \subseteq [cmd : Commands, by : Tabs \cup {Live, Gone}]
<1>1. wire \subseteq [cmd : Commands, by : Tabs \cup {Live, Gone}]
  BY InvTypes
<1>2. \A p \in wire' : p \in wire \/ \E r \in wire : p = Post(r.cmd, Gone)
  BY DEF Orphaned
<1>3. \A r \in wire : /\ Post(r.cmd, Gone).cmd = r.cmd
                      /\ Post(r.cmd, Gone) \in [cmd : Commands, by : Tabs \cup {Live, Gone}]
  BY <1>1 DEF Post
<1> QED BY <1>1, <1>2, <1>3 DEF WireMoves

LEMMA UnsureMoves ==
  ASSUME IInv, NEW c \in Commands, Unsure(c)
  PROVE  TypeOK' /\ Moves
<1>1. /\ Post(c, Live) \in wire /\ Fault
      /\ queue' = Without(queue, LeavesUnsure(c))
      /\ told' = IF c \in Edits /\ ~op[c].saved THEN told \cup {c} ELSE told
      /\ wire' = Orphaned({Post(c, Live)})
      /\ Finish(c, FALSE) /\ UNCHANGED <<side, log>>
  BY DEF Unsure
<1>2. LeavesUnsure(c) \in SUBSET Commands /\ LeavesUnsure(c) \cap Edits = {}
  BY QueueAssumption DEF LeavesUnsure
<1>3. told \subseteq told' /\ told' \subseteq Edits /\ faults' \in 0..MaxFaults
  BY <1>1, InvTypes, FaultTyped
<1>4. /\ queue' \in Seq(Commands) /\ IsInjective(queue') /\ Rows' = Rows \ LeavesUnsure(c)
  BY <1>1, InvTypes, WithoutKeeps DEF Rows
<1>5. c \in Edits => Kept(c)'
  <2>1. CASE c \in Edits /\ op[c].saved
    <3>1. Kept(c)
      BY <2>1 DEF IInv, CallOK
    <3>2. Landed \subseteq Landed'
      BY <1>1, <1>3 DEF Landed
    <3> QED BY <1>2, <1>4, <2>1, <3>1, <3>2 DEF Kept
  <2>2. CASE c \in Edits /\ ~op[c].saved
    BY <1>1, <2>2 DEF Kept, Landed
  <2> QED BY <2>1, <2>2
<1>6. /\ op' \in [Commands -> CallType] /\ drain' \in [Tabs -> RunType]
      /\ line' \in Seq(SUBSET (Commands \cup Tabs))
      /\ \A x \in Commands : CallMoves(x)
      /\ \A t \in Tabs : RunMoves(t)
  BY <1>1, <1>5, FinishMoves
<1>7. WireMoves /\ wire' \subseteq [cmd : Commands, by : Tabs \cup {Live, Gone}]
  BY <1>1, OrphanedMoves
<1>8. TypeOK'
  BY <1>1, <1>3, <1>4, <1>6, <1>7, InvTypes, TypePartsNext
<1>9. QueueMoves
  <2>1. LeavesUnsure(c) \cap Rows \cap Edits \subseteq Landed'
    BY <1>2
  <2> QED BY <1>1, <1>2, <2>1 DEF QueueMoves
<1> QED BY <1>1, <1>3, <1>6, <1>7, <1>8, <1>9, StillMoves DEF Moves

LEMMA OrphanMoves ==
  ASSUME IInv, Orphan
  PROVE  TypeOK' /\ Moves
<1>1. PICK p \in wire :
        /\ wire' = wire \ {p}
        /\ \/ \E answer \in {"ok", "refused"} : Answer(p.cmd, answer)
           \/ UNCHANGED <<log, faults>>
        /\ UNCHANGED <<side, queue, line, op, drain, told>>
  BY DEF Orphan
<1>2. p.cmd \in Commands /\ Out(p.cmd) /\ op[p.cmd].ahead \subseteq Landed
  BY InvTypes DEF IInv, WireOK
<1>3. /\ LogMoves /\ log' \in Seq(Commands) /\ IsInjective(log') /\ faults' \in 0..MaxFaults
  <2>1. ASSUME NEW answer \in {"ok", "refused"}, Answer(p.cmd, answer)
        PROVE  /\ LogMoves /\ log' \in Seq(Commands) /\ IsInjective(log')
               /\ faults' \in 0..MaxFaults
    BY <1>2, <2>1, AnswerMoves
  <2>2. CASE UNCHANGED <<log, faults>>
    BY <2>2, InvTypes DEF LogMoves
  <2> QED BY <1>1, <2>1, <2>2
<1>4. TypeOK'
  <2>1. wire' \subseteq [cmd : Commands, by : Tabs \cup {Live, Gone}]
    BY <1>1, InvTypes
  <2> QED BY <1>1, <1>3, <2>1, InvTypes, TypePartsNext
<1>5. \A c \in Commands : CallMoves(c)
  BY <1>1 DEF CallMoves, SameCall
<1>6. WireMoves
  BY <1>1 DEF WireMoves
<1> QED BY <1>1, <1>3, <1>4, <1>5, <1>6, StillMoves DEF Moves

LEMMA ReloadMoves ==
  ASSUME IInv, NEW t \in Tabs, Reload(t)
  PROVE  TypeOK' /\ Moves
<1> DEFINE lost == InFlight(t)
           posts == {p \in wire : p.by = t \/ (p.by = Live /\ p.cmd \in lost)}
<1>1. /\ Fault /\ op' = [c \in Commands |-> IF c \in lost THEN Ended(c) ELSE op[c]]
      /\ drain' = [drain EXCEPT ![t] = NoRun({})]
      /\ line' = LineWithout(lost \cup {t})
      /\ wire' = Orphaned(posts)
      /\ UNCHANGED <<side, queue, log, told>>
  BY DEF Reload
<1>2. posts \in SUBSET wire
  OBVIOUS
<1>3. \A c \in Commands : c \in lost <=> op[c].tab = t /\ op[c].at \notin {"idle", "done"}
  BY DEF InFlight
<1> HIDE DEF lost, posts
<1>4. WireMoves /\ wire' \subseteq [cmd : Commands, by : Tabs \cup {Live, Gone}]
  BY <1>1, <1>2, OrphanedMoves
<1>5. line' \in Seq(SUBSET (Commands \cup Tabs)) /\ faults' \in 0..MaxFaults
  BY <1>1, InvTypes, LineKept, FaultTyped
<1>6. ASSUME NEW c \in Commands
      PROVE  /\ op'[c] \in CallType /\ (c \notin lost => op'[c] = op[c])
             /\ c \in lost => /\ op'[c].at = "done" /\ op'[c].saved = op[c].saved
                              /\ op'[c].ahead = op[c].ahead
  <2> DEFINE o == op[c]
             e == [o EXCEPT !.at = "done", !.tab = Nobody, !.earlier = {}, !.behindRun = FALSE]
  <2>1. o \in CallType
    BY InvTypes
  <2>2. op'[c] = IF c \in lost THEN e ELSE o
    BY <1>1 DEF Ended
  <2> HIDE DEF o
  <2>3. e \in CallType /\ e.at = "done" /\ e.saved = o.saved /\ e.ahead = o.ahead
    BY <2>1 DEF CallType
  <2> HIDE DEF e
  <2> QED BY <2>1, <2>2, <2>3 DEF o
<1>7. op' \in [Commands -> CallType]
  <2>1. op' = [c \in Commands |-> op'[c]]
    BY <1>1
  <2> QED BY <1>6, <2>1
<1>8. /\ drain' \in [Tabs -> RunType] /\ drain'[t] = NoRun({})
      /\ \A s \in Tabs \ {t} : drain'[s] = drain[s]
  <2>1. NoRun({}) \in RunType
    BY DEF NoRun, RunType
  <2> QED BY <1>1, <2>1, InvTypes
<1>9. TypeOK'
  BY <1>1, <1>4, <1>5, <1>7, <1>8, InvTypes, TypePartsNext
<1>10. \A s \in Tabs : RunMoves(s)
  <2>1. /\ drain'[t].rest = <<>> /\ drain'[t].at = "idle" /\ drain'[t].done = {}
    BY <1>8 DEF NoRun
  <2>2. BehindIn(<<>>, op', Landed') /\ ToSet(<<>>) = {}
    BY DEF BehindIn, ToSet
  <2>3. RunOK(t)'
    BY <2>1, <2>2 DEF RunOK
  <2> QED BY <1>8, <2>3 DEF RunMoves, SameRun
<1>11. \A c \in Commands : CallMoves(c)
  <2>1. ASSUME NEW c \in lost, c \in Commands PROVE CallMoves(c)
    <3>1. op'[c].at = "done" /\ op'[c].saved = op[c].saved /\ op'[c].ahead = op[c].ahead
      BY <1>6, <2>1
    <3>2. CallOK(c)
      BY <2>1 DEF IInv
    <3>3. Kept(c)' <=> Kept(c)
      BY <1>1 DEF Kept, Rows, Landed
    <3>4. CallOK(c)'
      BY <3>1, <3>2, <3>3 DEF CallOK, Out
    <3>5. \A u \in Commands : op[u].tab = op[c].tab => op'[u].at # "hold"
      <4> SUFFICES ASSUME NEW u \in Commands, op[u].tab = op[c].tab, op'[u].at = "hold"
                   PROVE  FALSE
        OBVIOUS
      <4>1. op[u].tab = t
        BY <1>3, <2>1
      <4>2. u \notin lost
        BY <1>6
      <4> QED BY <1>3, <1>6, <4>1, <4>2
    <3> QED BY <3>1, <3>4, <3>5 DEF CallMoves, Lands, Out
  <2>2. ASSUME NEW c \in Commands, c \notin lost PROVE CallMoves(c)
    BY <1>6, <2>2 DEF CallMoves, SameCall
  <2> QED BY <2>1, <2>2
<1> QED BY <1>1, <1>4, <1>9, <1>10, <1>11, StillMoves DEF Moves

-----------------------------------------------------------------------------
(* And each step of a drain.                                               *)
LEMMA OneRun ==
  ASSUME IInv, NEW t \in Tabs, NEW d \in RunType, drain' = [drain EXCEPT ![t] = d]
  PROVE  /\ drain' \in [Tabs -> RunType] /\ drain'[t] = d
         /\ RunOK(t)' => \A s \in Tabs : RunMoves(s)
BY InvTypes DEF RunMoves, SameRun

LEMMA EmptyRun ==
  ASSUME NEW t \in Tabs, drain'[t].rest = <<>>, drain'[t].at \notin {"claim", "posted"},
         drain'[t].done \subseteq ToSet(log')
  PROVE  RunOK(t)'
<1>1. BehindIn(<<>>, op', Landed') /\ ToSet(<<>>) = {}
  BY DEF BehindIn, ToSet
<1> QED BY <1>1 DEF RunOK

LEMMA CallsStay == op' = op => \A c \in Commands : CallMoves(c)
BY DEF CallMoves, SameCall

(* The row a pass is at, and what the pass knows of its edits.             *)
LEMMA DueOut ==
  ASSUME IInv, NEW t \in Tabs, drain[t].rest # <<>>
  PROVE  /\ Due(t) \in Commands /\ Out(Due(t)) /\ op[Due(t)].saved
         /\ op[Due(t)].ahead \subseteq Landed
         /\ drain[t].rest \in Seq(Commands) /\ Due(t) = Head(drain[t].rest)
         /\ Due(t) \in ToSet(drain[t].rest)
<1>1. drain[t] \in RunType /\ RunOK(t)
  BY InvTypes DEF IInv
<1>2. drain[t].rest \in Seq(Commands)
  BY <1>1 DEF RunType
<1>3. BehindIn(drain[t].rest, op, Landed)
  BY <1>1 DEF RunOK
<1>4. /\ Head(drain[t].rest) \in Commands /\ Head(drain[t].rest) \in ToSet(drain[t].rest)
      /\ op[Head(drain[t].rest)].ahead \subseteq Landed
  BY <1>2, <1>3, BehindTail
<1> QED BY <1>1, <1>2, <1>4 DEF Due, RunOK

LEMMA CheckedKnows ==
  ASSUME IInv, NEW t \in Tabs, AtGate(t)
  PROVE  /\ Checked(drain[t], Due(t)) \in RunType
         /\ Checked(drain[t], Due(t)).rest = drain[t].rest
         /\ Checked(drain[t], Due(t)).done = drain[t].done
         /\ Checked(drain[t], Due(t)).at = "gate"
         /\ ToSet(drain[t].rest) \cap Edits \subseteq Checked(drain[t], Due(t)).present \cup Landed
<1> DEFINE d == Checked(drain[t], Due(t))
<1>1. drain[t].at = "gate" /\ drain[t].rest # <<>>
  BY DEF AtGate
<1>2. /\ d \in RunType /\ d.rest = drain[t].rest /\ d.done = drain[t].done /\ d.at = "gate"
      /\ d.present \in {drain[t].present, Rows \cap ToSet(drain[t].rest)}
  BY <1>1, InvTypes, DueOut, PassesKept
<1> HIDE DEF d
<1>3. ASSUME NEW c \in ToSet(drain[t].rest) \cap Edits PROVE c \in d.present \cup Landed
  <2>1. CASE d.present = drain[t].present
    BY <1>1, <2>1 DEF IInv, RunOK
  <2>2. CASE d.present = Rows \cap ToSet(drain[t].rest)
    <3>1. op[c].saved /\ c \in Commands
      BY DEF IInv, RunOK, Commands
    <3>2. Kept(c)
      BY <3>1 DEF IInv, CallOK
    <3> QED BY <2>2, <3>2 DEF Kept
  <2> QED BY <1>2, <2>1, <2>2
<1> QED BY <1>2, <1>3 DEF d

(* A pass goes on behind a row that is over, or is an undo.                *)
LEMMA OnwardKeeps ==
  ASSUME IInv, NEW t \in Tabs, NEW d \in RunType, d.rest = drain[t].rest, d.rest # <<>>,
         Landed \subseteq Landed', op' = op, d.done \subseteq ToSet(log'),
         ToSet(d.rest) \cap Edits \subseteq d.present \cup Landed,
         Due(t) \in Edits => Due(t) \in Landed',
         drain' = [drain EXCEPT ![t] = Onward(d)]
  PROVE  drain' \in [Tabs -> RunType] /\ \A s \in Tabs : RunMoves(s)
<1>1. /\ Due(t) \in Commands /\ drain[t].rest \in Seq(Commands) /\ Due(t) = Head(d.rest)
      /\ queue \in Seq(Commands)
  BY DueOut, InvTypes
<1>2. /\ Onward(d) \in RunType
      /\ Onward(d).at = "gate" /\ Onward(d).rest = Tail(d.rest)
      /\ Onward(d).done = d.done
      /\ Onward(d).present = d.present \cap ToSet(Tail(d.rest))
  BY <1>1, PassesKept
<1>3. /\ drain' \in [Tabs -> RunType] /\ drain'[t] = Onward(d)
      /\ RunOK(t)' => \A s \in Tabs : RunMoves(s)
  BY <1>2, OneRun
<1>4. /\ BehindIn(d.rest, op, Landed) /\ \A c \in ToSet(d.rest) : Out(c) /\ op[c].saved
  BY DEF IInv, RunOK
<1>5. BehindIn(d.rest, op, Landed')
  BY <1>4, BehindGrows
<1>6. \A c \in Commands : op[c].ahead \subseteq Edits
  BY InvTypes
<1>7. /\ BehindIn(Tail(d.rest), op, Landed') /\ ToSet(Tail(d.rest)) \subseteq ToSet(d.rest)
  BY <1>1, <1>5, <1>6, BehindTail
<1>8. ToSet(Tail(d.rest)) \cap Edits \subseteq Onward(d).present \cup Landed'
  BY <1>2, <1>7
<1>9. \A c \in ToSet(Tail(d.rest)) : Out(c)' /\ op'[c].saved
  BY <1>4, <1>7 DEF Out
<1>10. RunOK(t)'
  BY <1>2, <1>3, <1>7, <1>8, <1>9 DEF RunOK
<1> QED BY <1>3, <1>10

LEMMA ReadQueueMoves ==
  ASSUME IInv, NEW t \in Tabs, ReadQueue(t)
  PROVE  TypeOK' /\ Moves
<1>1. UNCHANGED <<side, queue, line, wire, log, told, faults>>
  BY DEF ReadQueue
<1>2. CASE queue = <<>>
  <2>1. EndRun(t)
    BY <1>2 DEF ReadQueue
  <2>2. /\ op' \in [Commands -> CallType] /\ drain' \in [Tabs -> RunType]
        /\ \A c \in Commands : SameCall(op[c], op'[c])
        /\ \A s \in Tabs \ {t} : drain'[s] = drain[s]
        /\ drain'[t].at = "idle" /\ drain'[t].rest = <<>> /\ drain'[t].done = {}
    BY <2>1, InvTypes, EndRunKeeps
  <2>3. RunOK(t)'
    BY <2>2, EmptyRun
  <2>4. \A s \in Tabs : RunMoves(s)
    BY <2>2, <2>3 DEF RunMoves, SameRun
  <2>5. TypeOK'
    BY <1>1, <2>2, InvTypes, TypePartsNext
  <2> QED BY <1>1, <2>2, <2>4, <2>5, StillMoves DEF Moves, CallMoves
<1>3. CASE queue # <<>>
  <2> DEFINE base == NoRun(drain[t].awaited)
             d == [base EXCEPT !.at = "read", !.rest = queue]
  <2>1. drain' = [drain EXCEPT ![t] = d] /\ op' = op
    BY <1>3 DEF ReadQueue
  <2>2. base \in RunType /\ base.done = {}
    <3>1. drain[t] \in RunType
      BY InvTypes
    <3> QED BY <3>1, RunsKept DEF NoRun
  <2> HIDE DEF base
  <2>3. d \in RunType /\ d.at = "read" /\ d.rest = queue /\ d.done = {}
    <3>1. queue \in Seq(Commands)
      BY InvTypes
    <3> QED BY <2>2, <3>1 DEF RunType
  <2> HIDE DEF d
  <2>4. /\ drain' \in [Tabs -> RunType] /\ drain'[t] = d
        /\ RunOK(t)' => \A s \in Tabs : RunMoves(s)
    BY <2>1, <2>3, OneRun
  <2>5. TypeOK'
    BY <1>1, <2>1, <2>4, InvTypes, TypePartsNext
  <2>6. RunOK(t)'
    <3>1. QueueOK
      BY DEF IInv
    <3>2. Landed' = Landed
      BY <1>1 DEF Landed
    <3> QED BY <2>1, <2>3, <2>4, <3>1, <3>2 DEF QueueOK, RunOK, Rows, Out
  <2> QED BY <1>1, <2>1, <2>4, <2>5, <2>6, StillMoves, CallsStay DEF Moves
<1> QED BY <1>2, <1>3

LEMMA MarkLiveMoves ==
  ASSUME IInv, NEW t \in Tabs, MarkLive(t)
  PROVE  TypeOK' /\ Moves
<1> DEFINE live == Sending(t)
           news == drain[t].news
           base == [drain[t] EXCEPT !.at = "gate", !.live = live, !.recheck = news,
                                    !.present = Commands]
<1>1. /\ drain' = [drain EXCEPT ![t] = Tidy(base)]
      /\ UNCHANGED <<side, queue, line, op, wire, log, told, faults>>
  BY DEF MarkLive
<1>2. live \subseteq Commands /\ news \in BOOLEAN
  <2>1. drain[t] \in RunType
    BY InvTypes
  <2> QED BY <2>1 DEF Sending, RunType
<1> HIDE DEF live, news
<1>3. /\ base \in RunType /\ base.at = "gate" /\ base.rest = drain[t].rest
      /\ base.present = Commands /\ base.done = drain[t].done
  <2>1. drain[t] \in RunType
    BY InvTypes
  <2> QED BY <1>2, <2>1 DEF RunType
<1> HIDE DEF base
<1>4. /\ Tidy(base) \in RunType /\ Tidy(base).at = "gate" /\ Tidy(base).rest = drain[t].rest
      /\ Tidy(base).done = drain[t].done
      /\ Tidy(base).present = Commands \cap ToSet(drain[t].rest)
  BY <1>3, RunsKept
<1>5. /\ drain' \in [Tabs -> RunType] /\ drain'[t] = Tidy(base)
      /\ RunOK(t)' => \A s \in Tabs : RunMoves(s)
  BY <1>1, <1>4, OneRun
<1>6. TypeOK'
  BY <1>1, <1>5, InvTypes, TypePartsNext
<1>7. RunOK(t)'
  <2>1. RunOK(t)
    BY DEF IInv
  <2>2. Landed' = Landed
    BY <1>1 DEF Landed
  <2>3. Edits \subseteq Commands
    BY DEF Commands
  <2> QED BY <1>1, <1>4, <1>5, <2>1, <2>2, <2>3 DEF RunOK, Out
<1> QED BY <1>1, <1>5, <1>6, <1>7, StillMoves, CallsStay DEF Moves

LEMMA StopMoves ==
  ASSUME IInv, NEW t \in Tabs, Stop(t)
  PROVE  TypeOK' /\ Moves
<1> DEFINE base == Stopped(drain[t])
           d == [base EXCEPT !.awaited = @ \cup {Due(t)}]
<1>1. /\ AtGate(t) /\ drain' = [drain EXCEPT ![t] = d]
      /\ UNCHANGED <<side, queue, line, op, wire, log, told, faults>>
  BY DEF Stop
<1>2. base \in RunType /\ base.at = "end" /\ base.rest = <<>> /\ base.done = drain[t].done
  BY InvTypes, RunsKept
<1>3. Due(t) \in Commands
  BY <1>1, DueOut DEF AtGate
<1> HIDE DEF base
<1>4. d \in RunType /\ d.at = "end" /\ d.rest = <<>> /\ d.done = drain[t].done
  BY <1>2, <1>3 DEF RunType
<1> HIDE DEF d
<1>5. /\ drain' \in [Tabs -> RunType] /\ drain'[t] = d
      /\ RunOK(t)' => \A s \in Tabs : RunMoves(s)
  BY <1>1, <1>4, OneRun
<1>6. TypeOK'
  BY <1>1, <1>5, InvTypes, TypePartsNext
<1>7. RunOK(t)'
  <2>1. drain[t].done \subseteq ToSet(log)
    BY DEF IInv, RunOK
  <2> QED BY <1>1, <1>4, <1>5, <2>1, EmptyRun
<1> QED BY <1>1, <1>5, <1>6, <1>7, StillMoves, CallsStay DEF Moves

LEMMA PassMoves ==
  ASSUME IInv, NEW t \in Tabs, Pass(t)
  PROVE  TypeOK' /\ Moves
<1> DEFINE d == Checked(drain[t], Due(t))
<1>1. /\ AtGate(t) /\ (Due(t) \in d.present => Due(t) \in Undos)
      /\ drain' = [drain EXCEPT ![t] = Onward(d)]
      /\ queue' = IF Due(t) \in d.present THEN Without(queue, {Due(t)}) ELSE queue
      /\ UNCHANGED <<side, line, op, wire, log, told, faults>>
  BY DEF Pass
<1>2. /\ d \in RunType /\ d.rest = drain[t].rest /\ d.done = drain[t].done
      /\ ToSet(drain[t].rest) \cap Edits \subseteq d.present \cup Landed
  BY <1>1, CheckedKnows
<1> HIDE DEF d
<1>3. /\ Due(t) \in Commands /\ Due(t) \in ToSet(drain[t].rest) /\ drain[t].rest # <<>>
  BY <1>1, DueOut DEF AtGate
<1>4. Landed' = Landed /\ log' = log
  BY <1>1 DEF Landed
<1>5. Due(t) \in Edits => Due(t) \notin d.present /\ Due(t) \in Landed'
  BY <1>1, <1>2, <1>3, <1>4, QueueAssumption
<1>6. d.done \subseteq ToSet(log')
  BY <1>2, <1>4 DEF IInv, RunOK
<1>7. drain' \in [Tabs -> RunType] /\ \A s \in Tabs : RunMoves(s)
  BY <1>1, <1>2, <1>3, <1>4, <1>5, <1>6, OnwardKeeps
<1>8. queue' \in Seq(Commands) /\ IsInjective(queue')
  BY <1>1, InvTypes, WithoutKeeps
<1>9. TypeOK'
  BY <1>1, <1>7, <1>8, InvTypes, TypePartsNext
<1>10. QueueMoves
  <2>1. {Due(t)} \in SUBSET Commands
    BY <1>3
  <2>2. Due(t) \in d.present => {Due(t)} \cap Rows \cap Edits \subseteq Landed'
    BY <1>5
  <2> QED BY <1>1, <2>1, <2>2 DEF QueueMoves
<1> QED BY <1>1, <1>7, <1>9, <1>10, StillMoves, CallsStay DEF Moves

LEMMA ClaimMoves ==
  ASSUME IInv, NEW t \in Tabs, Claim(t)
  PROVE  TypeOK' /\ Moves
<1> DEFINE d == Checked(drain[t], Due(t))
           e == [d EXCEPT !.at = "claim"]
<1>1. /\ AtGate(t) /\ drain' = [drain EXCEPT ![t] = e] /\ Request(t)
      /\ UNCHANGED <<side, queue, op, wire, log, told, faults>>
  BY DEF Claim
<1>2. /\ d \in RunType /\ d.rest = drain[t].rest /\ d.done = drain[t].done
      /\ ToSet(drain[t].rest) \cap Edits \subseteq d.present \cup Landed
  BY <1>1, CheckedKnows
<1> HIDE DEF d
<1>3. /\ e \in RunType /\ e.at = "claim" /\ e.rest = drain[t].rest
      /\ e.done = drain[t].done /\ e.present = d.present
  BY <1>2 DEF RunType
<1> HIDE DEF e
<1>4. /\ drain' \in [Tabs -> RunType] /\ drain'[t] = e
      /\ RunOK(t)' => \A s \in Tabs : RunMoves(s)
  BY <1>1, <1>3, OneRun
<1>5. line' \in Seq(SUBSET (Commands \cup Tabs))
  BY <1>1, InvTypes, LineKept
<1>6. TypeOK'
  BY <1>1, <1>4, <1>5, InvTypes, TypePartsNext
<1>7. RunOK(t)'
  <2>1. RunOK(t) /\ drain[t].rest # <<>>
    BY <1>1 DEF IInv, AtGate
  <2>2. Landed' = Landed
    BY <1>1 DEF Landed
  <2> QED BY <1>1, <1>2, <1>3, <1>4, <2>1, <2>2 DEF RunOK, Out
<1> QED BY <1>1, <1>4, <1>6, <1>7, StillMoves, CallsStay DEF Moves

LEMMA ReplayMoves ==
  ASSUME IInv, NEW t \in Tabs, Replay(t)
  PROVE  TypeOK' /\ Moves
<1> DEFINE e == [drain[t] EXCEPT !.at = "posted"]
<1>1. drain[t].at = "claim" /\ drain[t].rest # <<>> /\ RunOK(t)
  BY DEF Replay, IInv, RunOK
<1>2. PICK c \in Commands :
        c = Due(t) /\ Out(c) /\ op[c].saved /\ op[c].ahead \subseteq Landed
  BY <1>1, DueOut
<1>3. /\ drain' = [drain EXCEPT ![t] = e]
      /\ queue' = IF side.guest THEN AdmitRow(queue, c) ELSE queue
      /\ wire' = wire \cup {Post(c, t)}
      /\ UNCHANGED <<side, line, op, log, told, faults>>
  BY <1>2 DEF Replay
<1>4. /\ e \in RunType /\ e.at = "posted" /\ e.rest = drain[t].rest
      /\ e.done = drain[t].done /\ e.present = drain[t].present
  <2>1. drain[t] \in RunType
    BY InvTypes
  <2> QED BY <2>1 DEF RunType
<1> HIDE DEF e
<1>5. /\ drain' \in [Tabs -> RunType] /\ drain'[t] = e
      /\ RunOK(t)' => \A s \in Tabs : RunMoves(s)
  BY <1>3, <1>4, OneRun
<1>6. queue' \in Seq(Commands) /\ IsInjective(queue')
  BY <1>3, InvTypes, AdmitKeeps
<1>7. wire' \subseteq [cmd : Commands, by : Tabs \cup {Live, Gone}]
  BY <1>3, InvTypes DEF Post
<1>8. TypeOK'
  BY <1>3, <1>5, <1>6, <1>7, InvTypes, TypePartsNext
<1>9. Landed' = Landed /\ Out(c)' /\ op' = op
  BY <1>2, <1>3 DEF Landed, Out
<1>10. RunOK(t)'
  BY <1>1, <1>3, <1>4, <1>5, <1>9 DEF RunOK, Out
<1>11. QueueMoves
  BY <1>2, <1>3, <1>9 DEF QueueMoves
<1>12. WireMoves
  <2>1. Post(c, t).cmd = c
    BY DEF Post
  <2> QED BY <1>2, <1>3, <1>9, <2>1 DEF WireMoves
<1> QED BY <1>3, <1>5, <1>8, <1>10, <1>11, <1>12, StillMoves, CallsStay DEF Moves

LEMMA AnsweredMoves ==
  ASSUME IInv, NEW t \in Tabs, Answered(t)
  PROVE  TypeOK' /\ Moves
<1> DEFINE c == Due(t)
<1>1. PICK answer \in {"ok", "refused"} :
        /\ drain[t].at = "posted" /\ Answer(c, answer) /\ Tell(c, answer)
        /\ wire' = wire \ {Post(c, t)}
        /\ queue' = IF side.guest \/ answer = "refused" THEN Without(queue, {c}) ELSE queue
        /\ drain' = [drain EXCEPT ![t] = Onward(IF answer = "ok"
                       THEN [drain[t] EXCEPT !.done = @ \cup {c}] ELSE drain[t])]
        /\ line' = LineWithout({t})
        /\ UNCHANGED <<side, op>>
  BY DEF Answered
<1> DEFINE d == IF answer = "ok" THEN [drain[t] EXCEPT !.done = @ \cup {c}] ELSE drain[t]
<1>2. RunOK(t) /\ drain[t].rest # <<>>
  BY <1>1 DEF IInv, RunOK
<1>3. c \in Commands /\ Out(c) /\ op[c].ahead \subseteq Landed
  BY <1>2, DueOut
<1>4. /\ LogMoves /\ log' \in Seq(Commands) /\ IsInjective(log')
      /\ ToSet(log) \subseteq ToSet(log')
      /\ faults' \in 0..MaxFaults
      /\ answer = "ok" => c \in ToSet(log')
  BY <1>1, <1>3, AnswerMoves
<1>5. told \subseteq told' /\ told' \subseteq Edits /\ (c \in Edits => c \in Landed')
  BY <1>1, <1>4, InvTypes DEF Tell, Landed
<1>6. Landed \subseteq Landed'
  BY <1>4, <1>5 DEF Landed
<1>7. /\ d \in RunType /\ d.rest = drain[t].rest /\ d.present = drain[t].present
      /\ d.done = drain[t].done \/ (answer = "ok" /\ d.done = drain[t].done \cup {c})
  <2>1. drain[t] \in RunType
    BY InvTypes
  <2> QED BY <1>3, <2>1 DEF RunType
<1>8. drain' = [drain EXCEPT ![t] = Onward(d)]
  BY <1>1
<1> HIDE DEF d
<1>9. drain' \in [Tabs -> RunType] /\ \A s \in Tabs : RunMoves(s)
  <2>1. d.done \subseteq ToSet(log')
    BY <1>2, <1>4, <1>7 DEF RunOK
  <2>2. ToSet(d.rest) \cap Edits \subseteq d.present \cup Landed
    BY <1>1, <1>2, <1>7 DEF RunOK
  <2> QED BY <1>1, <1>2, <1>5, <1>6, <1>7, <1>8, <2>1, <2>2, OnwardKeeps
<1> HIDE DEF c
<1>10. queue' \in Seq(Commands) /\ IsInjective(queue')
  BY <1>1, InvTypes, WithoutKeeps
<1>11. TypeOK'
  <2>1. line' \in Seq(SUBSET (Commands \cup Tabs))
    BY <1>1, InvTypes, LineKept
  <2>2. wire' \subseteq [cmd : Commands, by : Tabs \cup {Live, Gone}]
    BY <1>1, InvTypes
  <2> QED BY <1>1, <1>4, <1>5, <1>9, <1>10, <2>1, <2>2, InvTypes, TypePartsNext
<1>12. QueueMoves
  <2>1. {c} \in SUBSET Commands /\ {c} \cap Rows \cap Edits \subseteq Landed'
    BY <1>3, <1>5
  <2> QED BY <1>1, <2>1 DEF QueueMoves
<1>13. WireMoves
  BY <1>1 DEF WireMoves
<1> QED BY <1>1, <1>4, <1>5, <1>9, <1>11, <1>12, <1>13, CallsStay DEF Moves

LEMMA UncertainMoves ==
  ASSUME IInv, NEW t \in Tabs, Uncertain(t)
  PROVE  TypeOK' /\ Moves
<1> DEFINE d == Stopped(drain[t])
<1>1. /\ Fault /\ wire' = Orphaned({Post(Due(t), t)})
      /\ drain[t].at = "posted" /\ drain' = [drain EXCEPT ![t] = d] /\ line' = LineWithout({t})
      /\ UNCHANGED <<side, queue, op, log, told>>
  BY DEF Uncertain, AfterUnsure
<1>2. RunOK(t) /\ drain[t].rest # <<>>
  BY <1>1 DEF IInv, RunOK
<1>3. PICK c \in Commands : c = Due(t) /\ Out(c) /\ op[c].ahead \subseteq Landed
  BY <1>2, DueOut
<1>4. d \in RunType /\ d.at = "end" /\ d.rest = <<>> /\ d.done = drain[t].done
  BY InvTypes, RunsKept
<1> HIDE DEF d
<1>5. /\ drain' \in [Tabs -> RunType] /\ drain'[t] = d
      /\ RunOK(t)' => \A s \in Tabs : RunMoves(s)
  BY <1>1, <1>4, OneRun
<1>6. RunOK(t)'
  BY <1>1, <1>2, <1>4, <1>5, EmptyRun DEF RunOK
<1>7. \A p \in wire' : p \in wire \/ p = Post(c, Gone)
  BY <1>1, <1>3 DEF Orphaned, Post
<1>8. Post(c, Gone).cmd = c /\ Post(c, Gone) \in [cmd : Commands, by : Tabs \cup {Live, Gone}]
  BY DEF Post
<1>9. WireMoves
  <2>1. Out(c)' /\ op'[c].ahead \subseteq Landed'
    BY <1>1, <1>3 DEF Out, Landed
  <2> QED BY <1>7, <1>8, <2>1 DEF WireMoves
<1>10. TypeOK'
  <2>1. line' \in Seq(SUBSET (Commands \cup Tabs)) /\ faults' \in 0..MaxFaults
    BY <1>1, InvTypes, LineKept, FaultTyped
  <2>2. wire' \subseteq [cmd : Commands, by : Tabs \cup {Live, Gone}]
    BY <1>7, <1>8, InvTypes
  <2> QED BY <1>1, <1>5, <2>1, <2>2, InvTypes, TypePartsNext
<1> QED BY <1>1, <1>5, <1>6, <1>9, <1>10, StillMoves, CallsStay DEF Moves

LEMMA EndPassMoves ==
  ASSUME IInv, NEW t \in Tabs, EndPass(t)
  PROVE  TypeOK' /\ Moves
<1>1. /\ queue' = Without(queue, drain[t].done)
      /\ UNCHANGED <<side, line, wire, log, told, faults>>
  BY DEF EndPass
<1>2. drain[t] \in RunType /\ drain[t].done \subseteq ToSet(log)
  BY InvTypes DEF IInv, RunOK
<1>3. queue' \in Seq(Commands) /\ IsInjective(queue')
  BY <1>1, InvTypes, WithoutKeeps
<1>4. QueueMoves
  <2>1. drain[t].done \in SUBSET Commands
    BY <1>2 DEF RunType
  <2>2. drain[t].done \cap Rows \cap Edits \subseteq Landed'
    BY <1>1, <1>2 DEF Landed
  <2> QED BY <1>1, <2>1, <2>2 DEF QueueMoves
<1>5. CASE drain[t].again
  <2> DEFINE base == NoRun(drain[t].awaited)
             d == Asked(base)
  <2>1. drain' = [drain EXCEPT ![t] = d] /\ op' = op
    BY <1>5 DEF EndPass
  <2>2. base \in RunType /\ base.rest = <<>> /\ base.at = "idle" /\ base.done = {}
    BY <1>2, RunsKept DEF NoRun
  <2> HIDE DEF base
  <2>3. d \in RunType /\ d.rest = <<>> /\ d.at = "idle" /\ d.done = {}
    BY <2>2, NotesKeep DEF SameRun
  <2> HIDE DEF d
  <2>4. /\ drain' \in [Tabs -> RunType] /\ drain'[t] = d
        /\ RunOK(t)' => \A s \in Tabs : RunMoves(s)
    BY <2>1, <2>3, OneRun
  <2>5. RunOK(t)'
    BY <2>3, <2>4, EmptyRun
  <2>6. TypeOK'
    BY <1>1, <1>3, <2>1, <2>4, InvTypes, TypePartsNext
  <2> QED BY <1>1, <1>4, <2>1, <2>4, <2>5, <2>6, StillMoves, CallsStay DEF Moves
<1>6. CASE ~drain[t].again
  <2>1. EndRun(t)
    BY <1>6 DEF EndPass
  <2>2. /\ op' \in [Commands -> CallType] /\ drain' \in [Tabs -> RunType]
        /\ \A c \in Commands : SameCall(op[c], op'[c])
        /\ \A s \in Tabs \ {t} : drain'[s] = drain[s]
        /\ drain'[t].at = "idle" /\ drain'[t].rest = <<>> /\ drain'[t].done = {}
    BY <2>1, InvTypes, EndRunKeeps
  <2>3. RunOK(t)'
    BY <2>2, EmptyRun
  <2>4. \A s \in Tabs : RunMoves(s)
    BY <2>2, <2>3 DEF RunMoves, SameRun
  <2>5. TypeOK'
    BY <1>1, <1>3, <2>2, InvTypes, TypePartsNext
  <2> QED BY <1>1, <1>4, <2>2, <2>4, <2>5, StillMoves DEF Moves, CallMoves
<1> QED BY <1>5, <1>6

-----------------------------------------------------------------------------
LEMMA IInvInit == ASSUME Init PROVE IInv
<1>1. /\ side \in Sides /\ queue = <<>> /\ line = <<>> /\ log = <<>>
      /\ op = [c \in Commands |-> Unsent] /\ drain = [t \in Tabs |-> NoRun({})]
      /\ wire = {} /\ told = {} /\ faults = 0
  BY DEF Init
<1>2. Unsent \in CallType /\ NoRun({}) \in RunType
  BY DEF Unsent, CallType, NoRun, RunType
<1>3. /\ <<>> \in Seq(Commands) /\ <<>> \in Seq(SUBSET (Commands \cup Tabs))
      /\ IsInjective(<<>>) /\ ToSet(<<>>) = {} /\ 0 \in 0..MaxFaults
  BY QueueAssumption DEF IsInjective, ToSet
<1>4. TypeOK
  BY <1>1, <1>2, <1>3, TypeParts
<1>5. QueueOK /\ WireOK /\ LogOK
  BY <1>1, <1>3 DEF QueueOK, WireOK, LogOK, BehindIn, NoOvertaking, Rows
<1>6. ASSUME NEW t \in Tabs PROVE RunOK(t)
  <2>1. drain[t].rest = <<>> /\ drain[t].at = "idle" /\ drain[t].done = {}
    BY <1>1 DEF NoRun
  <2>2. BehindIn(<<>>, op, Landed)
    BY DEF BehindIn
  <2> QED BY <1>3, <2>1, <2>2 DEF RunOK
<1>7. ASSUME NEW c \in Commands PROVE CallOK(c)
  <2>1. op[c].at = "idle" /\ op[c].saved = FALSE /\ op[c].ahead = {}
    BY <1>1 DEF Unsent
  <2> QED BY <2>1 DEF CallOK
<1> QED BY <1>4, <1>5, <1>6, <1>7 DEF IInv

LEMMA IInvNext == ASSUME IInv, [Next]_vars PROVE IInv'
<1>1. ASSUME NEW c \in Commands, LiveStep(c) PROVE TypeOK' /\ Moves
  <2>1. CASE Admit(c)
    BY <2>1, AdmitMoves
  <2>2. CASE FallBehind(c)
    BY <2>2, FallBehindMoves
  <2>3. CASE Look(c)
    BY <2>3, LookMoves
  <2>4. CASE Settle(c)
    BY <2>4, SettleMoves
  <2>5. CASE AskLock(c)
    BY <2>5, AskLockMoves
  <2>6. CASE Enter(c)
    BY <2>6, EnterMoves
  <2>7. CASE LookUndo(c)
    BY <2>7, LookUndoMoves
  <2> QED BY <1>1, <2>1, <2>2, <2>3, <2>4, <2>5, <2>6, <2>7 DEF LiveStep
<1>2. ASSUME NEW t \in Tabs, DrainStep(t) PROVE TypeOK' /\ Moves
  <2>1. CASE ReadQueue(t)
    BY <2>1, ReadQueueMoves
  <2>2. CASE MarkLive(t)
    BY <2>2, MarkLiveMoves
  <2>3. CASE Stop(t)
    BY <2>3, StopMoves
  <2>4. CASE Pass(t)
    BY <2>4, PassMoves
  <2>5. CASE Claim(t)
    BY <2>5, ClaimMoves
  <2>6. CASE Replay(t)
    BY <2>6, ReplayMoves
  <2>7. CASE Answered(t)
    BY <2>7, AnsweredMoves
  <2>8. CASE EndPass(t)
    BY <2>8, EndPassMoves
  <2> QED BY <1>2, <2>1, <2>2, <2>3, <2>4, <2>5, <2>6, <2>7, <2>8 DEF DrainStep
<1>3. ASSUME NEW c \in Commands, Unsaved(c) \/ GiveUp(c) \/ Unsure(c)
      PROVE  TypeOK' /\ Moves
  BY <1>3, UnsavedMoves, GiveUpMoves, UnsureMoves
<1>4. ASSUME NEW t \in Tabs, Uncertain(t) \/ Reload(t) PROVE TypeOK' /\ Moves
  BY <1>4, UncertainMoves, ReloadMoves
<1>5. ASSUME NEW t \in Tabs, NEW c \in Commands, Begin(t, c) \/ Press(t, c)
      PROVE  TypeOK' /\ Moves
  BY <1>5, BeginMoves, PressMoves
<1>6. CASE UNCHANGED vars
  <2>1. /\ UNCHANGED <<side, queue, line, op, drain, wire, log, told, faults>>
    BY <1>6 DEF vars
  <2>2. TypeOK'
    BY <2>1, InvTypes, TypePartsNext
  <2> QED BY <2>1, <2>2, StillMoves, CallsStay, MovesKeep DEF Moves
<1>7. CASE Next
  BY <1>1, <1>2, <1>3, <1>4, <1>5, <1>7, OrphanMoves, MovesKeep DEF Next, Sent, Drained
<1> QED BY <1>6, <1>7

LEMMA IInvAlways == Spec => []IInv
<1>1. Init => IInv
  BY IInvInit
<1>2. IInv /\ [Next]_vars => IInv'
  BY IInvNext
<1> QED BY <1>1, <1>2, PTL DEF Spec

(* Whatever is sent, replayed, lost or reloaded, every variable keeps its  *)
(* type, no command has two rows in the queue, and the server applies none *)
(* twice.                                                                  *)
THEOREM TypesKept == Spec => []TypeOK
<1>1. IInv => TypeOK
  BY DEF IInv
<1> QED BY <1>1, IInvAlways, PTL

(* In any number of tabs, with any edits and undos, a command does not     *)
(* land before an edit queued ahead of it or in flight when Undo was       *)
(* pressed, unless that edit's sender was told that it did not land.       *)
THEOREM OrderKept == Spec => []NoOvertaking
<1>1. IInv => NoOvertaking
  BY DEF IInv, LogOK
<1> QED BY <1>1, IInvAlways, PTL
=============================================================================
