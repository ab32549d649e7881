--------------------------- MODULE DataflowProofs ---------------------------
(***************************************************************************)
(* Proofs about Dataflow, for every shape of a node, number of threads and *)
(* number of generations before the tags repeat.                           *)
(***************************************************************************)
EXTENDS Dataflow, DataLemmas

-----------------------------------------------------------------------------
(***************************************************************************)
(* The inductive invariant.  What keeps an instance from being released    *)
(* twice differs: behind a barrier it is the counter of its group, which   *)
(* reaches 0 once; otherwise its sent flag.  Seal names the one that       *)
(* counts for the node, and everything released is sealed.                 *)
(***************************************************************************)

Groups == 0 .. entry.num_groups - 1
GroupOf(g) == GroupInstances(n, entry, g)
ByCounter == has_barrier(n) /\ ~n.cond

\* Instance i cannot be released any more in this frame.
Sealed(i) ==
  IF ByCounter
  THEN \A g \in Groups : i \in GroupOf(g) => Value(remaining_deps[g], entry.deps_per_group) = 0
  ELSE Value(instances_sent[i], 0) = 1

\* Tags name this generation or an earlier one since the last sweep.
Tagged(packed) == packed.gen \in 0 .. slot_gen

CountersInv ==
  /\ n \in Shapes /\ inline_continuation \in BOOLEAN /\ bumps \in Nat
  /\ DOMAIN remaining_deps = Groups /\ \A g \in Groups : Tagged(remaining_deps[g])
  /\ DOMAIN instances_sent = Instances(n) /\ \A i \in Instances(n) : Tagged(instances_sent[i])
  /\ Tagged(fanout_bulk_arrived)

\* A predecessor's job has a length, a decrement a counter to go to.
CountOK(j) == IsPred(j) => j.count \in Nat
JobsInv ==
  /\ \A j \in queue : CountOK(j)
  /\ \A j \in batch_queue : j.count \in Nat
  /\ DOMAIN job = Threads /\ \A t \in Threads : CountOK(job[t])
  /\ DOMAIN ops = Threads
  /\ \A t \in Threads : \A op \in ops[t] : op.group \in Groups /\ op.count \in Nat
  /\ DOMAIN claims = Threads
  /\ \A t \in Threads : claims[t] \subseteq Instances(n) /\ (ByCounter => claims[t] = {})

\* A thread holds ready instances only while it resolves.
ControlInv ==
  /\ DOMAIN pc = Threads
  /\ \A t \in Threads :
       /\ pc[t] \notin {"resolve", "reset_sent"} => ready[t] = <<>>
       /\ pc[t] = "reset_sent" => n.cond /\ ready[t] # <<>>

\* `came` are the instances counted by fanout_bulk_arrived in this frame.
ReleaseInv(came) ==
  /\ DOMAIN ready = Threads
  /\ \A t \in Threads :
       /\ ready[t] \in Seq(Instances(n)) /\ IsInjective(ready[t])
       /\ \A i \in Range(ready[t]) : Sealed(i) /\ log[i].times = 0 /\ i \notin came
  /\ \A t, u \in Threads : t # u => Range(ready[t]) \cap Range(ready[u]) = {}
  /\ DOMAIN log = Instances(n)
  /\ \A i \in Instances(n) : log[i].times \in {0, 1} /\ (log[i].times = 1 => Sealed(i))
  /\ came \subseteq Instances(n) /\ \A i \in came : Sealed(i)
  /\ fanout_bulk_eligible =>
       /\ Value(fanout_bulk_arrived, 0) = Cardinality(came)
       /\ came = Instances(n) \/ \A i \in Instances(n) : log[i].times = 0

FireInv ==
  CountersInv /\ JobsInv /\ ControlInv /\ \E came \in SUBSET Instances(n) : ReleaseInv(came)

-----------------------------------------------------------------------------
(* Numbers *)

LEMMA MinPair ==
  ASSUME NEW a \in Nat, NEW b \in Nat
  PROVE  Min({a, b}) = IF a <= b THEN a ELSE b
<1>1. Min({a, b}) \in {a, b} /\ \A k \in {a, b} : Min({a, b}) <= k
  BY LeastElement
<1> QED BY <1>1

\* A finite set of numbers has a greatest element: the one of the highest rank.
LEMMA FiniteMax ==
  ASSUME NEW S, \A k \in S : k \in Nat, IsFiniteSet(S), S # {}
  PROVE  Max(S) \in S /\ \A k \in S : k <= Max(S)
<1> DEFINE R == {r \in Nat \X Nat : r[1] < r[2]}
<1>1. \A x, y \in S : <<x, y>> \in R <=> x < y
  OBVIOUS
<1> HIDE DEF R
<1>2. StrictOrder(S, R)
  BY <1>1 DEF StrictOrder
<1>3. Cardinality(S) \in Nat \ {0}
  BY FS_CardinalityType, FS_EmptySet
<1>4. PICK x \in S : RankIn(S, R, x) = Cardinality(S) - 1
  <2>1. /\ \A x \in S : RankIn(S, R, x) \in 0 .. Cardinality(S) - 1
        /\ \A x, y \in S : RankIn(S, R, x) = RankIn(S, R, y) => x = y
        /\ \A k \in 0 .. Cardinality(S) - 1 : \E x \in S : RankIn(S, R, x) = k
    BY <1>2, RankOrder
  <2> QED BY <1>3, <2>1
<1> DEFINE below == {y \in S : <<y, x>> \in R}
<1>5. Cardinality(below) = Cardinality(S) - 1
  BY <1>4 DEF RankIn
<1>6. IsFiniteSet(S \ {x}) /\ Cardinality(S \ {x}) = Cardinality(S) - 1
  BY FS_RemoveElement
<1>7. below \in SUBSET (S \ {x})
  BY <1>1
<1>8. below = S \ {x}
  <2> HIDE DEF below
  <2> QED BY <1>5, <1>6, <1>7, FS_Subset
<1>9. ASSUME NEW y \in S PROVE x >= y
  <2>1. y = x \/ y \in below
    <3> HIDE DEF below
    <3> QED BY <1>8
  <2>2. y \in below => y < x
    BY <1>1
  <2>3. x \in Nat /\ y \in Nat
    OBVIOUS
  <2> HIDE DEF below
  <2> QED BY <2>1, <2>2, <2>3
<1> QED BY <1>9 DEF Max

LEMMA ProductMonotone ==
  ASSUME NEW a \in Nat, NEW b \in Nat, NEW c \in Nat, a <= b
  PROVE  a * c <= b * c /\ a * c \in Nat /\ b * c \in Nat
<1>1. b - a \in Nat
  OBVIOUS
<1>2. (b - a) * c \in Nat
  BY <1>1
<1>3. b * c = a * c + (b - a) * c
  BY <1>1
<1> QED BY <1>2, <1>3

\* The tag of the next generation.
LEMMA NextGeneration ==
  ASSUME NEW b \in Nat
  PROVE  /\ b % GenSpace \in 0 .. GenSpace - 1
         /\ (b + 1) % GenSpace = IF b % GenSpace = GenSpace - 1 THEN 0 ELSE (b % GenSpace) + 1
<1> DEFINE q == b \div GenSpace
           r == b % GenSpace
           q2 == (b + 1) \div GenSpace
           r2 == (b + 1) % GenSpace
<1>1. PICK G \in Nat \ {0} : G = GenSpace
  BY DataflowAssumption
<1>2. q \in Int /\ r \in 0 .. G - 1 /\ b = G * q + r
  BY <1>1
<1>3. q2 \in Int /\ r2 \in 0 .. G - 1 /\ b + 1 = G * q2 + r2
  BY <1>1
<1> HIDE DEF q, r, q2, r2
<1>4. G * q2 = G * q + G * (q2 - q) /\ G * (q2 - q) = r + 1 - r2
  BY <1>1, <1>2, <1>3
<1>5. q2 - q = 0 \/ q2 - q = 1
  <2>1. CASE q2 - q >= 2
    <3>1. G * (q2 - q) >= G * 2
      BY <1>2, <1>3, <2>1
    <3> QED BY <1>2, <1>3, <1>4, <3>1
  <2>2. CASE q2 - q <= -1
    <3>1. G * (q2 - q) <= -G
      BY <1>2, <1>3, <2>2
    <3> QED BY <1>2, <1>3, <1>4, <3>1
  <2> QED BY <1>2, <1>3, <2>1, <2>2
<1>6. r2 = IF r = G - 1 THEN 0 ELSE r + 1
  <2>1. CASE q2 - q = 0
    BY <1>2, <1>3, <1>4, <2>1
  <2>2. CASE q2 - q = 1
    BY <1>2, <1>3, <1>4, <2>2
  <2> QED BY <1>5, <2>1, <2>2
<1> QED BY <1>1, <1>2, <1>6 DEF r, r2

-----------------------------------------------------------------------------
(* Shapes *)

LEMMA ArgFacts ==
  ASSUME NEW m \in Shapes
  PROVE  /\ m.factor \in Nat \ {0} /\ m.group_size \in Nat /\ m.cond \in BOOLEAN
         /\ IsFiniteSet(Arg(m))
         /\ \A a \in Arg(m) : Len(a.indexes) \in Nat /\ a.group_by \in Nat
         /\ \A p \in PredsOf(m) : m.pf[p] \in Nat
         /\ m.net \subseteq PredsOf(m)
<1> DEFINE A == [kind : {"res", "dep", "barrier"}, pred : STRING, indexes : Seq(Nat), group_by : Nat]
<1>1. m.args \in Seq(A)
  BY DataflowAssumption
<1>2. \A a \in A : Len(a.indexes) \in Nat /\ a.group_by \in Nat
  OBVIOUS
<1> HIDE DEF A
<1>3. DOMAIN m.args = 1 .. Len(m.args) /\ Len(m.args) \in Nat /\ \A k \in DOMAIN m.args : m.args[k] \in A
  BY <1>1
<1>4. \A a \in Arg(m) : a \in A
  BY <1>3 DEF Arg, Range
<1>5. IsFiniteSet(Arg(m))
  <2>1. m.args \in Surjection(1 .. Len(m.args), Arg(m))
    BY <1>1, <1>3 DEF Surjection, Arg, Range
  <2>2. IsFiniteSet(1 .. Len(m.args))
    BY <1>3, FS_Interval
  <2> QED BY <2>1, <2>2, FS_Surjection
<1> QED BY <1>2, <1>4, <1>5, DataflowAssumption

\* The groups of a counter are not empty, and neither are the groups of a node.
LEMMA EntryFacts ==
  ASSUME NEW m \in Shapes
  PROVE  Entry(m).group_size \in Nat \ {0} /\ Entry(m).num_groups \in Nat \ {0}
<1> DEFINE grouped == {a \in Arg(m) : IsBarrier(a) /\ a.group_by # None}
           lens == {Len(a.indexes) : a \in grouped}
           sizes == {a.group_by : a \in grouped}
           groups == Max(lens) \div Max(sizes)
           gs == effective_group_size(m)
<1>1. m.factor \in Nat \ {0} /\ m.group_size \in Nat
  BY ArgFacts
<1>2. ASSUME grouped # {} PROVE groups \in Nat
  <2>1. IsFiniteSet(grouped)
    BY ArgFacts, FS_Subset
  <2>2. IsFiniteSet(lens) /\ lens # {} /\ \A k \in lens : k \in Nat
    <3> DEFINE f == [a \in grouped |-> Len(a.indexes)]
    <3>1. f \in Surjection(grouped, lens)
      BY DEF Surjection
    <3>2. IsFiniteSet(lens)
      <4> HIDE DEF f, lens
      <4> QED BY <2>1, <3>1, FS_Surjection
    <3> QED BY <1>2, <3>2, ArgFacts
  <2>3. IsFiniteSet(sizes) /\ sizes # {} /\ \A k \in sizes : k \in Nat \ {0}
    <3> DEFINE f == [a \in grouped |-> a.group_by]
    <3>1. f \in Surjection(grouped, sizes)
      BY DEF Surjection
    <3>2. IsFiniteSet(sizes)
      <4> HIDE DEF f, sizes
      <4> QED BY <2>1, <3>1, FS_Surjection
    <3> QED BY <1>2, <3>2, ArgFacts DEF None
  <2> HIDE DEF lens, sizes
  <2>4. Max(lens) \in Nat
    BY <2>2, FiniteMax
  <2>5. Max(sizes) \in Nat \ {0}
    BY <2>3, FiniteMax
  <2> QED BY <2>4, <2>5
<1>3. gs = IF has_barrier(m) /\ grouped # {}
           THEN IF groups = 0 THEN m.factor ELSE m.factor \div groups
           ELSE m.group_size
  BY DEF effective_group_size
<1>4. gs \in Nat
  <2> HIDE DEF grouped, groups, gs
  <2> QED BY <1>1, <1>2, <1>3
<1> HIDE DEF grouped, groups, gs
<1>5. gs # 0 /\ gs < m.factor => m.factor \div gs \in Nat \ {0}
  BY <1>1, <1>4
<1>6. /\ Entry(m).group_size = IF gs # None /\ gs < m.factor THEN gs ELSE m.factor
      /\ Entry(m).num_groups = IF gs # None /\ gs < m.factor THEN m.factor \div gs ELSE 1
  BY DEF Entry, gs
<1> QED BY <1>1, <1>4, <1>5, <1>6 DEF None

\* Groups are runs of instances and do not overlap.
LEMMA GroupFacts ==
  ASSUME n \in Shapes
  PROVE  /\ \A g \in Groups : \E lo \in Nat, hi \in Int : GroupOf(g) = lo .. hi
         /\ \A g \in Groups : GroupOf(g) \subseteq Instances(n)
         /\ \A g, h \in Groups : GroupOf(g) \cap GroupOf(h) # {} => g = h
<1>1. PICK size \in Nat \ {0} : size = entry.group_size
  BY EntryFacts DEF entry
<1>2. PICK f \in Nat \ {0} : f = n.factor
  BY ArgFacts
<1>3. \A g \in Groups : g \in Nat
  BY EntryFacts DEF entry, Groups
<1>4. ASSUME NEW g \in Groups
      PROVE  /\ g * size \in Nat /\ (g + 1) * size \in Nat
             /\ GroupOf(g) = g * size .. (IF (g + 1) * size <= f THEN (g + 1) * size ELSE f) - 1
  <2>1. g * size \in Nat /\ (g + 1) * size \in Nat
    BY <1>3, ProductMonotone
  <2>2. Min({(g + 1) * size, f}) = IF (g + 1) * size <= f THEN (g + 1) * size ELSE f
    BY <2>1, MinPair
  <2> QED BY <1>1, <1>2, <2>1, <2>2 DEF GroupOf, GroupInstances
<1>5. ASSUME NEW g \in Groups PROVE \E lo \in Nat, hi \in Int : GroupOf(g) = lo .. hi
  BY <1>2, <1>4
<1>6. ASSUME NEW g \in Groups PROVE GroupOf(g) \subseteq Instances(n)
  BY <1>2, <1>4 DEF Instances
<1>7. ASSUME NEW g \in Groups, NEW h \in Groups, g < h PROVE GroupOf(g) \cap GroupOf(h) = {}
  <2>1. (g + 1) * size <= h * size
    BY <1>3, <1>7, ProductMonotone
  <2>2. g * size \in Nat /\ (g + 1) * size \in Nat /\ h * size \in Nat /\ (h + 1) * size \in Nat
    BY <1>4
  <2>3. \A i \in GroupOf(g) : i \in Int /\ i < (g + 1) * size
    BY <1>2, <1>4, <2>2
  <2>4. \A i \in GroupOf(h) : i \in Int /\ i >= h * size
    BY <1>2, <1>4, <2>2
  <2> QED BY <2>1, <2>2, <2>3, <2>4
<1> QED BY <1>3, <1>5, <1>6, <1>7

-----------------------------------------------------------------------------
(* Runs of instances and chunks *)

\* The chunks of a run stay inside it and do not overlap.
LEMMA ChunkRuns ==
  ASSUME NEW start \in Nat, NEW total \in Nat, NEW parts \in Nat \ {0}
  PROVE  /\ \A r \in Chunks(start, total, parts) :
              /\ r[1] \in Nat /\ r[2] \in Nat
              /\ start <= r[1] /\ r[1] + r[2] <= start + total
         /\ \A r, s \in Chunks(start, total, parts) : \A i \in Int :
              /\ i \in r[1] .. r[1] + r[2] - 1
              /\ i \in s[1] .. s[1] + s[2] - 1
              => r = s
<1> DEFINE base == total \div parts
           extra == total % parts
           count(c) == base + (IF c < extra THEN 1 ELSE 0)
           offset(c) == c * base + Min({c, extra})
           least(c) == IF c <= extra THEN c ELSE extra
           Ids == 0 .. parts - 1
<1>1. base \in Nat /\ extra \in Nat /\ extra < parts /\ total = parts * base + extra
  BY DEF base, extra
<1>2. Chunks(start, total, parts) = {<<start + offset(c), count(c)>> : c \in Ids}
  BY DEF Chunks
<1> HIDE DEF base, extra
<1>3. ASSUME NEW c \in Nat
      PROVE  /\ c * base \in Nat /\ (c + 1) * base = c * base + base
             /\ offset(c) = c * base + least(c) /\ count(c) \in Nat
  <2>1. c * base \in Nat /\ (c + 1) * base = c * base + base
    BY <1>1
  <2>2. Min({c, extra}) = least(c)
    BY <1>1, MinPair
  <2> QED BY <1>1, <2>1, <2>2
<1>4. ASSUME NEW c \in Ids, NEW d \in Nat, c < d
      PROVE  offset(c) + count(c) <= offset(d)
  <2>1. (c + 1) * base <= d * base
    BY <1>1, <1>4, ProductMonotone
  <2>2. c * base \in Nat /\ (c + 1) * base = c * base + base /\ offset(c) = c * base + least(c)
    BY <1>3
  <2>3. d * base \in Nat /\ offset(d) = d * base + least(d)
    BY <1>3
  <2> HIDE DEF offset
  <2> QED BY <1>1, <1>4, <2>1, <2>2, <2>3
<1>5. ASSUME NEW c \in Ids
      PROVE  offset(c) \in Nat /\ count(c) \in Nat /\ offset(c) + count(c) <= total
  <2>1. offset(c) \in Nat /\ count(c) \in Nat
    BY <1>1, <1>3
  <2>2. offset(c) + count(c) <= offset(parts)
    BY <1>4
  <2>3. offset(parts) = total
    <3>1. offset(parts) = parts * base + least(parts)
      BY <1>3
    <3> QED BY <1>1, <3>1
  <2> QED BY <2>1, <2>2, <2>3
<1> HIDE DEF offset, count
<1>6. ASSUME NEW r \in Chunks(start, total, parts)
      PROVE  /\ r[1] \in Nat /\ r[2] \in Nat
             /\ start <= r[1] /\ r[1] + r[2] <= start + total
  <2>1. PICK c \in Ids : r = <<start + offset(c), count(c)>>
    BY <1>2
  <2>2. r[1] = start + offset(c) /\ r[2] = count(c)
    BY <2>1
  <2> QED BY <1>5, <2>2
<1>7. ASSUME NEW r \in Chunks(start, total, parts), NEW s \in Chunks(start, total, parts),
             NEW i \in Int, i \in r[1] .. r[1] + r[2] - 1, i \in s[1] .. s[1] + s[2] - 1
      PROVE  r = s
  <2>1. PICK c \in Ids : r = <<start + offset(c), count(c)>>
    BY <1>2
  <2>2. PICK d \in Ids : s = <<start + offset(d), count(d)>>
    BY <1>2
  <2>3. /\ r[1] = start + offset(c) /\ r[2] = count(c)
        /\ s[1] = start + offset(d) /\ s[2] = count(d)
    BY <2>1, <2>2
  <2>4. /\ start + offset(c) <= i /\ i < start + offset(c) + count(c)
        /\ start + offset(d) <= i /\ i < start + offset(d) + count(d)
    BY <1>5, <1>7, <2>3
  <2>5. ~(c < d) /\ ~(d < c)
    BY <1>4, <1>5, <2>4
  <2>6. c = d
    BY <2>5
  <2> QED BY <2>1, <2>2, <2>6
<1> QED BY <1>6, <1>7

\* Run lists the instances from the first to the last, each once.
LEMMA RunFacts ==
  ASSUME NEW lo \in Nat, NEW hi \in Int
  PROVE  /\ Run(lo .. hi) \in Seq(lo .. hi) /\ IsInjective(Run(lo .. hi))
         /\ Range(Run(lo .. hi)) = lo .. hi
<1> DEFINE c == Cardinality(lo .. hi)
<1>1. c = IF lo > hi THEN 0 ELSE hi - lo + 1
  BY FS_Interval
<1>2. lo <= hi => Min(lo .. hi) = lo
  <2>1. lo <= hi => lo .. hi \in SUBSET Nat /\ lo .. hi # {} /\ lo \in lo .. hi
    OBVIOUS
  <2> QED BY <2>1, LeastElement
<1>3. Run(lo .. hi) = [k \in 1 .. c |-> Min(lo .. hi) + k - 1]
  BY DEF Run
<1> HIDE DEF c
<1>4. Run(lo .. hi) = [k \in 1 .. c |-> lo + k - 1]
  <2>1. ASSUME NEW k \in 1 .. c PROVE Min(lo .. hi) + k - 1 = lo + k - 1
    BY <1>1, <1>2
  <2> QED BY <1>3, <2>1
<1> DEFINE f == [k \in 1 .. c |-> lo + k - 1]
<1>5. f \in Seq(lo .. hi)
  <2>1. c \in Nat /\ \A k \in 1 .. c : lo + k - 1 \in lo .. hi
    BY <1>1
  <2> QED BY <2>1
<1>6. IsInjective(f)
  BY <1>1 DEF IsInjective
<1>7. Range(f) = lo .. hi
  <2>1. ASSUME NEW i \in lo .. hi PROVE i \in Range(f)
    <3>1. i - lo + 1 \in 1 .. c /\ f[i - lo + 1] = i
      BY <1>1
    <3> HIDE DEF f
    <3>2. DOMAIN f = 1 .. c
      BY DEF f
    <3> QED BY <3>1, <3>2 DEF Range
  <2>2. ASSUME NEW i \in Range(f) PROVE i \in lo .. hi
    <3>1. PICK k \in 1 .. c : i = lo + k - 1
      BY DEF Range
    <3> QED BY <1>1, <3>1
  <2> QED BY <2>1, <2>2
<1> QED BY <1>4, <1>5, <1>6, <1>7

-----------------------------------------------------------------------------
(* Jobs *)

\* The jobs have no instance in common, and only instances of S.
Parted(jobs, S) ==
  /\ \A j \in jobs : JobInstances(j) \subseteq S
  /\ \A j, k \in jobs : JobInstances(j) \cap JobInstances(k) # {} => j = k

LEMMA SuccJobFacts ==
  ASSUME NEW r, NEW x
  PROVE  /\ SuccJob(r, x).start = r[1] /\ SuccJob(r, x).count = r[2]
         /\ JobInstances(SuccJob(r, x)) = r[1] .. r[1] + r[2] - 1
         /\ ~IsPred(SuccJob(r, x))
  BY DEF SuccJob, NoJob, JobInstances, IsPred

LEMMA ChunkJobs ==
  ASSUME NEW start \in Nat, NEW total \in Nat, NEW parts \in Nat \ {0}, NEW x
  PROVE  Parted({SuccJob(r, x) : r \in Chunks(start, total, parts)}, start .. start + total - 1)
<1> DEFINE C == Chunks(start, total, parts)
           J == {SuccJob(r, x) : r \in C}
<1>1. /\ \A r \in C : r[1] \in Nat /\ r[2] \in Nat /\ start <= r[1] /\ r[1] + r[2] <= start + total
      /\ \A r, s \in C : \A i \in Int :
           i \in r[1] .. r[1] + r[2] - 1 /\ i \in s[1] .. s[1] + s[2] - 1 => r = s
  BY ChunkRuns
<1> HIDE DEF C
<1>2. ASSUME NEW j \in J PROVE JobInstances(j) \subseteq start .. start + total - 1
  <2>1. PICK r \in C : j = SuccJob(r, x)
    OBVIOUS
  <2>2. JobInstances(j) = r[1] .. r[1] + r[2] - 1
    BY <2>1, SuccJobFacts
  <2> QED BY <1>1, <2>2
<1>3. ASSUME NEW j \in J, NEW k \in J, JobInstances(j) \cap JobInstances(k) # {} PROVE j = k
  <2>1. PICK r \in C : j = SuccJob(r, x)
    OBVIOUS
  <2>2. PICK s \in C : k = SuccJob(s, x)
    OBVIOUS
  <2>3. PICK i : i \in JobInstances(j) /\ i \in JobInstances(k)
    BY <1>3
  <2>4. i \in r[1] .. r[1] + r[2] - 1 /\ i \in s[1] .. s[1] + s[2] - 1
    BY <2>1, <2>2, <2>3, SuccJobFacts
  <2>5. i \in Int
    BY <1>1, <2>4
  <2>6. r = s
    BY <1>1, <2>4, <2>5
  <2> QED BY <2>1, <2>2, <2>6
<1> QED BY <1>2, <1>3 DEF Parted, C

LEMMA SingleJobs ==
  ASSUME NEW S, \A i \in S : i \in Int, NEW x
  PROVE  Parted({SuccJob(<<i, 1>>, x) : i \in S}, S)
<1> DEFINE J == {SuccJob(<<i, 1>>, x) : i \in S}
<1>1. ASSUME NEW i \in S PROVE JobInstances(SuccJob(<<i, 1>>, x)) = {i}
  <2>1. JobInstances(SuccJob(<<i, 1>>, x)) = i .. i + 1 - 1
    BY SuccJobFacts
  <2> QED BY <2>1
<1>2. ASSUME NEW j \in J PROVE JobInstances(j) \subseteq S
  <2>1. PICK i \in S : j = SuccJob(<<i, 1>>, x)
    OBVIOUS
  <2> QED BY <1>1, <2>1
<1>3. ASSUME NEW j \in J, NEW k \in J, JobInstances(j) \cap JobInstances(k) # {} PROVE j = k
  <2>1. PICK i \in S : j = SuccJob(<<i, 1>>, x)
    OBVIOUS
  <2>2. PICK h \in S : k = SuccJob(<<h, 1>>, x)
    OBVIOUS
  <2>3. JobInstances(j) = {i} /\ JobInstances(k) = {h}
    BY <1>1, <2>1, <2>2
  <2>4. i = h
    BY <1>3, <2>3
  <2> QED BY <2>1, <2>2, <2>4
<1> QED BY <1>2, <1>3 DEF Parted

\* What push_ready_chunked makes of the ready instances.
LEMMA ReadyJobs ==
  ASSUME n \in Shapes, NEW t \in Threads, ready[t] \in Seq(Instances(n))
  PROVE  /\ Parted(push_ready_chunked(t), Range(ready[t]))
         /\ \A j \in push_ready_chunked(t) : ~IsPred(j)
         /\ ready[t] = <<>> => push_ready_chunked(t) = {}
<1> DEFINE r == ready[t]
           contiguous == \A k \in DOMAIN r : r[k] = r[1] + k - 1
           w == Cardinality(Workers)
           chunked == t \in Workers /\ contiguous /\ Len(r) > w
           J == {SuccJob(run, job[t].start) : run \in Chunks(r[1], Len(r), w)}
           K == {SuccJob(<<i, 1>>, job[t].start) : i \in Range(r)}
<1>1. push_ready_chunked(t) = IF chunked THEN J ELSE K
  BY DEF push_ready_chunked
<1>2. w \in Nat \ {0}
  BY DataflowAssumption, FS_CardinalityType, FS_EmptySet
<1>3. /\ Len(r) \in Nat /\ DOMAIN r = 1 .. Len(r) /\ \A k \in 1 .. Len(r) : r[k] \in Nat
      /\ \A i \in Range(r) : i \in Int
  <2>1. \A i \in Instances(n) : i \in Nat
    BY ArgFacts DEF Instances
  <2>2. Len(r) \in Nat /\ DOMAIN r = 1 .. Len(r) /\ \A k \in 1 .. Len(r) : r[k] \in Instances(n)
    OBVIOUS
  <2> HIDE DEF r
  <2> QED BY <2>1, <2>2 DEF Range
<1> HIDE DEF r
<1>4. ASSUME chunked PROVE Parted(J, Range(r)) /\ r # <<>>
  <2>1. r[1] \in Nat /\ Len(r) > 0 /\ r # <<>>
    BY <1>2, <1>3, <1>4
  <2> DEFINE a == r[1]
             l == Len(r)
  <2>2. Parted(J, a .. a + l - 1)
    <3>1. a \in Nat /\ l \in Nat
      BY <1>3, <2>1
    <3> HIDE DEF a, l, w
    <3>2. Parted({SuccJob(run, job[t].start) : run \in Chunks(a, l, w)}, a .. a + l - 1)
      BY <1>2, <3>1, ChunkJobs
    <3> QED BY <3>2 DEF a, l
  <2>3. ASSUME NEW i \in r[1] .. r[1] + Len(r) - 1 PROVE i \in Range(r)
    <3>1. i - r[1] + 1 \in 1 .. Len(r)
      BY <1>3, <2>1
    <3>2. r[i - r[1] + 1] = r[1] + (i - r[1] + 1) - 1
      BY <1>3, <1>4, <3>1
    <3>3. r[i - r[1] + 1] = i
      BY <1>3, <2>1, <3>2
    <3> QED BY <1>3, <3>1, <3>3 DEF Range
  <2> HIDE DEF J, w
  <2> QED BY <2>1, <2>2, <2>3 DEF Parted
<1>5. Parted(K, Range(r))
  BY <1>3, SingleJobs
<1>6. r = <<>> => K = {}
  BY <1>3 DEF Range
<1>7. \A j \in J \cup K : ~IsPred(j)
  BY SuccJobFacts
<1> HIDE DEF J, K, chunked
<1> QED BY <1>1, <1>4, <1>5, <1>6, <1>7 DEF r

\* Jobs that are parted count each of their instances once.
LEMMA LoggedTimes ==
  ASSUME NEW jobs, NEW S, Parted(jobs, S), Logged(jobs), DOMAIN log = Instances(n), n \in Shapes,
         \A i \in Instances(n) : log[i].times \in {0, 1},
         \A i \in S \cap Instances(n) : log[i].times = 0
  PROVE  /\ DOMAIN log' = Instances(n)
         /\ \A i \in Instances(n) :
              log'[i].times = log[i].times \/ (i \in S /\ log'[i].times = 1)
         /\ \A i \in Instances(n) : log'[i].times \in {0, 1}
         /\ jobs = {} => \A i \in Instances(n) : log'[i].times = log[i].times
<1> DEFINE mine(i) == {j \in jobs : i \in JobInstances(j)}
<1>1. DOMAIN log' = Instances(n)
  BY DEF Logged
<1>2. ASSUME NEW i \in Instances(n)
      PROVE log'[i].times = log[i].times + Cardinality(mine(i))
  BY DEF Logged
<1>3. ASSUME NEW i \in Instances(n)
      PROVE  /\ log'[i].times = log[i].times \/ (i \in S /\ log'[i].times = 1)
             /\ log'[i].times \in {0, 1}
             /\ jobs = {} => log'[i].times = log[i].times
  <2>1. \A j, k \in mine(i) : j = k
    BY DEF Parted
  <2>2. Cardinality(mine(i)) = IF mine(i) = {} THEN 0 ELSE 1
    <3> HIDE DEF mine
    <3> QED BY <2>1, CountAtMostOne
  <2>3. mine(i) # {} => i \in S
    BY DEF Parted
  <2>4. jobs = {} => mine(i) = {}
    OBVIOUS
  <2> HIDE DEF mine
  <2>5. CASE mine(i) = {}
    <3>1. log[i].times \in {0, 1} /\ log'[i].times = log[i].times + 0
      BY <1>2, <2>2, <2>5
    <3> QED BY <3>1
  <2>6. CASE mine(i) # {}
    <3>1. i \in S \cap Instances(n) /\ jobs # {}
      BY <2>3, <2>4, <2>6
    <3>2. log[i].times = 0 /\ log'[i].times = log[i].times + 1
      BY <1>2, <2>2, <2>6, <3>1
    <3> QED BY <3>1, <3>2
  <2> QED BY <2>5, <2>6
<1> HIDE DEF mine
<1> QED BY <1>1, <1>3

-----------------------------------------------------------------------------
(* Completions and decrements *)

LEMMA PredJobFacts ==
  ASSUME NEW p, NEW r
  PROVE  PredJob(p, r).start = r[1] /\ PredJob(p, r).count = r[2]
  BY DEF PredJob, NoJob

LEMMA WorkersCounted == Cardinality(Workers) \in Nat \ {0}
  BY DataflowAssumption, FS_CardinalityType, FS_EmptySet

LEMMA PredJobCounts ==
  ASSUME n \in Shapes
  PROVE  \A j \in PredJobs(n) : CountOK(j)
<1> DEFINE Runs(p) == IF p \in n.bulk
                      THEN Chunks(0, n.pf[p], Min({n.pf[p], Cardinality(Workers)}))
                      ELSE {<<i, 1>> : i \in 0 .. n.pf[p] - 1}
<1> SUFFICES ASSUME NEW j \in PredJobs(n) PROVE j.count \in Nat
  BY DEF CountOK
<1>0. PICK p \in PredsOf(n) : \E r \in Runs(p) : j = PredJob(p, r)
  BY DEF PredJobs
<1>1. PICK r \in Runs(p) : j = PredJob(p, r)
  BY <1>0
<1>2. PICK pf \in Nat : pf = n.pf[p]
  BY ArgFacts
<1>3. r[2] \in Nat
  <2>1. CASE p \notin n.bulk
    BY <2>1
  <2>2. CASE p \in n.bulk
    <3>1. PICK parts \in Nat : parts = Min({pf, Cardinality(Workers)}) /\ (parts = 0 => pf = 0)
      BY MinPair, WorkersCounted
    <3>2. r \in Chunks(0, pf, parts)
      BY <1>2, <2>2, <3>1
    <3>3. CASE parts = 0
      BY <3>2, <3>3 DEF Chunks
    <3>4. CASE parts # 0
      BY <3>2, <3>4, ChunkRuns
    <3> QED BY <3>3, <3>4
  <2> QED BY <2>1, <2>2
<1> QED BY <1>1, <1>3, PredJobFacts

LEMMA CallsOK ==
  ASSUME NEW cell, NEW group, NEW count \in Nat, NEW specific
  PROVE  \A op \in Calls(cell, group, count, specific) : op.group \in Groups /\ op.count \in Nat
  BY DEF Calls, Op, Groups

LEMMA DecrementsOK ==
  ASSUME NEW c, c.count \in Nat
  PROVE  \A op \in Decrements(c) : op.group \in Groups /\ op.count \in Nat
<1> DEFINE e == Edge(n, c.pred)
           x == IF c.count > 1 THEN NoInstance ELSE Specific(e, c.start)
<1>1. CASE e.filter = NoFilter
  <2>1. Decrements(c) = Calls(c.start, pred_group(e, c.start), c.count, x)
    BY <1>1 DEF Decrements
  <2> QED BY <2>1, CallsOK
<1>2. CASE e.filter # NoFilter
  <2>1. Decrements(c) = UNION {Calls(i, pred_group(e, i), 1, Specific(e, i)) :
                                 i \in filter_overlap(e, c.start, c.count)}
    BY <1>2 DEF Decrements
  <2>2. ASSUME NEW op \in Decrements(c) PROVE op.group \in Groups /\ op.count \in Nat
    <3>1. PICK i : op \in Calls(i, pred_group(e, i), 1, Specific(e, i))
      BY <2>1
    <3> QED BY <3>1, CallsOK
  <2> QED BY <2>2
<1> QED BY <1>1, <1>2

\* The instances a decrement may release: behind a barrier all of the group or
\* none, and all of it only with the step of its counter to 0.
LEMMA CandidateFacts ==
  ASSUME n \in Shapes, NEW op, op.group \in Groups, NEW old, NEW left
  PROVE  /\ Candidates(op, old, left) \subseteq Instances(n)
         /\ has_barrier(n) =>
              \/ Candidates(op, old, left) = {}
              \/ Candidates(op, old, left) = GroupOf(op.group) /\ old # 0 /\ left = 0
<1>1. GroupInstances(n, entry, op.group) = GroupOf(op.group) /\ GroupOf(op.group) \subseteq Instances(n)
  BY GroupFacts DEF GroupOf
<1>2. CASE has_barrier(n)
  <2>1. Candidates(op, old, left) = IF old > 0 /\ left = 0 THEN GroupOf(op.group) ELSE {}
    BY <1>1, <1>2 DEF Candidates
  <2>2. ~(0 > 0)
    OBVIOUS
  <2> QED BY <1>1, <2>1, <2>2
<1>3. CASE ~has_barrier(n) /\ op.specific # NoInstance
  BY <1>3 DEF Candidates
<1>4. CASE ~has_barrier(n) /\ op.specific = NoInstance
  <2>1. Candidates(op, old, left) \subseteq GroupInstances(n, entry, op.group)
    BY <1>4 DEF Candidates
  <2> QED BY <1>1, <1>4, <2>1
<1> QED BY <1>2, <1>3, <1>4

-----------------------------------------------------------------------------
(* What a step leaves alone *)

LEMMA KeepSealed ==
  ASSUME UNCHANGED <<setup, bumps, remaining_deps, instances_sent>>
  PROVE  \A i : Sealed(i)' = Sealed(i)
  BY DEF setup, Sealed, ByCounter, Groups, GroupOf, entry, Value, slot_gen

LEMMA KeepCounters ==
  ASSUME CountersInv, UNCHANGED <<setup, bumps, remaining_deps, instances_sent, fanout_bulk_arrived>>
  PROVE  CountersInv'
  BY DEF CountersInv, setup, Groups, entry, Tagged, slot_gen, Instances

LEMMA KeepRelease ==
  ASSUME NEW came, ReleaseInv(came), UNCHANGED <<setup, bumps, ready, log, fanout_bulk_arrived>>,
         \A i \in Instances(n) : Sealed(i) => Sealed(i)'
  PROVE  ReleaseInv(came)'
<1>1. /\ Instances(n)' = Instances(n) /\ fanout_bulk_eligible' = fanout_bulk_eligible
      /\ Value(fanout_bulk_arrived, 0)' = Value(fanout_bulk_arrived, 0)
  BY DEF setup, fanout_bulk_eligible, Value, slot_gen
<1>2. \A t \in Threads : \A i \in Range(ready[t]) : i \in Instances(n)
  BY DEF ReleaseInv, Range
<1> QED BY <1>1, <1>2 DEF ReleaseInv

\* The start of a resolution: the thread held nothing ready.
LEMMA ResolveKeeps ==
  ASSUME FireInv, NEW t \in Threads, NEW c, CountOK(c), NEW d,
         \A op \in d : op.group \in Groups /\ op.count \in Nat,
         Resolve(t, c, d), UNCHANGED <<setup, bumps, counters, history>>,
         queue' \subseteq queue, \A j \in batch_queue' : j \in batch_queue
  PROVE  FireInv'
<1>1. UNCHANGED <<remaining_deps, instances_sent, fanout_bulk_arrived, log, ready, claims>>
  BY DEF counters, history, Resolve
<1>2. CountersInv'
  BY <1>1, KeepCounters DEF FireInv
<1>3. JobsInv'
  <2>1. Groups' = Groups /\ Instances(n)' = Instances(n) /\ ByCounter' = ByCounter
    BY DEF setup, Groups, entry, Instances, ByCounter
  <2> QED BY <1>1, <2>1 DEF FireInv, JobsInv, Resolve, CountOK, IsPred
<1>4. ControlInv'
  BY <1>1 DEF FireInv, ControlInv, Resolve, setup
<1>5. PICK came \in SUBSET Instances(n) : ReleaseInv(came)
  BY DEF FireInv
<1>6. ReleaseInv(came)'
  BY <1>1, <1>5, KeepSealed, KeepRelease
<1>7. came \in SUBSET Instances(n)'
  BY DEF setup, Instances
<1> QED BY <1>2, <1>3, <1>4, <1>6, <1>7 DEF FireInv

-----------------------------------------------------------------------------
(* The steps that release nothing *)

LEMMA NoJobOK == CountOK(NoJob)
  BY DEF CountOK, IsPred, NoJob

\* A step of one thread that touches neither a counter nor what is ready.
LEMMA QuietStep ==
  ASSUME FireInv, UNCHANGED <<setup, bumps, remaining_deps, instances_sent, fanout_bulk_arrived>>,
         UNCHANGED <<ops, claims, ready, log>>, JobsInv', ControlInv'
  PROVE  FireInv'
<1>1. CountersInv'
  BY KeepCounters DEF FireInv
<1>2. PICK came \in SUBSET Instances(n) : ReleaseInv(came)
  BY DEF FireInv
<1>3. ReleaseInv(came)'
  BY <1>2, KeepSealed, KeepRelease
<1>4. came \in SUBSET Instances(n)'
  BY DEF setup, Instances
<1> QED BY <1>1, <1>3, <1>4 DEF FireInv

LEMMA SameSets ==
  ASSUME UNCHANGED setup
  PROVE  /\ n' = n /\ Groups' = Groups /\ Instances(n)' = Instances(n) /\ ByCounter' = ByCounter
         /\ \A g : GroupOf(g)' = GroupOf(g)
         /\ fanout_bulk_eligible' = fanout_bulk_eligible
         /\ entry' = entry
  BY DEF setup, Groups, GroupOf, entry, Instances, ByCounter, fanout_bulk_eligible

LEMMA TakeStep ==
  ASSUME FireInv, NEW w \in Workers, Take(w)
  PROVE  FireInv'
<1>1. /\ UNCHANGED <<setup, bumps, remaining_deps, instances_sent, fanout_bulk_arrived>>
      /\ UNCHANGED <<ops, claims, ready, log, batch_queue>>
  BY DEF Take, counters, history
<1>2. w \in Threads
  BY DEF Threads
<1>3. JobsInv'
  <2>1. PICK j \in queue : queue' = queue \ {j} /\ job' = [job EXCEPT ![w] = j]
    BY DEF Take
  <2> QED BY <1>1, <1>2, <2>1, SameSets DEF FireInv, JobsInv, CountOK, IsPred
<1>4. ControlInv'
  BY <1>1, <1>2, SameSets DEF FireInv, ControlInv, Take
<1> QED BY <1>1, <1>3, <1>4, QuietStep

LEMMA RunPredecessorStep ==
  ASSUME FireInv, NEW w \in Workers, RunPredecessor(w)
  PROVE  FireInv'
<1>1. w \in Threads
  BY DEF Threads
<1>2. UNCHANGED <<setup, bumps, counters, queue, history>> /\ pc[w] = "run" /\ IsPred(job[w])
  BY DEF RunPredecessor
<1>3. CountOK(job[w]) /\ job[w].count \in Nat
  BY <1>1, <1>2 DEF FireInv, JobsInv, CountOK
<1>4. CASE Resolve(w, job[w], Decrements(job[w])) /\ UNCHANGED batch_queue
  BY <1>1, <1>2, <1>3, <1>4, DecrementsOK, ResolveKeeps
<1>5. CASE /\ batch_queue' = batch_queue \cup {job[w]}
           /\ pc' = [pc EXCEPT ![w] = "idle"]
           /\ job' = [job EXCEPT ![w] = NoJob]
           /\ UNCHANGED <<ops, claims, ready>>
  <2>1. /\ UNCHANGED <<setup, bumps, remaining_deps, instances_sent, fanout_bulk_arrived>>
        /\ UNCHANGED <<ops, claims, ready, log>>
    BY <1>2, <1>5 DEF counters, history
  <2>2. JobsInv'
    BY <1>1, <1>2, <1>3, <1>5, <2>1, SameSets, NoJobOK DEF FireInv, JobsInv, CountOK, IsPred
  <2>3. ControlInv'
    BY <1>1, <1>2, <1>5, SameSets DEF FireInv, ControlInv
  <2> QED BY <2>1, <2>2, <2>3, QuietStep
<1> QED BY <1>4, <1>5 DEF RunPredecessor

LEMMA ResolveQueuedStep ==
  ASSUME FireInv, NEW r \in ResThreads, ResolveQueued(r)
  PROVE  FireInv'
<1>1. r \in Threads /\ UNCHANGED <<setup, bumps, counters, queue, history>>
  BY DEF Threads, ResolveQueued
<1>2. PICK c \in batch_queue :
        /\ batch_queue' = batch_queue \ {c}
        /\ Resolve(r, c, IF BatchSkips(c) THEN {} ELSE Decrements(c))
  BY DEF ResolveQueued
<1>3. CountOK(c) /\ c.count \in Nat
  BY <1>2 DEF FireInv, JobsInv, CountOK
<1> QED BY <1>1, <1>2, <1>3, DecrementsOK, ResolveKeeps

LEMMA IngestStep ==
  ASSUME FireInv, NEW r \in ResThreads, Ingest(r)
  PROVE  FireInv'
<1>1. r \in Threads /\ UNCHANGED <<setup, bumps, counters, queues, history>>
  BY DEF Threads, Ingest
<1>2. PICK p \in n.net : \E start \in 0 .. n.pf[p] - 1 : \E count \in 1 .. n.pf[p] - start :
        LET c == PredJob(p, <<start, count>>)
        IN  Resolve(r, c, IF BatchSkips(c) THEN {} ELSE Decrements(c))
  BY DEF Ingest
<1>3. PICK start \in 0 .. n.pf[p] - 1 : \E count \in 1 .. n.pf[p] - start :
        LET c == PredJob(p, <<start, count>>)
        IN  Resolve(r, c, IF BatchSkips(c) THEN {} ELSE Decrements(c))
  BY <1>2
<1>4. n.pf[p] \in Nat
  BY <1>2, ArgFacts DEF FireInv, CountersInv
<1>5. PICK count \in 1 .. n.pf[p] - start :
        LET c == PredJob(p, <<start, count>>)
        IN  Resolve(r, c, IF BatchSkips(c) THEN {} ELSE Decrements(c))
  BY <1>3
<1> DEFINE c == PredJob(p, <<start, count>>)
<1>6. CountOK(c) /\ c.count \in Nat
  BY <1>4, PredJobFacts DEF CountOK
<1>7. UNCHANGED <<queue, batch_queue>>
  BY <1>1 DEF queues
<1>8. Resolve(r, c, IF BatchSkips(c) THEN {} ELSE Decrements(c))
  BY <1>5
<1> HIDE DEF c
<1> QED BY <1>1, <1>6, <1>7, <1>8, DecrementsOK, ResolveKeeps

LEMMA RunSuccessorStep ==
  ASSUME FireInv, NEW w \in Workers, RunSuccessor(w)
  PROVE  FireInv'
<1>1. /\ UNCHANGED <<setup, bumps, remaining_deps, instances_sent, fanout_bulk_arrived>>
      /\ UNCHANGED <<ops, claims, ready, log, queue, batch_queue>>
      /\ pc[w] = "run" /\ pc' = [pc EXCEPT ![w] = "idle"] /\ job' = [job EXCEPT ![w] = NoJob]
  BY DEF RunSuccessor, queues, history
<1>2. w \in Threads
  BY DEF Threads
<1>3. JobsInv'
  BY <1>1, <1>2, SameSets, NoJobOK DEF FireInv, JobsInv, CountOK, IsPred
<1>4. ControlInv'
  BY <1>1, <1>2, SameSets DEF FireInv, ControlInv
<1> QED BY <1>1, <1>3, <1>4, QuietStep

LEMMA ConditionsDoneStep ==
  ASSUME FireInv, NEW t \in Threads, ConditionsDone(t)
  PROVE  FireInv'
<1>1. /\ UNCHANGED <<setup, bumps, remaining_deps, instances_sent, fanout_bulk_arrived>>
      /\ UNCHANGED <<ops, claims, ready, log, queue, batch_queue>>
      /\ ready[t] = <<>> /\ pc' = [pc EXCEPT ![t] = "idle"] /\ job' = [job EXCEPT ![t] = NoJob]
  BY DEF ConditionsDone, counters, queues, history
<1>2. JobsInv'
  BY <1>1, SameSets, NoJobOK DEF FireInv, JobsInv, CountOK, IsPred
<1>3. ControlInv'
  BY <1>1, SameSets DEF FireInv, ControlInv
<1> QED BY <1>1, <1>2, <1>3, QuietStep

-----------------------------------------------------------------------------
(* The steps that release instances *)

LEMMA ConcatInjective ==
  ASSUME NEW S, NEW p \in Seq(S), NEW q \in Seq(S), IsInjective(p), IsInjective(q),
         Range(p) \cap Range(q) = {}
  PROVE  /\ p \o q \in Seq(S) /\ IsInjective(p \o q)
         /\ Range(p \o q) = Range(p) \cup Range(q)
<1> DEFINE c == p \o q
<1>1. /\ Len(p) \in Nat /\ Len(q) \in Nat /\ DOMAIN p = 1 .. Len(p) /\ DOMAIN q = 1 .. Len(q)
      /\ c \in Seq(S) /\ DOMAIN c = 1 .. Len(p) + Len(q)
      /\ \A i \in 1 .. Len(p) + Len(q) : c[i] = IF i <= Len(p) THEN p[i] ELSE q[i - Len(p)]
  BY ConcatProperties
<1> HIDE DEF c
<1>2. \A i \in 1 .. Len(p), j \in 1 .. Len(q) : p[i] # q[j]
  BY <1>1 DEF Range
<1>3. ASSUME NEW i \in DOMAIN c, NEW j \in DOMAIN c, c[i] = c[j] PROVE i = j
  <2>1. CASE i <= Len(p) /\ j <= Len(p)
    BY <1>1, <1>3, <2>1 DEF IsInjective
  <2>2. CASE i > Len(p) /\ j > Len(p)
    <3>1. i - Len(p) \in 1 .. Len(q) /\ j - Len(p) \in 1 .. Len(q)
      BY <1>1, <2>2
    <3>2. q[i - Len(p)] = q[j - Len(p)]
      BY <1>1, <1>3, <2>2
    <3>3. i - Len(p) = j - Len(p)
      BY <1>1, <3>1, <3>2 DEF IsInjective
    <3> QED BY <1>1, <3>3
  <2>3. CASE i <= Len(p) /\ j > Len(p)
    <3>1. i \in 1 .. Len(p) /\ j - Len(p) \in 1 .. Len(q)
      BY <1>1, <2>3
    <3> QED BY <1>1, <1>2, <1>3, <2>3, <3>1
  <2>4. CASE i > Len(p) /\ j <= Len(p)
    <3>1. j \in 1 .. Len(p) /\ i - Len(p) \in 1 .. Len(q)
      BY <1>1, <2>4
    <3> QED BY <1>1, <1>2, <1>3, <2>4, <3>1
  <2> QED BY <1>1, <2>1, <2>2, <2>3, <2>4
<1>4. ASSUME NEW x \in Range(c) PROVE x \in Range(p) \cup Range(q)
  <2>1. PICK i \in 1 .. Len(p) + Len(q) : x = c[i]
    BY <1>1 DEF Range
  <2>2. CASE i <= Len(p)
    <3>1. i \in 1 .. Len(p) /\ x = p[i]
      BY <1>1, <2>1, <2>2
    <3> QED BY <1>1, <3>1 DEF Range
  <2>3. CASE i > Len(p)
    <3>1. i - Len(p) \in 1 .. Len(q) /\ x = q[i - Len(p)]
      BY <1>1, <2>1, <2>3
    <3> QED BY <1>1, <3>1 DEF Range
  <2> QED BY <1>1, <2>2, <2>3
<1>5. ASSUME NEW x \in Range(p) PROVE x \in Range(c)
  <2>1. PICK i \in 1 .. Len(p) : x = p[i]
    BY <1>1 DEF Range
  <2>2. i \in 1 .. Len(p) + Len(q) /\ c[i] = x
    BY <1>1, <2>1
  <2> QED BY <1>1, <2>2 DEF Range
<1>6. ASSUME NEW x \in Range(q) PROVE x \in Range(c)
  <2>1. PICK i \in 1 .. Len(q) : x = q[i]
    BY <1>1 DEF Range
  <2>2. Len(p) + i \in 1 .. Len(p) + Len(q) /\ c[Len(p) + i] = x
    <3>1. /\ Len(p) + i \in 1 .. Len(p) + Len(q) /\ ~(Len(p) + i <= Len(p))
          /\ (Len(p) + i) - Len(p) = i
      BY <1>1
    <3>2. c[Len(p) + i] = q[(Len(p) + i) - Len(p)]
      BY <1>1, <3>1
    <3> QED BY <2>1, <3>1, <3>2
  <2> QED BY <1>1, <2>2 DEF Range
<1>7. IsInjective(c)
  BY <1>3 DEF IsInjective
<1> QED BY <1>1, <1>4, <1>5, <1>6, <1>7 DEF c

\* A thread adds instances that were not sealed, and that are now.
LEMMA AddReady ==
  ASSUME NEW came, ReleaseInv(came), NEW t \in Threads, NEW q \in Seq(Instances(n)), IsInjective(q),
         ready' = [ready EXCEPT ![t] = @ \o q],
         UNCHANGED <<setup, bumps, log, fanout_bulk_arrived>>,
         \A i \in Range(q) : ~Sealed(i) /\ Sealed(i)',
         \A i \in Instances(n) : Sealed(i) => Sealed(i)'
  PROVE  ReleaseInv(came)'
<1>1. /\ Instances(n)' = Instances(n) /\ fanout_bulk_eligible' = fanout_bulk_eligible
      /\ Value(fanout_bulk_arrived, 0)' = Value(fanout_bulk_arrived, 0)
  BY SameSets DEF Value, slot_gen
<1>2. \A i \in Range(q) : i \in Instances(n)
  BY DEF Range
<1>3. \A u \in Threads : \A i \in Range(ready[u]) : i \in Instances(n)
  BY DEF ReleaseInv, Range
<1>4. \A u \in Threads : Range(ready[u]) \cap Range(q) = {}
  BY DEF ReleaseInv
<1>5. \A i \in Range(q) : log[i].times = 0 /\ i \notin came
  BY <1>2 DEF ReleaseInv
<1>6. /\ ready[t] \o q \in Seq(Instances(n)) /\ IsInjective(ready[t] \o q)
      /\ Range(ready[t] \o q) = Range(ready[t]) \cup Range(q)
  BY <1>4, ConcatInjective DEF ReleaseInv
<1>7. /\ DOMAIN ready' = Threads /\ ready'[t] = ready[t] \o q
      /\ \A u \in Threads : u # t => ready'[u] = ready[u]
  BY DEF ReleaseInv
<1>8. \A u \in Threads : ready'[u] \in Seq(Instances(n)) /\ IsInjective(ready'[u])
  BY <1>6, <1>7 DEF ReleaseInv
<1>9. \A u \in Threads : \A i \in Range(ready'[u]) : Sealed(i)' /\ log[i].times = 0 /\ i \notin came
  BY <1>3, <1>5, <1>6, <1>7 DEF ReleaseInv
<1>10. \A u, v \in Threads : u # v => Range(ready'[u]) \cap Range(ready'[v]) = {}
  BY <1>4, <1>6, <1>7 DEF ReleaseInv
<1> QED BY <1>1, <1>7, <1>8, <1>9, <1>10 DEF ReleaseInv

\* A thread gives up what it had ready, all or its head: dispatched, or reopened.
LEMMA LoseReady ==
  ASSUME NEW came, ReleaseInv(came), NEW t \in Threads, NEW q \in Seq(Instances(n)), IsInjective(q),
         ready' = [ready EXCEPT ![t] = q], Range(q) \subseteq Range(ready[t]),
         UNCHANGED <<setup, bumps, fanout_bulk_arrived>>,
         DOMAIN log' = Instances(n),
         \A i \in Instances(n) : log'[i].times \in {0, 1},
         \A i \in Instances(n) :
           \/ log'[i].times = log[i].times
           \/ i \in Range(ready[t]) /\ i \notin Range(q) /\ log'[i].times = 1,
         \A i \in Instances(n) : Sealed(i) =>
           Sealed(i)' \/ (i \in Range(ready[t]) /\ i \notin Range(q) /\ log'[i].times = 0),
         fanout_bulk_eligible => \A i \in Instances(n) : log'[i].times = log[i].times
  PROVE  ReleaseInv(came)'
<1>1. /\ Instances(n)' = Instances(n) /\ fanout_bulk_eligible' = fanout_bulk_eligible
      /\ Value(fanout_bulk_arrived, 0)' = Value(fanout_bulk_arrived, 0)
  BY SameSets DEF Value, slot_gen
<1>2. \A u \in Threads : \A i \in Range(ready[u]) : i \in Instances(n)
  BY DEF ReleaseInv, Range
<1>3. /\ DOMAIN ready' = Threads /\ ready'[t] = q
      /\ \A u \in Threads : u # t => ready'[u] = ready[u]
  BY DEF ReleaseInv
<1>4. \A u \in Threads : \A i \in Range(ready'[u]) :
        /\ i \in Range(ready[u]) /\ i \in Instances(n)
        /\ ~(i \in Range(ready[t]) /\ i \notin Range(q))
  BY <1>2, <1>3 DEF ReleaseInv
<1>5. \A u \in Threads : ready'[u] \in Seq(Instances(n)) /\ IsInjective(ready'[u])
  BY <1>3 DEF ReleaseInv
<1>6. \A u \in Threads : \A i \in Range(ready'[u]) : Sealed(i)' /\ log'[i].times = 0 /\ i \notin came
  <2>1. \A u \in Threads : \A i \in Range(ready[u]) : Sealed(i) /\ log[i].times = 0 /\ i \notin came
    BY DEF ReleaseInv
  <2> QED BY <1>4, <2>1
<1>7. \A u, v \in Threads : u # v => Range(ready'[u]) \cap Range(ready'[v]) = {}
  BY <1>4 DEF ReleaseInv
<1>8. \A i \in Instances(n) : log'[i].times = 1 => Sealed(i)'
  <2>1. \A i \in Range(ready[t]) : Sealed(i)
    BY DEF ReleaseInv
  <2>2. \A i \in Instances(n) : log[i].times = 1 => Sealed(i)
    BY DEF ReleaseInv
  <2> QED BY <2>1, <2>2
<1>9. came \subseteq Instances(n) /\ \A i \in came : Sealed(i)'
  BY DEF ReleaseInv
<1> QED BY <1>1, <1>3, <1>5, <1>6, <1>7, <1>8, <1>9 DEF ReleaseInv

LEMMA DecrementStep ==
  ASSUME FireInv, NEW t \in Threads, Decrement(t)
  PROVE  FireInv'
<1>1. PICK op \in ops[t] :
        LET old == Value(remaining_deps[op.group], entry.deps_per_group)
            left == saturating_sub(old, op.count)
            found == Candidates(op, old, left)
        IN  /\ ops' = [ops EXCEPT ![t] = @ \ {op}]
            /\ remaining_deps' = [remaining_deps EXCEPT ![op.group] = gen_pack(slot_gen, left)]
            /\ IF has_barrier(n) /\ ~n.cond
               THEN ready' = [ready EXCEPT ![t] = @ \o Run(found)] /\ UNCHANGED claims
               ELSE claims' = [claims EXCEPT ![t] = found] /\ UNCHANGED ready
  BY DEF Decrement
<1> DEFINE old == Value(remaining_deps[op.group], entry.deps_per_group)
           left == saturating_sub(old, op.count)
           found == Candidates(op, old, left)
<1>2. /\ ops' = [ops EXCEPT ![t] = @ \ {op}]
      /\ remaining_deps' = [remaining_deps EXCEPT ![op.group] = gen_pack(slot_gen, left)]
      /\ IF ByCounter
         THEN ready' = [ready EXCEPT ![t] = @ \o Run(found)] /\ UNCHANGED claims
         ELSE claims' = [claims EXCEPT ![t] = found] /\ UNCHANGED ready
  BY <1>1 DEF ByCounter
<1>3. /\ UNCHANGED <<setup, bumps, instances_sent, fanout_bulk_arrived, pc, job, log>>
      /\ UNCHANGED <<queue, batch_queue>> /\ pc[t] = "resolve" /\ claims[t] = {}
  BY DEF Decrement, queues, history
<1>4. n \in Shapes /\ op.group \in Groups /\ op.count \in Nat
  BY DEF FireInv, CountersInv, JobsInv
<1>5. /\ found \subseteq Instances(n)
      /\ has_barrier(n) => found = {} \/ (found = GroupOf(op.group) /\ old # 0 /\ left = 0)
  BY <1>4, CandidateFacts
<1>6. old = 0 => left = 0
  BY <1>4 DEF saturating_sub
<1> HIDE DEF left, found
<1>7. slot_gen \in Nat /\ slot_gen' = slot_gen
  BY <1>3, NextGeneration DEF FireInv, CountersInv, slot_gen
<1>8. /\ DOMAIN remaining_deps' = Groups
      /\ remaining_deps'[op.group] = [gen |-> slot_gen, val |-> left]
      /\ \A g \in Groups : g # op.group => remaining_deps'[g] = remaining_deps[g]
  BY <1>2, <1>4 DEF FireInv, CountersInv, gen_pack
<1>9. CountersInv'
  <2>1. \A g \in Groups : remaining_deps'[g].gen \in 0 .. slot_gen
    BY <1>7, <1>8 DEF FireInv, CountersInv, Tagged
  <2> QED BY <1>3, <1>7, <1>8, <2>1, SameSets DEF FireInv, CountersInv, Tagged, setup
<1>10. JobsInv'
  <2>1. \A u \in Threads : claims'[u] \subseteq Instances(n) /\ (ByCounter => claims'[u] = {})
    BY <1>2, <1>5 DEF FireInv, JobsInv
  <2>2. DOMAIN claims' = Threads /\ DOMAIN ops' = Threads /\ \A u \in Threads : ops'[u] \subseteq ops[u]
    BY <1>2 DEF FireInv, JobsInv
  <2> QED BY <1>3, <2>1, <2>2, SameSets DEF FireInv, JobsInv, CountOK, IsPred
<1>11. ControlInv'
  <2>1. \A u \in Threads : u # t => ready'[u] = ready[u]
    BY <1>2 DEF FireInv, ReleaseInv
  <2> QED BY <1>3, <2>1, SameSets DEF FireInv, ControlInv
<1>12. PICK came \in SUBSET Instances(n) : ReleaseInv(came)
  BY DEF FireInv
<1>13. CASE ~ByCounter
  <2>1. \A i : Sealed(i) => Sealed(i)'
    BY <1>3, <1>13, SameSets DEF Sealed, Value, slot_gen
  <2>2. ReleaseInv(came)'
    BY <1>2, <1>3, <1>12, <1>13, <2>1, KeepRelease
  <2> QED BY <1>9, <1>10, <1>11, <2>2, <1>3, SameSets DEF FireInv
<1>14. CASE ByCounter
  <2>1. /\ \A i : Sealed(i) <=> \A g \in Groups : i \in GroupOf(g) =>
                                  Value(remaining_deps[g], entry.deps_per_group) = 0
        /\ \A i : Sealed(i)' <=> \A g \in Groups : i \in GroupOf(g) =>
                                  Value(remaining_deps[g], entry.deps_per_group)' = 0
    BY <1>3, <1>14, SameSets DEF Sealed
  <2>2. /\ Value(remaining_deps[op.group], entry.deps_per_group)' = left
        /\ \A g \in Groups : g # op.group =>
             Value(remaining_deps[g], entry.deps_per_group)' = Value(remaining_deps[g], entry.deps_per_group)
    BY <1>3, <1>7, <1>8, SameSets DEF Value
  <2>3. \A i \in Instances(n) : Sealed(i) => Sealed(i)'
    BY <1>4, <1>6, <2>1, <2>2
  <2>4. \A i \in found : ~Sealed(i) /\ Sealed(i)'
    <3>1. ASSUME NEW i \in found PROVE ~Sealed(i) /\ Sealed(i)'
      <4>1. i \in GroupOf(op.group) /\ old # 0 /\ left = 0
        BY <1>5, <1>14 DEF ByCounter
      <4>2. \A g \in Groups : i \in GroupOf(g) => g = op.group
        BY <1>4, <4>1, GroupFacts
      <4> QED BY <1>4, <2>1, <2>2, <4>1, <4>2
    <3> QED BY <3>1
  <2>5. \E lo \in Nat, hi \in Int : found = lo .. hi
    <3>1. CASE found = {}
      BY <3>1
    <3>2. CASE found # {}
      BY <1>4, <1>5, <1>14, <3>2, GroupFacts DEF ByCounter
    <3> QED BY <3>1, <3>2
  <2>6. Run(found) \in Seq(found) /\ IsInjective(Run(found)) /\ Range(Run(found)) = found
    BY <2>5, RunFacts
  <2>7. Run(found) \in Seq(Instances(n))
    BY <1>5, <2>6
  <2>8. ReleaseInv(came)'
    BY <1>2, <1>3, <1>12, <1>14, <2>3, <2>4, <2>6, <2>7, AddReady
  <2> QED BY <1>9, <1>10, <1>11, <2>8, <1>3, SameSets DEF FireInv
<1> QED BY <1>13, <1>14

LEMMA ClaimStep ==
  ASSUME FireInv, NEW t \in Threads, Claim(t)
  PROVE  FireInv'
<1>0. PICK i : i = Min(claims[t])
  OBVIOUS
<1>1. /\ UNCHANGED <<setup, bumps, remaining_deps, fanout_bulk_arrived, pc, job, ops, log>>
      /\ UNCHANGED <<queue, batch_queue>> /\ pc[t] = "resolve" /\ claims[t] # {}
      /\ claims' = [claims EXCEPT ![t] = @ \ {Min(@)}]
      /\ IF Value(instances_sent[i], 0) = 1 THEN UNCHANGED <<instances_sent, ready>>
         ELSE /\ instances_sent' = [instances_sent EXCEPT ![i] = gen_pack(slot_gen, 1)]
              /\ ready' = [ready EXCEPT ![t] = Append(@, i)]
  BY <1>0 DEF Claim, queues, history
<1>2. n \in Shapes /\ claims[t] \subseteq Instances(n) /\ ~ByCounter
  BY <1>1 DEF FireInv, CountersInv, JobsInv
<1>3. i \in Instances(n)
  <2>1. claims[t] \in SUBSET Nat
    BY <1>2, ArgFacts DEF Instances
  <2> QED BY <1>0, <1>1, <1>2, <2>1, LeastElement
<1>4. JobsInv'
  <2>1. DOMAIN claims' = Threads /\ \A u \in Threads : claims'[u] \subseteq claims[u]
    BY <1>1 DEF FireInv, JobsInv
  <2> QED BY <1>1, <2>1, SameSets DEF FireInv, JobsInv, CountOK, IsPred
<1>5. ControlInv'
  <2>1. \A u \in Threads : u # t => ready'[u] = ready[u]
    BY <1>1 DEF FireInv, ReleaseInv
  <2> QED BY <1>1, <2>1, SameSets DEF FireInv, ControlInv
<1>6. PICK came \in SUBSET Instances(n) : ReleaseInv(came)
  BY DEF FireInv
<1>7. slot_gen \in Nat /\ slot_gen' = slot_gen
  <2>1. bumps \in Nat /\ bumps' = bumps
    BY <1>1 DEF FireInv, CountersInv
  <2>2. bumps % GenSpace \in 0 .. GenSpace - 1
    BY <2>1, NextGeneration
  <2> QED BY <2>1, <2>2, DataflowAssumption DEF slot_gen
<1>8. CASE Value(instances_sent[i], 0) = 1
  <2>1. CountersInv'
    BY <1>1, <1>8, KeepCounters DEF FireInv
  <2>2. ReleaseInv(came)'
    BY <1>1, <1>6, <1>8, KeepSealed, KeepRelease
  <2> QED BY <1>1, <1>4, <1>5, <2>1, <2>2, SameSets DEF FireInv
<1>9. CASE Value(instances_sent[i], 0) # 1
  <2>1. /\ DOMAIN instances_sent' = Instances(n)
        /\ instances_sent'[i] = [gen |-> slot_gen, val |-> 1]
        /\ \A k \in Instances(n) : k # i => instances_sent'[k] = instances_sent[k]
    BY <1>1, <1>3, <1>9 DEF FireInv, CountersInv, gen_pack
  <2>2. CountersInv'
    <3>1. \A k \in Instances(n) : instances_sent'[k].gen \in 0 .. slot_gen
      BY <1>7, <2>1 DEF FireInv, CountersInv, Tagged
    <3> QED BY <1>1, <1>7, <2>1, <3>1, SameSets DEF FireInv, CountersInv, Tagged, setup
  <2>3. \A k : (Sealed(k) <=> Value(instances_sent[k], 0) = 1) /\ (Sealed(k)' <=> Value(instances_sent[k], 0)' = 1)
    BY <1>1, <1>2, SameSets DEF Sealed
  <2>4. ~Sealed(i) /\ Sealed(i)' /\ \A k \in Instances(n) : Sealed(k) => Sealed(k)'
    <3>1. Value(instances_sent[i], 0)' = 1
      BY <1>7, <2>1 DEF Value
    <3>2. \A k \in Instances(n) : k # i => Value(instances_sent[k], 0)' = Value(instances_sent[k], 0)
      BY <1>7, <2>1 DEF Value
    <3> QED BY <1>9, <2>3, <3>1, <3>2
  <2>5. /\ <<i>> \in Seq(Instances(n)) /\ IsInjective(<<i>>) /\ Range(<<i>>) = {i}
    BY <1>3 DEF IsInjective, Range
  <2>6. ready' = [ready EXCEPT ![t] = @ \o <<i>>]
    <3>1. ready[t] \in Seq(Instances(n))
      BY <1>6 DEF ReleaseInv
    <3>2. Append(ready[t], i) = ready[t] \o <<i>>
      BY <1>3, <3>1
    <3> QED BY <1>1, <1>9, <3>2
  <2>7. ReleaseInv(came)'
    <3>1. UNCHANGED <<setup, bumps, log, fanout_bulk_arrived>>
      BY <1>1
    <3>2. \A k \in Range(<<i>>) : ~Sealed(k) /\ Sealed(k)'
      BY <2>4, <2>5
    <3> QED BY <1>6, <2>4, <2>5, <2>6, <3>1, <3>2, AddReady
  <2> QED BY <1>1, <1>4, <1>5, <2>2, <2>7, SameSets DEF FireInv
<1> QED BY <1>8, <1>9

\* Jobs of the node are sent: the thread is done with its completion.
LEMMA SendKeeps ==
  ASSUME FireInv, NEW t \in Threads, NEW jobs, \A j \in jobs : ~IsPred(j), Send(t, jobs),
         UNCHANGED <<setup, batch_queue, ops, claims>>
  PROVE  JobsInv' /\ ControlInv' /\ Logged(jobs) /\ ready' = [ready EXCEPT ![t] = <<>>]
<1>1. Logged(jobs) /\ ready' = [ready EXCEPT ![t] = <<>>]
  BY DEF Send
<1>2. \E j \in jobs \cup {NoJob}, a \in {"run", "idle"} :
        job' = [job EXCEPT ![t] = j] /\ pc' = [pc EXCEPT ![t] = a]
  BY DEF Send
<1>3. queue' \subseteq queue \cup jobs
  BY DEF Send
<1>4. \A j \in jobs : CountOK(j)
  BY DEF CountOK
<1>5. /\ DOMAIN job' = Threads /\ DOMAIN pc' = Threads
      /\ CountOK(job'[t]) /\ pc'[t] \in {"run", "idle"}
      /\ \A u \in Threads : u # t => job'[u] = job[u] /\ pc'[u] = pc[u] /\ ready'[u] = ready[u]
      /\ ready'[t] = <<>>
  BY <1>1, <1>2, <1>4, NoJobOK DEF FireInv, JobsInv, ControlInv, ReleaseInv
<1>6. JobsInv'
  <2>1. \A j \in queue' : CountOK(j)
    BY <1>3, <1>4 DEF FireInv, JobsInv
  <2>2. \A u \in Threads : CountOK(job'[u])
    BY <1>5 DEF FireInv, JobsInv
  <2> QED BY <1>5, <2>1, <2>2, SameSets DEF FireInv, JobsInv, CountOK, IsPred
<1>7. ControlInv'
  BY <1>5, SameSets DEF FireInv, ControlInv
<1> QED BY <1>1, <1>6, <1>7

LEMMA NothingReady ==
  ASSUME NEW S, NEW q, q = <<>>
  PROVE  q \in Seq(S) /\ IsInjective(q) /\ Range(q) = {}
<1>1. q \in Seq(S) /\ Len(q) = 0
  BY EmptySeq
<1>2. DOMAIN q = 1 .. 0
  BY <1>1
<1>3. DOMAIN q = {}
  BY <1>2
<1> QED BY <1>1, <1>3 DEF IsInjective, Range

LEMMA DispatchStep ==
  ASSUME FireInv, NEW t \in Threads, Dispatch(t)
  PROVE  FireInv'
<1>1. PICK jobs : jobs = push_ready_chunked(t)
  OBVIOUS
<1>2. /\ UNCHANGED <<setup, bumps, remaining_deps, instances_sent, fanout_bulk_arrived>>
      /\ UNCHANGED <<batch_queue, ops, claims>> /\ Send(t, jobs)
      /\ ~fanout_bulk_eligible \/ ready[t] = <<>>
  BY <1>1 DEF Dispatch, counters
<1>3. PICK came \in SUBSET Instances(n) : ReleaseInv(came)
  BY DEF FireInv
<1>4. PICK R : R = Range(ready[t])
  OBVIOUS
<1>5. n \in Shapes /\ ready[t] \in Seq(Instances(n)) /\ \A i \in R : log[i].times = 0
  BY <1>3, <1>4 DEF FireInv, CountersInv, ReleaseInv
<1>6. Parted(jobs, R) /\ (\A j \in jobs : ~IsPred(j)) /\ (ready[t] = <<>> => jobs = {})
  BY <1>1, <1>4, <1>5, ReadyJobs
<1>7. JobsInv' /\ ControlInv' /\ Logged(jobs) /\ ready' = [ready EXCEPT ![t] = <<>>]
  BY <1>2, <1>6, SendKeeps
<1>8. CountersInv'
  BY <1>2, KeepCounters DEF FireInv
<1>9. /\ DOMAIN log' = Instances(n)
      /\ \A i \in Instances(n) : log'[i].times = log[i].times \/ (i \in R /\ log'[i].times = 1)
      /\ \A i \in Instances(n) : log'[i].times \in {0, 1}
      /\ jobs = {} => \A i \in Instances(n) : log'[i].times = log[i].times
  <2>1. DOMAIN log = Instances(n) /\ \A i \in Instances(n) : log[i].times \in {0, 1}
    BY <1>3 DEF ReleaseInv
  <2> QED BY <1>5, <1>6, <1>7, <2>1, LoggedTimes
<1>10. ReleaseInv(came)'
  <2>1. \A i : Sealed(i)' = Sealed(i)
    BY <1>2, KeepSealed
  <2>0. PICK q : q = <<>>
    OBVIOUS
  <2>3. q \in Seq(Instances(n)) /\ IsInjective(q) /\ Range(q) = {}
    BY <2>0, NothingReady
  <2>2. \A i \in Instances(n) :
          \/ log'[i].times = log[i].times
          \/ i \in Range(ready[t]) /\ i \notin Range(q) /\ log'[i].times = 1
    BY <1>4, <1>9, <2>3
  <2>4. fanout_bulk_eligible => \A i \in Instances(n) : log'[i].times = log[i].times
    BY <1>2, <1>6, <1>9
  <2>5. UNCHANGED <<setup, bumps, fanout_bulk_arrived>>
    BY <1>2
  <2>6. ready' = [ready EXCEPT ![t] = q] /\ Range(q) \subseteq Range(ready[t])
    BY <1>7, <2>0, <2>3
  <2> QED BY <1>3, <1>9, <2>1, <2>2, <2>3, <2>4, <2>5, <2>6, LoseReady
<1> QED BY <1>2, <1>7, <1>8, <1>10, SameSets DEF FireInv

LEMMA DispatchFanoutStep ==
  ASSUME FireInv, NEW t \in Threads, DispatchFanout(t)
  PROVE  FireInv'
<1> DEFINE chunks == {SuccJob(run, job[t].start) :
                        run \in Chunks(0, n.factor, Min({Cardinality(Workers), n.factor}))}
<1>1. PICK arrived : arrived = Value(fanout_bulk_arrived, 0) + Len(ready[t])
  OBVIOUS
<1>2. PICK jobs : jobs = IF arrived >= n.factor THEN chunks ELSE {}
  OBVIOUS
<1>3. /\ UNCHANGED <<setup, bumps, remaining_deps, instances_sent>>
      /\ UNCHANGED <<batch_queue, ops, claims>> /\ Send(t, jobs)
      /\ fanout_bulk_eligible /\ ready[t] # <<>>
      /\ fanout_bulk_arrived' = gen_pack(slot_gen, arrived)
  BY <1>1, <1>2 DEF DispatchFanout
<1>4. PICK came \in SUBSET Instances(n) : ReleaseInv(came)
  BY DEF FireInv
<1>5. PICK R : R = Range(ready[t])
  OBVIOUS
<1>6. n \in Shapes /\ n.factor \in Nat \ {0} /\ Instances(n) = 0 .. n.factor - 1
  BY ArgFacts DEF FireInv, CountersInv, Instances
<1>7. /\ ready[t] \in Seq(Instances(n)) /\ IsInjective(ready[t])
      /\ R \subseteq Instances(n) /\ R # {} /\ R \cap came = {}
  <2>1. ready[t] \in Seq(Instances(n)) /\ IsInjective(ready[t]) /\ R \cap came = {}
    BY <1>4, <1>5 DEF ReleaseInv
  <2>2. R \subseteq Instances(n) /\ R # {}
    <3>1. Len(ready[t]) \in Nat \ {0} /\ DOMAIN ready[t] = 1 .. Len(ready[t])
      BY <1>3, <2>1
    <3>2. ready[t][1] \in R
      BY <1>5, <3>1 DEF Range
    <3>3. \A k \in 1 .. Len(ready[t]) : ready[t][k] \in Instances(n)
      BY <2>1
    <3> QED BY <1>5, <3>1, <3>2, <3>3 DEF Range
  <2> QED BY <2>1, <2>2
<1>8. IsFiniteSet(Instances(n)) /\ Cardinality(Instances(n)) = n.factor
  <2>1. PICK f \in Nat \ {0} : f = n.factor
    BY <1>6
  <2>2. IsFiniteSet(0 .. f - 1) /\ Cardinality(0 .. f - 1) = f
    BY FS_Interval
  <2> QED BY <1>6, <2>1, <2>2
<1> DEFINE came2 == came \cup R
<1>9. /\ came2 \in SUBSET Instances(n) /\ came # Instances(n)
      /\ arrived = Cardinality(came2) /\ (arrived >= n.factor => came2 = Instances(n))
  <2>1. IsFiniteSet(came) /\ IsFiniteSet(R) /\ Cardinality(R) = Len(ready[t])
    BY <1>5, <1>7, <1>8, InjectiveLength, FS_Subset
  <2>2. IsFiniteSet(came2) /\ Cardinality(came2) = Cardinality(came) + Cardinality(R) - Cardinality({})
    BY <1>7, <2>1, FS_Union
  <2>3. Cardinality(came) \in Nat /\ Cardinality(R) \in Nat /\ Cardinality({}) = 0
    BY <2>1, FS_CardinalityType, FS_EmptySet
  <2>4. Value(fanout_bulk_arrived, 0) = Cardinality(came)
    BY <1>3, <1>4 DEF ReleaseInv
  <2>5. arrived = Cardinality(came2)
    BY <1>1, <2>1, <2>2, <2>3, <2>4
  <2>6. came2 \in SUBSET Instances(n) /\ came # Instances(n)
    BY <1>7
  <2>7. Cardinality(came2) <= n.factor /\ (n.factor = Cardinality(came2) => came2 = Instances(n))
    BY <1>8, <2>6, FS_Subset
  <2>8. Cardinality(came2) \in Nat
    BY <2>2, FS_CardinalityType
  <2> HIDE DEF came2
  <2> QED BY <1>6, <2>5, <2>6, <2>7, <2>8
<1>10. /\ DOMAIN log = Instances(n) /\ \A i \in Instances(n) : log[i].times = 0
  BY <1>3, <1>4, <1>9 DEF ReleaseInv
<1>11. Parted(jobs, Instances(n)) /\ \A j \in jobs : ~IsPred(j)
  <2>1. PICK parts \in Nat \ {0} : parts = Min({Cardinality(Workers), n.factor})
    BY <1>6, WorkersCounted, MinPair
  <2>2. PICK x : x = job[t].start
    OBVIOUS
  <2>3. PICK f \in Nat : f = n.factor
    BY <1>6
  <2>4. Parted({SuccJob(run, x) : run \in Chunks(0, f, parts)}, 0 .. 0 + f - 1)
    BY ChunkJobs
  <2>5. chunks = {SuccJob(run, x) : run \in Chunks(0, f, parts)}
    BY <2>1, <2>2, <2>3
  <2>6. Parted(chunks, Instances(n))
    <3>1. 0 .. 0 + f - 1 = Instances(n)
      BY <1>6, <2>3
    <3> HIDE DEF chunks
    <3> QED BY <2>4, <2>5, <3>1
  <2>7. \A j \in chunks : ~IsPred(j)
    BY SuccJobFacts
  <2> HIDE DEF chunks
  <2>8. CASE arrived >= n.factor
    BY <1>2, <2>6, <2>7, <2>8
  <2>9. CASE ~(arrived >= n.factor)
    BY <1>2, <2>9 DEF Parted
  <2> QED BY <2>8, <2>9
<1> HIDE DEF chunks
<1>12. JobsInv' /\ ControlInv' /\ Logged(jobs) /\ ready' = [ready EXCEPT ![t] = <<>>]
  BY <1>3, <1>11, SendKeeps
<1>13. /\ DOMAIN log' = Instances(n)
       /\ \A i \in Instances(n) : log'[i].times \in {0, 1}
       /\ jobs = {} => \A i \in Instances(n) : log'[i].times = log[i].times
  BY <1>6, <1>10, <1>11, <1>12, LoggedTimes
<1>14. slot_gen \in Nat /\ slot_gen' = slot_gen
  <2>1. bumps \in Nat /\ bumps' = bumps
    BY <1>3 DEF FireInv, CountersInv
  <2>2. bumps % GenSpace \in 0 .. GenSpace - 1
    BY <2>1, NextGeneration
  <2> QED BY <2>1, <2>2, DataflowAssumption DEF slot_gen
<1>15. CountersInv'
  BY <1>3, <1>14, SameSets DEF FireInv, CountersInv, Tagged, setup, gen_pack
<1>16. ReleaseInv(came2)'
  <2>1. \A i : Sealed(i)' = Sealed(i)
    BY <1>3, KeepSealed
  <2>2. Value(fanout_bulk_arrived, 0)' = Cardinality(came2)
    BY <1>3, <1>9, <1>14 DEF Value, gen_pack
  <2>3. came2 = Instances(n) \/ \A i \in Instances(n) : log'[i].times = 0
    BY <1>2, <1>9, <1>10, <1>13
  <2>4. \A i \in came2 : Sealed(i)'
    BY <1>4, <1>5, <2>1 DEF ReleaseInv
  <2>5. \A i \in Instances(n) : log'[i].times = 1 => Sealed(i)'
    BY <2>3, <2>4
  <2>6. /\ DOMAIN ready' = Threads /\ ready'[t] = <<>>
        /\ \A u \in Threads : u # t => ready'[u] = ready[u]
    BY <1>4, <1>12 DEF ReleaseInv
  <2>7. \A u \in Threads : ready'[u] \in Seq(Instances(n)) /\ IsInjective(ready'[u])
    <3>1. ready'[t] \in Seq(Instances(n)) /\ IsInjective(ready'[t])
      BY <2>6, NothingReady
    <3> QED BY <1>4, <2>6, <3>1 DEF ReleaseInv
  <2>8. \A u \in Threads : \A i \in Range(ready'[u]) : i \in Range(ready[u]) /\ u # t
    <3>1. Range(ready'[t]) = {}
      BY <2>6, NothingReady
    <3> QED BY <2>6, <3>1
  <2>9. \A u, v \in Threads : u # v => Range(ready'[u]) \cap Range(ready'[v]) = {}
    BY <1>4, <2>8 DEF ReleaseInv
  <2>10. \A u \in Threads : \A i \in Range(ready'[u]) : i \in Instances(n) /\ i \notin came2
    <3>1. \A u \in Threads : \A i \in Range(ready[u]) : i \notin came /\ (u # t => i \notin R)
      BY <1>4, <1>5 DEF ReleaseInv
    <3>2. \A u \in Threads : \A i \in Range(ready[u]) : i \in Instances(n)
      BY <1>4 DEF ReleaseInv, Range
    <3> QED BY <2>8, <3>1, <3>2
  <2>11. \A u \in Threads : \A i \in Range(ready'[u]) : Sealed(i)' /\ log'[i].times = 0
    BY <1>4, <2>1, <2>3, <2>8, <2>10 DEF ReleaseInv
  <2> HIDE DEF came2
  <2> QED BY <1>3, <1>9, <1>13, <2>2, <2>3, <2>4, <2>5, <2>6, <2>7, <2>9, <2>10, <2>11, SameSets
          DEF ReleaseInv
<1> QED BY <1>3, <1>9, <1>12, <1>15, <1>16, SameSets DEF FireInv

-----------------------------------------------------------------------------
(* Conditional nodes: one ready instance after the other *)

LEMMA ConditionPassesStep ==
  ASSUME FireInv, NEW t \in Threads, ConditionPasses(t)
  PROVE  FireInv'
<1>1. PICK i, x : i = Head(ready[t]) /\ x = job[t].start
  OBVIOUS
<1>2. PICK jobs : jobs = {SuccJob(<<k, 1>>, x) : k \in {i}}
  OBVIOUS
<1>3. jobs = {SuccJob(<<i, 1>>, x)}
  BY <1>2
<1>4. /\ UNCHANGED <<setup, bumps, remaining_deps, instances_sent, fanout_bulk_arrived>>
      /\ UNCHANGED <<batch_queue, pc, job, ops, claims>>
      /\ Logged(jobs) /\ queue' = queue \cup jobs
      /\ ready' = [ready EXCEPT ![t] = Tail(@)]
      /\ n.cond /\ ready[t] # <<>> /\ pc[t] = "resolve"
  BY <1>1, <1>3 DEF ConditionPasses, Collected
<1>5. PICK came \in SUBSET Instances(n) : ReleaseInv(came)
  BY DEF FireInv
<1>6. n \in Shapes /\ ~ByCounter /\ ~fanout_bulk_eligible
  BY <1>4 DEF FireInv, CountersInv, ByCounter, fanout_bulk_eligible, is_fanout_bulk
<1>7. PICK q : q = Tail(ready[t])
  OBVIOUS
<1>8. /\ ready[t] \in Seq(Instances(n)) /\ IsInjective(ready[t])
      /\ q \in Seq(Instances(n)) /\ IsInjective(q) /\ Range(q) = Range(ready[t]) \ {i}
      /\ i \in Instances(n) /\ i \in Range(ready[t]) /\ log[i].times = 0
  <2>1. ready[t] \in Seq(Instances(n)) /\ IsInjective(ready[t])
    BY <1>5 DEF ReleaseInv
  <2>2. /\ Tail(ready[t]) \in Seq(Instances(n)) /\ Head(ready[t]) \in Instances(n)
        /\ Head(ready[t]) \in Range(ready[t]) /\ IsInjective(Tail(ready[t]))
        /\ Range(Tail(ready[t])) = Range(ready[t]) \ {Head(ready[t])}
    BY <1>4, <2>1, ReceiveInjective
  <2>3. log[i].times = 0
    BY <1>1, <1>5, <2>2 DEF ReleaseInv
  <2> QED BY <1>1, <1>7, <2>1, <2>2, <2>3
<1>9. Parted(jobs, {i}) /\ \A j \in jobs : ~IsPred(j)
  <2>1. \A k \in {i} : k \in Int
    BY <1>6, <1>8, ArgFacts DEF Instances
  <2>2. Parted({SuccJob(<<k, 1>>, x) : k \in {i}}, {i})
    BY <2>1, SingleJobs
  <2> QED BY <1>2, <1>3, <2>2, SuccJobFacts
<1>10. /\ DOMAIN log' = Instances(n)
       /\ \A k \in Instances(n) : log'[k].times = log[k].times \/ (k \in {i} /\ log'[k].times = 1)
       /\ \A k \in Instances(n) : log'[k].times \in {0, 1}
       /\ jobs = {} => \A k \in Instances(n) : log'[k].times = log[k].times
  <2>1. DOMAIN log = Instances(n) /\ \A k \in Instances(n) : log[k].times \in {0, 1}
    BY <1>5 DEF ReleaseInv
  <2>2. \A k \in {i} \cap Instances(n) : log[k].times = 0
    BY <1>8
  <2>3. Logged(jobs)
    BY <1>4
  <2> QED BY <1>6, <1>9, <2>1, <2>2, <2>3, LoggedTimes
<1>11. CountersInv'
  BY <1>4, KeepCounters DEF FireInv
<1>12. JobsInv'
  BY <1>4, <1>9, SameSets DEF FireInv, JobsInv, CountOK, IsPred
<1>13. ControlInv'
  <2>1. \A u \in Threads : u # t => ready'[u] = ready[u]
    BY <1>4 DEF FireInv, ReleaseInv
  <2> QED BY <1>4, <2>1, SameSets DEF FireInv, ControlInv
<1>14. ReleaseInv(came)'
  <2>1. \A k : Sealed(k)' = Sealed(k)
    BY <1>4, KeepSealed
  <2>2. \A k \in Instances(n) :
          \/ log'[k].times = log[k].times
          \/ k \in Range(ready[t]) /\ k \notin Range(q) /\ log'[k].times = 1
    BY <1>8, <1>10
  <2>3. ready' = [ready EXCEPT ![t] = q] /\ Range(q) \subseteq Range(ready[t])
    BY <1>4, <1>7, <1>8
  <2>4. UNCHANGED <<setup, bumps, fanout_bulk_arrived>>
    BY <1>4
  <2>5. q \in Seq(Instances(n)) /\ IsInjective(q)
    BY <1>8
  <2>6. DOMAIN log' = Instances(n) /\ \A k \in Instances(n) : log'[k].times \in {0, 1}
    BY <1>10
  <2> QED BY <1>5, <1>6, <2>1, <2>2, <2>3, <2>4, <2>5, <2>6, LoseReady
<1> QED BY <1>4, <1>11, <1>12, <1>13, <1>14, SameSets DEF FireInv

LEMMA ConditionFailsStep ==
  ASSUME FireInv, NEW t \in Threads, ConditionFails(t)
  PROVE  FireInv'
<1>1. PICK g, left : remaining_deps' = [remaining_deps EXCEPT ![g] = gen_pack(slot_gen, left)]
  BY DEF ConditionFails
<1>2. /\ UNCHANGED <<setup, bumps, instances_sent, fanout_bulk_arrived>>
      /\ UNCHANGED <<queue, batch_queue, job, ops, claims, ready, log>>
      /\ n.cond /\ ready[t] # <<>> /\ pc' = [pc EXCEPT ![t] = "reset_sent"]
  BY DEF ConditionFails, Collected, queues
<1>3. slot_gen \in Nat /\ slot_gen' = slot_gen
  <2>1. bumps \in Nat /\ bumps' = bumps
    BY <1>2 DEF FireInv, CountersInv
  <2>2. bumps % GenSpace \in 0 .. GenSpace - 1
    BY <2>1, NextGeneration
  <2> QED BY <2>1, <2>2, DataflowAssumption DEF slot_gen
<1>4. CountersInv'
  <2>1. DOMAIN remaining_deps' = Groups
    BY <1>1 DEF FireInv, CountersInv
  <2>2. \A h \in Groups : remaining_deps'[h].gen \in 0 .. slot_gen
    BY <1>1, <1>3 DEF FireInv, CountersInv, Tagged, gen_pack
  <2> QED BY <1>2, <1>3, <2>1, <2>2, SameSets DEF FireInv, CountersInv, Tagged, setup
<1>5. JobsInv'
  BY <1>2, SameSets DEF FireInv, JobsInv, CountOK, IsPred
<1>6. ControlInv'
  BY <1>2, SameSets DEF FireInv, ControlInv
<1>7. PICK came \in SUBSET Instances(n) : ReleaseInv(came)
  BY DEF FireInv
<1>8. ~ByCounter
  BY <1>2 DEF ByCounter
<1>9. \A i : Sealed(i) => Sealed(i)'
  BY <1>2, <1>3, <1>8, SameSets DEF Sealed, Value
<1>10. ReleaseInv(came)'
  BY <1>2, <1>7, <1>9, KeepRelease
<1> QED BY <1>2, <1>4, <1>5, <1>6, <1>10, SameSets DEF FireInv

LEMMA ResetSentStep ==
  ASSUME FireInv, NEW t \in Threads, ResetSent(t)
  PROVE  FireInv'
<1>1. PICK i : i = Head(ready[t])
  OBVIOUS
<1>2. PICK q : q = Tail(ready[t])
  OBVIOUS
<1>3. /\ UNCHANGED <<setup, bumps, remaining_deps, fanout_bulk_arrived>>
      /\ UNCHANGED <<queue, batch_queue, job, ops, claims, log>>
      /\ instances_sent' = [instances_sent EXCEPT ![i] = gen_pack(slot_gen, 0)]
      /\ ready' = [ready EXCEPT ![t] = Tail(@)]
      /\ pc[t] = "reset_sent" /\ pc' = [pc EXCEPT ![t] = "resolve"]
  BY <1>1 DEF ResetSent, queues, history
<1>4. n.cond /\ ready[t] # <<>> /\ ~ByCounter
  BY <1>3 DEF FireInv, ControlInv, ByCounter
<1>5. PICK came \in SUBSET Instances(n) : ReleaseInv(came)
  BY DEF FireInv
<1>6. /\ q \in Seq(Instances(n)) /\ IsInjective(q) /\ Range(q) = Range(ready[t]) \ {i}
      /\ i \in Instances(n) /\ i \in Range(ready[t]) /\ log[i].times = 0
  <2>1. ready[t] \in Seq(Instances(n)) /\ IsInjective(ready[t])
    BY <1>5 DEF ReleaseInv
  <2>2. /\ Tail(ready[t]) \in Seq(Instances(n)) /\ Head(ready[t]) \in Instances(n)
        /\ Head(ready[t]) \in Range(ready[t]) /\ IsInjective(Tail(ready[t]))
        /\ Range(Tail(ready[t])) = Range(ready[t]) \ {Head(ready[t])}
    BY <1>4, <2>1, ReceiveInjective
  <2>3. log[i].times = 0
    BY <1>1, <1>5, <2>2 DEF ReleaseInv
  <2> QED BY <1>1, <1>2, <2>1, <2>2, <2>3
<1>7. slot_gen \in Nat /\ slot_gen' = slot_gen
  <2>1. bumps \in Nat /\ bumps' = bumps
    BY <1>3 DEF FireInv, CountersInv
  <2>2. bumps % GenSpace \in 0 .. GenSpace - 1
    BY <2>1, NextGeneration
  <2> QED BY <2>1, <2>2, DataflowAssumption DEF slot_gen
<1>8. /\ DOMAIN instances_sent' = Instances(n)
      /\ instances_sent'[i] = [gen |-> slot_gen, val |-> 0]
      /\ \A k \in Instances(n) : k # i => instances_sent'[k] = instances_sent[k]
  BY <1>3, <1>6 DEF FireInv, CountersInv, gen_pack
<1>9. CountersInv'
  <2>1. \A k \in Instances(n) : instances_sent'[k].gen \in 0 .. slot_gen
    BY <1>7, <1>8 DEF FireInv, CountersInv, Tagged
  <2> QED BY <1>3, <1>7, <1>8, <2>1, SameSets DEF FireInv, CountersInv, Tagged, setup
<1>10. JobsInv'
  BY <1>3, SameSets DEF FireInv, JobsInv, CountOK, IsPred
<1>11. ControlInv'
  <2>1. \A u \in Threads : u # t => ready'[u] = ready[u]
    BY <1>3 DEF FireInv, ReleaseInv
  <2> QED BY <1>3, <2>1, SameSets DEF FireInv, ControlInv
<1>12. ReleaseInv(came)'
  <2>1. \A k : (Sealed(k) <=> Value(instances_sent[k], 0) = 1) /\ (Sealed(k)' <=> Value(instances_sent[k], 0)' = 1)
    BY <1>3, <1>4, SameSets DEF Sealed
  <2>2. \A k \in Instances(n) : k # i => Value(instances_sent[k], 0)' = Value(instances_sent[k], 0)
    BY <1>7, <1>8 DEF Value
  <2>3. \A k \in Instances(n) : Sealed(k) =>
          Sealed(k)' \/ (k \in Range(ready[t]) /\ k \notin Range(q) /\ log'[k].times = 0)
    BY <1>3, <1>6, <2>1, <2>2
  <2>4. ready' = [ready EXCEPT ![t] = q] /\ Range(q) \subseteq Range(ready[t])
    BY <1>2, <1>3, <1>6
  <2>5. UNCHANGED <<setup, bumps, fanout_bulk_arrived>> /\ log' = log
    BY <1>3
  <2>6. DOMAIN log = Instances(n) /\ \A k \in Instances(n) : log[k].times \in {0, 1}
    BY <1>5 DEF ReleaseInv
  <2>7. q \in Seq(Instances(n)) /\ IsInjective(q)
    BY <1>6
  <2> QED BY <1>5, <2>3, <2>4, <2>5, <2>6, <2>7, LoseReady
<1> QED BY <1>3, <1>9, <1>10, <1>11, <1>12, SameSets DEF FireInv

-----------------------------------------------------------------------------
(* Frames *)

\* Nothing has been released, and no tag of this generation says otherwise.
LEMMA FreshFrame ==
  ASSUME \A t \in Threads : ready[t] = <<>>, DOMAIN ready = Threads, log = NoLog(n),
         Value(fanout_bulk_arrived, 0) = 0
  PROVE  ReleaseInv({})
<1>1. \A t \in Threads : ready[t] \in Seq(Instances(n)) /\ IsInjective(ready[t]) /\ Range(ready[t]) = {}
  BY NothingReady
<1>2. DOMAIN log = Instances(n) /\ \A i \in Instances(n) : log[i].times = 0
  BY DEF NoLog
<1>3. Cardinality({}) = 0
  BY FS_EmptySet
<1> QED BY <1>1, <1>2, <1>3 DEF ReleaseInv

LEMMA NextFrameStep ==
  ASSUME FireInv, NextFrame
  PROVE  FireInv'
<1>1. /\ UNCHANGED <<setup, ops, claims, ready>> /\ bumps' = bumps + 1
      /\ queue' = PredJobs(n) /\ batch_queue' = {}
      /\ pc' = [t \in Threads |-> "idle"] /\ job' = [t \in Threads |-> NoJob]
      /\ log' = NoLog(n) /\ Quiet
      /\ IF bumps % GenSpace = GenSpace - 1 THEN sweep_slot_generational_entries
         ELSE UNCHANGED <<remaining_deps, instances_sent, fanout_bulk_arrived>>
  BY DEF NextFrame
<1>2. n \in Shapes /\ bumps \in Nat
  BY DEF FireInv, CountersInv
<1>3. \A t \in Threads : ready[t] = <<>>
  BY <1>1 DEF FireInv, ControlInv, Quiet
<1>4. PICK gen \in Nat : gen = slot_gen
  <2>1. bumps % GenSpace \in 0 .. GenSpace - 1
    BY <1>2, NextGeneration
  <2> QED BY <2>1, DataflowAssumption DEF slot_gen
<1>5. slot_gen' = IF gen = GenSpace - 1 THEN 0 ELSE gen + 1
  <2>1. bumps' = bumps + 1
    BY <1>1
  <2>2. slot_gen' = (bumps + 1) % GenSpace /\ slot_gen = bumps % GenSpace
    BY <2>1 DEF slot_gen
  <2> QED BY <1>2, <1>4, <2>2, NextGeneration
<1>6. CountersInv' /\ Value(fanout_bulk_arrived, 0)' = 0
  <2>1. n' = n /\ n' \in Shapes /\ inline_continuation' \in BOOLEAN /\ bumps' \in Nat
    BY <1>1, <1>2 DEF FireInv, CountersInv, setup
  <2>2. CASE gen = GenSpace - 1
    <3>1. /\ remaining_deps' = [g \in Groups |-> [gen |-> 0, val |-> entry.deps_per_group]]
          /\ instances_sent' = [i \in Instances(n) |-> [gen |-> 0, val |-> 0]]
          /\ fanout_bulk_arrived' = [gen |-> 0, val |-> 0]
      BY <1>1, <1>4, <2>2 DEF slot_gen, sweep_slot_generational_entries, gen_pack, FireInv, CountersInv
    <3>2. slot_gen' = 0
      BY <1>5, <2>2
    <3> QED BY <1>1, <2>1, <3>1, <3>2, SameSets DEF CountersInv, Tagged, Value
  <2>3. CASE gen # GenSpace - 1
    <3>1. UNCHANGED <<remaining_deps, instances_sent, fanout_bulk_arrived>>
      BY <1>1, <1>4, <2>3 DEF slot_gen
    <3>2. slot_gen' = gen + 1 /\ 0 .. gen \subseteq 0 .. gen + 1 /\ gen + 1 \notin 0 .. gen
      BY <1>5, <2>3
    <3>3. /\ \A g \in Groups : remaining_deps[g].gen \in 0 .. gen
          /\ \A i \in Instances(n) : instances_sent[i].gen \in 0 .. gen
          /\ fanout_bulk_arrived.gen \in 0 .. gen
          /\ DOMAIN remaining_deps = Groups /\ DOMAIN instances_sent = Instances(n)
      BY <1>4 DEF FireInv, CountersInv, Tagged
    <3> QED BY <1>1, <2>1, <3>1, <3>2, <3>3, SameSets DEF CountersInv, Tagged, Value
  <2> QED BY <2>2, <2>3
<1>7. JobsInv'
  <2>1. \A j \in queue' : CountOK(j)
    BY <1>1, <1>2, PredJobCounts
  <2> QED BY <1>1, <2>1, NoJobOK, SameSets DEF FireInv, JobsInv, CountOK, IsPred
<1>8. ControlInv'
  BY <1>1, <1>3 DEF ControlInv
<1>9. ReleaseInv({})'
  <2>1. /\ DOMAIN ready' = Threads
        /\ \A t \in Threads : ready'[t] = <<>> /\ Range(ready'[t]) = {}
        /\ \A t \in Threads : ready'[t] \in Seq(Instances(n)) /\ IsInjective(ready'[t])
    BY <1>1, <1>3, NothingReady DEF FireInv, ReleaseInv
  <2>2. DOMAIN log' = Instances(n) /\ \A i \in Instances(n) : log'[i].times = 0
    BY <1>1 DEF NoLog
  <2>3. Cardinality({}) = 0
    BY FS_EmptySet
  <2> QED BY <1>1, <1>6, <2>1, <2>2, <2>3, SameSets DEF ReleaseInv
<1> QED BY <1>6, <1>7, <1>8, <1>9 DEF FireInv

LEMMA FireInit ==
  ASSUME Init
  PROVE  FireInv
<1>1. n \in Shapes /\ inline_continuation \in BOOLEAN /\ bumps = 0
  BY DEF Init
<1>2. slot_gen = 0
  BY <1>1, DataflowAssumption DEF slot_gen
<1>3. /\ remaining_deps = [g \in Groups |-> [gen |-> 0, val |-> entry.deps_per_group]]
      /\ instances_sent = [i \in Instances(n) |-> [gen |-> 0, val |-> 0]]
      /\ fanout_bulk_arrived = [gen |-> 0, val |-> 0]
  BY DEF Init, InitCounters, gen_pack, Groups, entry
<1>4. CountersInv /\ Value(fanout_bulk_arrived, 0) = 0
  BY <1>1, <1>2, <1>3 DEF CountersInv, Tagged, Value
<1>5. JobsInv
  BY <1>1, PredJobCounts, NoJobOK DEF Init, JobsInv
<1>6. ControlInv
  BY DEF Init, ControlInv
<1>7. ReleaseInv({})
  BY <1>4, FreshFrame DEF Init
<1> QED BY <1>4, <1>5, <1>6, <1>7 DEF FireInv

LEMMA FireStep ==
  ASSUME FireInv, [Next]_vars
  PROVE  FireInv'
<1>1. ASSUME NEW w \in Workers, Take(w) \/ RunPredecessor(w) \/ RunSuccessor(w) PROVE FireInv'
  BY <1>1, TakeStep, RunPredecessorStep, RunSuccessorStep
<1>2. ASSUME NEW r \in ResThreads, ResolveQueued(r) \/ Ingest(r) PROVE FireInv'
  BY <1>2, ResolveQueuedStep, IngestStep
<1>3. ASSUME NEW t \in Threads, Decrement(t) \/ Claim(t) \/ Dispatch(t) \/ DispatchFanout(t)
      PROVE  FireInv'
  BY <1>3, DecrementStep, ClaimStep, DispatchStep, DispatchFanoutStep
<1>4. ASSUME NEW t \in Threads,
             ConditionPasses(t) \/ ConditionFails(t) \/ ResetSent(t) \/ ConditionsDone(t)
      PROVE  FireInv'
  BY <1>4, ConditionPassesStep, ConditionFailsStep, ResetSentStep, ConditionsDoneStep
<1>5. CASE NextFrame
  BY <1>5, NextFrameStep
<1>6. CASE UNCHANGED vars
  <2>1. /\ UNCHANGED <<setup, bumps, remaining_deps, instances_sent, fanout_bulk_arrived>>
        /\ UNCHANGED <<ops, claims, ready, log, queue, batch_queue, pc, job>>
    BY <1>6 DEF vars, counters, queues, locals, history
  <2>2. JobsInv' /\ ControlInv'
    BY <2>1, SameSets DEF FireInv, JobsInv, ControlInv, CountOK, IsPred
  <2> QED BY <2>1, <2>2, QuietStep
<1> QED BY <1>1, <1>2, <1>3, <1>4, <1>5, <1>6 DEF Next

\* An instance is dispatched at most once in a frame: for every shape of a node,
\* every number of workers and resolution threads, and whatever the generation tag
\* of decrease_and_get_ready_into has gone through, its wrap included.
THEOREM InstancesFireOnce == Spec => []FiresOnce
<1>1. Init => FireInv
  BY FireInit
<1>2. FireInv /\ [Next]_vars => FireInv'
  BY FireStep
<1>3. FireInv => FiresOnce
  <2>1. ASSUME FireInv, NEW i \in Instances(n) PROVE log[i].times <= 1
    <3>1. log[i].times \in {0, 1}
      BY <2>1 DEF FireInv, ReleaseInv
    <3> QED BY <3>1
  <2> QED BY <2>1 DEF FiresOnce
<1> QED BY <1>1, <1>2, <1>3, PTL DEF Spec
=============================================================================
