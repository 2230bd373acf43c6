-------------------------- MODULE ParallelPlan_proofs -------------------------
(***************************************************************************)
(* What mtp_plan and the chunk arithmetic of mtp_work guarantee, for every *)
(* thread count, range and min_chunk.                                      *)
(***************************************************************************)
EXTENDS ParallelPlan, TLAPS

\* Integer division, as mtp_plan uses it: the quotient and its two bounds.
LEMMA Quotient ==
  ASSUME NEW a \in Nat, NEW b \in Nat \ {0}
  PROVE  /\ a \div b \in Nat
         /\ b * (a \div b) <= a
         /\ a < b * (a \div b) + b
  BY SMT

\* A product grows with its factor by at least the other factor.
LEMMA ProductStep ==
  ASSUME NEW s \in Nat, NEW j \in Int, NEW k \in Int, j < k
  PROVE  /\ s * j \in Int /\ s * k \in Int
         /\ s * j + s <= s * k
  BY SMT

\* mtp_plan's intermediate count never exceeds what the range or the thread
\* limit allow.
LEMMA TargetBounds ==
  ASSUME NEW threads \in Nat \ {0}, NEW total \in Nat \ {0},
         NEW min_chunk \in Int
  PROVE  LET target == PlanTarget(threads, total, min_chunk)
         IN  /\ target \in Nat
             /\ target <= PlanLimit(threads)
             /\ target * min_chunk <= total
<1> DEFINE divisor == IF min_chunk < 1 THEN 1 ELSE min_chunk
           wanted == total \div divisor
           target == PlanTarget(threads, total, min_chunk)
<1>1. divisor \in Nat \ {0} /\ min_chunk <= divisor
  OBVIOUS
<1>2. wanted \in Nat /\ divisor * wanted <= total
  BY <1>1, Quotient
<1>3. PlanLimit(threads) \in Nat
  BY DEF PlanLimit, MTP_CHUNKS_PER_THREAD
<1>4. target \in Nat /\ target <= PlanLimit(threads) /\ target <= wanted
  BY <1>2, <1>3 DEF PlanTarget
<1>5. target * min_chunk <= total
  <2>1. target * min_chunk <= target * divisor
    BY <1>1, <1>4
  <2>2. target * divisor <= divisor * wanted
    BY <1>1, <1>2, <1>4
  <2> QED
    BY <1>1, <1>2, <1>4, <2>1, <2>2
<1> QED
  BY <1>4, <1>5

\* The span of a chunk is positive, and count - 1 chunks are less than the
\* range while count chunks are at least the range.
LEMMA PlanBounds ==
  ASSUME NEW threads \in Nat \ {0}, NEW total \in Nat \ {0},
         NEW min_chunk \in Int
  PROVE  LET span  == PlanSpan(threads, total, min_chunk)
             count == PlanCount(threads, total, min_chunk)
         IN  /\ span \in Nat \ {0}
             /\ count \in Nat \ {0}
             /\ span * (count - 1) < total
             /\ total <= span * count
<1> DEFINE target == PlanTarget(threads, total, min_chunk)
           span   == PlanSpan(threads, total, min_chunk)
           count  == PlanCount(threads, total, min_chunk)
<1>1. target \in Nat
  BY TargetBounds
<1>2. CASE target < 2
  BY <1>2 DEF PlanSpan, PlanCount
<1>3. CASE target >= 2
  <2>1. span = (total + target - 1) \div target
    BY <1>1, <1>3 DEF PlanSpan
  <2>2. total + target - 1 \in Nat /\ target \in Nat \ {0}
    BY <1>1, <1>3
  <2>3. span \in Nat /\ total + target - 1 < target * span + target
    <3> HIDE DEF span, target
    <3> QED BY <2>1, <2>2, Quotient
  <2>4. span # 0
    <3> HIDE DEF span, target
    <3> QED BY <2>2, <2>3
  <2>5. count = (total + span - 1) \div span
    BY <1>1, <1>3 DEF PlanCount
  <2>6. /\ count \in Nat
        /\ span * count <= total + span - 1
        /\ total + span - 1 < span * count + span
    <3>1. total + span - 1 \in Nat /\ span \in Nat \ {0}
      BY <2>3, <2>4
    <3> HIDE DEF span, count
    <3> QED BY <3>1, <2>5, Quotient
  <2> HIDE DEF span, count, target
  <2>7. total <= span * count
    BY <2>3, <2>6
  <2>8. count # 0
    BY <2>3, <2>7
  <2>9. span * (count - 1) = span * count - span
    BY <2>3, <2>6
  <2> QED
    BY <2>3, <2>4, <2>6, <2>7, <2>8, <2>9 DEF span, count
<1> QED
  BY <1>1, <1>2, <1>3

\* When a range is split, there are at most four chunks a thread, and all but
\* the last have at least min_chunk indices.
LEMMA SplitBounds ==
  ASSUME NEW threads \in Nat \ {0}, NEW total \in Nat \ {0},
         NEW min_chunk \in Int,
         PlanCount(threads, total, min_chunk) > 1
  PROVE  /\ PlanCount(threads, total, min_chunk) <= PlanLimit(threads)
         /\ PlanSpan(threads, total, min_chunk) >= min_chunk
<1> DEFINE target == PlanTarget(threads, total, min_chunk)
           span   == PlanSpan(threads, total, min_chunk)
           count  == PlanCount(threads, total, min_chunk)
<1>1. target \in Nat /\ target <= PlanLimit(threads) /\ target * min_chunk <= total
  BY TargetBounds
<1>2. target >= 2
  BY <1>1 DEF PlanCount
<1>3. span \in Nat \ {0} /\ count \in Nat \ {0} /\ span * (count - 1) < total
  BY PlanBounds
<1>4. span = (total + target - 1) \div target
  BY <1>1, <1>2 DEF PlanSpan
<1>5. PlanLimit(threads) \in Nat
  BY DEF PlanLimit, MTP_CHUNKS_PER_THREAD
<1>6. total + target - 1 \in Nat /\ target \in Nat \ {0}
  BY <1>1, <1>2
<1> HIDE DEF span, count, target
<1>7. total <= target * span
  <2>1. total + target - 1 < target * span + target
    BY <1>4, <1>6, Quotient
  <2> QED BY <1>3, <1>6, <2>1
<1>8. count <= target
  <2> SUFFICES ASSUME count > target PROVE FALSE
    BY <1>3, <1>6
  <2>1. span * target <= span * (count - 1)
    BY <1>3, <1>6
  <2> QED BY <1>3, <1>6, <1>7, <2>1
<1>9. span >= min_chunk
  <2> SUFFICES ASSUME span < min_chunk PROVE FALSE
    BY <1>3
  <2>1. target * span + target <= target * min_chunk
    BY <1>3, <1>6
  <2> QED BY <1>1, <1>3, <1>6, <1>7, <2>1
<1> QED
  BY <1>1, <1>3, <1>5, <1>6, <1>8, <1>9 DEF count, span

-----------------------------------------------------------------------------
(***************************************************************************)
(* The chunks of a job whose span and count satisfy the bounds of mtp_plan *)
(***************************************************************************)
PlannedJob(job, count) ==
  /\ job.lo \in Int /\ job.hi \in Int /\ job.span \in Nat \ {0}
  /\ count \in Nat \ {0}
  /\ job.span * (count - 1) < job.hi - job.lo
  /\ job.hi - job.lo <= job.span * count

\* Each chunk is a nonempty part of the range that ends where the next begins
\* or at the end of the range.
LEMMA ChunkBounds ==
  ASSUME NEW job, NEW count, PlannedJob(job, count), NEW k \in 0..(count - 1)
  PROVE  /\ ChunkStart(job, k) \in Int /\ ChunkEnd(job, k) \in Int
         /\ job.lo <= ChunkStart(job, k)
         /\ ChunkStart(job, k) < ChunkEnd(job, k)
         /\ ChunkEnd(job, k) <= job.hi
         /\ ChunkEnd(job, k) <= ChunkStart(job, k) + job.span
<1>1. job.span * k \in Nat /\ job.span * k <= job.span * (count - 1)
  BY DEF PlannedJob
<1> QED
  BY <1>1 DEF PlannedJob, ChunkStart, ChunkEnd

\* Chunks with different numbers are disjoint, the lower one first.
LEMMA ChunkOrder ==
  ASSUME NEW job, NEW count, PlannedJob(job, count),
         NEW k \in 0..(count - 1), NEW m \in 0..(k - 1)
  PROVE  ChunkEnd(job, m) <= ChunkStart(job, k)
<1>1. job.span * m + job.span <= job.span * k
  BY ProductStep DEF PlannedJob
<1>2. job.span * m \in Int /\ job.span * k \in Int
  BY DEF PlannedJob
<1>3. ChunkEnd(job, m) <= ChunkStart(job, m) + job.span
  BY ChunkBounds DEF PlannedJob
<1>4. ChunkEnd(job, m) \in Int
  BY ChunkBounds DEF PlannedJob
<1> QED
  BY <1>1, <1>2, <1>3, <1>4 DEF ChunkStart, PlannedJob

\* Every index of the range is in a chunk.
LEMMA ChunkCover ==
  ASSUME NEW job, NEW count, PlannedJob(job, count),
         NEW i \in job.lo..(job.hi - 1)
  PROVE  \E k \in 0..(count - 1) : i \in ChunkRange(job, k)
<1> DEFINE offset == i - job.lo
           k == offset \div job.span
<1>1. /\ job.lo \in Int /\ job.hi \in Int /\ i \in Int
      /\ job.lo <= i /\ i < job.hi
      /\ job.span \in Nat \ {0} /\ offset \in Nat
  BY DEF PlannedJob
<1>2. k \in Nat /\ job.span * k <= offset /\ offset < job.span * k + job.span
  <2> HIDE DEF offset
  <2> QED BY <1>1, Quotient
<1> HIDE DEF k
<1>3. k < count
  <2> SUFFICES ASSUME k >= count PROVE FALSE
    BY <1>2 DEF PlannedJob
  <2>1. job.span * count <= job.span * k
    BY <1>1, <1>2 DEF PlannedJob
  <2>2. job.span * count \in Int /\ job.span * k \in Int
    BY <1>1, <1>2 DEF PlannedJob
  <2> QED
    BY <1>1, <1>2, <2>1, <2>2 DEF PlannedJob
<1>4. k \in 0..(count - 1)
  BY <1>2, <1>3 DEF PlannedJob
<1>5. job.span * k \in Int
  BY <1>1, <1>2
<1>6. i \in ChunkRange(job, k)
  BY <1>1, <1>2, <1>5 DEF ChunkRange, ChunkStart, ChunkEnd
<1> QED
  BY <1>4, <1>6

\* No index is in two chunks.
LEMMA ChunkDisjoint ==
  ASSUME NEW job, NEW count, PlannedJob(job, count),
         NEW k \in 0..(count - 1), NEW m \in 0..(count - 1),
         NEW i, i \in ChunkRange(job, k), i \in ChunkRange(job, m)
  PROVE  k = m
<1>1. count \in Int
  BY DEF PlannedJob
<1>2. /\ ChunkStart(job, k) \in Int /\ ChunkEnd(job, k) \in Int
      /\ ChunkStart(job, m) \in Int /\ ChunkEnd(job, m) \in Int
  BY ChunkBounds
<1>3. ASSUME k < m PROVE FALSE
  <2>1. ChunkEnd(job, k) <= ChunkStart(job, m)
    BY <1>1, <1>3, ChunkOrder
  <2> QED BY <1>2, <2>1 DEF ChunkRange
<1>4. ASSUME m < k PROVE FALSE
  <2>1. ChunkEnd(job, m) <= ChunkStart(job, k)
    BY <1>1, <1>4, ChunkOrder
  <2> QED BY <1>2, <2>1 DEF ChunkRange
<1> QED
  BY <1>1, <1>3, <1>4

\* A chunk has no index outside the range.
LEMMA ChunkInside ==
  ASSUME NEW job, NEW count, PlannedJob(job, count), NEW k \in 0..(count - 1)
  PROVE  ChunkRange(job, k) \subseteq job.lo..(job.hi - 1)
  BY ChunkBounds DEF ChunkRange, PlannedJob

\* The chunks 0..count-1 of a job cover every index of [lo, hi) and none outside,
\* none of them is empty, and they follow each other without overlap.
Partition(job, count) ==
  /\ \A i \in job.lo..(job.hi - 1) : \E k \in 0..(count - 1) : i \in ChunkRange(job, k)
  /\ \A k \in 0..(count - 1) :
       /\ ChunkStart(job, k) < ChunkEnd(job, k)
       /\ ChunkRange(job, k) \subseteq job.lo..(job.hi - 1)
       /\ \A m \in 0..(k - 1) : ChunkEnd(job, m) <= ChunkStart(job, k)

\* The chunks mtp_plan announces, cut out by mtp_work, partition the range, for
\* every thread count, every range and every min_chunk.  A range that is split at
\* all has at most four chunks a thread, and none but the last is below min_chunk.
THEOREM PlanPartitions ==
  ASSUME NEW threads \in Nat \ {0}, NEW lo \in Int, NEW hi \in Int, NEW min_chunk \in Int,
         lo < hi
  PROVE  LET span  == PlanSpan(threads, hi - lo, min_chunk)
             count == PlanCount(threads, hi - lo, min_chunk)
         IN  /\ Partition([lo |-> lo, hi |-> hi, span |-> span], count)
             /\ count > 1 => count <= PlanLimit(threads) /\ span >= min_chunk
<1> DEFINE span  == PlanSpan(threads, hi - lo, min_chunk)
           count == PlanCount(threads, hi - lo, min_chunk)
           job   == [lo |-> lo, hi |-> hi, span |-> span]
<1>1. hi - lo \in Nat \ {0}
  OBVIOUS
<1>2. count > 1 => count <= PlanLimit(threads) /\ span >= min_chunk
  BY <1>1, SplitBounds
<1>3. PlannedJob(job, count)
  BY <1>1, PlanBounds DEF PlannedJob
<1> HIDE DEF span, count, job
<1>4. Partition(job, count)
  <2>1. \A i \in job.lo..(job.hi - 1) : \E k \in 0..(count - 1) : i \in ChunkRange(job, k)
    BY <1>3, ChunkCover
  <2>2. \A k \in 0..(count - 1) :
          /\ ChunkStart(job, k) < ChunkEnd(job, k)
          /\ ChunkRange(job, k) \subseteq job.lo..(job.hi - 1)
    BY <1>3, ChunkBounds, ChunkInside
  <2>3. \A k \in 0..(count - 1) : \A m \in 0..(k - 1) : ChunkEnd(job, m) <= ChunkStart(job, k)
    BY <1>3, ChunkOrder
  <2> QED
    BY <2>1, <2>2, <2>3 DEF Partition
<1> QED
  BY <1>2, <1>4 DEF span, count, job
=============================================================================
