--------------------- MODULE BandwidthConsumptionProofs ---------------------
(***************************************************************************)
(* Theorems about the two-hour accounting: its type invariant with the     *)
(* bound of the retry list, and the safety invariants of its runs.         *)
(***************************************************************************)
EXTENDS BandwidthConsumption, InductionLemmas

(* Facts about buckets.                                                      *)

(* A bucket holds the ticks from its start to its end.                       *)
LEMMA BucketHolds ==
  ASSUME NEW t \in Nat
  PROVE  /\ BucketOf(t) \in Nat
         /\ StartOf(BucketOf(t)) <= t
         /\ t < EndOf(BucketOf(t))
BY ParametersAssumption DEF BucketOf, StartOf, EndOf

LEMMA BucketBounds ==
  ASSUME NEW k \in Nat
  PROVE  StartOf(k) \in Nat /\ EndOf(k) \in Nat /\ StartOf(k) < EndOf(k)
BY ParametersAssumption DEF StartOf, EndOf

(* Later buckets start and end later.                                        *)
LEMMA BucketsOrdered ==
  ASSUME NEW j \in Nat, NEW k \in Nat
  PROVE  /\ j <= k => StartOf(j) <= StartOf(k) /\ EndOf(j) <= EndOf(k)
         /\ EndOf(j) < EndOf(k) => j < k
<1> USE ParametersAssumption
<1>1. j <= k => StartOf(j) <= StartOf(k)
  BY ProductMonotone DEF StartOf
<1>2. j <= k => EndOf(j) <= EndOf(k)
  <2> SUFFICES ASSUME j <= k PROVE EndOf(j) <= EndOf(k) OBVIOUS
  <2>1. j + 1 \in Nat /\ k + 1 \in Nat /\ j + 1 <= k + 1 OBVIOUS
  <2>2. QED BY <2>1, ProductMonotone DEF EndOf
<1>3. k <= j => EndOf(k) <= EndOf(j)
  <2> SUFFICES ASSUME k <= j PROVE EndOf(k) <= EndOf(j) OBVIOUS
  <2>1. j + 1 \in Nat /\ k + 1 \in Nat /\ k + 1 <= j + 1 OBVIOUS
  <2>2. QED BY <2>1, ProductMonotone DEF EndOf
<1>4. EndOf(j) \in Nat /\ EndOf(k) \in Nat
  BY BucketBounds
<1>5. QED BY <1>1, <1>2, <1>3, <1>4

(* What Newest leaves out is older than all it keeps, and it keeps no more   *)
(* than MaxPending.                                                          *)
LEMMA NewestKeepsNewer ==
  ASSUME NEW S \in SUBSET Nat, IsFiniteSet(S), NEW d \in S \ Newest(S), NEW k \in Newest(S)
  PROVE  d < k
<1> SUFFICES ASSUME k <= d PROVE FALSE
  BY DEF Newest
<1> DEFINE Above(x) == {j \in S : j > x}
<1>1. d \in S /\ k \in S /\ Cardinality(Above(k)) < MaxPending
      /\ ~ (Cardinality(Above(d)) < MaxPending)
  BY DEF Newest
<1>2. Above(d) \in SUBSET Above(k)
  <2> SUFFICES ASSUME NEW x \in S, x > d PROVE x > k OBVIOUS
  <2>1. x \in Nat /\ d \in Nat /\ k \in Nat BY <1>1
  <2>2. QED BY <2>1
<1>3. Above(k) \in SUBSET S
  OBVIOUS
<1> HIDE DEF Above
<1>4. /\ IsFiniteSet(Above(k)) /\ IsFiniteSet(Above(d))
      /\ Cardinality(Above(d)) <= Cardinality(Above(k))
  <2>1. IsFiniteSet(Above(k)) BY <1>3, FS_Subset
  <2>2. QED BY <1>2, <2>1, FS_Subset
<1>5. Cardinality(Above(d)) \in Nat /\ Cardinality(Above(k)) \in Nat
  BY <1>4, FS_CardinalityType
<1>6. QED BY <1>1, <1>4, <1>5, ParametersAssumption

LEMMA NewestBounded ==
  ASSUME NEW S \in SUBSET Nat, IsFiniteSet(S)
  PROVE  /\ Newest(S) \subseteq S
         /\ IsFiniteSet(Newest(S))
         /\ Cardinality(Newest(S)) <= MaxPending
<1>1. Newest(S) \in SUBSET S BY DEF Newest
<1>2. IsFiniteSet(Newest(S)) BY <1>1, FS_Subset
<1>3. CASE Newest(S) = {}
  BY <1>1, <1>2, <1>3, FS_EmptySet, ParametersAssumption
<1>4. CASE Newest(S) # {}
  <2>1. PICK m \in Newest(S) : \A x \in Newest(S) : m <= x
    BY <1>1, <1>2, <1>4, FiniteLeast
  <2> DEFINE Above == {j \in S : j > m}
  <2>2. Cardinality(Above) < MaxPending BY <2>1 DEF Newest
  <2>3. Newest(S) \in SUBSET (Above \cup {m})
    <3> SUFFICES ASSUME NEW x \in Newest(S), x # m PROVE x > m BY <1>1
    <3>1. x \in Nat /\ m \in Nat /\ m <= x BY <1>1, <2>1
    <3>2. QED BY <3>1
  <2>4. m \notin Above
    <3>1. m \in Nat BY <1>1, <2>1
    <3>2. QED BY <3>1
  <2>5. Above \in SUBSET S OBVIOUS
  <2> HIDE DEF Above
  <2>12. IsFiniteSet(Above) BY <2>5, FS_Subset
  <2>6. /\ IsFiniteSet(Above \cup {m})
        /\ Cardinality(Above \cup {m}) = Cardinality(Above) + 1
    BY <2>4, <2>12, FS_AddElement
  <2>7. Cardinality(Newest(S)) <= Cardinality(Above \cup {m})
    BY <2>3, <2>6, FS_Subset
  <2>8. Cardinality(Newest(S)) \in Nat /\ Cardinality(Above) \in Nat
    BY <1>2, <2>12, FS_CardinalityType
  <2>9. Cardinality(Newest(S)) <= MaxPending
    BY <2>2, <2>6, <2>7, <2>8, ParametersAssumption
  <2>11. QED BY <1>1, <1>2, <2>9
<1>5. QED BY <1>3, <1>4

-----------------------------------------------------------------------------
(* Facts about the segments of a payload.                                    *)

(* A bucket between the first and the last of a payload has ticks of it.     *)
LEMMA SegmentInside ==
  ASSUME NEW start \in Nat, NEW end \in Nat, start < end,
         NEW k \in BucketOf(start) .. BucketOf(end - 1)
  PROVE  /\ k \in Nat
         /\ start < EndOf(k) /\ StartOf(k) < end
         /\ Larger(start, StartOf(k)) - start \in 0 .. end - start
         /\ Smaller(end, EndOf(k)) - start \in 0 .. end - start
         /\ Larger(start, StartOf(k)) < Smaller(end, EndOf(k))
<1>1. end - 1 \in Nat OBVIOUS
<1>2. BucketOf(start) \in Nat /\ BucketOf(end - 1) \in Nat
  BY <1>1, BucketHolds
<1>3. k \in Nat /\ BucketOf(start) <= k /\ k <= BucketOf(end - 1)
  BY <1>2
<1>4. EndOf(BucketOf(start)) <= EndOf(k) /\ StartOf(k) <= StartOf(BucketOf(end - 1))
  BY <1>2, <1>3, BucketsOrdered
<1>5. start < EndOf(BucketOf(start)) /\ StartOf(BucketOf(end - 1)) <= end - 1
  BY <1>1, BucketHolds
<1>6. /\ StartOf(k) \in Nat /\ EndOf(k) \in Nat /\ StartOf(k) < EndOf(k)
      /\ EndOf(BucketOf(start)) \in Nat /\ StartOf(BucketOf(end - 1)) \in Nat
  BY <1>2, <1>3, BucketBounds
<1>7. start < EndOf(k) /\ StartOf(k) < end
  BY <1>4, <1>5, <1>6
<1>8. QED BY <1>3, <1>6, <1>7 DEF Larger, Smaller

(* The share of a segment is a number of bytes, never negative.              *)
LEMMA ShareNatural ==
  ASSUME NEW total \in Nat, NEW from \in Nat, NEW to \in Nat, from <= to,
         NEW interval \in Nat \ {0}
  PROVE  Share(total, from, to, interval) \in Nat
<1>1. from * total \in Nat /\ to * total \in Nat /\ from * total <= to * total
  BY ProductMonotone
<1>2. total * from = from * total /\ total * to = to * total
  OBVIOUS
<1> DEFINE a == total * from
           b == total * to
<1>3. a \in Nat /\ b \in Nat /\ a <= b
  BY <1>1, <1>2
<1> HIDE DEF a, b
<1>4. a \div interval \in Nat /\ b \div interval \in Nat /\ a \div interval <= b \div interval
  BY <1>3, QuotientMonotone
<1>5. QED BY <1>4 DEF Share, Cumulated, a, b

(* A function from buckets to their records.                                 *)
Records(f) == DOMAIN f \subseteq Nat /\ f \in [DOMAIN f -> BucketRecord]

LEMMA RecordsRange ==
  ASSUME NEW f, Records(f)
  PROVE  DOMAIN f \subseteq Nat /\ Range(f) \subseteq BucketRecord
BY DEF Records, Range

LEMMA EmptyRecords == Records(Empty) /\ DOMAIN Empty = {}
BY DEF Records, Empty

LEMMA WithoutRecords ==
  ASSUME NEW f, Records(f), NEW S
  PROVE  /\ Records(Without(f, S))
         /\ DOMAIN Without(f, S) = DOMAIN f \ S
         /\ \A k \in DOMAIN f \ S : Without(f, S)[k] = f[k]
BY DEF Records, Without

LEMMA OverRecords ==
  ASSUME NEW f, Records(f), NEW g, Records(g)
  PROVE  /\ Records(Over(g, f))
         /\ DOMAIN Over(g, f) = DOMAIN g \cup DOMAIN f
         /\ \A k \in DOMAIN g : Over(g, f)[k] = g[k]
         /\ \A k \in DOMAIN f \ DOMAIN g : Over(g, f)[k] = f[k]
BY DEF Records, Over

(* The records of one payload, added to those of the accumulator.            *)
LEMMA AccumulatedRecords ==
  ASSUME NEW start \in Nat, NEW end \in Nat, start < end, NEW total \in Nat,
         Records(buckets), IsFiniteSet(DOMAIN buckets)
  PROVE  /\ Records(Accumulated(start, end, total))
         /\ IsFiniteSet(DOMAIN Accumulated(start, end, total))
         /\ DOMAIN Accumulated(start, end, total)
              = (BucketOf(start) .. BucketOf(end - 1)) \cup DOMAIN buckets
<1> DEFINE from(k) == Larger(start, StartOf(k)) - start
           to(k)   == Smaller(end, EndOf(k)) - start
           old(k)  == IF k \in DOMAIN buckets THEN buckets[k]
                      ELSE [bytes |-> 0, coverage |-> 0]
           new(k)  == [bytes    |-> old(k).bytes + Share(total, from(k), to(k), end - start),
                       coverage |-> Smaller(BucketSeconds, old(k).coverage + to(k) - from(k))]
           g == [k \in BucketOf(start) .. BucketOf(end - 1) |-> new(k)]
<1>1. ASSUME NEW k \in BucketOf(start) .. BucketOf(end - 1)
      PROVE  k \in Nat /\ new(k) \in BucketRecord
  <2>1. /\ k \in Nat
        /\ from(k) \in 0 .. end - start /\ to(k) \in 0 .. end - start
        /\ from(k) < to(k)
    <3>1. k \in Nat /\ from(k) \in 0 .. end - start /\ to(k) \in 0 .. end - start
      BY <1>1, SegmentInside
    <3>2. Larger(start, StartOf(k)) < Smaller(end, EndOf(k))
      BY <1>1, SegmentInside
    <3>3. StartOf(k) \in Nat /\ EndOf(k) \in Nat
      BY <3>1, BucketBounds
    <3>4. Larger(start, StartOf(k)) \in Nat /\ Smaller(end, EndOf(k)) \in Nat
      BY <3>3 DEF Larger, Smaller
    <3>5. from(k) < to(k)
      BY <3>2, <3>4
    <3>6. QED BY <3>1, <3>5
  <2>2. old(k).bytes \in Nat /\ old(k).coverage \in 0 .. BucketSeconds
    BY ParametersAssumption DEF Records, BucketRecord
  <2> HIDE DEF from, to, old
  <2>3. from(k) \in Nat /\ to(k) \in Nat /\ end - start \in Nat \ {0}
    BY <2>1
  <2>4. Share(total, from(k), to(k), end - start) \in Nat
    <3>1. from(k) <= to(k) BY <2>1, <2>3
    <3>2. QED BY <2>3, <3>1, ShareNatural
  <2>5. old(k).bytes + Share(total, from(k), to(k), end - start) \in Nat
    BY <2>2, <2>4
  <2>6. Smaller(BucketSeconds, old(k).coverage + to(k) - from(k)) \in 0 .. BucketSeconds
    BY <2>1, <2>2, <2>3, ParametersAssumption DEF Smaller
  <2>7. QED BY <2>1, <2>5, <2>6 DEF BucketRecord
<1> HIDE DEF new
<1>2. Records(g) /\ DOMAIN g = BucketOf(start) .. BucketOf(end - 1)
  BY <1>1 DEF Records
<1>3. IsFiniteSet(DOMAIN g)
  <2>1. BucketOf(start) \in Nat /\ BucketOf(end - 1) \in Nat
    <3>1. end - 1 \in Nat OBVIOUS
    <3>2. QED BY <3>1, BucketHolds
  <2>2. BucketOf(start) \in Int /\ BucketOf(end - 1) \in Int BY <2>1
  <2>3. QED BY <2>2, <1>2, FS_Interval
<1>4. Accumulated(start, end, total) = Over(g, buckets)
  BY DEF Accumulated, new
<1> HIDE DEF g
<1>5. Records(Over(g, buckets)) /\ DOMAIN Over(g, buckets) = DOMAIN g \cup DOMAIN buckets
  BY <1>2, OverRecords
<1>6. IsFiniteSet(DOMAIN g \cup DOMAIN buckets)
  BY <1>3, FS_Union
<1>7. QED BY <1>2, <1>4, <1>5, <1>6

-----------------------------------------------------------------------------
(* The type invariant.  The proof needs that the clock started late enough   *)
(* for every interval, that the accumulator and the list are finite, and     *)
(* that the Agent awaits an answer only for the head of a list.              *)
Request ==
  [bucket : Nat, record : BucketRecord, live : BOOLEAN, stage : {"sent", "checked"}]

NumbersTyped ==
  /\ clock \in Nat /\ PushSeconds <= clock /\ due \in Nat /\ lastTime \in Nat
  /\ epoch \in Nat /\ accounted \in Nat
  /\ marker \in {<<>>} \cup (Nat \X (Nat \ {0}))

ControlTyped ==
  /\ pc \in {"idle", "accounted", "await"} /\ reply \in {"none", "ok", "error"}
  /\ pc = "await" => DOMAIN queue # {}

RecordsTyped ==
  /\ Records(buckets) /\ IsFiniteSet(DOMAIN buckets)
  /\ Records(queue) /\ IsFiniteSet(DOMAIN queue)
  /\ Cardinality(DOMAIN queue) <= MaxPending
  /\ Records(rows) /\ Records(final)

FlagsTyped == {clearing, overlap, raced} \subseteq BOOLEAN

BucketsTyped == dropped \subseteq Nat /\ acked \subseteq Nat /\ erased \subseteq Nat

Typed ==
  /\ NumbersTyped /\ ControlTyped /\ RecordsTyped /\ FlagsTyped /\ BucketsTyped
  /\ requests \subseteq Request

LEMMA TypedIsTypeOK == Typed => TypeOK
<1> SUFFICES ASSUME Typed PROVE TypeOK OBVIOUS
<1>1. /\ clock \in Nat /\ due \in Nat /\ lastTime \in Nat /\ epoch \in Nat /\ accounted \in Nat
      /\ marker \in {<<>>} \cup (Nat \X (Nat \ {0}))
  BY DEF Typed, NumbersTyped
<1>2. pc \in {"idle", "accounted", "await"} /\ reply \in {"none", "ok", "error"}
  BY DEF Typed, ControlTyped
<1>3. /\ \A f \in {buckets, queue, rows, final} :
            DOMAIN f \subseteq Nat /\ Range(f) \subseteq BucketRecord
      /\ Cardinality(DOMAIN queue) <= MaxPending
  BY RecordsRange DEF Typed, RecordsTyped
<1>4. \A r \in requests : /\ r.record \in BucketRecord /\ r.live \in BOOLEAN
                          /\ r.stage \in {"sent", "checked"}
  BY DEF Typed, Request
<1>5. {clearing, overlap, raced} \subseteq BOOLEAN
  BY DEF Typed, FlagsTyped
<1>6. (dropped \cup acked \cup erased) \subseteq Nat
  BY DEF Typed, BucketsTyped
<1>7. QED BY <1>1, <1>2, <1>3, <1>4, <1>5, <1>6 DEF TypeOK

LEMMA InitTyped == Init => Typed
<1> SUFFICES ASSUME Init PROVE Typed OBVIOUS
<1>1. NumbersTyped
  BY ParametersAssumption DEF Init, NumbersTyped
<1>2. ControlTyped
  BY DEF Init, ControlTyped
<1>3. RecordsTyped
  BY EmptyRecords, FS_EmptySet, ParametersAssumption DEF Init, RecordsTyped
<1>4. FlagsTyped
  BY DEF Init, FlagsTyped
<1>5. BucketsTyped /\ requests \subseteq Request
  BY DEF Init, BucketsTyped
<1>6. QED BY <1>1, <1>2, <1>3, <1>4, <1>5 DEF Typed

(* The head of a list that is not empty is its oldest bucket.                *)
LEMMA HeadOldest ==
  ASSUME Records(queue), DOMAIN queue # {}
  PROVE  Head \in DOMAIN queue /\ Head \in Nat /\ \A j \in DOMAIN queue : Head <= j
<1>1. DOMAIN queue \in SUBSET Nat
  BY DEF Records
<1>2. \E k \in DOMAIN queue : \A j \in DOMAIN queue : k <= j
  BY <1>1, Least
<1>3. Head \in DOMAIN queue /\ \A j \in DOMAIN queue : Head <= j
  BY <1>2 DEF Head
<1>4. QED BY <1>1, <1>3

(* A payload covers at least a second, and never reaches before tick 0.      *)
LEMMA IntervalPositive ==
  ASSUME NumbersTyped
  PROVE  /\ Interval(clock) \in Nat \ {0}
         /\ clock - Interval(clock) \in Nat
         /\ clock - Interval(clock) < clock
BY ParametersAssumption DEF NumbersTyped, Interval

(* What a cycle makes of its payload: with the records of the accumulator    *)
(* (working) and those of them whose end has passed (closed).                *)
Accounting(start, working, closed) ==
  /\ start = clock - Interval(clock)
  /\ Records(working) /\ IsFiniteSet(DOMAIN working)
  /\ DOMAIN working = (BucketOf(start) .. BucketOf(clock - 1)) \cup DOMAIN buckets
  /\ closed = {k \in DOMAIN working : Closed(k)}
  /\ closed \subseteq DOMAIN working
  /\ buckets' = Without(working, closed \cup {k \in DOMAIN working : k < BucketOf(clock) - 1})
  /\ queue' = [k \in Newest(DOMAIN queue \cup closed) |->
                 IF k \in closed THEN working[k] ELSE queue[k]]
  /\ final' = Over(final, [k \in closed |-> working[k]])
  /\ dropped' = dropped \cup ((DOMAIN queue \cup closed) \ Newest(DOMAIN queue \cup closed))
  /\ overlap' = (overlap \/ start < marker[1])

LEMMA AccountedRecords ==
  ASSUME Typed, NEW total \in 0 .. MaxBytes - accounted, Account(total)
  PROVE  \E start, working, closed :
           /\ start \in Nat
           /\ Accounting(start, working, closed)
           /\ working = Accumulated(start, clock, total)
<1> DEFINE start   == clock - Interval(clock)
           working == Accumulated(start, clock, total)
           closed  == {k \in DOMAIN working : Closed(k)}
<1>1. start \in Nat /\ clock \in Nat /\ start < clock
  BY IntervalPositive DEF Typed, NumbersTyped
<1>2. Records(buckets) /\ IsFiniteSet(DOMAIN buckets) /\ total \in Nat
  BY ParametersAssumption DEF Typed, RecordsTyped, NumbersTyped
<1>3. /\ buckets' = Without(working, closed \cup {k \in DOMAIN working : k < BucketOf(clock) - 1})
      /\ queue' = [k \in Newest(DOMAIN queue \cup closed) |->
                     IF k \in closed THEN working[k] ELSE queue[k]]
      /\ final' = Over(final, [k \in closed |-> working[k]])
      /\ dropped' = dropped \cup ((DOMAIN queue \cup closed) \ Newest(DOMAIN queue \cup closed))
      /\ overlap' = (overlap \/ start < marker[1])
  BY DEF Account
<1>4. closed \subseteq DOMAIN working /\ closed = {k \in DOMAIN working : Closed(k)}
  OBVIOUS
<1>5. start = clock - Interval(clock) OBVIOUS
<1> HIDE DEF closed, start
<1>6. /\ Records(working) /\ IsFiniteSet(DOMAIN working)
      /\ DOMAIN working = (BucketOf(start) .. BucketOf(clock - 1)) \cup DOMAIN buckets
      /\ working = Accumulated(start, clock, total)
  BY <1>1, <1>2, AccumulatedRecords
<1> HIDE DEF working
<1>7. Accounting(start, working, closed)
  BY <1>3, <1>4, <1>5, <1>6 DEF Accounting
<1>8. QED BY <1>1, <1>6, <1>7

LEMMA AccountTyped ==
  ASSUME Typed, NEW total \in 0 .. MaxBytes - accounted, Account(total)
  PROVE  Typed'
<1>1. PICK start, working, closed : start \in Nat /\ Accounting(start, working, closed)
  BY AccountedRecords
<1> DEFINE listed == DOMAIN queue \cup closed
           first  == [k \in closed |-> working[k]]
<1>2. Records(working) /\ closed \subseteq DOMAIN working /\ IsFiniteSet(DOMAIN working)
  BY <1>1 DEF Accounting
<1>3. /\ Records(buckets) /\ Records(queue) /\ IsFiniteSet(DOMAIN queue)
      /\ Records(rows) /\ Records(final)
  BY DEF Typed, RecordsTyped
<1>4. listed \in SUBSET Nat /\ IsFiniteSet(listed)
  <2>1. IsFiniteSet(closed) BY <1>2, FS_Subset
  <2>2. QED BY <1>2, <1>3, <2>1, FS_Union DEF Records
<1>5. /\ Newest(listed) \subseteq listed /\ IsFiniteSet(Newest(listed))
      /\ Cardinality(Newest(listed)) <= MaxPending
  BY <1>4, NewestBounded
<1>6. NumbersTyped'
  <2>1. clock \in Nat /\ PushSeconds <= clock /\ Interval(clock) \in Nat \ {0}
    BY IntervalPositive DEF Typed, NumbersTyped
  <2>2. (clock \div PushSeconds + 1) * PushSeconds \in Nat
    <3>1. clock \div PushSeconds \in Nat
      BY <2>1, ParametersAssumption, QuotientMonotone
    <3>2. clock \div PushSeconds + 1 \in Nat /\ PushSeconds \in Nat
      BY <3>1, ParametersAssumption
    <3>3. QED BY <3>2, ProductMonotone
  <2>3. accounted + total \in Nat /\ epoch \in Nat
    BY ParametersAssumption DEF Typed, NumbersTyped
  <2>4. /\ clock' = clock /\ epoch' = epoch /\ accounted' = accounted + total
        /\ due' = (clock \div PushSeconds + 1) * PushSeconds
        /\ lastTime' = clock /\ marker' = <<clock, Interval(clock)>>
    BY DEF Account, BeginCycle, monitorVars
  <2>5. QED BY <2>1, <2>2, <2>3, <2>4 DEF NumbersTyped
<1>7. ControlTyped'
  BY DEF Account, BeginCycle, Typed, ControlTyped
<1>8. Records(buckets') /\ IsFiniteSet(DOMAIN buckets')
  <2>1. PICK S : buckets' = Without(working, S)
    BY <1>1 DEF Accounting
  <2>2. Records(buckets') /\ DOMAIN buckets' = DOMAIN working \ S
    BY <1>2, <2>1, WithoutRecords
  <2>3. QED BY <1>2, <2>2, FS_Difference
<1>9. /\ Records(queue') /\ IsFiniteSet(DOMAIN queue')
      /\ Cardinality(DOMAIN queue') <= MaxPending
  <2>1. queue' = [k \in Newest(listed) |-> IF k \in closed THEN working[k] ELSE queue[k]]
    BY <1>1 DEF Accounting
  <2>2. DOMAIN queue' = Newest(listed)
    BY <2>1
  <2>3. \A k \in Newest(listed) :
          (IF k \in closed THEN working[k] ELSE queue[k]) \in BucketRecord
    BY <1>2, <1>3, <1>5 DEF Records
  <2>4. Records(queue')
    BY <1>4, <1>5, <2>1, <2>3 DEF Records
  <2>5. QED BY <1>5, <2>2, <2>4
<1>10. Records(final') /\ rows' = rows
  <2>1. final' = Over(final, first)
    BY <1>1 DEF Accounting
  <2>2. Records(first)
    BY <1>2 DEF Records
  <2>3. Records(final')
    BY <1>3, <2>1, <2>2, OverRecords
  <2>4. rows' = rows
    BY DEF Account, BeginCycle, monitorVars
  <2>5. QED BY <2>3, <2>4
<1>11. RecordsTyped'
  BY <1>3, <1>8, <1>9, <1>10 DEF RecordsTyped, Records
<1>12. FlagsTyped'
  <2>1. overlap' \in BOOLEAN
    BY <1>1 DEF Accounting, Typed, FlagsTyped
  <2>2. clearing' = clearing /\ raced' = raced
    BY DEF Account, BeginCycle, monitorVars
  <2>3. QED BY <2>1, <2>2 DEF Typed, FlagsTyped
<1>13. BucketsTyped'
  <2>1. dropped' \subseteq dropped \cup listed
    BY <1>1 DEF Accounting
  <2>2. acked' = acked /\ erased' = erased
    BY DEF Account, BeginCycle
  <2>3. QED BY <1>4, <2>1, <2>2 DEF Typed, BucketsTyped
<1>14. requests' \subseteq Request
  BY DEF Account, BeginCycle, Typed
<1>15. QED BY <1>6, <1>7, <1>11, <1>12, <1>13, <1>14 DEF Typed

(* The steps that leave the records, or the control, as they are.            *)
LEMMA SameRecords ==
  ASSUME RecordsTyped, UNCHANGED <<buckets, queue, rows, final>>
  PROVE  RecordsTyped'
BY DEF RecordsTyped

LEMMA AbandonedRequests ==
  ASSUME requests \subseteq Request
  PROVE  /\ Abandoned \subseteq Request
         /\ \A r \in Abandoned : ~r.live
BY DEF Abandoned, Request

LEMMA CycleTyped ==
  ASSUME Typed, Cycle
  PROVE  Typed'
<1>1. CASE AccountNothing
  <2>1. NumbersTyped'
    <3>1. clock \in Nat /\ PushSeconds <= clock /\ Interval(clock) \in Nat \ {0}
      BY IntervalPositive DEF Typed, NumbersTyped
    <3>2. (clock \div PushSeconds + 1) * PushSeconds \in Nat
      <4>1. clock \div PushSeconds \in Nat
        BY <3>1, ParametersAssumption, QuotientMonotone
      <4>2. clock \div PushSeconds + 1 \in Nat /\ PushSeconds \in Nat
        BY <4>1, ParametersAssumption
      <4>3. QED BY <4>2, ProductMonotone
    <3>3. QED BY <1>1, <3>1, <3>2 DEF AccountNothing, BeginCycle, Typed, NumbersTyped,
                                      monitorVars
  <2>2. ControlTyped'
    BY <1>1 DEF AccountNothing, BeginCycle, Typed, ControlTyped
  <2>3. RecordsTyped'
    BY <1>1, SameRecords DEF AccountNothing, BeginCycle, Typed, monitorVars
  <2>4. FlagsTyped'
    BY <1>1 DEF AccountNothing, BeginCycle, Typed, FlagsTyped, monitorVars
  <2>5. BucketsTyped' /\ requests' \subseteq Request
    BY <1>1 DEF AccountNothing, BeginCycle, Typed, BucketsTyped
  <2>6. QED BY <2>1, <2>2, <2>3, <2>4, <2>5 DEF Typed
<1>2. CASE CycleAtBound
  <2> USE DEF CycleAtBound, Typed, monitorVars, historyVars
  <2>1. NumbersTyped'
    BY <1>2 DEF NumbersTyped
  <2>2. ControlTyped'
    BY <1>2 DEF ControlTyped
  <2>3. RecordsTyped'
    BY <1>2, SameRecords
  <2>4. FlagsTyped'
    BY <1>2 DEF FlagsTyped
  <2>5. BucketsTyped' /\ requests' \subseteq Request
    BY <1>2 DEF BucketsTyped
  <2>6. QED BY <2>1, <2>2, <2>3, <2>4, <2>5
<1>3. ASSUME NEW total \in 0 .. MaxBytes - accounted, Account(total)
      PROVE  Typed'
  BY <1>3, AccountTyped
<1>4. QED BY <1>1, <1>2, <1>3 DEF Cycle

(* The steps of the Agent, apart from its cycle, keep the types.             *)
LEMMA AgentTyped ==
  ASSUME Typed,
         \/ Tick \/ Send \/ SendNothing \/ Acknowledged \/ SendFails
         \/ (\E wait \in {0, 1} : Restart(wait)) \/ StateLost
  PROVE  Typed'
<1> USE DEF Typed
<1>1. NumbersTyped'
  <2>1. /\ clock' \in {clock, clock + 1} /\ due' \in {due, clock, clock + 1}
        /\ lastTime' \in {lastTime, 0}
        /\ epoch' = epoch /\ accounted' = accounted /\ marker' = marker
    <3> USE DEF agentVars, monitorVars, historyVars
    <3>1. CASE Tick BY <3>1 DEF Tick
    <3>2. CASE Send \/ SendNothing BY <3>2 DEF Send, SendNothing
    <3>3. CASE Acknowledged BY <3>3 DEF Acknowledged
    <3>4. CASE SendFails BY <3>4 DEF SendFails
    <3>5. ASSUME NEW wait \in {0, 1}, Restart(wait)
          PROVE  /\ clock' = clock /\ due' \in {clock, clock + 1} /\ lastTime' = lastTime
                 /\ epoch' = epoch /\ accounted' = accounted /\ marker' = marker
      <4>1. clock + wait \in {clock, clock + 1}
        BY DEF NumbersTyped
      <4>2. QED BY <3>5, <4>1 DEF Restart
    <3>6. CASE StateLost BY <3>6 DEF StateLost
    <3>7. QED BY <3>1, <3>2, <3>3, <3>4, <3>5, <3>6
  <2>2. QED BY <2>1, ParametersAssumption DEF NumbersTyped
<1>2. CASE ~ Acknowledged
  <2>1. RecordsTyped'
    <3>1. UNCHANGED <<buckets, queue, rows, final>>
      BY <1>2 DEF Tick, Send, SendNothing, SendFails, Restart, StateLost,
                  agentVars, monitorVars, historyVars
    <3>2. QED BY <3>1, SameRecords
  <2>2. FlagsTyped' /\ BucketsTyped'
    <3>1. UNCHANGED <<clearing, overlap, raced, dropped, acked, erased>>
      BY <1>2 DEF Tick, Send, SendNothing, SendFails, Restart, StateLost,
                  agentVars, monitorVars, historyVars
    <3>2. QED BY <3>1 DEF FlagsTyped, BucketsTyped
  <2>3. ControlTyped' /\ requests' \subseteq Request
    <3>1. CASE Send
      <4>1. queue # Empty /\ queue' = queue /\ pc' = "await" /\ reply' = "none"
        BY <3>1 DEF Send
      <4>2. DOMAIN queue # {} /\ Records(queue)
        BY <4>1 DEF RecordsTyped, Records, Empty
      <4>3. Head \in Nat /\ queue[Head] \in BucketRecord
        BY <4>2, HeadOldest DEF Records
      <4>4. [bucket |-> Head, record |-> queue[Head], live |-> TRUE, stage |-> "sent"]
              \in Request
        BY <4>3 DEF Request
      <4>5. requests' \subseteq Request
        BY <3>1, <4>4 DEF Send
      <4>6. QED BY <4>1, <4>2, <4>5 DEF ControlTyped
    <3>2. CASE Tick \/ SendNothing
      BY <3>2 DEF Tick, SendNothing, ControlTyped, agentVars
    <3>3. CASE SendFails \/ (\E wait \in {0, 1} : Restart(wait)) \/ StateLost
      <4>1. pc' = "idle" /\ reply' = "none" /\ requests' = Abandoned
        BY <3>3 DEF SendFails, Restart, StateLost
      <4>2. QED BY <4>1, AbandonedRequests DEF ControlTyped
    <3>4. QED BY <1>2, <3>1, <3>2, <3>3
  <2>4. QED BY <1>1, <2>1, <2>2, <2>3
<1>3. CASE Acknowledged
  <2> USE <1>3 DEF Acknowledged, ControlTyped
  <2>1. DOMAIN queue # {} /\ Records(queue) /\ IsFiniteSet(DOMAIN queue)
    BY DEF RecordsTyped
  <2>2. Head \in Nat
    BY <2>1, HeadOldest
  <2>3. queue' = Without(queue, {Head}) /\ Records(queue') /\ DOMAIN queue' \subseteq DOMAIN queue
    BY <2>1, WithoutRecords
  <2>4. IsFiniteSet(DOMAIN queue') /\ Cardinality(DOMAIN queue') <= Cardinality(DOMAIN queue)
    BY <2>1, <2>3, FS_Subset
  <2>5. Cardinality(DOMAIN queue') \in Nat /\ Cardinality(DOMAIN queue) \in Nat
    BY <2>1, <2>4, FS_CardinalityType
  <2>6. Cardinality(DOMAIN queue') <= MaxPending
    BY <2>4, <2>5, ParametersAssumption DEF RecordsTyped
  <2>7. UNCHANGED <<buckets, rows, final>>
    BY DEF monitorVars
  <2>8. RecordsTyped'
    BY <2>3, <2>4, <2>6, <2>7 DEF RecordsTyped
  <2>9. FlagsTyped' /\ requests' \subseteq Request
    BY DEF monitorVars, FlagsTyped
  <2>10. BucketsTyped'
    BY <2>2 DEF BucketsTyped
  <2>11. pc' = "idle" /\ reply' = "none"
    OBVIOUS
  <2>12. QED BY <1>1, <2>8, <2>9, <2>10, <2>11
<1>4. QED BY <1>2, <1>3

(* The steps of the Monitor keep the types.                                  *)
LEMMA MonitorTyped ==
  ASSUME Typed,
         \/ \E r \in requests : Unauthorized(r) \/ ReadEpoch(r) \/ Upsert(r)
         \/ ClearHistory \/ SetEpoch \/ PurgeNode \/ Expire
  PROVE  Typed'
<1> USE DEF Typed
<1>1. /\ UNCHANGED <<clock, pc, due, lastTime, marker, buckets, queue>>
      /\ UNCHANGED <<accounted, final, overlap, dropped, acked>>
  BY DEF Unauthorized, ReadEpoch, Upsert, ClearHistory, SetEpoch, PurgeNode, Expire,
         agentVars, monitorVars, historyVars
<1>2. epoch' \in {epoch, clock} /\ clearing' \in BOOLEAN /\ raced' \in BOOLEAN
  <2>1. CASE \E r \in requests : Unauthorized(r) \/ ReadEpoch(r) \/ Upsert(r)
    BY <2>1 DEF Unauthorized, ReadEpoch, Upsert, monitorVars, historyVars, FlagsTyped
  <2>2. CASE ClearHistory \/ PurgeNode \/ Expire
    BY <2>2 DEF ClearHistory, PurgeNode, Expire, FlagsTyped
  <2>3. CASE SetEpoch
    BY <2>3 DEF SetEpoch, FlagsTyped
  <2>4. QED BY <2>1, <2>2, <2>3
<1>3. erased' \subseteq Nat /\ Records(rows')
  <2>1. Records(rows) /\ erased \subseteq Nat /\ DOMAIN rows \subseteq Nat
    BY DEF RecordsTyped, BucketsTyped, Records
  <2>2. ASSUME NEW r \in requests, Unauthorized(r) \/ ReadEpoch(r)
        PROVE  erased' \subseteq Nat /\ rows' = rows
    <3>1. r.bucket \in Nat BY DEF Request
    <3>2. QED BY <2>1, <2>2, <3>1 DEF Unauthorized, ReadEpoch, monitorVars, historyVars
  <2>3. ASSUME NEW r \in requests, Upsert(r)
        PROVE  erased' = erased /\ Records(rows')
    <3>1. r.bucket \in Nat /\ r.record \in BucketRecord BY DEF Request
    <3> DEFINE row == [k \in {r.bucket} |-> r.record]
    <3>2. Records(row) BY <3>1 DEF Records
    <3>3. rows' = Over(row, rows) /\ erased' = erased
      BY <2>3 DEF Upsert, historyVars
    <3>4. QED BY <2>1, <3>2, <3>3, OverRecords
  <2>4. CASE ClearHistory \/ PurgeNode
    BY <2>1, <2>4, EmptyRecords DEF ClearHistory, PurgeNode
  <2>5. CASE SetEpoch
    BY <2>1, <2>5 DEF SetEpoch
  <2>6. CASE Expire
    <3>1. PICK old \in SUBSET DOMAIN rows : rows' = Without(rows, old) /\ erased' = erased \cup old
      BY <2>6 DEF Expire
    <3>2. QED BY <2>1, <3>1, WithoutRecords
  <2>7. QED BY <2>1, <2>2, <2>3, <2>4, <2>5, <2>6
<1>4. requests' \subseteq Request /\ reply' \in {"none", "ok", "error"}
  <2>1. ASSUME NEW r \in requests, Unauthorized(r) \/ ReadEpoch(r) \/ Upsert(r)
        PROVE  requests' \subseteq Request /\ reply' \in {"none", "ok", "error"}
    <3>1. [r EXCEPT !.stage = "checked"] \in Request
      BY DEF Request
    <3>2. requests' \subseteq requests \cup {[r EXCEPT !.stage = "checked"]}
      BY <2>1 DEF Unauthorized, ReadEpoch, Upsert
    <3>3. reply' \in {reply, "ok", "error"}
      BY <2>1 DEF Unauthorized, ReadEpoch, Upsert, Answer
    <3>4. QED BY <3>1, <3>2, <3>3 DEF ControlTyped
  <2>2. CASE ClearHistory \/ SetEpoch \/ PurgeNode \/ Expire
    BY <2>2 DEF ClearHistory, SetEpoch, PurgeNode, Expire, ControlTyped
  <2>3. QED BY <2>1, <2>2
<1>5. NumbersTyped'
  BY <1>1, <1>2 DEF NumbersTyped
<1>6. ControlTyped'
  BY <1>1, <1>4 DEF ControlTyped
<1>7. RecordsTyped'
  BY <1>1, <1>3 DEF RecordsTyped
<1>8. FlagsTyped' /\ BucketsTyped'
  BY <1>1, <1>2, <1>3 DEF FlagsTyped, BucketsTyped
<1>9. QED BY <1>4, <1>5, <1>6, <1>7, <1>8

LEMMA TypedStep == Typed /\ [Next]_vars => Typed'
<1> SUFFICES ASSUME Typed, [Next]_vars PROVE Typed' OBVIOUS
<1>1. CASE Cycle
  BY <1>1, CycleTyped
<1>2. CASE \/ Tick \/ Send \/ SendNothing \/ Acknowledged \/ SendFails
           \/ (\E wait \in {0, 1} : Restart(wait)) \/ StateLost
  BY <1>2, AgentTyped
<1>3. CASE \/ \E r \in requests : Unauthorized(r) \/ ReadEpoch(r) \/ Upsert(r)
           \/ ClearHistory \/ SetEpoch \/ PurgeNode \/ Expire
  BY <1>3, MonitorTyped
<1>4. CASE UNCHANGED vars
  <2> USE DEF vars, agentVars, monitorVars, historyVars
  <2>1. NumbersTyped' /\ ControlTyped'
    BY <1>4 DEF Typed, NumbersTyped, ControlTyped
  <2>2. RecordsTyped'
    BY <1>4, SameRecords DEF Typed
  <2>3. FlagsTyped' /\ BucketsTyped' /\ requests' \subseteq Request
    BY <1>4 DEF Typed, FlagsTyped, BucketsTyped
  <2>4. QED BY <2>1, <2>2, <2>3 DEF Typed
<1>5. QED BY <1>1, <1>2, <1>3, <1>4 DEF Next

LEMMA AlwaysTyped == Spec => []Typed
BY InitTyped, TypedStep, PTL DEF Spec

(* Type correctness, with the bound of the retry list: whatever is lost,     *)
(* resent or restarted, account_bandwidth_consumption never keeps more than  *)
(* BANDWIDTH_CONSUMPTION_MAX_PENDING buckets, and no segment of a payload    *)
(* gets a negative number of bytes or seconds.                               *)
THEOREM TypeCorrect == Spec => []TypeOK
BY AlwaysTyped, TypedIsTypeOK, PTL

-----------------------------------------------------------------------------
(* What the Agent lets go of.  The one request it waits for is for the head  *)
(* of the list, so that an answer to it, late as it may be, is about the     *)
(* head; every other request has been given up, and its answer is not heard. *)
OneLive == \A r, s \in requests : r.live /\ s.live => r = s

LiveForHead ==
  \A r \in requests : r.live => pc = "await" /\ reply = "none" /\ r.bucket = Head

ReplyForHead ==
  /\ reply # "none" => pc = "await"
  /\ reply = "ok" => Head \in DOMAIN rows \cup erased

AckInv == OneLive /\ LiveForHead /\ ReplyForHead /\ AckedStored

LEMMA InitAck == Init => AckInv
BY DEF Init, AckInv, OneLive, LiveForHead, ReplyForHead, AckedStored

(* Where the requests, their answer and the list stay, and nothing leaves    *)
(* the Monitor without a trace, AckInv stays.                                *)
LEMMA AckUnchanged ==
  ASSUME AckInv, UNCHANGED <<requests, reply, pc, queue, acked>>,
         DOMAIN rows \cup erased \subseteq (DOMAIN rows)' \cup erased'
  PROVE  AckInv'
<1>1. Head' = Head
  BY DEF Head
<1>2. OneLive'
  BY DEF AckInv, OneLive
<1>3. LiveForHead'
  BY <1>1 DEF AckInv, LiveForHead
<1>4. ReplyForHead'
  BY <1>1 DEF AckInv, ReplyForHead
<1>5. AckedStored'
  BY DEF AckInv, AckedStored
<1>6. QED BY <1>2, <1>3, <1>4, <1>5 DEF AckInv

(* Where the Agent waits for nothing, no request is live.                    *)
LEMMA AckIdle ==
  ASSUME pc' # "await", reply' = "none", \A r \in requests' : ~r.live, AckedStored'
  PROVE  AckInv'
BY DEF AckInv, OneLive, LiveForHead, ReplyForHead

LEMMA NotWaiting ==
  ASSUME AckInv, pc # "await"
  PROVE  reply = "none" /\ \A r \in requests : ~r.live
BY DEF AckInv, LiveForHead, ReplyForHead

LEMMA AckAgentStep ==
  ASSUME Typed, AckInv,
         \/ Tick \/ Cycle \/ Send \/ SendNothing \/ Acknowledged \/ SendFails
         \/ (\E wait \in {0, 1} : Restart(wait)) \/ StateLost
  PROVE  AckInv'
<1> USE DEF agentVars, monitorVars, historyVars
<1>0. requests \subseteq Request
  BY DEF Typed
<1>1. CASE Tick
  <2>1. UNCHANGED <<requests, reply, pc, queue, acked, rows, erased>>
    BY <1>1 DEF Tick
  <2>2. QED BY <2>1, AckUnchanged
<1>2. CASE Cycle
  <2>1. /\ pc = "idle" /\ pc' = "accounted"
        /\ UNCHANGED <<requests, reply, acked, rows, erased>>
    BY <1>2 DEF Cycle, AccountNothing, Account, BeginCycle, CycleAtBound
  <2>2. AckedStored'
    BY <2>1 DEF AckInv, AckedStored
  <2>3. QED BY <2>1, <2>2, NotWaiting, AckIdle
<1>3. CASE SendNothing
  <2>1. /\ pc = "accounted" /\ pc' = "idle"
        /\ UNCHANGED <<requests, reply, acked, rows, erased>>
    BY <1>3 DEF SendNothing
  <2>2. AckedStored'
    BY <2>1 DEF AckInv, AckedStored
  <2>3. QED BY <2>1, <2>2, NotWaiting, AckIdle
<1>4. CASE SendFails \/ (\E wait \in {0, 1} : Restart(wait)) \/ StateLost
  <2>1. /\ pc' = "idle" /\ reply' = "none" /\ requests' = Abandoned
        /\ UNCHANGED <<acked, rows, erased>>
    BY <1>4 DEF SendFails, Restart, StateLost
  <2>2. AckedStored'
    BY <2>1 DEF AckInv, AckedStored
  <2>3. QED BY <1>0, <2>1, <2>2, AbandonedRequests, AckIdle
<1>5. CASE Send
  <2> DEFINE new == [bucket |-> Head, record |-> queue[Head], live |-> TRUE, stage |-> "sent"]
  <2>1. /\ pc = "accounted" /\ pc' = "await" /\ reply' = "none"
        /\ requests' = requests \cup {new}
        /\ UNCHANGED <<queue, acked, rows, erased>>
    BY <1>5 DEF Send
  <2>2. \A r \in requests : ~r.live
    BY <2>1, NotWaiting
  <2>3. new.bucket = Head /\ Head' = Head
    BY <2>1 DEF Head
  <2> HIDE DEF new
  <2>4. OneLive'
    BY <2>1, <2>2 DEF OneLive
  <2>5. LiveForHead'
    BY <2>1, <2>2, <2>3 DEF LiveForHead
  <2>6. ReplyForHead'
    BY <2>1 DEF ReplyForHead
  <2>7. AckedStored'
    BY <2>1 DEF AckInv, AckedStored
  <2>8. QED BY <2>4, <2>5, <2>6, <2>7 DEF AckInv
<1>6. CASE Acknowledged
  <2>1. /\ reply = "ok" /\ pc' = "idle" /\ reply' = "none" /\ acked' = acked \cup {Head}
        /\ UNCHANGED <<requests, rows, erased>>
    BY <1>6 DEF Acknowledged
  <2>2. \A r \in requests : ~r.live
    BY <2>1 DEF AckInv, LiveForHead
  <2>3. AckedStored'
    BY <2>1 DEF AckInv, AckedStored, ReplyForHead
  <2>4. QED BY <2>1, <2>2, <2>3, AckIdle
<1>7. QED BY <1>1, <1>2, <1>3, <1>4, <1>5, <1>6

(* The answer to a request: heard when the request is live, and then the     *)
(* last one there is.                                                        *)
LEMMA AckAnswer ==
  ASSUME Typed, AckInv, NEW r \in requests, NEW answer \in {"ok", "error"},
         requests' = requests \ {r}, Answer(r, answer),
         UNCHANGED <<pc, queue, acked>>,
         DOMAIN rows \cup erased \subseteq (DOMAIN rows)' \cup erased',
         answer = "ok" => r.bucket \in (DOMAIN rows)' \cup erased'
  PROVE  AckInv'
<1>1. Head' = Head
  BY DEF Head
<1>2. AckedStored'
  BY DEF AckInv, AckedStored
<1>3. OneLive'
  BY DEF AckInv, OneLive
<1>4. CASE r.live
  <2>1. reply' = answer /\ pc = "await" /\ r.bucket = Head
    BY <1>4 DEF Answer, AckInv, LiveForHead
  <2>2. \A s \in requests' : ~s.live
    BY <1>4 DEF AckInv, OneLive
  <2>3. LiveForHead'
    BY <2>2 DEF LiveForHead
  <2>4. ReplyForHead'
    BY <1>1, <2>1 DEF ReplyForHead
  <2>5. QED BY <1>2, <1>3, <2>3, <2>4 DEF AckInv
<1>5. CASE ~r.live
  <2>1. reply' = reply
    BY <1>5 DEF Answer
  <2>2. LiveForHead'
    BY <1>1, <2>1 DEF AckInv, LiveForHead
  <2>3. ReplyForHead'
    BY <1>1, <2>1 DEF AckInv, ReplyForHead
  <2>4. QED BY <1>2, <1>3, <2>2, <2>3 DEF AckInv
<1>6. QED BY <1>4, <1>5

LEMMA AckMonitorStep ==
  ASSUME Typed, AckInv,
         \/ \E r \in requests : Unauthorized(r) \/ ReadEpoch(r) \/ Upsert(r)
         \/ ClearHistory \/ SetEpoch \/ PurgeNode \/ Expire
  PROVE  AckInv'
<1> USE DEF agentVars, monitorVars, historyVars
<1>1. Records(rows) /\ requests \subseteq Request
  BY DEF Typed, RecordsTyped
<1>2. ASSUME NEW r \in requests, Unauthorized(r)
      PROVE  AckInv'
  <2>1. /\ requests' = requests \ {r} /\ Answer(r, "error")
        /\ UNCHANGED <<pc, queue, acked, rows, erased>>
    BY <1>2 DEF Unauthorized
  <2>2. QED BY <2>1, AckAnswer
<1>3. ASSUME NEW r \in requests, ReadEpoch(r), BeforeEpoch(r.bucket)
      PROVE  AckInv'
  <2>1. /\ requests' = requests \ {r} /\ Answer(r, "ok")
        /\ UNCHANGED <<pc, queue, acked, rows>> /\ erased' = erased \cup {r.bucket}
    BY <1>3 DEF ReadEpoch
  <2>2. QED BY <2>1, AckAnswer
<1>4. ASSUME NEW r \in requests, ReadEpoch(r), ~ BeforeEpoch(r.bucket)
      PROVE  AckInv'
  <2> DEFINE checked == [r EXCEPT !.stage = "checked"]
  <2>1. /\ requests' = (requests \ {r}) \cup {checked}
        /\ UNCHANGED <<reply, pc, queue, acked, rows, erased>>
    BY <1>4 DEF ReadEpoch
  <2>2. checked.live = r.live /\ checked.bucket = r.bucket
    BY <1>1 DEF Request
  <2>3. Head' = Head
    BY <2>1 DEF Head
  <2> HIDE DEF checked
  <2>4. OneLive'
    BY <2>1, <2>2 DEF AckInv, OneLive
  <2>5. LiveForHead'
    BY <2>1, <2>2, <2>3 DEF AckInv, LiveForHead
  <2>6. ReplyForHead' /\ AckedStored'
    BY <2>1, <2>3 DEF AckInv, ReplyForHead, AckedStored
  <2>7. QED BY <2>4, <2>5, <2>6 DEF AckInv
<1>5. ASSUME NEW r \in requests, Upsert(r)
      PROVE  AckInv'
  <2> DEFINE row == [k \in {r.bucket} |-> r.record]
  <2>1. /\ requests' = requests \ {r} /\ Answer(r, "ok") /\ rows' = Over(row, rows)
        /\ UNCHANGED <<pc, queue, acked, erased>>
    BY <1>5 DEF Upsert
  <2>2. Records(row)
    BY <1>1 DEF Records, Request
  <2>3. (DOMAIN rows)' = {r.bucket} \cup DOMAIN rows
    BY <1>1, <2>1, <2>2, OverRecords
  <2>4. QED BY <2>1, <2>3, AckAnswer
<1>6. CASE ClearHistory \/ PurgeNode
  <2>1. /\ UNCHANGED <<requests, reply, pc, queue, acked>> /\ erased' = erased \cup DOMAIN rows
    BY <1>6 DEF ClearHistory, PurgeNode
  <2>2. QED BY <2>1, AckUnchanged
<1>7. CASE SetEpoch
  <2>1. UNCHANGED <<requests, reply, pc, queue, acked, rows, erased>>
    BY <1>7 DEF SetEpoch
  <2>2. QED BY <2>1, AckUnchanged
<1>8. CASE Expire
  <2>1. PICK old \in SUBSET DOMAIN rows : rows' = Without(rows, old) /\ erased' = erased \cup old
    BY <1>8 DEF Expire
  <2>2. UNCHANGED <<requests, reply, pc, queue, acked>>
    BY <1>8 DEF Expire
  <2>3. (DOMAIN rows)' = DOMAIN rows \ old
    BY <1>1, <2>1, WithoutRecords
  <2>4. QED BY <2>1, <2>2, <2>3, AckUnchanged
<1>9. QED BY <1>2, <1>3, <1>4, <1>5, <1>6, <1>7, <1>8

LEMMA AckStep == Typed /\ AckInv /\ [Next]_vars => AckInv'
<1> SUFFICES ASSUME Typed, AckInv, [Next]_vars PROVE AckInv' OBVIOUS
<1>1. CASE Next
  BY <1>1, AckAgentStep, AckMonitorStep DEF Next
<1>2. CASE UNCHANGED vars
  <2>1. UNCHANGED <<requests, reply, pc, queue, acked, rows, erased>>
    BY <1>2 DEF vars, agentVars, monitorVars, historyVars
  <2>2. QED BY <2>1, AckUnchanged
<1>3. QED BY <1>1, <1>2

(* Whatever is lost, resent or answered late, the Agent drops a bucket from  *)
(* its list only after push_bandwidth_consumption stored or ignored it, or   *)
(* the row was deleted since.                                                *)
THEOREM AckedIsStored == Spec => []AckedStored
<1>1. AckInv => AckedStored
  BY DEF AckInv
<1>2. QED BY <1>1, InitAck, AckStep, AlwaysTyped, PTL DEF Spec

-----------------------------------------------------------------------------
(* Resets.  A request that has read the epoch belongs to a bucket from after *)
(* it, unless the history was cleared meanwhile.                             *)
CheckedHold ==
  ~raced /\ ~clearing =>
    \A r \in requests : r.stage = "checked" => StartOf(r.bucket) >= epoch

ResetInv == ResetHolds /\ CheckedHold

LEMMA InitReset == Init => ResetInv
BY EmptyRecords DEF Init, ResetInv, ResetHolds, CheckedHold

LEMMA ResetUnchanged ==
  ASSUME ResetInv, UNCHANGED <<epoch, clearing, raced>>,
         (DOMAIN rows)' \subseteq DOMAIN rows,
         \A r \in requests' : r.stage = "checked" =>
           \E s \in requests : s.stage = "checked" /\ s.bucket = r.bucket
  PROVE  ResetInv'
BY DEF ResetInv, ResetHolds, CheckedHold

LEMMA ResetStep == Typed /\ ResetInv /\ [Next]_vars => ResetInv'
<1> SUFFICES ASSUME Typed, ResetInv, [Next]_vars PROVE ResetInv' OBVIOUS
<1> USE DEF agentVars, monitorVars, historyVars
<1>0. /\ Records(rows) /\ requests \subseteq Request
      /\ epoch \in Nat /\ clearing \in BOOLEAN /\ raced \in BOOLEAN
  BY DEF Typed, RecordsTyped, NumbersTyped, FlagsTyped
<1>1. CASE Tick \/ Cycle \/ SendNothing \/ Acknowledged
  <2>1. UNCHANGED <<requests, rows, epoch, clearing, raced>>
    BY <1>1 DEF Tick, Cycle, AccountNothing, Account, BeginCycle, CycleAtBound, SendNothing,
                Acknowledged
  <2>2. QED BY <2>1, ResetUnchanged
<1>2. CASE Send
  <2> DEFINE new == [bucket |-> Head, record |-> queue[Head], live |-> TRUE, stage |-> "sent"]
  <2>1. requests' = requests \cup {new} /\ new.stage = "sent"
    BY <1>2 DEF Send
  <2> HIDE DEF new
  <2>2. UNCHANGED <<rows, epoch, clearing, raced>>
    BY <1>2 DEF Send
  <2>3. QED BY <2>1, <2>2, ResetUnchanged
<1>3. CASE SendFails \/ (\E wait \in {0, 1} : Restart(wait)) \/ StateLost
  <2>1. requests' = Abandoned /\ UNCHANGED <<rows, epoch, clearing, raced>>
    BY <1>3 DEF SendFails, Restart, StateLost
  <2>2. \A r \in requests' : \E s \in requests : r.stage = s.stage /\ r.bucket = s.bucket
    BY <1>0, <2>1 DEF Abandoned, Request
  <2>3. QED BY <2>1, <2>2, ResetUnchanged
<1>4. ASSUME NEW r \in requests, Unauthorized(r)
      PROVE  ResetInv'
  <2>1. requests' = requests \ {r} /\ UNCHANGED <<rows, epoch, clearing, raced>>
    BY <1>4 DEF Unauthorized
  <2>2. QED BY <2>1, ResetUnchanged
<1>5. ASSUME NEW r \in requests, ReadEpoch(r)
      PROVE  ResetInv'
  <2>1. UNCHANGED <<rows, epoch, clearing, raced>>
    BY <1>5 DEF ReadEpoch
  <2>2. CASE BeforeEpoch(r.bucket)
    <3>1. requests' = requests \ {r}
      BY <1>5, <2>2 DEF ReadEpoch
    <3>2. QED BY <2>1, <3>1, ResetUnchanged
  <2>3. CASE ~ BeforeEpoch(r.bucket)
    <3> DEFINE checked == [r EXCEPT !.stage = "checked"]
    <3>1. requests' = (requests \ {r}) \cup {checked}
      BY <1>5, <2>3 DEF ReadEpoch
    <3>2. r.bucket \in Nat /\ checked.bucket = r.bucket
      BY <1>0 DEF Request
    <3>3. StartOf(r.bucket) >= epoch
      BY <1>0, <2>3, <3>2, BucketBounds DEF BeforeEpoch
    <3> HIDE DEF checked
    <3>4. ResetHolds'
      BY <2>1 DEF ResetInv, ResetHolds
    <3>5. CheckedHold'
      BY <2>1, <3>1, <3>2, <3>3 DEF ResetInv, CheckedHold
    <3>6. QED BY <3>4, <3>5 DEF ResetInv
  <2>4. QED BY <2>2, <2>3
<1>6. ASSUME NEW r \in requests, Upsert(r)
      PROVE  ResetInv'
  <2> DEFINE row == [k \in {r.bucket} |-> r.record]
  <2>1. /\ r.stage = "checked" /\ rows' = Over(row, rows) /\ requests' = requests \ {r}
        /\ UNCHANGED <<epoch, clearing, raced>>
    BY <1>6 DEF Upsert
  <2>2. Records(row)
    BY <1>0 DEF Records, Request
  <2>3. (DOMAIN rows)' = {r.bucket} \cup DOMAIN rows
    BY <1>0, <2>1, <2>2, OverRecords
  <2>4. ResetHolds'
    BY <2>1, <2>3 DEF ResetInv, ResetHolds, CheckedHold
  <2>5. CheckedHold'
    BY <2>1 DEF ResetInv, CheckedHold
  <2>6. QED BY <2>4, <2>5 DEF ResetInv
<1>7. CASE ClearHistory
  BY <1>7 DEF ClearHistory, ResetInv, ResetHolds, CheckedHold
<1>8. CASE SetEpoch
  <2>1. /\ ~raced' => rows = Empty /\ \A r \in requests : r.stage # "checked"
        /\ UNCHANGED <<rows, requests>>
    BY <1>8 DEF SetEpoch
  <2>2. QED BY <2>1, EmptyRecords DEF ResetInv, ResetHolds, CheckedHold
<1>9. CASE PurgeNode
  <2>1. rows' = Empty /\ UNCHANGED <<requests, epoch, clearing, raced>>
    BY <1>9 DEF PurgeNode
  <2>2. QED BY <2>1, EmptyRecords, ResetUnchanged
<1>10. CASE Expire
  <2>1. PICK old : rows' = Without(rows, old)
    BY <1>10 DEF Expire
  <2>2. UNCHANGED <<requests, epoch, clearing, raced>>
    BY <1>10 DEF Expire
  <2>3. (DOMAIN rows)' = DOMAIN rows \ old
    BY <1>0, <2>1, WithoutRecords
  <2>4. QED BY <2>2, <2>3, ResetUnchanged
<1>11. CASE UNCHANGED vars
  <2>1. UNCHANGED <<requests, rows, epoch, clearing, raced>>
    BY <1>11 DEF vars
  <2>2. QED BY <2>1, ResetUnchanged
<1>12. QED BY <1>1, <1>2, <1>3, <1>4, <1>5, <1>6, <1>7, <1>8, <1>9, <1>10, <1>11 DEF Next

(* A retry from before the acceptance epoch brings back no row, however many *)
(* copies are on their way, unless a request crossed the two transactions of *)
(* the reset.                                                                *)
THEOREM ResetIsKept == Spec => []ResetHolds
<1>1. ResetInv => ResetHolds
  BY DEF ResetInv
<1>2. QED BY <1>1, InitReset, ResetStep, AlwaysTyped, PTL DEF Spec

-----------------------------------------------------------------------------
(* The order of the buckets.  What was queued once has ended before the last *)
(* cycle, what is in the accumulator ends after it: a payload that does not  *)
(* reach back closes newer buckets than any before.                          *)
QueuedEnded ==
  \A k \in DOMAIN queue \cup dropped \cup DOMAIN final :
    marker # <<>> /\ EndOf(k) <= marker[1]

OpenEndLater ==
  \A k \in DOMAIN buckets : marker # <<>> /\ marker[1] < EndOf(k)

DroppedOlder == ~overlap => \A d \in dropped, k \in DOMAIN queue : d < k

QueuedOnce == DOMAIN final \subseteq DOMAIN queue \cup acked \cup dropped

MarkerPast == marker # <<>> => marker[1] <= clock

OrderInv == MarkerPast /\ QueuedEnded /\ OpenEndLater /\ DroppedOlder /\ QueuedOnce

LEMMA InitOrder == Init => OrderInv
BY EmptyRecords
   DEF Init, OrderInv, QueuedEnded, OpenEndLater, DroppedOlder, QueuedOnce, MarkerPast

(* What Accounting says of the buckets it closes, in the order of time.      *)
LEMMA AccountedOrder ==
  ASSUME Typed, OrderInv, marker # <<>>,
         NEW start \in Nat, NEW working, NEW closed, Accounting(start, working, closed)
  PROVE  /\ closed \subseteq Nat /\ IsFiniteSet(closed)
         /\ \A k \in closed : EndOf(k) <= clock
         /\ \A k \in DOMAIN working \ closed : clock < EndOf(k)
         /\ ~overlap' => \A k \in closed : marker[1] < EndOf(k)
         /\ (DOMAIN buckets)' \subseteq DOMAIN working \ closed
         /\ (DOMAIN queue)' = Newest(DOMAIN queue \cup closed)
         /\ (DOMAIN final)' = DOMAIN final \cup closed
<1>0. /\ Records(working) /\ IsFiniteSet(DOMAIN working)
      /\ DOMAIN working = (BucketOf(start) .. BucketOf(clock - 1)) \cup DOMAIN buckets
      /\ closed = {k \in DOMAIN working : Closed(k)} /\ closed \subseteq DOMAIN working
  BY DEF Accounting
<1>1. /\ clock \in Nat /\ marker[1] \in Nat /\ clock - 1 \in Nat /\ overlap \in BOOLEAN
      /\ start < clock
  <2>1. clock \in Nat /\ clock - 1 \in Nat
    BY ParametersAssumption DEF Typed, NumbersTyped
  <2>2. marker[1] \in Nat
    BY DEF Typed, NumbersTyped
  <2>3. start < clock
    BY IntervalPositive DEF Accounting, Typed
  <2>4. QED BY <2>1, <2>2, <2>3 DEF Typed, FlagsTyped
<1>2. closed \subseteq Nat /\ IsFiniteSet(closed) /\ DOMAIN working \subseteq Nat
  BY <1>0, FS_Subset DEF Records
<1>3. \A k \in closed : EndOf(k) <= clock
  BY <1>0 DEF Closed
<1>4. \A k \in DOMAIN working \ closed : clock < EndOf(k)
  <2> SUFFICES ASSUME NEW k \in DOMAIN working \ closed PROVE clock < EndOf(k)
    OBVIOUS
  <2>1. ~ (EndOf(k) <= clock)
    BY <1>0 DEF Closed
  <2>2. k \in Nat /\ EndOf(k) \in Nat
    BY <1>2, BucketBounds
  <2>3. QED BY <1>1, <2>1, <2>2
<1>5. ASSUME ~overlap', NEW k \in closed PROVE marker[1] < EndOf(k)
  <2>1. marker[1] <= start
    <3>1. ~ (start < marker[1])
      BY <1>5, Zenon DEF Accounting
    <3>2. QED BY <1>1, <3>1
  <2>2. CASE k \in BucketOf(start) .. BucketOf(clock - 1)
    <3>1. start < EndOf(k) /\ EndOf(k) \in Nat
      BY <1>1, <1>2, <2>2, SegmentInside, BucketBounds
    <3>2. QED BY <1>1, <2>1, <3>1
  <2>3. CASE k \in DOMAIN buckets
    BY <2>3 DEF OrderInv, OpenEndLater
  <2>4. QED BY <1>0, <1>5, <2>2, <2>3
<1>6. (DOMAIN buckets)' \subseteq DOMAIN working \ closed
  <2>1. PICK S : buckets' = Without(working, closed \cup S)
    BY Zenon DEF Accounting
  <2> DEFINE gone == closed \cup S
  <2>2. buckets' = Without(working, gone) /\ closed \subseteq gone
    BY <2>1
  <2> HIDE DEF gone
  <2>3. (DOMAIN buckets)' = DOMAIN working \ gone
    BY <1>0, <2>2, WithoutRecords
  <2>4. QED BY <2>2, <2>3
<1>7. (DOMAIN queue)' = Newest(DOMAIN queue \cup closed)
  BY DEF Accounting
<1>8. (DOMAIN final)' = DOMAIN final \cup closed
  <2> DEFINE first == [k \in closed |-> working[k]]
  <2>1. Records(first)
    BY <1>0 DEF Records
  <2>2. final' = Over(final, first) /\ Records(final) /\ DOMAIN first = closed
    BY DEF Accounting, Typed, RecordsTyped
  <2> HIDE DEF first
  <2>3. QED BY <2>1, <2>2, OverRecords
<1>9. QED BY <1>2, <1>3, <1>4, <1>5, <1>6, <1>7, <1>8

LEMMA OrderAccount ==
  ASSUME Typed, OrderInv, NEW total \in 0 .. MaxBytes - accounted, Account(total)
  PROVE  OrderInv'
<1>1. PICK start, working, closed : start \in Nat /\ Accounting(start, working, closed)
  BY AccountedRecords
<1> DEFINE listed == DOMAIN queue \cup closed
<1>2. /\ marker # <<>> /\ marker' = <<clock, Interval(clock)>> /\ clock' = clock
      /\ acked' = acked
  BY DEF Account, BeginCycle
<1>3. /\ closed \subseteq Nat /\ IsFiniteSet(closed)
      /\ \A k \in closed : EndOf(k) <= clock
      /\ \A k \in DOMAIN working \ closed : clock < EndOf(k)
      /\ ~overlap' => \A k \in closed : marker[1] < EndOf(k)
      /\ (DOMAIN buckets)' \subseteq DOMAIN working \ closed
      /\ (DOMAIN queue)' = Newest(listed)
      /\ (DOMAIN final)' = DOMAIN final \cup closed
  BY <1>1, <1>2, AccountedOrder
<1>4. /\ clock \in Nat /\ marker[1] \in Nat /\ marker[1] <= clock /\ overlap \in BOOLEAN
      /\ marker' # <<>> /\ marker'[1] = clock
  <2>1. clock \in Nat BY DEF Typed, NumbersTyped
  <2>2. marker[1] \in Nat BY <1>2 DEF Typed, NumbersTyped
  <2>3. QED BY <1>2, <2>1, <2>2 DEF Typed, FlagsTyped, OrderInv, MarkerPast
<1>5. /\ DOMAIN queue \subseteq Nat /\ IsFiniteSet(DOMAIN queue) /\ DOMAIN final \subseteq Nat
      /\ dropped \subseteq Nat
  BY DEF Typed, RecordsTyped, BucketsTyped, Records
<1>6. listed \in SUBSET Nat /\ IsFiniteSet(listed)
  BY <1>3, <1>5, FS_Union
<1>7. Newest(listed) \subseteq listed
  BY DEF Newest
<1>8. dropped' = dropped \cup (listed \ Newest(listed)) /\ (~overlap' => ~overlap)
  BY <1>1, <1>4 DEF Accounting
<1>9. MarkerPast'
  BY <1>2, <1>4 DEF MarkerPast
<1>10. QueuedEnded'
  <2>1. ASSUME NEW k \in listed \cup dropped \cup DOMAIN final
        PROVE  EndOf(k) <= clock
    <3>1. CASE k \in closed BY <1>3, <3>1
    <3>2. CASE k \notin closed
      <4>1. k \in Nat /\ EndOf(k) \in Nat
        BY <1>5, <2>1, <3>2, BucketBounds
      <4>2. EndOf(k) <= marker[1]
        BY <2>1, <3>2 DEF OrderInv, QueuedEnded
      <4>3. QED BY <1>4, <4>1, <4>2
    <3>3. QED BY <3>1, <3>2
  <2>2. (DOMAIN queue \cup dropped \cup DOMAIN final)' \subseteq
           listed \cup dropped \cup DOMAIN final
    BY <1>3, <1>7, <1>8
  <2> HIDE DEF listed
  <2>3. QED BY <1>4, <2>1, <2>2 DEF QueuedEnded
<1>11. OpenEndLater'
  BY <1>3, <1>4 DEF OpenEndLater
<1>12. DroppedOlder'
  <2> SUFFICES ASSUME ~overlap', NEW d \in dropped', NEW k \in (DOMAIN queue)'
               PROVE  d < k
    BY DEF DroppedOlder
  <2>1. CASE d \in listed \ Newest(listed)
    BY <1>3, <1>6, <2>1, NewestKeepsNewer
  <2>2. CASE d \in dropped /\ k \in DOMAIN queue
    BY <1>8, <2>2 DEF OrderInv, DroppedOlder
  <2>3. CASE d \in dropped /\ k \in closed
    <3>1. d \in Nat /\ k \in Nat /\ EndOf(d) \in Nat /\ EndOf(k) \in Nat
      BY <1>3, <1>5, <2>3, BucketBounds
    <3>2. EndOf(d) <= marker[1] /\ marker[1] < EndOf(k)
      BY <1>3, <2>3 DEF OrderInv, QueuedEnded
    <3>3. EndOf(d) < EndOf(k)
      BY <1>4, <3>1, <3>2
    <3>4. QED BY <3>1, <3>3, BucketsOrdered
  <2>4. k \in listed
    BY <1>3, <1>7
  <2>5. QED BY <1>8, <2>1, <2>2, <2>3, <2>4
<1>13. QueuedOnce'
  BY <1>2, <1>3, <1>8 DEF OrderInv, QueuedOnce
<1>14. QED BY <1>9, <1>10, <1>11, <1>12, <1>13 DEF OrderInv

LEMMA OrderStep == Typed /\ OrderInv /\ [Next]_vars => OrderInv'
<1> SUFFICES ASSUME Typed, OrderInv, [Next]_vars PROVE OrderInv' OBVIOUS
<1> USE DEF agentVars, monitorVars, historyVars
<1>0. clock \in Nat /\ marker \in {<<>>} \cup (Nat \X (Nat \ {0})) /\ Records(queue)
  BY DEF Typed, NumbersTyped, RecordsTyped
<1>1. CASE Tick
  <2>1. clock' = clock + 1 /\ UNCHANGED <<marker, buckets, queue, final, dropped, acked, overlap>>
    BY <1>1 DEF Tick
  <2>2. MarkerPast'
    BY <1>0, <2>1 DEF OrderInv, MarkerPast
  <2>3. QED BY <2>1, <2>2
            DEF OrderInv, QueuedEnded, OpenEndLater, DroppedOlder, QueuedOnce
<1>2. CASE AccountNothing
  <2>1. /\ marker \in {<<>>, marker'} /\ marker' = <<clock, Interval(clock)>> /\ clock' = clock
        /\ UNCHANGED <<buckets, queue, final, dropped, acked, overlap>>
    BY <1>2 DEF AccountNothing, BeginCycle
  <2>2. MarkerPast'
    BY <1>0, <2>1 DEF MarkerPast
  <2>3. marker # <<>> => marker' = marker
    BY <2>1
  <2>4. QueuedEnded' /\ OpenEndLater'
    BY <2>1, <2>3 DEF OrderInv, QueuedEnded, OpenEndLater
  <2>5. QED BY <2>1, <2>2, <2>4 DEF OrderInv, DroppedOlder, QueuedOnce
<1>3. ASSUME NEW total \in 0 .. MaxBytes - accounted, Account(total)
      PROVE  OrderInv'
  BY <1>3, OrderAccount
<1>4. CASE Acknowledged
  <2>1. /\ queue' = Without(queue, {Head}) /\ acked' = acked \cup {Head}
        /\ UNCHANGED <<clock, marker, buckets, final, dropped, overlap>>
    BY <1>4 DEF Acknowledged
  <2>2. (DOMAIN queue)' = DOMAIN queue \ {Head}
    BY <1>0, <2>1, WithoutRecords
  <2>3. MarkerPast' /\ OpenEndLater'
    BY <2>1 DEF OrderInv, MarkerPast, OpenEndLater
  <2>4. QueuedEnded'
    BY <2>1, <2>2 DEF OrderInv, QueuedEnded
  <2>5. DroppedOlder' /\ QueuedOnce'
    BY <2>1, <2>2 DEF OrderInv, DroppedOlder, QueuedOnce
  <2>6. QED BY <2>3, <2>4, <2>5 DEF OrderInv
<1>5. CASE UNCHANGED <<clock, marker, buckets, queue, final, dropped, acked, overlap>>
  BY <1>5 DEF OrderInv, MarkerPast, QueuedEnded, OpenEndLater, DroppedOlder, QueuedOnce
<1>6. CASE CycleAtBound \/ Send \/ SendNothing \/ SendFails \/ StateLost
           \/ \E wait \in {0, 1} : Restart(wait)
  BY <1>5, <1>6 DEF CycleAtBound, Send, SendNothing, SendFails, Restart, StateLost
<1>7. CASE ClearHistory \/ SetEpoch \/ PurgeNode \/ Expire
           \/ \E r \in requests : Unauthorized(r) \/ ReadEpoch(r) \/ Upsert(r)
  BY <1>5, <1>7 DEF Unauthorized, ReadEpoch, Upsert, ClearHistory, SetEpoch, PurgeNode, Expire
<1>8. CASE UNCHANGED vars
  BY <1>5, <1>8 DEF vars
<1>9. QED BY <1>1, <1>2, <1>3, <1>4, <1>6, <1>7, <1>8 DEF Next, Cycle

LEMMA AlwaysOrdered == Spec => []OrderInv
BY InitOrder, OrderStep, AlwaysTyped, PTL DEF Spec

(* As long as no payload reaches back into the seconds of an earlier one,    *)
(* no closed bucket disappears from the retry list unless it was             *)
(* acknowledged or all the list holds is newer.                              *)
THEOREM NoneIsForgotten == Spec => []NoneForgotten
<1>1. OrderInv => NoneForgotten
  BY DEF OrderInv, DroppedOlder, QueuedOnce, NoneForgotten
<1>2. QED BY <1>1, AlwaysOrdered, PTL

-----------------------------------------------------------------------------
(* The record of a bucket, on its way from the list to the row.              *)
QueueFinal == \A k \in DOMAIN queue : k \in DOMAIN final /\ queue[k] = final[k]

RequestsFinal ==
  \A r \in requests : r.bucket \in DOMAIN final /\ r.record = final[r.bucket]

RowsOfFinal == \A k \in DOMAIN rows : k \in DOMAIN final /\ rows[k] = final[k]

FinalInv == ~overlap => QueueFinal /\ RequestsFinal /\ RowsOfFinal

LEMMA InitFinal == Init => FinalInv
BY EmptyRecords DEF Init, FinalInv, QueueFinal, RequestsFinal, RowsOfFinal

LEMMA FinalAccount ==
  ASSUME Typed, OrderInv, FinalInv,
         NEW total \in 0 .. MaxBytes - accounted, Account(total)
  PROVE  FinalInv'
<1>1. PICK start, working, closed : start \in Nat /\ Accounting(start, working, closed)
  BY AccountedRecords
<1>2. marker # <<>> /\ UNCHANGED <<requests, rows>>
  BY DEF Account, BeginCycle, monitorVars
<1>3. /\ closed \subseteq Nat
      /\ ~overlap' => \A k \in closed : marker[1] < EndOf(k)
      /\ (DOMAIN queue)' = Newest(DOMAIN queue \cup closed)
      /\ (DOMAIN final)' = DOMAIN final \cup closed
  BY <1>1, <1>2, AccountedOrder
<1> SUFFICES ASSUME ~overlap' PROVE QueueFinal' /\ RequestsFinal' /\ RowsOfFinal'
  BY DEF FinalInv
<1>4. ~overlap
  BY <1>1, Zenon DEF Accounting
<1>5. ASSUME NEW k \in DOMAIN final PROVE k \notin closed
  <2>1. marker[1] \in Nat
    BY <1>2 DEF Typed, NumbersTyped
  <2>2. k \in Nat /\ EndOf(k) \in Nat
    BY BucketBounds DEF Typed, RecordsTyped, Records
  <2>3. EndOf(k) <= marker[1]
    BY DEF OrderInv, QueuedEnded
  <2>4. QED BY <1>3, <2>1, <2>2, <2>3
<1>6. /\ \A k \in closed : final'[k] = working[k]
      /\ \A k \in DOMAIN final : final'[k] = final[k]
  <2> DEFINE first == [k \in closed |-> working[k]]
  <2>1. Records(working) /\ closed \subseteq DOMAIN working
    BY <1>1 DEF Accounting
  <2>2. Records(first) /\ DOMAIN first = closed
    BY <2>1 DEF Records
  <2>3. final' = Over(final, first) /\ Records(final)
    BY <1>1 DEF Accounting, Typed, RecordsTyped
  <2>4. \A k \in closed : first[k] = working[k]
    OBVIOUS
  <2> HIDE DEF first
  <2>5. \A k \in DOMAIN final : final'[k] = final[k]
    BY <2>2, <2>3, OverRecords
  <2>6. \A k \in closed \ DOMAIN final : final'[k] = first[k]
    <3>1. \A k \in DOMAIN first \ DOMAIN final : Over(final, first)[k] = first[k]
      BY <2>2, <2>3, OverRecords
    <3>2. QED BY <2>2, <2>3, <3>1
  <2>7. QED BY <1>5, <2>4, <2>5, <2>6
<1>7. QueueFinal'
  <2> SUFFICES ASSUME NEW k \in (DOMAIN queue)'
               PROVE  k \in (DOMAIN final)' /\ queue'[k] = final'[k]
    BY DEF QueueFinal
  <2>1. queue'[k] = IF k \in closed THEN working[k] ELSE queue[k]
    BY <1>1, <1>3 DEF Accounting
  <2>2. k \in DOMAIN queue \cup closed
    BY <1>3 DEF Newest
  <2>3. k \notin closed => k \in DOMAIN final /\ queue[k] = final[k]
    BY <1>4, <2>2 DEF FinalInv, QueueFinal
  <2>4. QED BY <1>3, <1>6, <2>1, <2>2, <2>3
<1>8. RequestsFinal'
  BY <1>2, <1>3, <1>4, <1>6 DEF FinalInv, RequestsFinal
<1>9. RowsOfFinal'
  BY <1>2, <1>3, <1>4, <1>6 DEF FinalInv, RowsOfFinal
<1>10. QED BY <1>7, <1>8, <1>9

LEMMA FinalUnchanged ==
  ASSUME FinalInv, UNCHANGED <<final, overlap, queue>>,
         \A r \in requests' :
           \E s \in requests : s.bucket = r.bucket /\ s.record = r.record,
         \A k \in (DOMAIN rows)' : k \in DOMAIN rows /\ rows'[k] = rows[k]
  PROVE  FinalInv'
BY DEF FinalInv, QueueFinal, RequestsFinal, RowsOfFinal

LEMMA FinalStep == Typed /\ OrderInv /\ FinalInv /\ [Next]_vars => FinalInv'
<1> SUFFICES ASSUME Typed, OrderInv, FinalInv, [Next]_vars PROVE FinalInv' OBVIOUS
<1> USE DEF agentVars, monitorVars, historyVars
<1>0. Records(queue) /\ Records(rows) /\ requests \subseteq Request
  BY DEF Typed, RecordsTyped
<1>1. CASE \/ Tick \/ AccountNothing \/ CycleAtBound \/ SendNothing \/ SetEpoch
           \/ UNCHANGED vars
  <2>1. UNCHANGED <<final, overlap, queue, requests, rows>>
    BY <1>1 DEF Tick, AccountNothing, BeginCycle, CycleAtBound, SendNothing, SetEpoch, vars
  <2>2. QED BY <2>1, FinalUnchanged
<1>2. ASSUME NEW total \in 0 .. MaxBytes - accounted, Account(total)
      PROVE  FinalInv'
  BY <1>2, FinalAccount
<1>3. CASE Send
  <2> DEFINE new == [bucket |-> Head, record |-> queue[Head], live |-> TRUE, stage |-> "sent"]
  <2>1. /\ queue # Empty /\ requests' = requests \cup {new}
        /\ UNCHANGED <<queue, rows, final, overlap>>
    BY <1>3 DEF Send
  <2>2. DOMAIN queue # {}
    BY <1>0, <2>1 DEF Records, Empty
  <2>3. Head \in DOMAIN queue /\ new.bucket = Head /\ new.record = queue[Head]
    BY <1>0, <2>2, HeadOldest
  <2> HIDE DEF new
  <2>4. ~overlap => RequestsFinal'
    BY <2>1, <2>3 DEF FinalInv, RequestsFinal, QueueFinal
  <2>5. QED BY <2>1, <2>4 DEF FinalInv, QueueFinal, RowsOfFinal
<1>4. CASE Acknowledged
  <2>1. queue' = Without(queue, {Head}) /\ UNCHANGED <<requests, rows, final, overlap>>
    BY <1>4 DEF Acknowledged
  <2>2. \A k \in (DOMAIN queue)' : k \in DOMAIN queue /\ queue'[k] = queue[k]
    <3>1. /\ DOMAIN Without(queue, {Head}) = DOMAIN queue \ {Head}
          /\ \A k \in DOMAIN queue \ {Head} : Without(queue, {Head})[k] = queue[k]
      BY <1>0, WithoutRecords
    <3>2. QED BY <2>1, <3>1
  <2>3. QED BY <2>1, <2>2 DEF FinalInv, QueueFinal, RequestsFinal, RowsOfFinal
<1>5. CASE SendFails \/ (\E wait \in {0, 1} : Restart(wait)) \/ StateLost
  <2>1. requests' = Abandoned /\ UNCHANGED <<queue, rows, final, overlap>>
    BY <1>5 DEF SendFails, Restart, StateLost
  <2>2. \A r \in requests' : \E s \in requests : s.bucket = r.bucket /\ s.record = r.record
    BY <1>0, <2>1 DEF Abandoned, Request
  <2>3. QED BY <2>1, <2>2, FinalUnchanged
<1>6. ASSUME NEW r \in requests, Unauthorized(r) \/ ReadEpoch(r)
      PROVE  FinalInv'
  <2>1. UNCHANGED <<queue, rows, final, overlap>>
    BY <1>6 DEF Unauthorized, ReadEpoch
  <2> DEFINE checked == [r EXCEPT !.stage = "checked"]
  <2>2. requests' \subseteq requests \cup {checked}
    BY <1>6 DEF Unauthorized, ReadEpoch
  <2>3. checked.bucket = r.bucket /\ checked.record = r.record
    BY <1>0 DEF Request
  <2> HIDE DEF checked
  <2>4. \A q \in requests' : \E s \in requests : s.bucket = q.bucket /\ s.record = q.record
    BY <2>2, <2>3
  <2>5. QED BY <2>1, <2>4, FinalUnchanged
<1>7. ASSUME NEW r \in requests, Upsert(r)
      PROVE  FinalInv'
  <2> DEFINE row == [k \in {r.bucket} |-> r.record]
  <2>1. /\ rows' = Over(row, rows) /\ requests' = requests \ {r}
        /\ UNCHANGED <<queue, final, overlap>>
    BY <1>7 DEF Upsert
  <2>2. Records(row) /\ DOMAIN row = {r.bucket} /\ row[r.bucket] = r.record
    BY <1>0 DEF Records, Request
  <2> HIDE DEF row
  <2>3. /\ (DOMAIN rows)' = {r.bucket} \cup DOMAIN rows
        /\ rows'[r.bucket] = r.record
        /\ \A k \in DOMAIN rows \ {r.bucket} : rows'[k] = rows[k]
    <3>1. /\ DOMAIN Over(row, rows) = DOMAIN row \cup DOMAIN rows
          /\ \A k \in DOMAIN row : Over(row, rows)[k] = row[k]
          /\ \A k \in DOMAIN rows \ DOMAIN row : Over(row, rows)[k] = rows[k]
      <4>1. Records(row) /\ Records(rows) BY <1>0, <2>2
      <4>2. QED BY ONLY <4>1, OverRecords
    <3> DEFINE new == Over(row, rows)
    <3>2. rows' = new BY <2>1
    <3>3. /\ DOMAIN new = {r.bucket} \cup DOMAIN rows /\ new[r.bucket] = r.record
          /\ \A k \in DOMAIN rows \ {r.bucket} : new[k] = rows[k]
      BY <2>2, <3>1
    <3> HIDE DEF new
    <3>4. QED BY <3>2, <3>3
  <2>4. ~overlap => RowsOfFinal'
    BY <2>1, <2>3 DEF FinalInv, RequestsFinal, RowsOfFinal
  <2>5. QED BY <2>1, <2>4 DEF FinalInv, QueueFinal, RequestsFinal
<1>8. CASE ClearHistory \/ PurgeNode
  <2>1. rows' = Empty /\ UNCHANGED <<queue, requests, final, overlap>>
    BY <1>8 DEF ClearHistory, PurgeNode
  <2>2. QED BY <2>1, EmptyRecords, FinalUnchanged
<1>9. CASE Expire
  <2>1. PICK old : rows' = Without(rows, old)
    BY <1>9 DEF Expire
  <2>2. UNCHANGED <<queue, requests, final, overlap>>
    BY <1>9 DEF Expire
  <2>3. \A k \in (DOMAIN rows)' : k \in DOMAIN rows /\ rows'[k] = rows[k]
    <3>1. /\ DOMAIN Without(rows, old) = DOMAIN rows \ old
          /\ \A k \in DOMAIN rows \ old : Without(rows, old)[k] = rows[k]
      BY <1>0, WithoutRecords
    <3>2. QED BY <2>1, <3>1
  <2>4. QED BY <2>2, <2>3, FinalUnchanged
<1>10. QED BY <1>1, <1>2, <1>3, <1>4, <1>5, <1>6, <1>7, <1>8, <1>9 DEF Next, Cycle

(* As long as no payload reaches back into the seconds of an earlier one,    *)
(* the row of a bucket is the record the bucket was closed with, whatever    *)
(* copies of the POST arrive, in whatever order, and however often the       *)
(* bucket is sent again.                                                     *)
THEOREM RowsAreFinal == Spec => []RowsFinal
<1>1. FinalInv => RowsFinal
  BY DEF FinalInv, RowsOfFinal, RowsFinal
<1>2. QED BY <1>1, InitFinal, FinalStep, AlwaysTyped, AlwaysOrdered, PTL DEF Spec

-----------------------------------------------------------------------------
(* Bytes.  What is left of a payload after its first n ticks is cut off by   *)
(* the next boundary; the shares add up, bucket by bucket, to the total.     *)
Bytes(f) == [k \in DOMAIN f |-> f[k].bytes]

LEMMA TotalBytesIsTotal ==
  ASSUME NEW f
  PROVE  TotalBytes(f) = Total(Bytes(f))
BY DEF TotalBytes, Total, Bytes

LEMMA BytesTyped ==
  ASSUME NEW f, Records(f)
  PROVE  DOMAIN Bytes(f) = DOMAIN f /\ Bytes(f) \in [DOMAIN f -> Nat]
BY DEF Records, Bytes, BucketRecord

(* Two neighbouring segments meet at the boundary of their buckets; the      *)
(* first begins with the payload and the last ends with it.                  *)
LEMMA SegmentsMeet ==
  ASSUME NEW start \in Nat, NEW end \in Nat, start < end,
         NEW k \in BucketOf(start) .. BucketOf(end - 1)
  PROVE  /\ k = BucketOf(start) => Larger(start, StartOf(k)) = start
         /\ k = BucketOf(end - 1) => Smaller(end, EndOf(k)) = end
         /\ k # BucketOf(start) =>
              /\ k - 1 \in BucketOf(start) .. BucketOf(end - 1)
              /\ Smaller(end, EndOf(k - 1)) = Larger(start, StartOf(k))
<1>1. end - 1 \in Nat /\ BucketOf(start) \in Nat /\ BucketOf(end - 1) \in Nat
  <2>1. end - 1 \in Nat OBVIOUS
  <2>2. QED BY <2>1, BucketHolds
<1>2. k \in Nat /\ StartOf(k) \in Nat /\ EndOf(k) \in Nat /\ start < EndOf(k) /\ StartOf(k) < end
  BY SegmentInside, BucketBounds
<1>3. k = BucketOf(start) => Larger(start, StartOf(k)) = start
  BY <1>2, BucketHolds DEF Larger
<1>4. k = BucketOf(end - 1) => Smaller(end, EndOf(k)) = end
  <2>1. end - 1 < EndOf(BucketOf(end - 1)) BY <1>1, BucketHolds
  <2>2. QED BY <1>1, <1>2, <2>1 DEF Smaller
<1>5. ASSUME k # BucketOf(start)
      PROVE  /\ k - 1 \in BucketOf(start) .. BucketOf(end - 1)
             /\ Smaller(end, EndOf(k - 1)) = Larger(start, StartOf(k))
  <2>1. k - 1 \in BucketOf(start) .. BucketOf(end - 1)
    BY <1>1, <1>2, <1>5
  <2>2. start < EndOf(k - 1)
    BY <2>1, SegmentInside
  <2>3. EndOf(k - 1) = StartOf(k)
    BY <1>2 DEF EndOf, StartOf
  <2>4. QED BY <1>2, <2>1, <2>2, <2>3 DEF Smaller, Larger
<1>6. QED BY <1>3, <1>4, <1>5

LEMMA CumulatedEnds ==
  ASSUME NEW total \in Nat, NEW interval \in Nat \ {0}
  PROVE  Cumulated(total, 0, interval) = 0 /\ Cumulated(total, interval, interval) = total
BY DEF Cumulated

LEMMA CumulatedNatural ==
  ASSUME NEW total \in Nat, NEW n \in Nat, NEW interval \in Nat \ {0}
  PROVE  Cumulated(total, n, interval) \in Nat
<1>1. total * n \in Nat
  BY ProductMonotone
<1>2. QED BY <1>1, QuotientMonotone DEF Cumulated

(* Adding the segments of a payload, one bucket after the other.             *)
LEMMA AccumulatedTotal ==
  ASSUME NEW start \in Nat, NEW end \in Nat, start < end, NEW total \in Nat,
         Records(buckets), IsFiniteSet(DOMAIN buckets)
  PROVE  TotalBytes(Accumulated(start, end, total)) = TotalBytes(buckets) + total
<1> DEFINE first == BucketOf(start)
           last  == BucketOf(end - 1)
           interval == end - start
           from(k) == Larger(start, StartOf(k)) - start
           to(k)   == Smaller(end, EndOf(k)) - start
           share(k) == Share(total, from(k), to(k), interval)
           D == (first .. last) \cup DOMAIN buckets
           base(k) == IF k \in DOMAIN buckets THEN buckets[k].bytes ELSE 0
           upto(n) == [k \in D |-> base(k) + (IF k \in first .. n THEN share(k) ELSE 0)]
           Working == Accumulated(start, end, total)
<1>1. /\ first \in Nat /\ last \in Nat /\ first <= last /\ interval \in Nat \ {0}
      /\ end - 1 \in Nat
  <2>1. end - 1 \in Nat /\ start <= end - 1 /\ interval \in Nat \ {0} OBVIOUS
  <2>2. QED BY <2>1, QuotientMonotone, ParametersAssumption DEF BucketOf
<1>2. ASSUME NEW k \in first .. last
      PROVE  /\ k \in Nat /\ from(k) \in Nat /\ to(k) \in Nat
             /\ share(k) \in Nat
             /\ share(k) = Cumulated(total, to(k), interval) - Cumulated(total, from(k), interval)
             /\ Cumulated(total, to(k), interval) \in Nat
             /\ Cumulated(total, from(k), interval) \in Nat
  <2>1. /\ k \in Nat /\ from(k) \in 0 .. end - start /\ to(k) \in 0 .. end - start
        /\ Larger(start, StartOf(k)) < Smaller(end, EndOf(k))
    BY <1>2, SegmentInside
  <2>2. StartOf(k) \in Nat /\ EndOf(k) \in Nat
    BY <2>1, BucketBounds
  <2>3. from(k) <= to(k)
    BY <2>1, <2>2 DEF Larger, Smaller
  <2>4. from(k) \in Nat /\ to(k) \in Nat
    BY <2>1
  <2> HIDE DEF from, to, interval
  <2>5. Share(total, from(k), to(k), interval) \in Nat
    BY <1>1, <2>3, <2>4, ShareNatural
  <2>6. /\ Cumulated(total, to(k), interval) \in Nat
        /\ Cumulated(total, from(k), interval) \in Nat
    BY <1>1, <2>4, CumulatedNatural
  <2>7. QED BY <2>1, <2>4, <2>5, <2>6 DEF Share
<1>3. ASSUME NEW k \in D PROVE base(k) \in Nat
  BY DEF Records, BucketRecord
<1>4. ASSUME NEW k \in first .. last
      PROVE  /\ k = first => Cumulated(total, from(k), interval) = 0
             /\ k = last => Cumulated(total, to(k), interval) = total
             /\ k # first => k - 1 \in first .. last /\ to(k - 1) = from(k)
  <2>1. k = first => from(k) = 0
    <3>1. k = first => Larger(start, StartOf(k)) = start
      BY <1>4, SegmentsMeet
    <3>2. QED BY <3>1
  <2>2. k = last => to(k) = interval
    <3>1. k = last => Smaller(end, EndOf(k)) = end
      BY <1>4, SegmentsMeet
    <3>2. QED BY <3>1
  <2>3. k # first => k - 1 \in first .. last /\ to(k - 1) = from(k)
    BY <1>4, SegmentsMeet
  <2> HIDE DEF from, to, interval
  <2>4. QED BY <1>1, <2>1, <2>2, <2>3, CumulatedEnds
<1>5. IsFiniteSet(D)
  <2>1. first \in Int /\ last \in Int BY <1>1
  <2>2. IsFiniteSet(first .. last) BY <2>1, FS_Interval
  <2>3. QED BY <2>2, FS_Union
<1>6. ASSUME NEW n \in Int, n <= last
      PROVE  /\ DOMAIN upto(n) = D /\ upto(n) \in [D -> Int]
             /\ \A k \in D \ (first .. n) : upto(n)[k] = base(k)
             /\ \A k \in first .. n : k \in D /\ upto(n)[k] = base(k) + share(k)
  <2> HIDE DEF share, base, first, last
  <2>1. ASSUME NEW k \in D
        PROVE  base(k) + (IF k \in first .. n THEN share(k) ELSE 0) \in Int
    <3>1. base(k) \in Int BY <1>3
    <3>2. k \in first .. n => share(k) \in Int BY <1>1, <1>2, <1>6
    <3>3. QED BY <3>1, <3>2
  <2>2. DOMAIN upto(n) = D /\ upto(n) \in [D -> Int]
    BY <2>1
  <2>3. \A k \in D \ (first .. n) : upto(n)[k] = base(k)
    BY <1>3
  <2>4. first .. n \subseteq D
    BY <1>1, <1>6
  <2>5. QED BY <2>2, <2>3, <2>4
<1>7. Total(upto(first - 1)) = TotalBytes(buckets)
  <2> DEFINE rest == [k \in D \ DOMAIN buckets |-> 0]
             none == upto(first - 1)
  <2>1. /\ DOMAIN none = D /\ none \in [D -> Int]
        /\ \A k \in D : none[k] = base(k)
    <3>1. first - 1 \in Int /\ first - 1 <= last /\ first .. (first - 1) = {}
      BY <1>1
    <3> HIDE DEF upto, first, last, D
    <3>2. QED BY <1>6, <3>1
  <2>2. /\ DOMAIN rest = D \ DOMAIN buckets /\ IsFiniteSet(DOMAIN rest)
        /\ \A k \in DOMAIN rest : rest[k] = 0
    <3>1. D \ DOMAIN buckets \in SUBSET D OBVIOUS
    <3>2. QED BY <1>5, <3>1, FS_Subset
  <2> HIDE DEF rest, none, upto
  <2>3. Total(rest) = 0
    BY <2>2, TotalZero
  <2>4. DOMAIN Bytes(buckets) = DOMAIN buckets /\ DOMAIN buckets \subseteq D
        /\ \A k \in DOMAIN buckets : Bytes(buckets)[k] = none[k]
    BY <2>1 DEF Bytes
  <2>5. \A k \in DOMAIN rest : rest[k] = none[k]
    BY <2>1, <2>2
  <2> HIDE DEF D
  <2>6. Total(none) = Total(Bytes(buckets)) + Total(rest)
    BY <1>5, <2>1, <2>2, <2>4, <2>5, TotalSplit
  <2>7. Total(Bytes(buckets)) \in Int
    BY BytesTyped, TotalInt
  <2>8. QED BY <2>3, <2>6, <2>7, TotalBytesIsTotal DEF none
<1>8. ASSUME NEW n \in first .. last
      PROVE  Total(upto(n)) = Total(upto(n - 1)) + share(n) /\ Total(upto(n - 1)) \in Int
  <2>1. n \in Int /\ n <= last /\ n - 1 \in Int /\ n - 1 <= last /\ n \in D
    BY <1>1, <1>8
  <2> HIDE DEF upto, share, base, D, first, last
  <2>2. /\ DOMAIN upto(n) = D /\ upto(n) \in [D -> Int]
        /\ DOMAIN upto(n - 1) = D /\ upto(n - 1) \in [D -> Int]
    BY <1>6, <2>1
  <2>3. upto(n)[n] = base(n) + share(n) /\ upto(n - 1)[n] = base(n)
    <3>1. n \in first .. n /\ n \notin first .. (n - 1)
      BY <1>8, <2>1
    <3>2. QED BY <1>6, <2>1, <3>1
  <2>4. \A k \in D \ {n} : upto(n)[k] = upto(n - 1)[k]
    <3> SUFFICES ASSUME NEW k \in D, k # n PROVE upto(n)[k] = upto(n - 1)[k]
      OBVIOUS
    <3>1. CASE k \in first .. n
      <4>1. k \in first .. (n - 1) BY <2>1, <3>1
      <4>2. QED BY <1>6, <2>1, <3>1, <4>1
    <3>2. CASE k \notin first .. n
      <4>1. k \notin first .. (n - 1) BY <2>1, <3>2
      <4>2. QED BY <1>6, <2>1, <3>2, <4>1
    <3>3. QED BY <3>1, <3>2
  <2> DEFINE before == upto(n - 1)
             after  == upto(n)
  <2>5. /\ DOMAIN before = D /\ before \in [D -> Int] /\ DOMAIN after = D /\ after \in [D -> Int]
        /\ after[n] = base(n) + share(n) /\ before[n] = base(n)
        /\ \A k \in D \ {n} : after[k] = before[k]
    BY <2>2, <2>3, <2>4
  <2> HIDE DEF before, after
  <2>6. Total(after) = Total(before) - before[n] + after[n]
    BY <1>5, <2>1, <2>5, TotalChange
  <2>7. Total(before) \in Int
    BY <1>5, <2>5, TotalInt
  <2>8. base(n) \in Int /\ share(n) \in Int
    BY <1>2, <1>3, <1>8, <2>1
  <2>9. QED BY <2>5, <2>6, <2>7, <2>8 DEF before, after
<1> HIDE DEF upto, share, base, D
<1>9. ASSUME NEW n \in first .. last
      PROVE  Total(upto(n)) = TotalBytes(buckets) + Cumulated(total, to(n), interval)
  <2> DEFINE Holds(m) == Total(upto(m)) = TotalBytes(buckets) + Cumulated(total, to(m), interval)
             Bad == {m \in first .. last : ~ Holds(m)}
  <2>1. SUFFICES ASSUME Bad # {} PROVE FALSE
    BY <1>9
  <2>2. Bad \in SUBSET Nat
    BY <1>1
  <2> HIDE DEF Bad
  <2>3. PICK m \in Bad : \A x \in Bad : m <= x
    BY <2>1, <2>2, Least
  <2>4. m \in first .. last /\ ~ Holds(m)
    BY <2>3 DEF Bad
  <2>5. /\ Total(upto(m)) = Total(upto(m - 1)) + share(m)
        /\ Total(upto(m - 1)) \in Int /\ share(m) \in Nat
        /\ share(m) = Cumulated(total, to(m), interval) - Cumulated(total, from(m), interval)
        /\ Cumulated(total, to(m), interval) \in Nat
        /\ Cumulated(total, from(m), interval) \in Nat
    BY <1>2, <1>8, <2>4
  <2>6. Total(upto(m - 1)) = TotalBytes(buckets) + Cumulated(total, from(m), interval)
    <3>1. CASE m = first
      <4>1. Total(upto(m - 1)) = TotalBytes(buckets) /\ Cumulated(total, from(m), interval) = 0
        BY <1>4, <1>7, <2>4, <3>1
      <4>2. QED BY <2>5, <4>1
    <3>2. CASE m # first
      <4>1. m - 1 \in first .. last /\ to(m - 1) = from(m)
        BY <1>4, <2>4, <3>2
      <4>2. m \in Int /\ m - 1 < m
        BY <1>1, <2>4
      <4>3. m - 1 \notin Bad
        BY <2>2, <2>3, <4>2
      <4>4. Holds(m - 1)
        BY <4>1, <4>3 DEF Bad
      <4>5. QED BY <4>1, <4>4
    <3>3. QED BY <3>1, <3>2
  <2>7. TotalBytes(buckets) \in Int
    BY TotalBytesIsTotal, BytesTyped, TotalInt
  <2>8. Holds(m)
    <3> DEFINE a == Cumulated(total, to(m), interval)
               b == Cumulated(total, from(m), interval)
    <3>1. a \in Nat /\ b \in Nat /\ share(m) = a - b
      BY <2>5
    <3>2. Total(upto(m)) = TotalBytes(buckets) + b + (a - b)
      BY <2>5, <2>6, <3>1
    <3> HIDE DEF a, b
    <3>3. Total(upto(m)) = TotalBytes(buckets) + a
      BY <2>7, <3>1, <3>2
    <3>4. QED BY <3>3 DEF a
  <2>9. QED BY <2>4, <2>8
<1>10. Total(upto(last)) = TotalBytes(buckets) + total
  BY <1>1, <1>4, <1>9
<1>11. Bytes(Working) = upto(last)
  <2>1. DOMAIN Working = D
    BY AccumulatedRecords DEF D
  <2>2. ASSUME NEW k \in D
        PROVE  Working[k].bytes = base(k) + (IF k \in first .. last THEN share(k) ELSE 0)
    <3>1. CASE k \in first .. last
      BY <2>2, <3>1 DEF Accumulated, Over, base, share
    <3>2. CASE k \notin first .. last
      <4>1. k \in DOMAIN buckets /\ Working[k] = buckets[k]
        BY <2>2, <3>2 DEF Accumulated, Over, D
      <4>2. base(k) = buckets[k].bytes /\ buckets[k].bytes \in Nat
        BY <4>1, <1>3, <2>2 DEF base
      <4>3. QED BY <3>2, <4>1, <4>2
    <3>3. QED BY <3>1, <3>2
  <2> HIDE DEF Working
  <2>3. QED BY <2>1, <2>2 DEF Bytes, upto
<1>12. QED BY <1>10, <1>11, TotalBytesIsTotal

(* A map of records cut in two.                                              *)
LEMMA TotalBytesSplit ==
  ASSUME NEW f, Records(f), IsFiniteSet(DOMAIN f),
         NEW g, NEW h, DOMAIN g \cup DOMAIN h = DOMAIN f, DOMAIN g \cap DOMAIN h = {},
         \A x \in DOMAIN g : g[x] = f[x], \A x \in DOMAIN h : h[x] = f[x]
  PROVE  /\ TotalBytes(f) = TotalBytes(g) + TotalBytes(h)
         /\ TotalBytes(g) \in Int /\ TotalBytes(h) \in Int
<1> DEFINE F == Bytes(f)
           G == Bytes(g)
           H == Bytes(h)
<1>1. /\ DOMAIN F = DOMAIN f /\ F \in [DOMAIN F -> Int]
      /\ DOMAIN G = DOMAIN g /\ DOMAIN H = DOMAIN h
  BY BytesTyped DEF Bytes
<1>2. /\ \A x \in DOMAIN G : G[x] = F[x]
      /\ \A x \in DOMAIN H : H[x] = F[x]
  BY DEF Bytes
<1>3. G \in [DOMAIN G -> Int] /\ H \in [DOMAIN H -> Int]
  <2>1. \A x \in DOMAIN G : G[x] \in Int
    BY <1>1, <1>2
  <2>2. \A x \in DOMAIN H : H[x] \in Int
    BY <1>1, <1>2
  <2>3. G = [x \in DOMAIN G |-> G[x]] /\ H = [x \in DOMAIN H |-> H[x]]
    BY DEF Bytes
  <2> HIDE DEF G, H
  <2>4. QED BY <2>1, <2>2, <2>3
<1>4. /\ IsFiniteSet(DOMAIN F) /\ IsFiniteSet(DOMAIN G) /\ IsFiniteSet(DOMAIN H)
      /\ DOMAIN G \cup DOMAIN H = DOMAIN F /\ DOMAIN G \cap DOMAIN H = {}
  <2>1. DOMAIN g \in SUBSET DOMAIN f /\ DOMAIN h \in SUBSET DOMAIN f OBVIOUS
  <2>2. IsFiniteSet(DOMAIN g) /\ IsFiniteSet(DOMAIN h) BY <2>1, FS_Subset
  <2>3. QED BY <1>1, <2>2
<1> HIDE DEF F, G, H
<1>5. Total(F) = Total(G) + Total(H)
  BY <1>1, <1>2, <1>4, TotalSplit
<1>6. Total(G) \in Int /\ Total(H) \in Int
  BY <1>3, <1>4, TotalInt
<1>7. QED BY <1>5, <1>6, TotalBytesIsTotal DEF F, G, H

(* Two maps without a common bucket put together.                            *)
LEMMA TotalBytesOver ==
  ASSUME NEW g, NEW h, Records(g), Records(h),
         IsFiniteSet(DOMAIN g), IsFiniteSet(DOMAIN h), DOMAIN g \cap DOMAIN h = {}
  PROVE  /\ TotalBytes(Over(g, h)) = TotalBytes(g) + TotalBytes(h)
         /\ TotalBytes(g) \in Int
<1> DEFINE f == Over(g, h)
<1>1. /\ Records(f) /\ DOMAIN f = DOMAIN g \cup DOMAIN h
      /\ \A x \in DOMAIN g : g[x] = f[x]
      /\ \A x \in DOMAIN h : h[x] = f[x]
  <2>1. /\ Records(f) /\ DOMAIN f = DOMAIN g \cup DOMAIN h
        /\ \A x \in DOMAIN g : f[x] = g[x]
        /\ \A x \in DOMAIN h \ DOMAIN g : f[x] = h[x]
    BY OverRecords
  <2> HIDE DEF f
  <2>2. \A x \in DOMAIN h : x \in DOMAIN h \ DOMAIN g
    OBVIOUS
  <2>3. QED BY <2>1, <2>2
<1> HIDE DEF f
<1>2. IsFiniteSet(DOMAIN f)
  BY <1>1, FS_Union
<1>3. DOMAIN g = DOMAIN f \ DOMAIN h /\ DOMAIN h \subseteq DOMAIN f
  BY <1>1
<1>4. /\ TotalBytes(f) = TotalBytes(g) + TotalBytes(h)
      /\ TotalBytes(g) \in Int /\ TotalBytes(h) \in Int
  BY <1>1, <1>2, <1>3, TotalBytesSplit
<1>5. QED BY <1>4 DEF f

(* BytesConserved, of two maps that are named: a step changes what f and g   *)
(* stand for and not the sum.                                                *)
Balanced ==
  \E f, g : f = buckets /\ g = final /\ accounted = TotalBytes(f) + TotalBytes(g)

BytesInv == (~overlap => Balanced) /\ IsFiniteSet(DOMAIN final)

LEMMA InitBytes == Init => BytesInv
<1> SUFFICES ASSUME Init PROVE BytesInv OBVIOUS
<1>1. TotalBytes(Empty) = 0
  <2>1. DOMAIN Bytes(Empty) = {} /\ Bytes(Empty) \in [DOMAIN Bytes(Empty) -> Int]
    BY EmptyRecords, BytesTyped
  <2>2. QED BY <2>1, FS_EmptySet, TotalInt, TotalBytesIsTotal
<1>2. DOMAIN final = {} /\ buckets = Empty /\ final = Empty /\ accounted = 0
  BY EmptyRecords DEF Init
<1>3. accounted = TotalBytes(Empty) + TotalBytes(Empty)
  BY <1>1, <1>2
<1>4. QED BY <1>2, <1>3, FS_EmptySet DEF BytesInv, Balanced

(* What a cycle adds stays in the accumulator or goes to the closed buckets.  *)
LEMMA BytesMoved ==
  ASSUME NEW old \in Int, NEW ended \in Int, NEW total \in Int, NEW left \in Int,
         NEW first \in Int, old + total = left + first
  PROVE  (old + ended) + total = left + (ended + first)
OBVIOUS

LEMMA BytesAccount ==
  ASSUME Typed, OrderInv, BytesInv, NEW total \in 0 .. MaxBytes - accounted, Account(total)
  PROVE  BytesInv'
<1>1. PICK start, working, closed :
        /\ start \in Nat /\ Accounting(start, working, closed)
        /\ working = Accumulated(start, clock, total)
  BY AccountedRecords
<1>2. marker # <<>> /\ accounted' = accounted + total
  BY DEF Account
<1>3. /\ IsFiniteSet(closed)
      /\ ~overlap' => \A k \in closed : marker[1] < EndOf(k)
      /\ (DOMAIN final)' = DOMAIN final \cup closed
  BY <1>1, <1>2, AccountedOrder
<1>4. /\ Records(working) /\ IsFiniteSet(DOMAIN working) /\ closed \subseteq DOMAIN working
      /\ start = clock - Interval(clock)
  BY <1>1 DEF Accounting
<1>5. /\ Records(buckets) /\ IsFiniteSet(DOMAIN buckets) /\ Records(final)
      /\ clock \in Nat /\ accounted \in Nat /\ total \in Nat /\ start < clock
  <2>1. Records(buckets) /\ IsFiniteSet(DOMAIN buckets) /\ Records(final)
    BY DEF Typed, RecordsTyped
  <2>2. clock \in Nat /\ accounted \in Nat /\ total \in Nat
    BY ParametersAssumption DEF Typed, NumbersTyped
  <2>3. start < clock
    BY <1>4, IntervalPositive DEF Typed
  <2>4. QED BY <2>1, <2>2, <2>3
<1>6. IsFiniteSet((DOMAIN final)')
  BY <1>3, FS_Union DEF BytesInv
<1> SUFFICES ASSUME ~overlap'
             PROVE  Balanced'
  BY <1>6 DEF BytesInv
<1>7. ~overlap /\ closed \cap DOMAIN final = {}
  <2>1. ~overlap
    BY <1>1, Zenon DEF Accounting
  <2>2. ASSUME NEW k \in DOMAIN final, k \in closed PROVE FALSE
    <3>1. marker[1] \in Nat
      BY <1>2 DEF Typed, NumbersTyped
    <3>2. k \in Nat /\ EndOf(k) \in Nat
      BY <1>5, BucketBounds DEF Records
    <3>3. EndOf(k) <= marker[1]
      BY DEF OrderInv, QueuedEnded
    <3>4. QED BY <1>3, <2>2, <3>1, <3>2, <3>3
  <2>3. QED BY <2>1, <2>2
<1> DEFINE first == [k \in closed |-> working[k]]
<1>8. Records(first) /\ DOMAIN first = closed /\ \A k \in closed : first[k] = working[k]
  BY <1>4 DEF Records
<1>9. buckets' = Without(working, closed)
  <2>1. buckets' = Without(working,
                           closed \cup {k \in DOMAIN working : k < BucketOf(clock) - 1})
    BY <1>1, Zenon DEF Accounting
  <2>2. closed = {k \in DOMAIN working : Closed(k)}
    BY <1>1, Zenon DEF Accounting
  <2>3. ASSUME NEW k \in DOMAIN working, k < BucketOf(clock) - 1
        PROVE  k \in closed
    <3>1. k \in Nat /\ k + 1 \in Nat /\ BucketOf(clock) \in Nat /\ k + 1 <= BucketOf(clock)
      BY <1>4, <1>5, <2>3, BucketHolds DEF Records
    <3>2. StartOf(k + 1) <= StartOf(BucketOf(clock))
      BY <3>1, BucketsOrdered
    <3>3. StartOf(BucketOf(clock)) <= clock /\ StartOf(k + 1) = EndOf(k)
      BY <1>5, BucketHolds DEF StartOf, EndOf
    <3>4. /\ StartOf(k + 1) \in Nat /\ StartOf(BucketOf(clock)) \in Nat
      BY <3>1, BucketBounds
    <3>5. EndOf(k) <= clock
      BY <1>5, <3>2, <3>3, <3>4
    <3>6. QED BY <2>2, <3>5 DEF Closed
  <2>4. closed \cup {k \in DOMAIN working : k < BucketOf(clock) - 1} = closed
    BY <2>3
  <2>5. QED BY <2>1, <2>4
<1>10. final' = Over(final, first)
  BY <1>1 DEF Accounting
<1> HIDE DEF first
<1>11. TotalBytes(working) = TotalBytes(buckets) + total
  BY <1>1, <1>5, AccumulatedTotal
<1> DEFINE left == Without(working, closed)
           both == Over(final, first)
<1>12. /\ DOMAIN left = DOMAIN working \ closed
       /\ \A k \in DOMAIN left : left[k] = working[k]
  <2>1. Records(working) BY <1>4
  <2>2. /\ DOMAIN left = DOMAIN working \ closed
        /\ \A k \in DOMAIN working \ closed : left[k] = working[k]
    BY ONLY <2>1, WithoutRecords
  <2>3. QED BY <2>2
<1> HIDE DEF left, both
<1>14. /\ TotalBytes(working) = TotalBytes(left) + TotalBytes(first)
       /\ TotalBytes(left) \in Int /\ TotalBytes(first) \in Int
  BY <1>4, <1>8, <1>12, TotalBytesSplit
<1>15. TotalBytes(both) = TotalBytes(final) + TotalBytes(first) /\ TotalBytes(final) \in Int
  <2>1. /\ Records(final) /\ Records(first)
        /\ IsFiniteSet(DOMAIN final) /\ IsFiniteSet(DOMAIN first)
        /\ DOMAIN final \cap DOMAIN first = {}
    BY <1>3, <1>5, <1>7, <1>8 DEF BytesInv
  <2>2. QED BY ONLY <2>1, TotalBytesOver DEF both
<1>16. accounted = TotalBytes(buckets) + TotalBytes(final)
  BY <1>7 DEF BytesInv, Balanced
<1>17. TotalBytes(buckets) \in Int
  BY <1>5, TotalBytesIsTotal, BytesTyped, TotalInt
<1>18. accounted' = TotalBytes(left) + TotalBytes(both)
  <2>1. accounted' = (TotalBytes(buckets) + TotalBytes(final)) + total
    BY <1>2, <1>16, Zenon
  <2>2. TotalBytes(buckets) + total = TotalBytes(left) + TotalBytes(first)
    BY <1>11, <1>14, Zenon
  <2>3. total \in Int BY <1>5
  <2>4. (TotalBytes(buckets) + TotalBytes(final)) + total
          = TotalBytes(left) + (TotalBytes(final) + TotalBytes(first))
    <3>1. /\ TotalBytes(left) \in Int /\ TotalBytes(first) \in Int
          /\ TotalBytes(buckets) \in Int /\ TotalBytes(final) \in Int
      BY <1>14, <1>15, <1>17, Zenon
    <3>2. QED BY ONLY <3>1, <2>2, <2>3, BytesMoved
  <2>5. QED BY <1>15, <2>1, <2>4, Zenon
<1>19. buckets' = left /\ final' = both
  BY <1>9, <1>10 DEF left, both
<1>20. QED BY <1>18, <1>19 DEF Balanced

LEMMA BytesUnchanged ==
  ASSUME BytesInv, UNCHANGED <<accounted, overlap, buckets, final>>
  PROVE  BytesInv'
BY DEF BytesInv, Balanced

LEMMA BytesStep == Typed /\ OrderInv /\ BytesInv /\ [Next]_vars => BytesInv'
<1> SUFFICES ASSUME Typed, OrderInv, BytesInv, [Next]_vars PROVE BytesInv' OBVIOUS
<1>1. ASSUME NEW total \in 0 .. MaxBytes - accounted, Account(total)
      PROVE  BytesInv'
  BY <1>1, BytesAccount
<1>2. CASE UNCHANGED <<accounted, overlap, buckets, final>>
  BY <1>2, BytesUnchanged
<1> USE DEF agentVars, monitorVars, historyVars
<1>3. CASE \/ Tick \/ AccountNothing \/ CycleAtBound \/ Send \/ SendNothing \/ Acknowledged
           \/ SendFails \/ StateLost \/ \E wait \in {0, 1} : Restart(wait)
  BY <1>2, <1>3 DEF Tick, AccountNothing, BeginCycle, CycleAtBound, Send, SendNothing,
                    Acknowledged, SendFails, Restart, StateLost
<1>4. CASE ClearHistory \/ SetEpoch \/ PurgeNode \/ Expire
           \/ \E r \in requests : Unauthorized(r) \/ ReadEpoch(r) \/ Upsert(r)
  BY <1>2, <1>4 DEF Unauthorized, ReadEpoch, Upsert, ClearHistory, SetEpoch, PurgeNode, Expire
<1>5. CASE UNCHANGED vars
  BY <1>2, <1>5 DEF vars
<1>6. QED BY <1>1, <1>3, <1>4, <1>5 DEF Next, Cycle

(* Cutting payloads at the bucket boundaries neither invents nor loses a     *)
(* byte, for every length of the buckets and of the cycles: as long as no    *)
(* payload reaches back into an earlier one, what was accounted is in the    *)
(* accumulator or in the closed buckets.                                     *)
THEOREM BytesAreConserved == Spec => []BytesConserved
<1>1. BytesInv => BytesConserved
  BY DEF BytesInv, Balanced, BytesConserved
<1>2. QED BY <1>1, InitBytes, BytesStep, AlwaysTyped, AlwaysOrdered, PTL DEF Spec
=============================================================================
