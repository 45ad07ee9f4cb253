------------------------ MODULE WriteBatchingProofs ------------------------
(***************************************************************************)
(* Proofs about WriteBatching, for every region size, set of destinations, *)
(* set of write ranges and thresholds.                                     *)
(***************************************************************************)
EXTENDS WriteBatching, WellFoundedInduction, TLAPS

\* The arithmetic and set solver has half a minute for each leaf.
USE SMTT(30)

-----------------------------------------------------------------------------
(* Least and greatest numbers. *)

\* A non-empty set of naturals has a least element.
LEMMA LeastNat ==
  ASSUME NEW S \in SUBSET Nat, S # {}
  PROVE  \E m \in S : \A n \in S : m <= n
<1>1. IsWellFoundedOn(OpToRel(<, Nat), Nat)
  BY NatLessThanWellFounded, Zenon
<1>2. PICK m \in S : \A n \in S : ~(<<n, m>> \in OpToRel(<, Nat))
  BY <1>1, WFMin, Zenon
<1>3. \A n \in S : ~(n < m)
  BY <1>2, Zenon DEF OpToRel
<1>. QED
  BY <1>3

\* A non-empty set of naturals below a bound has a greatest element.
LEMMA GreatestNat ==
  ASSUME NEW b \in Nat, NEW S \in SUBSET (0 .. b), S # {}
  PROVE  \E m \in S : \A n \in S : n <= m
<1>. DEFINE T == {b - k : k \in S}
<1>1. T \in SUBSET Nat
  OBVIOUS
<1>0. T # {}
  <2>1. PICK k \in S : TRUE
    BY Zenon
  <2>2. b - k \in T
    OBVIOUS
  <2>. QED BY <2>2
<1>2. PICK t \in T : \A u \in T : t <= u
  BY <1>0, <1>1, LeastNat, Zenon
<1>3. PICK m \in S : t = b - m
  OBVIOUS
<1>4. \A n \in S : b - m <= b - n
  BY <1>2, <1>3
<1>. QED
  BY <1>4

-----------------------------------------------------------------------------
(* Queued writes and merging. *)

\* What membership in PendingRemoteWrite gives.
LEMMA WriteFields ==
  ASSUME NEW w \in PendingRemoteWrite
  PROVE  /\ w.lo \in 0 .. AddrLimit /\ w.hi \in 0 .. AddrLimit /\ w.lo < w.hi
         /\ w.data \in [w.lo .. (w.hi - 1) -> Bytes \cup {0}]
<1>1. PICK r \in Ranges : w \in WritesTo(r)
  BY DEF PendingRemoteWrite
<1>2. w.lo = r[1] /\ w.hi = r[2] /\ w.data \in [r[1] .. (r[2] - 1) -> Bytes \cup {0}]
  BY <1>1 DEF WritesTo, PayloadOn
<1>3. r[1] \in 0 .. AddrLimit /\ r[2] \in 0 .. AddrLimit /\ r[1] < r[2]
  BY DEF Ranges
<1>. QED
  BY <1>2, <1>3

\* How to establish membership.
LEMMA WriteIntro ==
  ASSUME NEW lo \in 0 .. AddrLimit, NEW hi \in 0 .. AddrLimit, lo < hi,
         NEW data \in [lo .. (hi - 1) -> Bytes \cup {0}]
  PROVE  [lo |-> lo, hi |-> hi, data |-> data] \in PendingRemoteWrite
<1>1. <<lo, hi>> \in Ranges
  BY DEF Ranges
<1>2. [lo |-> lo, hi |-> hi, data |-> data] \in WritesTo(<<lo, hi>>)
  BY DEF WritesTo, PayloadOn
<1>. QED
  BY <1>1, <1>2 DEF PendingRemoteWrite

\* The write covers exactly the offsets of its payload.
LEMMA CoversIsDomain ==
  ASSUME NEW w \in PendingRemoteWrite
  PROVE  /\ \A x \in Nat : Covers(w, x) <=> x \in DOMAIN w.data
         /\ \A x \in Nat : Covers(w, x) => w.data[x] \in Bytes \cup {0}
BY WriteFields, SizeAssumption DEF Covers

\* MergeWrites of two writes: its range and its bytes.
LEMMA MergeIsWrite ==
  ASSUME NEW v \in PendingRemoteWrite, NEW w \in PendingRemoteWrite
  PROVE  /\ MergeWrites(v, w) \in PendingRemoteWrite
         /\ \A x \in Nat : Covers(MergeWrites(v, w), x) =>
              MergeWrites(v, w).data[x] =
                IF Covers(w, x) THEN w.data[x]
                ELSE IF Covers(v, x) THEN v.data[x] ELSE 0
<1>. DEFINE lo == IF v.lo <= w.lo THEN v.lo ELSE w.lo
            hi == IF v.hi >= w.hi THEN v.hi ELSE w.hi
            data == [x \in lo .. (hi - 1) |->
                       IF Covers(w, x) THEN w.data[x]
                       ELSE IF Covers(v, x) THEN v.data[x] ELSE 0]
<1>1. MergeWrites(v, w) = [lo |-> lo, hi |-> hi, data |-> data]
  BY DEF MergeWrites
<1>2. lo \in 0 .. AddrLimit /\ hi \in 0 .. AddrLimit /\ lo < hi
  BY WriteFields, SizeAssumption
<1>3. \A x \in lo .. (hi - 1) : data[x] \in Bytes \cup {0}
  BY <1>2, CoversIsDomain, SizeAssumption
<1>4. data \in [lo .. (hi - 1) -> Bytes \cup {0}]
  BY <1>3, Zenon
<1>5. MergeWrites(v, w) \in PendingRemoteWrite
  <2>. HIDE DEF lo, hi, data
  <2>. QED
    BY <1>1, <1>2, <1>4, WriteIntro
<1>6. ASSUME NEW x \in Nat, Covers(MergeWrites(v, w), x)
      PROVE  MergeWrites(v, w).data[x] =
                IF Covers(w, x) THEN w.data[x]
                ELSE IF Covers(v, x) THEN v.data[x] ELSE 0
  <2>1. x \in lo .. (hi - 1)
    <3>. HIDE DEF lo, hi, data
    <3>. QED  BY <1>1, <1>2, <1>6, SizeAssumption DEF Covers
  <2>. QED
    BY <2>1, <1>1
<1>. QED
  BY <1>5, <1>6

\* Mergeable ranges leave no gap: an offset of the merged range is covered by
\* one of the two.
LEMMA MergeHasNoGap ==
  ASSUME NEW v \in PendingRemoteWrite, NEW w \in PendingRemoteWrite,
         CanMergeWrites(v, w)
  PROVE  \A x \in Nat :
           Covers(MergeWrites(v, w), x) <=> (Covers(v, x) \/ Covers(w, x))
BY WriteFields, SizeAssumption DEF Covers, MergeWrites, CanMergeWrites
-----------------------------------------------------------------------------
(* The queue. *)

\* The loop of QueueRemoteWrite finds an entry whenever there is a mergeable one.
LEMMA FirstMergeableExists ==
  ASSUME NEW q \in Seq(PendingRemoteWrite), NEW w, Mergeable(q, w) # {}
  PROVE  /\ FirstMergeable(q, w) \in 1 .. Len(q)
         /\ CanMergeWrites(q[FirstMergeable(q, w)], w)
<1>1. Mergeable(q, w) \in SUBSET Nat
  BY DEF Mergeable
<1>2. \E k \in Mergeable(q, w) : \A j \in Mergeable(q, w) : k <= j
  BY <1>1, LeastNat
<1>3. FirstMergeable(q, w) \in Mergeable(q, w)
  BY <1>2 DEF FirstMergeable
<1>. QED
  BY <1>3 DEF Mergeable

\* QueueRemoteWrite keeps a queue of writes, and grows it by one exactly when it
\* does not merge.
LEMMA QueueType ==
  ASSUME NEW q \in Seq(PendingRemoteWrite), NEW w \in PendingRemoteWrite
  PROVE  /\ QueueRemoteWrite(q, w) \in Seq(PendingRemoteWrite)
         /\ Len(QueueRemoteWrite(q, w)) + Merges(q, w) = Len(q) + 1
         /\ Len(QueueRemoteWrite(q, w)) \in 1 .. (Len(q) + 1)
         /\ Merges(q, w) \in {0, 1}
<1>1. CASE Mergeable(q, w) = {}
  BY <1>1 DEF QueueRemoteWrite, Merges
<1>2. CASE Mergeable(q, w) # {}
  <2>. DEFINE k == FirstMergeable(q, w)
  <2>1. k \in 1 .. Len(q)
    BY <1>2, FirstMergeableExists
  <2>2. MergeWrites(q[k], w) \in PendingRemoteWrite
    BY <2>1, MergeIsWrite
  <2>3. QueueRemoteWrite(q, w) = [q EXCEPT ![k] = MergeWrites(q[k], w)]
    BY <1>2 DEF QueueRemoteWrite
  <2>. HIDE DEF k
  <2>. QED
    BY <1>2, <2>1, <2>2, <2>3 DEF Merges
<1>. QED
  BY <1>1, <1>2

\* Every byte of every entry is an application byte.
AllApplicationBytes(q) ==
  \A k \in 1 .. Len(q) : \A x \in DOMAIN q[k].data : q[k].data[x] \in Bytes

\* Queueing an application payload keeps the queue free of fill bytes.
LEMMA QueueBytes ==
  ASSUME NEW q \in Seq(PendingRemoteWrite), NEW w \in PendingRemoteWrite,
         AllApplicationBytes(q), \A x \in DOMAIN w.data : w.data[x] \in Bytes
  PROVE  AllApplicationBytes(QueueRemoteWrite(q, w))
<1>1. CASE Mergeable(q, w) = {}
  BY <1>1 DEF QueueRemoteWrite, AllApplicationBytes
<1>2. CASE Mergeable(q, w) # {}
  <2>. DEFINE k == FirstMergeable(q, w)
              m == MergeWrites(q[k], w)
  <2>1. k \in 1 .. Len(q) /\ CanMergeWrites(q[k], w)
    BY <1>2, FirstMergeableExists
  <2>2. m \in PendingRemoteWrite /\ q[k] \in PendingRemoteWrite
    BY <2>1, MergeIsWrite
  <2>3. ASSUME NEW x \in DOMAIN m.data
        PROVE  m.data[x] \in Bytes
    <3>1. x \in Nat /\ Covers(m, x)
      <4>. HIDE DEF m
      <4>. QED  BY <2>2, <2>3, WriteFields, SizeAssumption DEF Covers
    <3>2. Covers(q[k], x) \/ Covers(w, x)
      BY <2>1, <2>2, <3>1, MergeHasNoGap
    <3>3. m.data[x] = IF Covers(w, x) THEN w.data[x]
                      ELSE IF Covers(q[k], x) THEN q[k].data[x] ELSE 0
      BY <2>2, <3>1, MergeIsWrite
    <3>4. Covers(w, x) => w.data[x] \in Bytes
      BY <3>1, CoversIsDomain
    <3>5. Covers(q[k], x) => q[k].data[x] \in Bytes
      BY <2>1, <2>2, <3>1, CoversIsDomain DEF AllApplicationBytes
    <3>. QED
      BY <3>2, <3>3, <3>4, <3>5
  <2>4. QueueRemoteWrite(q, w) = [q EXCEPT ![k] = m]
    BY <1>2 DEF QueueRemoteWrite
  <2>. HIDE DEF k, m
  <2>. QED
    BY <2>1, <2>2, <2>3, <2>4 DEF AllApplicationBytes
<1>. QED
  BY <1>1, <1>2

-----------------------------------------------------------------------------
(* What a flush writes. *)

\* Applying requests to a region yields a region.
LEMMA ApplyType ==
  ASSUME NEW region \in Regions, NEW q \in Seq(PendingRemoteWrite),
         NEW K \in SUBSET (1 .. Len(q))
  PROVE  ApplyWrites(region, q, K) \in Regions
<1>. SUFFICES ASSUME NEW x \in Offsets
              PROVE  ApplyWrites(region, q, K)[x] \in Bytes \cup {0}
  BY DEF ApplyWrites, Regions
<1>. DEFINE covering == {k \in K : Covers(q[k], x)}
            top == CHOOSE k \in covering : \A j \in covering : j <= k
<1>1. ApplyWrites(region, q, K)[x] =
        IF covering = {} THEN region[x] ELSE q[top].data[x]
  BY DEF ApplyWrites
<1>2. CASE covering = {}
  BY <1>1, <1>2 DEF Regions
<1>3. CASE covering # {}
  <2>0. Len(q) \in Nat
    OBVIOUS
  <2>1. covering \in SUBSET (0 .. Len(q))
    <3>1. \A k \in covering : k \in 1 .. Len(q)
      OBVIOUS
    <3>2. \A k \in covering : k \in 0 .. Len(q)
      BY <2>0, <3>1
    <3>. HIDE DEF covering
    <3>. QED
      BY <3>2
  <2>2. \E k \in covering : \A j \in covering : j <= k
    BY <1>3, <2>0, <2>1, GreatestNat, Zenon
  <2>3. top \in covering
    BY <2>2, Zenon
  <2>4. top \in 1 .. Len(q) /\ Covers(q[top], x)
    BY <2>3, Zenon
  <2>5. q[top] \in PendingRemoteWrite /\ x \in Nat
    BY <2>4, SizeAssumption DEF Offsets
  <2>. QED
    BY <1>1, <1>3, <2>4, <2>5, CoversIsDomain
<1>. QED
  BY <1>2, <1>3

\* BatchWrite leaves a region behind, and a batch without an out-of-range
\* request is applied entirely.
LEMMA BatchWriteType ==
  ASSUME NEW region \in Regions, NEW q \in Seq(PendingRemoteWrite)
  PROVE  /\ BatchWrite(region, q) \in Regions
         /\ BatchSucceeds(q) =>
              BatchWrite(region, q) = ApplyWrites(region, q, 1 .. Len(q))
<1>1. AppliedRequests(q) \in SUBSET (1 .. Len(q))
  BY DEF AppliedRequests
<1>2. BatchSucceeds(q) => AppliedRequests(q) = 1 .. Len(q)
  BY DEF AppliedRequests, BatchSucceeds
<1>. QED
  BY <1>1, <1>2, ApplyType DEF BatchWrite

\* Applying one or two requests is accepting them one after the other.
LEMMA ApplyShort ==
  ASSUME NEW region \in Regions,
         NEW v \in PendingRemoteWrite, NEW w \in PendingRemoteWrite
  PROVE  /\ ApplyWrites(region, <<>>, {}) = region
         /\ ApplyWrites(region, <<v>>, {1}) = Accept(region, v)
         /\ ApplyWrites(region, <<v, w>>, {1, 2}) = Accept(Accept(region, v), w)
<1>1. ApplyWrites(region, <<>>, {}) = region
  BY DEF ApplyWrites, Regions
<1>2. ApplyWrites(region, <<v>>, {1}) = Accept(region, v)
  <2>. SUFFICES ASSUME NEW x \in Offsets
                PROVE  ApplyWrites(region, <<v>>, {1})[x] = Accept(region, v)[x]
    BY DEF ApplyWrites, Accept
  <2>. DEFINE covering == {k \in {1} : Covers(<<v>>[k], x)}
  <2>1. ApplyWrites(region, <<v>>, {1})[x] =
          IF covering = {} THEN region[x]
          ELSE <<v>>[CHOOSE k \in covering : \A j \in covering : j <= k].data[x]
    BY DEF ApplyWrites
  <2>2. CASE Covers(v, x)
    <3>1. covering = {1}
      BY <2>2
    <3>2. (CHOOSE k \in covering : \A j \in covering : j <= k) = 1
      BY <3>1
    <3>. QED  BY <2>1, <2>2, <3>1, <3>2 DEF Accept
  <2>3. CASE ~Covers(v, x)
    <3>1. covering = {}
      BY <2>3
    <3>. QED  BY <2>1, <2>3, <3>1 DEF Accept
  <2>. QED  BY <2>2, <2>3
<1>3. ApplyWrites(region, <<v, w>>, {1, 2}) = Accept(Accept(region, v), w)
  <2>. SUFFICES ASSUME NEW x \in Offsets
                PROVE  ApplyWrites(region, <<v, w>>, {1, 2})[x] =
                         Accept(Accept(region, v), w)[x]
    BY DEF ApplyWrites, Accept
  <2>. DEFINE covering == {k \in {1, 2} : Covers(<<v, w>>[k], x)}
              top == CHOOSE k \in covering : \A j \in covering : j <= k
  <2>1. ApplyWrites(region, <<v, w>>, {1, 2})[x] =
          IF covering = {} THEN region[x] ELSE <<v, w>>[top].data[x]
    BY DEF ApplyWrites
  <2>2. CASE Covers(w, x)
    <3>1. 2 \in covering /\ covering \subseteq {1, 2}
      BY <2>2
    <3>2. top = 2
      BY <3>1
    <3>. QED  BY <2>1, <2>2, <3>1, <3>2 DEF Accept
  <2>3. CASE ~Covers(w, x) /\ Covers(v, x)
    <3>1. covering = {1}
      BY <2>3
    <3>2. top = 1
      BY <3>1
    <3>. QED  BY <2>1, <2>3, <3>1, <3>2 DEF Accept
  <2>4. CASE ~Covers(w, x) /\ ~Covers(v, x)
    <3>1. covering = {}
      BY <2>4
    <3>. QED  BY <2>1, <2>4, <3>1 DEF Accept
  <2>. QED  BY <2>2, <2>3, <2>4
<1>. QED
  BY <1>1, <1>2, <1>3

\* With at most one entry queued, merging or appending a write and then
\* applying the queue is applying the queue and then the write.
LEMMA QueueOrder ==
  ASSUME NEW region \in Regions, NEW q \in Seq(PendingRemoteWrite),
         Len(q) <= 1, NEW w \in PendingRemoteWrite
  PROVE  ApplyWrites(region, QueueRemoteWrite(q, w), 1 .. Len(QueueRemoteWrite(q, w))) =
           Accept(ApplyWrites(region, q, 1 .. Len(q)), w)
<1>1. CASE Len(q) = 0
  <2>1. q = <<>> /\ 1 .. Len(q) = {}
    BY <1>1
  <2>2. QueueRemoteWrite(q, w) = <<w>>
    BY <2>1 DEF QueueRemoteWrite, Mergeable
  <2>3. 1 .. Len(<<w>>) = {1}
    OBVIOUS
  <2>4. ApplyWrites(region, <<w>>, {1}) = Accept(region, w)
    BY ApplyShort, Zenon
  <2>5. ApplyWrites(region, <<>>, {}) = region
    BY ApplyShort, Zenon
  <2>6. ApplyWrites(region, q, 1 .. Len(q)) = region
    BY <2>1, <2>5
  <2>. QED
    BY <2>2, <2>3, <2>4, <2>6
<1>2. CASE Len(q) = 1
  <2>. DEFINE v == q[1]
  <2>1. q = <<v>> /\ v \in PendingRemoteWrite /\ 1 .. Len(q) = {1}
    BY <1>2
  <2>2. CASE CanMergeWrites(v, w)
    <3>. DEFINE m == MergeWrites(v, w)
    <3>1. Mergeable(q, w) # {} /\ FirstMergeable(q, w) \in 1 .. 1
      BY <1>2, <2>2, FirstMergeableExists DEF Mergeable
    <3>2. QueueRemoteWrite(q, w) = <<m>>
      BY <2>1, <3>1 DEF QueueRemoteWrite
    <3>3. m \in PendingRemoteWrite
      BY <2>1, MergeIsWrite
    <3>4. Accept(region, m) = Accept(Accept(region, v), w)
      <4>. SUFFICES ASSUME NEW x \in Offsets
                    PROVE  Accept(region, m)[x] = Accept(Accept(region, v), w)[x]
        BY DEF Accept
      <4>1. x \in Nat
        BY SizeAssumption DEF Offsets
      <4>2. Covers(m, x) <=> (Covers(v, x) \/ Covers(w, x))
        BY <2>1, <2>2, <4>1, MergeHasNoGap
      <4>3. Covers(m, x) => m.data[x] = IF Covers(w, x) THEN w.data[x]
                                        ELSE IF Covers(v, x) THEN v.data[x] ELSE 0
        BY <2>1, <4>1, MergeIsWrite
      <4>. HIDE DEF m, v
      <4>. QED
        BY <4>2, <4>3 DEF Accept
    <3>5. 1 .. Len(<<m>>) = {1}
      OBVIOUS
    <3>. HIDE DEF m, v
    <3>6. ApplyWrites(region, <<m>>, {1}) = Accept(region, m)
      BY <3>3, ApplyShort, Zenon
    <3>7. ApplyWrites(region, q, 1 .. Len(q)) = Accept(region, v)
      <4>1. ApplyWrites(region, <<v>>, {1}) = Accept(region, v)
        BY <2>1, ApplyShort, Zenon
      <4>. QED BY <2>1, <4>1, Zenon
    <3>. QED
      BY <3>2, <3>4, <3>5, <3>6, <3>7
  <2>3. CASE ~CanMergeWrites(v, w)
    <3>0. Mergeable(q, w) = {}
      BY <1>2, <2>3 DEF Mergeable
    <3>1. QueueRemoteWrite(q, w) = <<v, w>>
      <4>1. QueueRemoteWrite(q, w) = Append(q, w)
        BY <3>0 DEF QueueRemoteWrite
      <4>. HIDE DEF v
      <4>. QED
        BY <2>1, <4>1
    <3>2. 1 .. Len(<<v, w>>) = {1, 2}
      OBVIOUS
    <3>. HIDE DEF v
    <3>3. ApplyWrites(region, <<v, w>>, {1, 2}) = Accept(Accept(region, v), w)
      BY <2>1, ApplyShort
    <3>4. ApplyWrites(region, q, 1 .. Len(q)) = Accept(region, v)
      <4>1. ApplyWrites(region, <<v>>, {1}) = Accept(region, v)
        BY <2>1, ApplyShort, Zenon
      <4>. QED BY <2>1, <4>1, Zenon
    <3>. QED
      BY <3>1, <3>2, <3>3, <3>4
  <2>. QED
    BY <2>2, <2>3
<1>3. Len(q) \in Nat
  OBVIOUS
<1>4. Len(q) = 0 \/ Len(q) = 1
  <2>. DEFINE n == Len(q)
  <2>1. n \in Nat /\ n <= 1
    BY <1>3
  <2>. HIDE DEF n
  <2>2. n = 0 \/ n = 1
    BY <2>1
  <2>. QED
    BY <2>2 DEF n
<1>. QED
  BY <1>1, <1>2, <1>4

-----------------------------------------------------------------------------
(* Thresholds. *)

\* The threshold lm_write uses is positive and at most the SI threshold.
LEMMA ThresholdBound ==
  ASSUME NEW modes \in SUBSET Modes
  PROVE  MostAggressiveBatchThreshold(modes) \in 1 .. AtLeastOne(SIThreshold)
<1>. DEFINE thresholds == {EffectiveBatchThreshold(m) : m \in modes \cup {"SI"}}
<1>1. \A m \in Modes : EffectiveBatchThreshold(m) \in Nat \ {0}
  BY ConfigAssumption DEF EffectiveBatchThreshold, AtLeastOne, Modes
<1>2. thresholds \in SUBSET (Nat \ {0})
  BY <1>1 DEF Modes
<1>3. AtLeastOne(SIThreshold) \in thresholds
  BY DEF EffectiveBatchThreshold
<1>4. \E t \in thresholds : \A u \in thresholds : t <= u
  <2>. HIDE DEF thresholds
  <2>. QED  BY <1>2, <1>3, LeastNat
<1>5. MostAggressiveBatchThreshold(modes) \in thresholds
      /\ \A u \in thresholds : MostAggressiveBatchThreshold(modes) <= u
  BY <1>4 DEF MostAggressiveBatchThreshold
<1>6. AtLeastOne(SIThreshold) \in Nat
  BY ConfigAssumption DEF AtLeastOne
<1>. HIDE DEF thresholds
<1>7. /\ MostAggressiveBatchThreshold(modes) \in Nat \ {0}
      /\ MostAggressiveBatchThreshold(modes) <= AtLeastOne(SIThreshold)
  BY <1>2, <1>3, <1>5, Zenon
<1>. QED
  BY <1>6, <1>7

-----------------------------------------------------------------------------
(* The steps. *)

\* A write as the application passes it to lm_write.
ApplicationWrite ==
  {w \in PendingRemoteWrite : \A x \in DOMAIN w.data : w.data[x] \in Bytes}

\* Every step is an lm_write of an application write, an lm_fence or a step of
\* the runtime's life cycle.
LEMMA NextSteps ==
  ASSUME Next
  PROVE  \/ \E d \in Remote, w \in ApplicationWrite, modes \in SUBSET Modes :
              lm_write(d, w, modes)
         \/ lm_fence \/ lm_shutdown \/ lm_init
<1>1. SUFFICES ASSUME NEW d \in Remote, NEW r \in WriteRanges,
                      NEW modes \in (SUBSET Modes) \ {{}},
                      NEW data \in [r[1] .. (r[2] - 1) -> Bytes],
                      lm_write(d, [lo |-> r[1], hi |-> r[2], data |-> data], modes)
               PROVE  \E w \in ApplicationWrite : lm_write(d, w, modes)
  BY Zenon DEF Next
<1>. DEFINE w == [lo |-> r[1], hi |-> r[2], data |-> data]
<1>2. r[1] \in 0 .. AddrLimit /\ r[2] \in 0 .. AddrLimit /\ r[1] < r[2]
  BY ConfigAssumption DEF Ranges
<1>3. data \in [r[1] .. (r[2] - 1) -> Bytes \cup {0}]
  OBVIOUS
<1>4. w \in PendingRemoteWrite
  BY <1>2, <1>3, WriteIntro
<1>5. w \in ApplicationWrite
  BY <1>4, Zenon DEF ApplicationWrite
<1>. QED
  BY <1>1, <1>5

\* Accepting a write keeps a region a region.
LEMMA AcceptType ==
  ASSUME NEW region \in Regions, NEW w \in PendingRemoteWrite
  PROVE  Accept(region, w) \in Regions
<1>. SUFFICES ASSUME NEW x \in Offsets
              PROVE  Accept(region, w)[x] \in Bytes \cup {0}
  BY DEF Accept, Regions
<1>1. x \in Nat
  BY SizeAssumption DEF Offsets
<1>. QED
  BY <1>1, CoversIsDomain DEF Accept, Regions

\* Initially everything is typed.
LEMMA InitType == Init => TypeOK
BY ConfigAssumption DEF Init, TypeOK, Regions

\* lm_write preserves the types.
LEMMA WriteType ==
  ASSUME TypeOK, NEW d \in Remote, NEW w \in ApplicationWrite,
         NEW modes \in SUBSET Modes, lm_write(d, w, modes)
  PROVE  TypeOK'
<1>. DEFINE q == QueueRemoteWrite(queue[d], w)
<1>1. /\ w \in PendingRemoteWrite
      /\ queue[d] \in Seq(PendingRemoteWrite)
      /\ memory[d] \in Regions /\ accepted[d] \in Regions
      /\ writes' \in Nat /\ batching' \in BOOLEAN
  BY DEF TypeOK, ApplicationWrite, lm_write
<1>2. /\ q \in Seq(PendingRemoteWrite) /\ Len(q) \in Nat
      /\ Merges(queue[d], w) \in Nat
  <2>1. q \in Seq(PendingRemoteWrite) /\ Merges(queue[d], w) \in {0, 1}
    BY <1>1, QueueType, Zenon
  <2>. HIDE DEF q
  <2>. QED  BY <2>1
<1>3. /\ BatchWrite(memory[d], q) \in Regions
      /\ BatchWrite(memory[d], <<w>>) \in Regions
      /\ Accept(accepted[d], w) \in Regions
  <2>. HIDE DEF q
  <2>1. <<w>> \in Seq(PendingRemoteWrite)
    BY <1>1
  <2>. QED  BY <1>1, <1>2, <2>1, BatchWriteType, AcceptType, Zenon
<1>. HIDE DEF q
<1>4. CASE RejectWrite
  BY <1>1, <1>4 DEF RejectWrite, TypeOK
<1>5. CASE WriteThrough(d, w)
  BY <1>1, <1>3, <1>5 DEF WriteThrough, TypeOK, InRegion
<1>6. CASE QueueWrite(d, w, modes)
  BY <1>1, <1>2, <1>3, <1>6 DEF QueueWrite, TypeOK, q
<1>7. CASE QueueWriteAndFlush(d, w, modes)
  <2>1. BatchSucceeds(q) \in BOOLEAN
    BY DEF BatchSucceeds
  <2>2. stats' \in [Remote -> [queued : Nat, merged : Nat, flushed : Nat]]
    BY <1>2, <1>7 DEF QueueWriteAndFlush, TypeOK, q
  <2>3. queue' \in [Remote -> Seq(PendingRemoteWrite)] /\ failed' \subseteq Remote
    BY <1>7 DEF QueueWriteAndFlush, TypeOK
  <2>4. memory' \in [Remote -> Regions] /\ accepted' \in [Remote -> Regions]
    BY <1>3, <1>7 DEF QueueWriteAndFlush, TypeOK, q
  <2>5. last' \in [op : {"lm_init", "lm_write", "lm_fence", "lm_shutdown"}, ok : BOOLEAN]
    BY <1>7, <2>1 DEF QueueWriteAndFlush, q
  <2>. QED
    BY <1>1, <2>2, <2>3, <2>4, <2>5 DEF TypeOK
<1>. QED
  BY <1>4, <1>5, <1>6, <1>7 DEF lm_write

\* So does the flush loop of lm_fence.
LEMMA FlushType ==
  ASSUME TypeOK, NEW todo \in SUBSET Remote, NEW done \in SUBSET Remote,
         Flush(todo, done)
  PROVE  /\ queue' \in [Remote -> Seq(PendingRemoteWrite)]
         /\ memory' \in [Remote -> Regions]
         /\ stats' \in [Remote -> [queued : Nat, merged : Nat, flushed : Nat]]
         /\ failed' \subseteq Remote
<1>1. \A d \in Remote : /\ queue[d] \in Seq(PendingRemoteWrite)
                        /\ Len(queue[d]) \in Nat
                        /\ memory[d] \in Regions
                        /\ stats[d] \in [queued : Nat, merged : Nat, flushed : Nat]
  BY DEF TypeOK
<1>2. \A d \in Remote : BatchWrite(memory[d], queue[d]) \in Regions
  BY <1>1, BatchWriteType
<1>3. queue' \in [Remote -> Seq(PendingRemoteWrite)]
  BY <1>1 DEF Flush
<1>4. memory' \in [Remote -> Regions]
  BY <1>1, <1>2 DEF Flush
<1>5. stats' \in [Remote -> [queued : Nat, merged : Nat, flushed : Nat]]
  BY <1>1 DEF Flush
<1>6. failed' \subseteq Remote
  BY DEF Flush, TypeOK
<1>. QED
  BY <1>3, <1>4, <1>5, <1>6

\* lm_fence preserves the types.
LEMMA FenceType ==
  ASSUME TypeOK, lm_fence
  PROVE  TypeOK'
<1>1. PendingDestinations \in SUBSET Remote
  BY DEF PendingDestinations
<1>2. CASE RejectFence
  BY <1>2 DEF RejectFence, lm_fence, TypeOK
<1>3. ASSUME NEW ok \in BOOLEAN, FenceAll(ok)
      PROVE  TypeOK'
  BY <1>1, <1>3, FlushType, Zenon DEF FenceAll, lm_fence, TypeOK
<1>4. ASSUME NEW done \in SUBSET PendingDestinations, NEW bad \in PendingDestinations,
             FenceUntilError(done, bad)
      PROVE  TypeOK'
  <2>1. done \cup {bad} \in SUBSET Remote /\ done \in SUBSET Remote
    BY <1>1
  <2>. QED
    BY <1>4, <2>1, FlushType, Zenon DEF FenceUntilError, lm_fence, TypeOK
<1>. QED
  BY <1>2, <1>3, <1>4 DEF lm_fence

\* lm_shutdown and lm_init preserve the types.
LEMMA LifeCycleType ==
  ASSUME TypeOK, lm_shutdown \/ lm_init
  PROVE  TypeOK'
<1>1. CASE lm_shutdown
  BY <1>1 DEF lm_shutdown, PendingDestinations, TypeOK
<1>2. CASE lm_init
  BY <1>2 DEF lm_init, TypeOK, Regions
<1>. QED
  BY <1>1, <1>2

\* Every reachable state of the write path is well typed: queue entries are
\* contiguous payloads and the regions keep their size.
THEOREM TypeCorrect == Spec => []TypeOK
<1>1. TypeOK /\ [Next]_vars => TypeOK'
  <2>. SUFFICES ASSUME TypeOK, [Next]_vars  PROVE TypeOK'
    OBVIOUS
  <2>1. CASE Next
    BY <2>1, NextSteps, WriteType, FenceType, LifeCycleType
  <2>2. CASE UNCHANGED vars
    BY <2>2 DEF vars, TypeOK
  <2>. QED
    BY <2>1, <2>2
<1>. QED
  BY <1>1, InitType, PTL DEF Spec

-----------------------------------------------------------------------------
(* Queue contents, queue length and counters: any threshold. *)

\* After lm_shutdown nothing is queued.
StoppedEmpty == ~Running => \A d \in Remote : queue[d] = <<>>

\* The invariants that speak of one destination at a time.
QueueInv == NoFabricatedByte /\ QueueBelowThreshold /\ StatsBalance /\ StoppedEmpty

\* Initially the queues are empty and the counters 0.
LEMMA InitQueueInv == Init => QueueInv
BY ConfigAssumption
   DEF Init, QueueInv, NoFabricatedByte, QueueBelowThreshold, StatsBalance, AtLeastOne,
       StoppedEmpty, Running

\* A call that ends with another operation than lm_shutdown leaves the runtime up.
LEMMA CallKeepsRunning ==
  ASSUME \/ \E d \in Remote, w \in ApplicationWrite, modes \in SUBSET Modes : lm_write(d, w, modes)
         \/ lm_fence
  PROVE  StoppedEmpty'
<1>1. ASSUME NEW d \in Remote, NEW w \in ApplicationWrite, NEW modes \in SUBSET Modes,
             lm_write(d, w, modes)
      PROVE  last'.op = "lm_write"
  BY <1>1 DEF lm_write, RejectWrite, WriteThrough, QueueWrite, QueueWriteAndFlush
<1>2. ASSUME lm_fence  PROVE last'.op = "lm_fence"
  <2>1. RejectFence => last'.op = "lm_fence"
    BY DEF RejectFence
  <2>2. \A ok \in BOOLEAN : FenceAll(ok) => last'.op = "lm_fence"
    BY DEF FenceAll
  <2>3. \A done \in SUBSET PendingDestinations, bad \in PendingDestinations :
          FenceUntilError(done, bad) => last'.op = "lm_fence"
    BY DEF FenceUntilError
  <2>. QED
    BY <1>2, <2>1, <2>2, <2>3 DEF lm_fence
<1>3. last'.op # "lm_shutdown"
  BY <1>1, <1>2
<1>. QED
  BY <1>3, Zenon DEF StoppedEmpty, Running

\* lm_write preserves them: a merge has no gap, and a queue that reaches the
\* threshold is drained by the same call.
LEMMA WriteQueueInv ==
  ASSUME TypeOK, QueueInv, NEW d \in Remote, NEW w \in ApplicationWrite,
         NEW modes \in SUBSET Modes, lm_write(d, w, modes)
  PROVE  QueueInv'
<1>0. StoppedEmpty'
  BY CallKeepsRunning
<1>. DEFINE q == QueueRemoteWrite(queue[d], w)
            t == MostAggressiveBatchThreshold(modes)
<1>1. w \in PendingRemoteWrite /\ queue[d] \in Seq(PendingRemoteWrite)
  BY DEF TypeOK, ApplicationWrite
<1>2. /\ Len(q) + Merges(queue[d], w) = Len(queue[d]) + 1
      /\ Merges(queue[d], w) \in {0, 1}
      /\ q \in Seq(PendingRemoteWrite)
  BY <1>1, QueueType, Zenon
<1>3. AllApplicationBytes(q)
  <2>1. AllApplicationBytes(queue[d])
    BY DEF QueueInv, NoFabricatedByte, AllApplicationBytes
  <2>. QED
    BY <1>1, <2>1, QueueBytes DEF ApplicationWrite
<1>4. t \in 1 .. AtLeastOne(SIThreshold) /\ AtLeastOne(SIThreshold) \in Nat
  BY ThresholdBound, ConfigAssumption DEF AtLeastOne
<1>. HIDE DEF q, t
<1>5. CASE RejectWrite
  BY <1>0, <1>5, Zenon DEF RejectWrite, QueueInv, NoFabricatedByte, QueueBelowThreshold, StatsBalance
<1>6. CASE WriteThrough(d, w)
  BY <1>0, <1>6 DEF WriteThrough, QueueInv, NoFabricatedByte, QueueBelowThreshold, StatsBalance
<1>7. CASE QueueWrite(d, w, modes)
  <2>1. queue' = [queue EXCEPT ![d] = q] /\ failed' = failed /\ Len(q) < t
    BY <1>2, <1>4, <1>7 DEF QueueWrite, q, t, ShouldFlushDestination, AtLeastOne
  <2>2. NoFabricatedByte'
    BY <1>3, <2>1 DEF QueueInv, NoFabricatedByte, AllApplicationBytes, TypeOK
  <2>3. QueueBelowThreshold'
    BY <1>2, <1>4, <2>1 DEF QueueInv, QueueBelowThreshold, TypeOK
  <2>4. StatsBalance'
    <3>. SUFFICES ASSUME NEW e \in Remote
                  PROVE  /\ stats'[e].merged + stats'[e].flushed + Len(queue'[e]) <= stats'[e].queued
                         /\ e \notin failed' =>
                              stats'[e].merged + stats'[e].flushed + Len(queue'[e]) = stats'[e].queued
      BY DEF StatsBalance
    <3>1. /\ stats[e].merged \in Nat /\ stats[e].flushed \in Nat /\ stats[e].queued \in Nat
          /\ Len(queue[e]) \in Nat
          /\ stats[e].merged + stats[e].flushed + Len(queue[e]) <= stats[e].queued
          /\ e \notin failed =>
               stats[e].merged + stats[e].flushed + Len(queue[e]) = stats[e].queued
      BY DEF TypeOK, QueueInv, StatsBalance
    <3>2. CASE e # d
      BY <1>7, <2>1, <3>1, <3>2 DEF QueueWrite, TypeOK
    <3>3. CASE e = d
      <4>1. /\ stats'[d].queued = stats[d].queued + 1
            /\ stats'[d].merged = stats[d].merged + Merges(queue[d], w)
            /\ stats'[d].flushed = stats[d].flushed
            /\ queue'[d] = q
        BY <1>7, <2>1, Zenon DEF QueueWrite, TypeOK
      <4>2. Len(q) \in Nat /\ Len(queue'[d]) = Len(q)
        BY <1>2, <4>1
      <4>. DEFINE n == Len(queue[d])
                  l == Len(q)
                  k == Merges(queue[d], w)
                  m == stats[d].merged
                  f == stats[d].flushed
                  c == stats[d].queued
      <4>3. /\ n \in Nat /\ l \in Nat /\ k \in Nat /\ m \in Nat /\ f \in Nat /\ c \in Nat
            /\ l + k = n + 1 /\ m + f + n <= c /\ (d \notin failed => m + f + n = c)
        BY <1>2, <3>1, <3>3, <4>2
      <4>4. /\ stats'[d].queued = c + 1 /\ stats'[d].merged = m + k
            /\ stats'[d].flushed = f /\ Len(queue'[d]) = l
        BY <4>1, <4>2, <4>3
      <4>. HIDE DEF n, l, k, m, f, c
      <4>5. failed' = failed
        BY <2>1
      <4>. QED
        BY <3>3, <4>3, <4>4, <4>5
    <3>. QED
      BY <3>2, <3>3
  <2>. QED
    BY <1>0, <2>2, <2>3, <2>4 DEF QueueInv
<1>8. CASE QueueWriteAndFlush(d, w, modes)
  <2>1. /\ queue' = [queue EXCEPT ![d] = <<>>]
        /\ failed' = IF BatchSucceeds(q) THEN failed ELSE failed \cup {d}
    BY <1>8 DEF QueueWriteAndFlush, q
  <2>2. NoFabricatedByte'
    BY <2>1 DEF QueueInv, NoFabricatedByte, TypeOK
  <2>3. QueueBelowThreshold'
    BY <1>4, <2>1 DEF QueueInv, QueueBelowThreshold, TypeOK
  <2>4. StatsBalance'
    <3>. SUFFICES ASSUME NEW e \in Remote
                  PROVE  /\ stats'[e].merged + stats'[e].flushed + Len(queue'[e]) <= stats'[e].queued
                         /\ e \notin failed' =>
                              stats'[e].merged + stats'[e].flushed + Len(queue'[e]) = stats'[e].queued
      BY DEF StatsBalance
    <3>1. /\ stats[e].merged \in Nat /\ stats[e].flushed \in Nat /\ stats[e].queued \in Nat
          /\ Len(queue[e]) \in Nat
          /\ stats[e].merged + stats[e].flushed + Len(queue[e]) <= stats[e].queued
          /\ e \notin failed =>
               stats[e].merged + stats[e].flushed + Len(queue[e]) = stats[e].queued
      BY DEF TypeOK, QueueInv, StatsBalance
    <3>2. CASE e # d
      BY <1>8, <2>1, <3>1, <3>2, Zenon DEF QueueWriteAndFlush, TypeOK
    <3>3. CASE e = d
      <4>1. /\ stats'[d].queued = stats[d].queued + 1
            /\ stats'[d].merged = stats[d].merged + Merges(queue[d], w)
            /\ stats'[d].flushed = stats[d].flushed + (IF BatchSucceeds(q) THEN Len(q) ELSE 0)
            /\ queue'[d] = <<>>
        BY <1>8, <2>1 DEF QueueWriteAndFlush, TypeOK, q
      <4>2. Len(q) \in Nat /\ Len(queue'[d]) = 0
        BY <1>2, <4>1
      <4>. DEFINE n == Len(queue[d])
                  l == Len(q)
                  k == Merges(queue[d], w)
                  m == stats[d].merged
                  f == stats[d].flushed
                  c == stats[d].queued
      <4>3. /\ n \in Nat /\ l \in Nat /\ k \in Nat /\ m \in Nat /\ f \in Nat /\ c \in Nat
            /\ l + k = n + 1 /\ m + f + n <= c /\ (d \notin failed => m + f + n = c)
        BY <1>2, <3>1, <3>3, <4>2
      <4>4. /\ stats'[d].queued = c + 1 /\ stats'[d].merged = m + k
            /\ stats'[d].flushed = (IF BatchSucceeds(q) THEN f + l ELSE f) /\ Len(queue'[d]) = 0
        BY <4>1, <4>2, <4>3
      <4>. HIDE DEF n, l, k, m, f, c
      <4>. QED
        BY <2>1, <3>3, <4>3, <4>4
    <3>. QED
      BY <3>2, <3>3
  <2>. QED
    BY <1>0, <2>2, <2>3, <2>4 DEF QueueInv
<1>. QED
  BY <1>5, <1>6, <1>7, <1>8 DEF lm_write

\* Draining some destinations preserves them.
LEMMA FlushQueueInv ==
  ASSUME TypeOK, QueueInv, NEW todo \in SUBSET Remote, NEW done \in SUBSET todo,
         Flush(todo, done), StoppedEmpty'
  PROVE  QueueInv'
<1>1. \A e \in Remote : queue'[e] = IF e \in todo THEN <<>> ELSE queue[e]
  BY DEF Flush
<1>2. NoFabricatedByte'
  BY <1>1 DEF QueueInv, NoFabricatedByte
<1>3. QueueBelowThreshold'
  BY <1>1, ConfigAssumption DEF QueueInv, QueueBelowThreshold, AtLeastOne
<1>4. StatsBalance'
  <2>. SUFFICES ASSUME NEW e \in Remote
                PROVE  /\ stats'[e].merged + stats'[e].flushed + Len(queue'[e]) <= stats'[e].queued
                       /\ e \notin failed' =>
                            stats'[e].merged + stats'[e].flushed + Len(queue'[e]) = stats'[e].queued
    BY DEF StatsBalance
  <2>. DEFINE n == Len(queue[e])
              m == stats[e].merged
              f == stats[e].flushed
              c == stats[e].queued
  <2>1. /\ n \in Nat /\ m \in Nat /\ f \in Nat /\ c \in Nat
        /\ m + f + n <= c /\ (e \notin failed => m + f + n = c)
    BY DEF TypeOK, QueueInv, StatsBalance
  <2>2. /\ stats'[e].queued = c /\ stats'[e].merged = m
        /\ stats'[e].flushed = f + (IF e \in done THEN n ELSE 0)
        /\ Len(queue'[e]) = IF e \in todo THEN 0 ELSE n
    BY <1>1 DEF Flush
  <2>3. failed' = failed \cup (todo \ done)
    BY DEF Flush
  <2>. HIDE DEF n, m, f, c
  <2>. QED
    BY <2>1, <2>2, <2>3
<1>. QED
  BY <1>2, <1>3, <1>4, Zenon DEF QueueInv

\* lm_fence preserves them.
LEMMA FenceQueueInv ==
  ASSUME TypeOK, QueueInv, lm_fence
  PROVE  QueueInv'
<1>1. PendingDestinations \in SUBSET Remote /\ StoppedEmpty'
  BY CallKeepsRunning, Zenon DEF PendingDestinations
<1>2. CASE RejectFence
  BY <1>1, <1>2 DEF RejectFence, QueueInv, NoFabricatedByte, QueueBelowThreshold, StatsBalance
<1>3. ASSUME NEW ok \in BOOLEAN, FenceAll(ok)
      PROVE  QueueInv'
  BY <1>1, <1>3, FlushQueueInv DEF FenceAll
<1>4. ASSUME NEW done \in SUBSET PendingDestinations, NEW bad \in PendingDestinations,
             FenceUntilError(done, bad)
      PROVE  QueueInv'
  <2>1. done \cup {bad} \in SUBSET Remote /\ done \in SUBSET (done \cup {bad})
    BY <1>1
  <2>2. Flush(done \cup {bad}, done)
    BY <1>4 DEF FenceUntilError
  <2>. QED
    BY <1>1, <2>1, <2>2, FlushQueueInv
<1>. QED
  BY <1>2, <1>3, <1>4 DEF lm_fence

\* So do lm_shutdown, which marks what it drops, and lm_init.
LEMMA LifeCycleQueueInv ==
  ASSUME TypeOK, QueueInv, lm_shutdown \/ lm_init
  PROVE  QueueInv'
<1>1. CASE lm_shutdown
  <2>1. \A d \in Remote : queue'[d] = <<>> /\ Len(queue'[d]) = 0
    BY <1>1 DEF lm_shutdown
  <2>2. NoFabricatedByte' /\ QueueBelowThreshold'
    BY <2>1, ConfigAssumption DEF NoFabricatedByte, QueueBelowThreshold, AtLeastOne
  <2>3. ASSUME NEW d \in Remote
        PROVE  /\ stats'[d].merged + stats'[d].flushed + Len(queue'[d]) <= stats'[d].queued
               /\ d \notin failed' =>
                    stats'[d].merged + stats'[d].flushed + Len(queue'[d]) = stats'[d].queued
    <3>. DEFINE n == Len(queue[d])
                m == stats[d].merged
                f == stats[d].flushed
                c == stats[d].queued
    <3>1. /\ n \in Nat /\ m \in Nat /\ f \in Nat /\ c \in Nat
          /\ m + f + n <= c /\ (d \notin failed => m + f + n = c)
      BY DEF TypeOK, QueueInv, StatsBalance
    <3>2. d \notin failed' => d \notin failed /\ n = 0
      BY <1>1 DEF lm_shutdown, PendingDestinations
    <3>3. /\ stats'[d].queued = c /\ stats'[d].merged = m /\ stats'[d].flushed = f
          /\ Len(queue'[d]) = 0
      BY <1>1, <2>1, Zenon DEF lm_shutdown
    <3>. HIDE DEF n, m, f, c
    <3>. QED
      BY <3>1, <3>2, <3>3
  <2>. QED
    BY <2>1, <2>2, <2>3 DEF QueueInv, StatsBalance, StoppedEmpty
<1>2. CASE lm_init
  <2>1. queue' = queue
    BY <1>2 DEF lm_init
  <2>2. \A d \in Remote : queue[d] = <<>>
    BY <1>2 DEF lm_init, QueueInv, StoppedEmpty
  <2>. QED
    BY <1>2, <2>1, <2>2, ConfigAssumption
       DEF lm_init, QueueInv, NoFabricatedByte, QueueBelowThreshold, StatsBalance, AtLeastOne,
           StoppedEmpty
<1>. QED
  BY <1>1, <1>2, Zenon

\* The strengthened invariant holds throughout.
LEMMA QueueInvariant == Spec => []QueueInv
<1>1. TypeOK /\ QueueInv /\ [Next]_vars => QueueInv'
  <2>. SUFFICES ASSUME TypeOK, QueueInv, [Next]_vars  PROVE QueueInv'
    OBVIOUS
  <2>1. CASE Next
    BY <2>1, NextSteps, WriteQueueInv, FenceQueueInv, LifeCycleQueueInv
  <2>2. CASE UNCHANGED vars
    BY <2>2 DEF vars, QueueInv, NoFabricatedByte, QueueBelowThreshold, StatsBalance,
                StoppedEmpty, Running
  <2>. QED
    BY <2>1, <2>2
<1>. QED
  BY <1>1, InitQueueInv, TypeCorrect, PTL DEF Spec

\* The zero fill of MergeWrites reaches no queued payload, for every threshold
\* and every set of write ranges: CanMergeWrites admits no gap.
THEOREM NoByteFabricated == Spec => []NoFabricatedByte
<1>1. QueueInv => NoFabricatedByte
  BY DEF QueueInv
<1>. QED
  BY <1>1, QueueInvariant, PTL

\* No lm_write leaves a full queue behind, in whatever modes the touched blocks
\* are: MostAggressiveBatchThreshold is never above the SI threshold.
THEOREM QueuesBounded == Spec => []QueueBelowThreshold
<1>1. QueueInv => QueueBelowThreshold
  BY DEF QueueInv
<1>. QED
  BY <1>1, QueueInvariant, PTL

\* The counters of lm_stats balance at every destination: queued writes are
\* merged, flushed, pending, or lost where the destination is marked failed.
THEOREM StatsAlwaysBalance == Spec => []StatsBalance
<1>1. QueueInv => StatsBalance
  BY DEF QueueInv
<1>. QED
  BY <1>1, QueueInvariant, PTL

-----------------------------------------------------------------------------
(* Write batching switched off. *)

\* Without write batching the queues stay empty and the regions hold every
\* accepted write.
ThroughInv ==
  ~batching => memory = accepted /\ \A d \in Remote : queue[d] = <<>>

\* A single write reaches the region when it is in range, and leaves it alone
\* otherwise.
LEMMA WriteOne ==
  ASSUME NEW region \in Regions, NEW w \in PendingRemoteWrite
  PROVE  BatchWrite(region, <<w>>) = IF InRegion(w) THEN Accept(region, w) ELSE region
<1>1. CASE InRegion(w)
  <2>1. AppliedRequests(<<w>>) = {1}
    BY <1>1 DEF AppliedRequests
  <2>2. ApplyWrites(region, <<w>>, {1}) = Accept(region, w)
    BY ApplyShort, Zenon
  <2>. QED
    BY <1>1, <2>1, <2>2 DEF BatchWrite
<1>2. CASE ~InRegion(w)
  <2>1. AppliedRequests(<<w>>) = {}
    BY <1>2 DEF AppliedRequests
  <2>2. ApplyWrites(region, <<w>>, {}) = region
    BY DEF ApplyWrites, Regions
  <2>. QED
    BY <1>2, <2>1, <2>2 DEF BatchWrite
<1>. QED
  BY <1>1, <1>2

\* Initially nothing is queued and the two histories agree.
LEMMA InitThrough == Init => ThroughInv
BY DEF Init, ThroughInv

\* With batching off every call keeps the regions equal to the history.
LEMMA NextThrough ==
  ASSUME TypeOK, ThroughInv, [Next]_vars
  PROVE  ThroughInv'
<1>0. batching' = batching
  BY NextSteps DEF lm_write, lm_fence, lm_shutdown, lm_init, vars
<1>. SUFFICES ASSUME ~batching
              PROVE  memory' = accepted' /\ \A d \in Remote : queue'[d] = <<>>
  BY <1>0 DEF ThroughInv
<1>1. memory = accepted /\ \A d \in Remote : queue[d] = <<>>
  BY DEF ThroughInv
<1>2. ASSUME NEW d \in Remote, NEW w \in ApplicationWrite,
             NEW modes \in SUBSET Modes, lm_write(d, w, modes)
      PROVE  memory' = accepted' /\ queue' = queue
  <2>1. memory[d] \in Regions /\ w \in PendingRemoteWrite
    BY DEF TypeOK, ApplicationWrite
  <2>2. BatchWrite(memory[d], <<w>>) = IF InRegion(w) THEN Accept(memory[d], w) ELSE memory[d]
    BY <2>1, WriteOne
  <2>3. RejectWrite \/ WriteThrough(d, w)
    BY <1>2 DEF lm_write, QueueWrite, QueueWriteAndFlush
  <2>4. CASE RejectWrite
    BY <1>1, <2>4 DEF RejectWrite
  <2>5. CASE WriteThrough(d, w)
    BY <1>1, <2>2, <2>5, Zenon DEF WriteThrough, TypeOK
  <2>. QED
    BY <2>3, <2>4, <2>5
<1>3. CASE lm_fence
  <2>1. PendingDestinations = {}
    BY <1>1 DEF PendingDestinations
  <2>2. RejectFence \/ \E ok \in BOOLEAN : FenceAll(ok)
    BY <1>3, <2>1 DEF lm_fence
  <2>3. memory' = memory /\ queue' = queue
    BY <2>1, <2>2 DEF RejectFence, FenceAll, Flush, TypeOK
  <2>. QED
    BY <1>1, <1>3, <2>3 DEF lm_fence
<1>4. CASE UNCHANGED vars
  BY <1>1, <1>4 DEF vars
<1>5. CASE lm_shutdown \/ lm_init
  BY <1>1, <1>5 DEF lm_shutdown, lm_init
<1>. QED
  BY <1>1, <1>2, <1>3, <1>4, <1>5, NextSteps

\* The strengthened invariant holds throughout.
LEMMA ThroughInvariant == Spec => []ThroughInv
<1>1. TypeOK /\ ThroughInv /\ [Next]_vars => ThroughInv'
  BY NextThrough
<1>. QED
  BY <1>1, InitThrough, TypeCorrect, PTL DEF Spec

\* With enable_write_batching off, an lm_fence that returns kOk covers every
\* write that returned kOk, out-of-range writes and restarts in between or not.
THEOREM WriteThroughReleases == Spec => []WriteThroughReleased
<1>1. ThroughInv => WriteThroughReleased
  BY DEF ThroughInv, WriteThroughReleased, AcceptedWritesReleased
<1>. QED
  BY <1>1, ThroughInvariant, PTL

-----------------------------------------------------------------------------
(* Program order: an SI threshold of at most 2. *)

OrderInv == ProgramOrder /\ FenceReleases

\* An empty queue has nothing to apply.
LEMMA ApplyEmpty ==
  ASSUME NEW region \in Regions
  PROVE  ApplyWrites(region, <<>>, 1 .. Len(<<>>)) = region
<1>1. 1 .. Len(<<>>) = {}
  OBVIOUS
<1>2. ApplyWrites(region, <<>>, {}) = region
  BY DEF ApplyWrites, Regions
<1>. QED
  BY <1>1, <1>2

\* Initially nothing is queued and both histories are the zeroed regions.
LEMMA InitOrder == Init => OrderInv
<1>. SUFFICES ASSUME Init  PROVE OrderInv
  OBVIOUS
<1>1. TypeOK
  BY InitType
<1>2. \A d \in Remote : queue[d] = <<>> /\ memory[d] \in Regions
  BY <1>1 DEF Init, TypeOK
<1>3. memory = accepted /\ last.op = "lm_init"
  BY DEF Init
<1>4. ProgramOrder
  BY <1>2, <1>3, ApplyEmpty DEF ProgramOrder
<1>5. FenceReleases
  BY <1>3 DEF FenceReleases
<1>. QED
  BY <1>4, <1>5 DEF OrderInv

\* lm_write keeps program order: at most one entry is queued when it starts.
LEMMA WriteOrder ==
  ASSUME SIThreshold <= 2, TypeOK, QueueInv, ThroughInv, OrderInv,
         NEW d \in Remote, NEW w \in ApplicationWrite,
         NEW modes \in SUBSET Modes, lm_write(d, w, modes)
  PROVE  OrderInv'
<1>. DEFINE q == QueueRemoteWrite(queue[d], w)
            Flushed(e) == ApplyWrites(memory[e], queue[e], 1 .. Len(queue[e]))
<1>1. /\ w \in PendingRemoteWrite /\ queue[d] \in Seq(PendingRemoteWrite)
      /\ memory[d] \in Regions
  BY DEF TypeOK, ApplicationWrite
<1>2. Len(queue[d]) <= 1
  <2>1. Len(queue[d]) \in Nat /\ Len(queue[d]) < AtLeastOne(SIThreshold)
    BY <1>1 DEF QueueInv, QueueBelowThreshold
  <2>2. AtLeastOne(SIThreshold) \in Nat /\ AtLeastOne(SIThreshold) <= 2
    BY ConfigAssumption DEF AtLeastOne
  <2>. QED
    BY <2>1, <2>2
<1>3. ApplyWrites(memory[d], q, 1 .. Len(q)) = Accept(Flushed(d), w)
  BY <1>1, <1>2, QueueOrder
<1>4. q \in Seq(PendingRemoteWrite)
  BY <1>1, QueueType, Zenon
<1>5. \A e \in Remote \ failed : Flushed(e) = accepted[e]
  BY DEF OrderInv, ProgramOrder
<1>6. FenceReleases'
  <2>1. last'.op = "lm_write"
    BY DEF lm_write, RejectWrite, WriteThrough, QueueWrite, QueueWriteAndFlush
  <2>. QED
    BY <2>1 DEF FenceReleases
<1>7. CASE RejectWrite
  <2>1. ProgramOrder'
    BY <1>7 DEF RejectWrite, OrderInv, ProgramOrder
  <2>. QED
    BY <1>6, <2>1, Zenon DEF OrderInv
<1>8. CASE WriteThrough(d, w)
  <2>1. memory = accepted /\ \A e \in Remote : queue[e] = <<>> /\ queue' = queue
    BY <1>8, Zenon DEF ThroughInv, WriteThrough
  <2>2. BatchWrite(memory[d], <<w>>) = IF InRegion(w) THEN Accept(memory[d], w) ELSE memory[d]
    BY <1>1, WriteOne
  <2>3. memory' = accepted'
    BY <1>8, <2>1, <2>2, Zenon DEF WriteThrough, TypeOK
  <2>4. \A e \in Remote : memory'[e] \in Regions
    BY WriteType, Zenon DEF TypeOK
  <2>5. ProgramOrder'
    BY <2>1, <2>3, <2>4, ApplyEmpty DEF ProgramOrder
  <2>. QED
    BY <1>6, <2>5, Zenon DEF OrderInv
<1>9. CASE QueueWrite(d, w, modes)
  <2>1. /\ queue' = [queue EXCEPT ![d] = q] /\ memory' = memory /\ failed' = failed
        /\ accepted' = [accepted EXCEPT ![d] = Accept(accepted[d], w)]
    BY <1>9 DEF QueueWrite
  <2>2. ASSUME NEW e \in Remote \ failed
        PROVE  ApplyWrites(memory'[e], queue'[e], 1 .. Len(queue'[e])) = accepted'[e]
    <3>. HIDE DEF q
    <3>1. CASE e = d
      <4>1. Accept(Flushed(d), w) = Accept(accepted[d], w)
        BY <1>5, <2>2, <3>1
      <4>2. queue'[e] = q /\ memory'[e] = memory[d] /\ accepted'[e] = Accept(accepted[d], w)
        BY <2>1, <3>1, Zenon DEF TypeOK
      <4>. QED
        BY <1>3, <4>1, <4>2
    <3>2. CASE e # d
      <4>1. queue'[e] = queue[e] /\ memory'[e] = memory[e] /\ accepted'[e] = accepted[e]
        BY <2>1, <2>2, <3>2 DEF TypeOK
      <4>. QED
        BY <1>5, <2>2, <4>1
    <3>. QED
      BY <3>1, <3>2, Zenon
  <2>3. ProgramOrder'
    BY <2>1, <2>2 DEF ProgramOrder
  <2>. QED
    BY <1>6, <2>3 DEF OrderInv
<1>10. CASE QueueWriteAndFlush(d, w, modes)
  <2>1. /\ queue' = [queue EXCEPT ![d] = <<>>]
        /\ memory' = [memory EXCEPT ![d] = BatchWrite(memory[d], q)]
        /\ failed' = IF BatchSucceeds(q) THEN failed ELSE failed \cup {d}
        /\ accepted' = IF BatchSucceeds(q)
                       THEN [accepted EXCEPT ![d] = Accept(accepted[d], w)] ELSE accepted
    BY <1>10, Zenon DEF QueueWriteAndFlush
  <2>. HIDE DEF q
  <2>2. ASSUME NEW e \in Remote \ failed'
        PROVE  ApplyWrites(memory'[e], queue'[e], 1 .. Len(queue'[e])) = accepted'[e]
    <3>0. e \in Remote \ failed
      BY <2>1, <2>2
    <3>1. CASE e = d
      <4>1. BatchSucceeds(q)
        BY <2>1, <2>2, <3>1, Zenon
      <4>2. BatchWrite(memory[d], q) = Accept(accepted[d], w)
        <5>1. BatchWrite(memory[d], q) = ApplyWrites(memory[d], q, 1 .. Len(q))
          BY <1>1, <1>4, <4>1, BatchWriteType
        <5>2. Flushed(d) = accepted[d]
          BY <1>5, <3>0, <3>1
        <5>. QED
          BY <1>3, <5>1, <5>2
      <4>3. /\ queue'[e] = <<>> /\ memory'[e] = BatchWrite(memory[d], q)
            /\ accepted'[e] = Accept(accepted[d], w)
        BY <2>1, <3>1, <4>1 DEF TypeOK
      <4>4. memory'[e] \in Regions
        BY <1>1, <1>4, <4>3, BatchWriteType, Zenon
      <4>. QED
        BY <4>2, <4>3, <4>4, ApplyEmpty, Zenon
    <3>2. CASE e # d
      <4>1. queue'[e] = queue[e] /\ memory'[e] = memory[e] /\ accepted'[e] = accepted[e]
        BY <2>1, <3>0, <3>2 DEF TypeOK
      <4>. QED
        BY <1>5, <3>0, <4>1
    <3>. QED
      BY <3>1, <3>2
  <2>3. ProgramOrder'
    BY <2>2 DEF ProgramOrder
  <2>. QED
    BY <1>6, <2>3 DEF OrderInv
<1>. QED
  BY <1>7, <1>8, <1>9, <1>10 DEF lm_write

\* The flush loop applies whole queues in order, so what it leaves in a
\* destination it did not fail for is what was accepted.
LEMMA FlushOrder ==
  ASSUME TypeOK, ProgramOrder, NEW todo \in SUBSET Remote, NEW done \in SUBSET todo,
         \A d \in done : BatchSucceeds(queue[d]),
         Flush(todo, done), accepted' = accepted
  PROVE  /\ ProgramOrder'
         /\ \A d \in Remote \ failed' : queue'[d] = <<>> => memory'[d] = accepted'[d]
<1>1. failed' = failed \cup (todo \ done)
  BY Zenon DEF Flush
<1>2. ASSUME NEW e \in Remote \ failed'
      PROVE  /\ ApplyWrites(memory'[e], queue'[e], 1 .. Len(queue'[e])) = accepted'[e]
             /\ memory'[e] \in Regions
  <2>1. e \in Remote \ failed /\ (e \in todo => e \in done)
    BY <1>1, <1>2
  <2>2. ApplyWrites(memory[e], queue[e], 1 .. Len(queue[e])) = accepted[e]
    BY <2>1 DEF ProgramOrder
  <2>3. memory[e] \in Regions /\ queue[e] \in Seq(PendingRemoteWrite)
    BY <2>1 DEF TypeOK
  <2>4. CASE e \in todo
    <3>1. queue'[e] = <<>> /\ memory'[e] = BatchWrite(memory[e], queue[e])
      BY <2>1, <2>4, Zenon DEF Flush
    <3>2. memory'[e] = accepted[e] /\ memory'[e] \in Regions
      BY <2>1, <2>2, <2>3, <2>4, <3>1, BatchWriteType, Zenon
    <3>. QED
      BY <3>1, <3>2, ApplyEmpty
  <2>5. CASE e \notin todo
    <3>1. queue'[e] = queue[e] /\ memory'[e] = memory[e]
      BY <2>1, <2>5, Zenon DEF Flush
    <3>. QED
      BY <2>2, <2>3, <3>1, Zenon
  <2>. QED
    BY <2>4, <2>5
<1>3. ProgramOrder'
  BY <1>2 DEF ProgramOrder
<1>4. \A d \in Remote \ failed' : queue'[d] = <<>> => memory'[d] = accepted'[d]
  BY <1>2, ApplyEmpty
<1>. QED
  BY <1>3, <1>4

\* lm_fence keeps program order, and releases every accepted write when it
\* returns kOk.
LEMMA FenceOrder ==
  ASSUME TypeOK, OrderInv, lm_fence
  PROVE  OrderInv'
<1>1. PendingDestinations \in SUBSET Remote /\ accepted' = accepted
  BY Zenon DEF PendingDestinations, lm_fence
<1>2. CASE RejectFence
  BY <1>1, <1>2 DEF RejectFence, OrderInv, ProgramOrder, FenceReleases
<1>3. ASSUME NEW ok \in BOOLEAN, FenceAll(ok)
      PROVE  OrderInv'
  <2>1. /\ ProgramOrder'
        /\ \A d \in Remote \ failed' : queue'[d] = <<>> => memory'[d] = accepted'[d]
    BY <1>1, <1>3, FlushOrder, Zenon DEF FenceAll, OrderInv
  <2>2. \A d \in Remote : queue'[d] = <<>>
    BY <1>3 DEF FenceAll, Flush, PendingDestinations
  <2>. QED
    BY <2>1, <2>2 DEF OrderInv, FenceReleases
<1>4. ASSUME NEW done \in SUBSET PendingDestinations, NEW bad \in PendingDestinations,
             FenceUntilError(done, bad)
      PROVE  OrderInv'
  <2>1. done \cup {bad} \in SUBSET Remote /\ done \in SUBSET (done \cup {bad})
    BY <1>1
  <2>2. Flush(done \cup {bad}, done) /\ \A d \in done : BatchSucceeds(queue[d])
    BY <1>4, Zenon DEF FenceUntilError
  <2>3. ProgramOrder'
    BY <1>1, <2>1, <2>2, FlushOrder DEF OrderInv
  <2>4. FenceReleases'
    BY <1>4 DEF FenceUntilError, FenceReleases
  <2>. QED
    BY <2>3, <2>4 DEF OrderInv
<1>. QED
  BY <1>2, <1>3, <1>4 DEF lm_fence

\* A stopped runtime has nothing to apply.
LEMMA LifeCycleOrder ==
  ASSUME TypeOK, QueueInv, OrderInv, lm_shutdown \/ lm_init
  PROVE  OrderInv'
<1>1. last'.op # "lm_fence"
  BY DEF lm_shutdown, lm_init
<1>2. ASSUME NEW d \in Remote \ failed'
      PROVE  queue'[d] = <<>> /\ memory'[d] \in Regions /\ memory'[d] = accepted'[d]
  <2>1. memory'[d] \in Regions /\ memory[d] \in Regions
    BY LifeCycleType, Zenon DEF TypeOK
  <2>2. CASE lm_shutdown
    <3>1. queue[d] = <<>> /\ d \notin failed
      BY <1>2, <2>2 DEF lm_shutdown, PendingDestinations
    <3>2. memory[d] = accepted[d]
      BY <2>1, <3>1, ApplyEmpty, Zenon DEF OrderInv, ProgramOrder
    <3>. QED
      BY <2>1, <2>2, <3>2 DEF lm_shutdown
  <2>3. CASE lm_init
    <3>1. queue[d] = <<>> /\ queue' = queue
      BY <2>3 DEF lm_init, QueueInv, StoppedEmpty
    <3>2. CASE UNCHANGED <<memory, accepted, failed>>
      BY <1>2, <2>1, <3>1, <3>2, ApplyEmpty, Zenon DEF OrderInv, ProgramOrder
    <3>. QED
      BY <2>1, <2>3, <3>1, <3>2, Zenon DEF lm_init
  <2>. QED
    BY <2>2, <2>3
<1>3. ProgramOrder'
  BY <1>2, ApplyEmpty DEF ProgramOrder
<1>. QED
  BY <1>1, <1>3 DEF OrderInv, FenceReleases

\* The strengthened invariant of program order.
LEMMA OrderInvariant ==
  ASSUME SIThreshold <= 2
  PROVE  Spec => []OrderInv
<1>1. TypeOK /\ QueueInv /\ ThroughInv /\ OrderInv /\ [Next]_vars => OrderInv'
  <2>. SUFFICES ASSUME TypeOK, QueueInv, ThroughInv, OrderInv, [Next]_vars
                PROVE  OrderInv'
    OBVIOUS
  <2>1. CASE Next
    BY <2>1, NextSteps, WriteOrder, FenceOrder, LifeCycleOrder, Zenon
  <2>2. CASE UNCHANGED vars
    BY <2>2 DEF vars, OrderInv, ProgramOrder, FenceReleases
  <2>. QED
    BY <2>1, <2>2
<1>. QED
  BY <1>1, InitOrder, TypeCorrect, QueueInvariant, ThroughInvariant, PTL DEF Spec

\* With an SI threshold of at most 2, merging into the first mergeable entry
\* keeps the program order of the accepted writes at every destination that has
\* lost none of them.
THEOREM ProgramOrderKept ==
  ASSUME SIThreshold <= 2
  PROVE  Spec => []ProgramOrder
<1>1. OrderInv => ProgramOrder
  BY DEF OrderInv
<1>. QED
  BY <1>1, OrderInvariant, PTL

\* Under the same thresholds an lm_fence that returns kOk leaves nothing queued
\* and every accepted write applied at the destinations that lost none.
THEOREM FencesRelease ==
  ASSUME SIThreshold <= 2
  PROVE  Spec => []FenceReleases
<1>1. OrderInv => FenceReleases
  BY DEF OrderInv
<1>. QED
  BY <1>1, OrderInvariant, PTL

-----------------------------------------------------------------------------
(* The write path implements StoreBuffer: an SI threshold of at most 2. *)

\* The regions of the two modules are the same functions.
LEMMA SameContents == Abstract!Contents = [Remote -> Regions]
BY DEF Abstract!Contents, Regions

\* An accepted write stores application bytes only.
LEMMA AcceptStores ==
  ASSUME NEW region \in Regions, NEW w \in ApplicationWrite, NEW x \in Offsets
  PROVE  Accept(region, w)[x] = region[x] \/ Accept(region, w)[x] \in Bytes
<1>1. x \in Nat /\ w \in PendingRemoteWrite
  BY SizeAssumption DEF Offsets, ApplicationWrite
<1>2. Covers(w, x) => w.data[x] \in Bytes
  BY <1>1, CoversIsDomain DEF ApplicationWrite
<1>. QED
  BY <1>2 DEF Accept

\* Where nothing is queued and nothing was lost, the region has caught up.
LEMMA CaughtUp ==
  ASSUME TypeOK, ProgramOrder, NEW d \in Remote \ failed, queue[d] = <<>>
  PROVE  memory[d] = accepted[d]
<1>1. memory[d] \in Regions
  BY DEF TypeOK
<1>. QED
  BY <1>1, ApplyEmpty DEF ProgramOrder

\* The initial states agree.
LEMMA InitImplements == Init => Abstract!Init
BY Zenon DEF Init, Abstract!Init, Abstract!Blank

\* lm_write is a Write of its destination.
LEMMA WriteImplements ==
  ASSUME TypeOK, TypeOK', ThroughInv', OrderInv', NEW d \in Remote, NEW w \in ApplicationWrite,
         NEW modes \in SUBSET Modes, lm_write(d, w, modes)
  PROVE  Abstract!Write(d)
<1>. DEFINE q == QueueRemoteWrite(queue[d], w)
<1>1. memory' \in Abstract!Contents /\ accepted' \in Abstract!Contents
  BY SameContents, Zenon DEF TypeOK
<1>2. accepted' = accepted \/ accepted' = [accepted EXCEPT ![d] = Accept(accepted[d], w)]
  BY Zenon DEF lm_write, RejectWrite, WriteThrough, QueueWrite, QueueWriteAndFlush
<1>3. \E m : memory' = memory \/ memory' = [memory EXCEPT ![d] = m]
  BY DEF lm_write, RejectWrite, WriteThrough, QueueWrite, QueueWriteAndFlush
<1>4. \A e \in Remote \ {d} : memory'[e] = memory[e] /\ accepted'[e] = accepted[e]
  BY <1>2, <1>3, Zenon DEF TypeOK
<1>5. \A x \in Offsets : accepted'[d][x] = accepted[d][x] \/ accepted'[d][x] \in Bytes
  <2>1. accepted[d] \in Regions
    BY DEF TypeOK
  <2>2. accepted'[d] = accepted[d] \/ accepted'[d] = Accept(accepted[d], w)
    BY <1>2, Zenon DEF TypeOK
  <2>. QED
    BY <2>1, <2>2, AcceptStores, Zenon
<1>6. failed' = failed \/ failed' = failed \cup {d}
  BY Zenon DEF lm_write, RejectWrite, WriteThrough, QueueWrite, QueueWriteAndFlush
<1>7. d \notin failed' => memory'[d] = memory[d] \/ memory'[d] = accepted'[d]
  <2>1. CASE RejectWrite \/ QueueWrite(d, w, modes)
    BY <2>1 DEF RejectWrite, QueueWrite
  <2>2. CASE WriteThrough(d, w)
    BY <2>2, Zenon DEF ThroughInv, WriteThrough, lm_write
  <2>3. CASE QueueWriteAndFlush(d, w, modes)
    <3>1. queue'[d] = <<>>
      BY <2>3, Zenon DEF QueueWriteAndFlush, TypeOK
    <3>2. memory'[d] \in Regions
      BY Zenon DEF TypeOK
    <3>. QED
      BY <3>1, <3>2, ApplyEmpty, Zenon DEF OrderInv, ProgramOrder
  <2>. QED
    BY <2>1, <2>2, <2>3 DEF lm_write
<1>8. \/ last' = [op |-> "lm_write", ok |-> TRUE] /\ failed' = failed
      \/ last' = [op |-> "lm_write", ok |-> FALSE] /\ accepted' = accepted
  <2>1. CASE RejectWrite \/ QueueWrite(d, w, modes)
    BY <2>1 DEF RejectWrite, QueueWrite
  <2>2. CASE WriteThrough(d, w)
    <3>1. InRegion(w) \in BOOLEAN
      BY DEF InRegion
    <3>. QED
      BY <2>2, <3>1, Zenon DEF WriteThrough
  <2>3. CASE QueueWriteAndFlush(d, w, modes)
    <3>1. BatchSucceeds(q) \in BOOLEAN
      BY Zenon DEF BatchSucceeds
    <3>2. /\ last' = [op |-> "lm_write", ok |-> BatchSucceeds(q)]
          /\ failed' = IF BatchSucceeds(q) THEN failed ELSE failed \cup {d}
          /\ ~BatchSucceeds(q) => accepted' = accepted
      BY <2>3 DEF QueueWriteAndFlush
    <3>. HIDE DEF q
    <3>. QED
      BY <3>1, <3>2, Zenon
  <2>. QED
    BY <2>1, <2>2, <2>3, Zenon DEF lm_write
<1>. QED
  BY <1>1, <1>4, <1>5, <1>6, <1>7, <1>8 DEF Abstract!Write, Abstract!KeepsOrCatchesUp

\* lm_fence is a Fence.
LEMMA FenceImplements ==
  ASSUME TypeOK, TypeOK', OrderInv, OrderInv', lm_fence
  PROVE  Abstract!Fence
<1>1. memory' \in Abstract!Contents /\ accepted' = accepted /\ failed' \subseteq Remote
  BY SameContents, Zenon DEF TypeOK, lm_fence
<1>2. \A d \in Remote \ failed' : queue'[d] = <<>> => memory'[d] = accepted[d]
  <2>1. \A d \in Remote : memory'[d] \in Regions
    BY DEF TypeOK
  <2>. QED
    BY <1>1, <2>1, ApplyEmpty DEF OrderInv, ProgramOrder
<1>3. CASE RejectFence
  BY <1>1, <1>3 DEF RejectFence, Abstract!Fence, Abstract!KeepsOrCatchesUp
<1>4. ASSUME NEW ok \in BOOLEAN, FenceAll(ok)
      PROVE  Abstract!Fence
  <2>1. failed' = failed
    BY <1>4, Zenon DEF FenceAll, Flush
  <2>2. \A d \in Remote : queue'[d] = <<>>
    BY <1>4, Zenon DEF FenceAll, Flush, PendingDestinations
  <2>3. \A d \in Remote \ failed : memory'[d] = accepted[d]
    BY <1>2, <2>1, <2>2
  <2>4. last' = [op |-> "lm_fence", ok |-> ok]
    BY <1>4 DEF FenceAll
  <2>. QED
    BY <1>1, <2>1, <2>3, <2>4, Zenon DEF Abstract!Fence, Abstract!KeepsOrCatchesUp
<1>5. ASSUME NEW done \in SUBSET PendingDestinations, NEW bad \in PendingDestinations,
             FenceUntilError(done, bad)
      PROVE  Abstract!Fence
  <2>1. failed \subseteq failed'
    BY <1>5, Zenon DEF FenceUntilError, Flush
  <2>2. \A d \in Remote : queue'[d] = <<>> \/ memory'[d] = memory[d]
    BY <1>5, Zenon DEF FenceUntilError, Flush
  <2>3. last' = [op |-> "lm_fence", ok |-> FALSE]
    BY <1>5 DEF FenceUntilError
  <2>4. \A d \in Remote \ failed' : memory'[d] = memory[d] \/ memory'[d] = accepted[d]
    BY <1>2, <2>2, Zenon
  <2>. QED
    BY <1>1, <2>1, <2>3, <2>4 DEF Abstract!Fence, Abstract!KeepsOrCatchesUp
<1>. QED
  BY <1>3, <1>4, <1>5 DEF lm_fence

\* lm_shutdown is a Shutdown: what it drops belongs to a failed destination.
LEMMA ShutdownImplements ==
  ASSUME TypeOK, TypeOK', OrderInv, lm_shutdown
  PROVE  Abstract!Shutdown
<1>1. \A d \in Remote \ failed' : d \notin failed /\ queue[d] = <<>>
  BY DEF lm_shutdown, PendingDestinations
<1>2. \A d \in Remote \ failed' : memory[d] = accepted[d]
  BY <1>1, CaughtUp DEF OrderInv
<1>3. failed' \subseteq Remote /\ failed \subseteq failed'
  BY DEF TypeOK, lm_shutdown
<1>. QED
  BY <1>2, <1>3 DEF lm_shutdown, Abstract!Shutdown

\* lm_init is a Restart.
LEMMA InitCallImplements == lm_init => Abstract!Restart
BY Zenon DEF lm_init, Running, Abstract!Restart, Abstract!Blank

\* Queueing, merging by range, thresholds and the early returns of the flush
\* loop are invisible to a destination: with an SI threshold of at most 2 the
\* write path of lm_write, lm_fence, lm_shutdown and lm_init behaves like a
\* store buffer that publishes whole prefixes of the accepted writes.
THEOREM WriteBatchingImplementsStoreBuffer ==
  ASSUME SIThreshold <= 2
  PROVE  Spec => ImplementsStoreBuffer
<1>1. TypeOK /\ TypeOK' /\ ThroughInv' /\ OrderInv /\ OrderInv' /\ [Next]_vars
        => [Abstract!Next]_(Abstract!vars)
  <2>. SUFFICES ASSUME TypeOK, TypeOK', ThroughInv', OrderInv, OrderInv', [Next]_vars
                PROVE  [Abstract!Next]_(Abstract!vars)
    OBVIOUS
  <2>1. ASSUME NEW d \in Remote, NEW w \in ApplicationWrite, NEW modes \in SUBSET Modes,
               lm_write(d, w, modes)
        PROVE  Abstract!Next
    BY <2>1, WriteImplements DEF Abstract!Next
  <2>2. CASE lm_fence
    BY <2>2, FenceImplements DEF Abstract!Next
  <2>3. CASE lm_shutdown \/ lm_init
    BY <2>3, ShutdownImplements, InitCallImplements DEF Abstract!Next
  <2>4. CASE UNCHANGED vars
    BY <2>4 DEF vars, Abstract!vars
  <2>. QED
    BY <2>1, <2>2, <2>3, <2>4, NextSteps
<1>. QED
  BY <1>1, InitImplements, TypeCorrect, ThroughInvariant, OrderInvariant, PTL
     DEF Spec, ImplementsStoreBuffer, Abstract!Spec
=============================================================================
