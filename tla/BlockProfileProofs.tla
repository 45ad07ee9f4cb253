------------------------- MODULE BlockProfileProofs -------------------------
(***************************************************************************)
(* Proofs about the block profile: its counters, kept up by increments and *)
(* resets, are what a scan of all accesses finds.                          *)
(***************************************************************************)
EXTENDS BlockProfile, FiniteSetTheorems, WellFoundedInduction, TLAPS

\* The arithmetic and set solver has half a minute for each leaf.
USE SMTT(30)

\* The last element of S before i, 0 if there is none.
LastBefore(S, i) == CHOOSE p \in {0} \cup S : p < i /\ \A j \in S : j < i => j <= p

\* The elements of S in the window of its last one.
LastWindow(S) == {i \in S : \A j \in S : WindowOf(j) <= WindowOf(i)}

\* What the profile of b records of the accesses in the log.
BlockInv(b) ==
  /\ At(b) = {} => meta[b].last = 0 /\ meta[b].window = 0 /\ meta[b].reuse = 0
  /\ At(b) # {} => /\ meta[b].last \in At(b) /\ \A j \in At(b) : j <= meta[b].last
                   /\ meta[b].lastType = log[meta[b].last].type
                   /\ meta[b].window = WindowOf(meta[b].last)
                   /\ meta[b].reuse = IF Before(b, meta[b].last) = 0 THEN 0
                                      ELSE meta[b].last - Before(b, meta[b].last)
  /\ meta[b].reads = Cardinality(OfType(At(b), "Read"))
  /\ meta[b].writes = Cardinality(OfType(At(b), "Write"))
  /\ meta[b].sharers = Cardinality(Remote(b, "Read"))
  /\ meta[b].invalidations = Cardinality(Remote(b, "Write"))
  /\ meta[b].windowReads = Cardinality(OfType(InWindow(b), "Read"))
  /\ meta[b].windowWrites = Cardinality(OfType(InWindow(b), "Write"))
  /\ meta[b].phaseChanges = Cardinality(Changes(b))

\* The inductive invariant.
ProfileInv ==
  /\ TypeOK
  /\ epoch = Len(log)
  /\ \A b \in Blocks : BlockInv(b)

-----------------------------------------------------------------------------
(* Numbers and finite sets. *)

\* A non-empty set of naturals has a least element.
LEMMA LeastNat ==
  ASSUME NEW S \in SUBSET Nat, S # {}
  PROVE  \E m \in S : \A n \in S : m <= n
<1>1. IsWellFoundedOn(OpToRel(<, Nat), Nat)
  BY NatLessThanWellFounded, Zenon
<1>2. PICK m \in S : \A n \in S : ~(<<n, m>> \in OpToRel(<, Nat))
  BY <1>1, WFMin, Zenon
<1>3. \A n \in S : ~(n < m)
  BY <1>2, Zenon DEF OpToRel
<1>. QED
  BY <1>3

\* A non-empty set of naturals below a bound has a greatest element.
LEMMA GreatestNat ==
  ASSUME NEW b \in Nat, NEW S \in SUBSET (0 .. b), S # {}
  PROVE  \E m \in S : \A n \in S : n <= m
<1>. DEFINE T == {b - k : k \in S}
<1>1. T \in SUBSET Nat
  OBVIOUS
<1>0. T # {}
  <2>1. PICK k \in S : TRUE
    BY Zenon
  <2>2. b - k \in T
    OBVIOUS
  <2>. QED BY <2>2
<1>2. PICK t \in T : \A u \in T : t <= u
  BY <1>0, <1>1, LeastNat, Zenon
<1>3. PICK m \in S : t = b - m
  OBVIOUS
<1>4. \A n \in S : b - m <= b - n
  BY <1>2, <1>3
<1>. QED
  BY <1>4

\* A set of numbers up to n is finite and has at most n elements.
LEMMA CountUpTo ==
  ASSUME NEW n \in Nat, NEW S \in SUBSET (1 .. n)
  PROVE  IsFiniteSet(S) /\ Cardinality(S) \in Nat /\ Cardinality(S) <= n
<1>1. IsFiniteSet(1 .. n) /\ Cardinality(1 .. n) = n
  BY FS_Interval
<1>. QED
  BY <1>1, FS_Subset, FS_CardinalityType, Zenon

\* The k numbers after a.
LEMMA CountInterval ==
  ASSUME NEW a \in Nat, NEW k \in Nat
  PROVE  IsFiniteSet((a + 1) .. (a + k)) /\ Cardinality((a + 1) .. (a + k)) = k
<1>1. PICK x \in Int : x = a + 1
  OBVIOUS
<1>2. PICK y \in Int : y = a + k
  OBVIOUS
<1>3. IsFiniteSet(x .. y) /\ Cardinality(x .. y) = IF x > y THEN 0 ELSE y - x + 1
  BY FS_Interval
<1>4. (IF x > y THEN 0 ELSE y - x + 1) = k
  BY <1>1, <1>2
<1>. QED BY <1>1, <1>2, <1>3, <1>4

\* One more element counts for one.
LEMMA CountOneMore ==
  ASSUME NEW S, IsFiniteSet(S), NEW x, x \notin S
  PROVE  /\ IsFiniteSet(S \cup {x}) /\ Cardinality(S) \in Nat
         /\ Cardinality(S \cup {x}) = Cardinality(S) + 1
BY FS_AddElement, FS_CardinalityType

\* The elements of disjoint sets are counted separately.
LEMMA CountApart ==
  ASSUME NEW S, IsFiniteSet(S), NEW T, IsFiniteSet(T), S \cap T = {}
  PROVE  /\ IsFiniteSet(S \cup T) /\ Cardinality(S) \in Nat /\ Cardinality(T) \in Nat
         /\ Cardinality(S \cup T) = Cardinality(S) + Cardinality(T)
<1>1. Cardinality(S \cap T) = 0
  BY FS_EmptySet
<1>2. Cardinality(S) \in Nat /\ Cardinality(T) \in Nat
  BY FS_CardinalityType
<1>3. /\ IsFiniteSet(S \cup T)
      /\ Cardinality(S \cup T) = Cardinality(S) + Cardinality(T) - Cardinality(S \cap T)
  BY FS_Union
<1>. QED
  BY <1>1, <1>2, <1>3

-----------------------------------------------------------------------------
(* Windows. *)

\* The window size is positive.
LEMMA WindowSizePositive == SafeWindowSize \in Nat \ {0}
BY ProfileAssumption DEF SafeWindowSize

\* Division by a positive number does not reverse an order.
LEMMA DivMonotone ==
  ASSUME NEW d \in Nat \ {0}, NEW x \in Nat, NEW y \in Nat, x <= y
  PROVE  x \div d \in Nat /\ y \div d \in Nat /\ x \div d <= y \div d
<1>1. /\ x \div d \in Int /\ y \div d \in Int /\ x % d \in 0 .. (d - 1) /\ y % d \in 0 .. (d - 1)
      /\ x = d * (x \div d) + (x % d) /\ y = d * (y \div d) + (y % d)
  OBVIOUS
<1>. QED
  BY <1>1

\* The numbers with quotient w are the d numbers from d * w on.
LEMMA DivInterval ==
  ASSUME NEW d \in Nat \ {0}, NEW x \in Nat
  PROVE  d * (x \div d) \in Nat /\ x \in (d * (x \div d)) .. (d * (x \div d) + d - 1)
<1>1. /\ x \div d \in Int /\ x % d \in 0 .. (d - 1)
      /\ x = d * (x \div d) + (x % d)
  OBVIOUS
<1>2. x \div d \in Nat
  BY <1>1
<1>. QED
  BY <1>1, <1>2

\* Positions are in windows in their order.
LEMMA WindowsInOrder ==
  ASSUME NEW i \in Nat \ {0}, NEW j \in Nat \ {0}, i <= j
  PROVE  WindowOf(i) \in Nat /\ WindowOf(j) \in Nat /\ WindowOf(i) <= WindowOf(j)
<1>1. i - 1 \in Nat /\ j - 1 \in Nat /\ i - 1 <= j - 1
  OBVIOUS
<1>. QED
  BY <1>1, DivMonotone, WindowSizePositive DEF WindowOf

\* The positions of one window are at most SafeWindowSize many.
LEMMA WindowBounded ==
  ASSUME NEW S \in SUBSET (Nat \ {0}), NEW w, \A i \in S : WindowOf(i) = w
  PROVE  IsFiniteSet(S) /\ Cardinality(S) \in Nat /\ Cardinality(S) <= SafeWindowSize
<1>0. PICK d \in Nat \ {0} : d = SafeWindowSize
  BY WindowSizePositive
<1>1. CASE S = {}
  BY <1>0, <1>1, FS_EmptySet
<1>2. CASE S # {}
  <2>1. PICK k \in S : TRUE
    BY <1>2, Zenon
  <2>2. PICK a \in Nat : a = d * w
    <3>1. k - 1 \in Nat /\ w = (k - 1) \div d
      BY <1>0, <2>1 DEF WindowOf
    <3>. QED BY <3>1, DivInterval, Zenon
  <2>3. ASSUME NEW i \in S PROVE i \in (a + 1) .. (a + d)
    <3>1. i - 1 \in Nat /\ w = (i - 1) \div d
      BY <1>0 DEF WindowOf
    <3>2. i - 1 \in a .. (a + d - 1)
      BY <2>2, <3>1, DivInterval, Zenon
    <3>. QED BY <3>1, <3>2
  <2>4. S \in SUBSET ((a + 1) .. (a + d))
    BY <2>3
  <2>5. IsFiniteSet((a + 1) .. (a + d)) /\ Cardinality((a + 1) .. (a + d)) = d
    BY CountInterval
  <2>6. IsFiniteSet(S) /\ Cardinality(S) <= d
    <3>1. PICK T : T = (a + 1) .. (a + d)
      BY Zenon
    <3>2. IsFiniteSet(T) /\ S \in SUBSET T /\ Cardinality(T) = d
      BY <2>4, <2>5, <3>1, Zenon
    <3>3. IsFiniteSet(S) /\ Cardinality(S) <= Cardinality(T)
      BY ONLY <3>2, FS_Subset, Zenon
    <3>. QED BY <3>2, <3>3, Zenon
  <2>. QED BY <1>0, <2>6, FS_CardinalityType, Zenon
<1>. QED BY <1>1, <1>2

\* The last window is the window of the last element.
LEMMA LastWindowOfMax ==
  ASSUME NEW n \in Nat, NEW S \in SUBSET (1 .. n), NEW k \in S, \A j \in S : j <= k
  PROVE  LastWindow(S) = {i \in S : WindowOf(i) = WindowOf(k)}
<1>1. \A i \in S : i \in Nat \ {0} /\ i <= k
  OBVIOUS
<1>2. \A i \in S : WindowOf(i) \in Nat /\ WindowOf(i) <= WindowOf(k)
  BY <1>1, WindowsInOrder
<1>3. \A i \in S : (\A j \in S : WindowOf(j) <= WindowOf(i)) <=> WindowOf(i) = WindowOf(k)
  BY <1>2
<1>. QED
  BY <1>3, Zenon DEF LastWindow

\* One more access: the last window goes on, or a new one begins.
LEMMA LastWindowGrows ==
  ASSUME NEW n \in Nat, NEW S \in SUBSET (1 .. n), NEW e, e = n + 1
  PROVE  /\ S = {} => LastWindow(S) = {} /\ LastWindow(S \cup {e}) = {e}
         /\ \A k \in S : (\A j \in S : j <= k) =>
              LastWindow(S \cup {e}) = (IF WindowOf(k) = WindowOf(e) THEN LastWindow(S) ELSE {}) \cup {e}
<1>1. S \cup {e} \in SUBSET (1 .. e) /\ e \in Nat /\ \A j \in S \cup {e} : j <= e
  OBVIOUS
<1>2. LastWindow(S \cup {e}) = {i \in S \cup {e} : WindowOf(i) = WindowOf(e)}
  BY <1>1, LastWindowOfMax
<1>3. ASSUME NEW k \in S, \A j \in S : j <= k
      PROVE  LastWindow(S \cup {e}) = (IF WindowOf(k) = WindowOf(e) THEN LastWindow(S) ELSE {}) \cup {e}
  <2>1. LastWindow(S) = {i \in S : WindowOf(i) = WindowOf(k)}
    BY <1>3, LastWindowOfMax
  <2>2. ASSUME NEW i \in S, WindowOf(i) = WindowOf(e) PROVE WindowOf(k) = WindowOf(e)
    <3>1. WindowOf(i) <= WindowOf(k) /\ WindowOf(k) <= WindowOf(e) /\ WindowOf(k) \in Nat /\ WindowOf(e) \in Nat
      BY <1>1, <1>3, WindowsInOrder
    <3>. QED BY <2>2, <3>1
  <2>. QED BY <1>2, <2>1, <2>2, Zenon
<1>. QED
  BY <1>2, <1>3, Zenon DEF LastWindow

-----------------------------------------------------------------------------
(* The access before. *)

\* There is exactly one.
LEMMA LastBeforeIs ==
  ASSUME NEW n \in Nat, NEW S \in SUBSET (1 .. n), NEW i \in Nat \ {0}
  PROVE  /\ LastBefore(S, i) \in {0} \cup S /\ LastBefore(S, i) < i
         /\ \A j \in S : j < i => j <= LastBefore(S, i)
         /\ \A p \in {0} \cup S : p < i /\ (\A j \in S : j < i => j <= p) => LastBefore(S, i) = p
<1>. DEFINE T == {0} \cup {j \in S : j < i}
<1>0. 0 \in T /\ \A x \in T : x \in 0 .. n
  OBVIOUS
<1>1. T \in SUBSET (0 .. n) /\ T # {}
  <2>. HIDE DEF T
  <2>. QED BY <1>0
<1>2. PICK p \in T : \A j \in T : j <= p
  BY <1>1, GreatestNat, Zenon
<1>3. p \in {0} \cup S /\ p < i /\ \A j \in S : j < i => j <= p
  BY <1>2
<1>4. /\ LastBefore(S, i) \in {0} \cup S /\ LastBefore(S, i) < i
      /\ \A j \in S : j < i => j <= LastBefore(S, i)
  BY <1>3, Zenon DEF LastBefore
<1>5. ASSUME NEW q \in {0} \cup S, q < i, \A j \in S : j < i => j <= q
      PROVE  LastBefore(S, i) = q
  <2>1. PICK x : x = LastBefore(S, i)
    OBVIOUS
  <2>2. x \in {0} \cup S /\ x < i /\ \A j \in S : j < i => j <= x
    BY <1>4, <2>1
  <2>3. x = q
    BY <1>5, <2>2
  <2>. QED BY <2>1, <2>3
<1>. QED
  BY <1>4, <1>5

\* A later access does not change it.
LEMMA LastBeforeKept ==
  ASSUME NEW n \in Nat, NEW S \in SUBSET (1 .. n), NEW e, e = n + 1, NEW i \in 1 .. n
  PROVE  LastBefore(S \cup {e}, i) = LastBefore(S, i)
<1>1. S \cup {e} \in SUBSET (1 .. e) /\ e \in Nat \ {0} /\ i \in Nat \ {0}
  OBVIOUS
<1>2. PICK p : p = LastBefore(S, i)
  OBVIOUS
<1>3. p \in {0} \cup S /\ p < i /\ \A j \in S : j < i => j <= p
  BY <1>1, <1>2, LastBeforeIs, Zenon
<1>4. p \in {0} \cup (S \cup {e}) /\ p < i /\ \A j \in S \cup {e} : j < i => j <= p
  BY <1>3
<1>5. LastBefore(S \cup {e}, i) = p
  BY <1>1, <1>4, LastBeforeIs, Zenon
<1>. QED BY <1>2, <1>5

\* Before the next position comes the last one.
LEMMA LastBeforeNext ==
  ASSUME NEW n \in Nat, NEW S \in SUBSET (1 .. n), NEW e, e = n + 1
  PROVE  /\ S = {} => LastBefore(S \cup {e}, e) = 0
         /\ \A k \in S : (\A j \in S : j <= k) => LastBefore(S \cup {e}, e) = k
<1>1. S \cup {e} \in SUBSET (1 .. e) /\ e \in Nat \ {0}
  OBVIOUS
<1>3. ASSUME S = {} PROVE LastBefore(S \cup {e}, e) = 0
  <2>1. 0 \in {0} \cup (S \cup {e}) /\ 0 < e /\ \A j \in S \cup {e} : j < e => j <= 0
    BY <1>3
  <2>. QED BY <1>1, <2>1, LastBeforeIs, Zenon
<1>4. ASSUME NEW k \in S, \A j \in S : j <= k PROVE LastBefore(S \cup {e}, e) = k
  <2>1. k \in {0} \cup (S \cup {e}) /\ k < e /\ \A j \in S \cup {e} : j < e => j <= k
    BY <1>4
  <2>. QED BY <1>1, <2>1, LastBeforeIs, Zenon
<1>. QED
  BY <1>3, <1>4

-----------------------------------------------------------------------------
(* The log. *)

\* Positions are counted from 1 to the length of the log.
LEMMA Positions ==
  ASSUME log \in Seq(Access), NEW b \in Blocks
  PROVE  /\ Len(log) \in Nat
         /\ At(b) \in SUBSET (1 .. Len(log))
         /\ InWindow(b) = LastWindow(At(b))
         /\ InWindow(b) \in SUBSET At(b)
         /\ \A i : Before(b, i) = LastBefore(At(b), i)
         /\ \A i \in 1 .. Len(log) : log[i] \in Access
BY DEF At, InWindow, LastWindow, WindowOf, Before, LastBefore

\* An access is appended to the log.
LEMMA LogGrows ==
  ASSUME log \in Seq(Access), NEW x \in Access, log' = Append(log, x)
  PROVE  LET e == Len(log) + 1
         IN /\ log' \in Seq(Access) /\ Len(log') = e /\ log'[e] = x
            /\ \A i \in 1 .. Len(log) : log'[i] = log[i]
            /\ \A b \in Blocks : At(b)' = IF b = x.block THEN At(b) \cup {e} ELSE At(b)
<1>. DEFINE e == Len(log) + 1
<1>1. /\ log' \in Seq(Access) /\ Len(log') = e /\ log'[e] = x /\ Len(log) \in Nat
      /\ \A i \in 1 .. Len(log) : log'[i] = log[i]
  OBVIOUS
<1>2. 1 .. e = (1 .. Len(log)) \cup {e} /\ e \notin 1 .. Len(log)
  BY <1>1
<1>3. \A b \in Blocks : At(b)' = {i \in 1 .. e : log'[i].block = b}
  BY <1>1 DEF At
<1>. HIDE DEF e
<1>4. ASSUME NEW b \in Blocks PROVE At(b)' = IF b = x.block THEN At(b) \cup {e} ELSE At(b)
  <2>1. At(b)' = {i \in 1 .. Len(log) : log'[i].block = b} \cup {i \in {e} : log'[i].block = b}
    BY <1>2, <1>3
  <2>2. {i \in 1 .. Len(log) : log'[i].block = b} = At(b)
    BY <1>1 DEF At
  <2>. QED BY <1>1, <2>1, <2>2
<1>. QED BY <1>1, <1>4 DEF e

\* A set of positions to which the position n + 1 is added or not.
LEMMA CountStep ==
  ASSUME NEW n \in Nat, NEW S \in SUBSET (1 .. n), NEW add \in BOOLEAN
  PROVE  /\ Cardinality(S) \in Nat
         /\ Cardinality(IF add THEN S \cup {n + 1} ELSE S) = Cardinality(S) + IF add THEN 1 ELSE 0
<1>1. IsFiniteSet(S) /\ Cardinality(S) \in Nat
  BY CountUpTo
<1>2. n + 1 \notin S
  OBVIOUS
<1>3. Cardinality(S \cup {n + 1}) = Cardinality(S) + 1
  BY <1>1, <1>2, CountOneMore
<1>. QED
  BY <1>1, <1>3

\* An access to another block leaves a block's record true.
LEMMA OtherBlockUndisturbed ==
  ASSUME log \in Seq(Access), NEW x \in Access, log' = Append(log, x),
         NEW b \in Blocks, b # x.block, meta'[b] = meta[b], BlockInv(b)
  PROVE  BlockInv(b)'
<1>1. /\ At(b)' = At(b) /\ log' \in Seq(Access)
      /\ \A i \in 1 .. Len(log) : log'[i] = log[i]
  BY LogGrows
<1>2. /\ At(b) \in SUBSET (1 .. Len(log)) /\ InWindow(b) = LastWindow(At(b))
      /\ InWindow(b) \in SUBSET At(b)
      /\ \A i : Before(b, i) = LastBefore(At(b), i)
  BY Positions
<1>3. InWindow(b)' = InWindow(b) /\ \A i : Before(b, i)' = Before(b, i)
  BY <1>1 DEF InWindow, Before
<1>4. \A type : OfType(InWindow(b), type)' = OfType(InWindow(b), type)
  BY <1>1, <1>2, <1>3 DEF OfType
<1>5. \A type : OfType(At(b), type)' = OfType(At(b), type) /\ Remote(b, type)' = Remote(b, type)
  BY <1>1, <1>2 DEF Remote, OfType
<1>6. Changes(b)' = Changes(b)
  <2>1. \A i \in InWindow(b) : i \in Nat \ {0} /\ i \in 1 .. Len(log)
    BY <1>2
  <2>2. \A i \in InWindow(b) : Before(b, i) \in {0} \cup At(b)
    <3>1. PICK n \in Nat : n = Len(log)
      BY Positions
    <3>2. At(b) \in SUBSET (1 .. n)
      BY <1>2, <3>1
    <3>. SUFFICES ASSUME NEW i \in InWindow(b) PROVE Before(b, i) \in {0} \cup At(b)
      OBVIOUS
    <3>3. i \in Nat \ {0} /\ Before(b, i) = LastBefore(At(b), i)
      BY <1>2, <2>1
    <3>4. LastBefore(At(b), i) \in {0} \cup At(b)
      <4>1. PICK S : S = At(b)
        OBVIOUS
      <4>2. LastBefore(S, i) \in {0} \cup S
        BY ONLY <3>1, <3>2, <3>3, <4>1, LastBeforeIs, Zenon
      <4>. QED BY <4>1, <4>2
    <3>. QED BY <3>3, <3>4
  <2>3. \A i \in InWindow(b) : Before(b, i) # 0 =>
          (log'[Before(b, i)].type # log'[i].type <=> log[Before(b, i)].type # log[i].type)
    BY <1>1, <1>2, <2>1, <2>2
  <2>. QED BY <1>3, <2>3, Zenon DEF Changes
<1>7. At(b) # {} => log'[meta[b].last] = log[meta[b].last]
  BY <1>1, <1>2 DEF BlockInv
<1>. QED
  BY <1>1, <1>3, <1>4, <1>5, <1>6, <1>7, Zenon DEF BlockInv

-----------------------------------------------------------------------------
(* What ObserveAccess does to a profile. *)

\* The numbers of one access.
One(condition) == IF condition THEN 1 ELSE 0

\* The counts over the whole log are the same.
SameTotals(m, o) ==
  m.reads = o.reads /\ m.writes = o.writes /\ m.sharers = o.sharers /\ m.invalidations = o.invalidations

\* A switch of the mode leaves the counters alone.
LEMMA SwitchedProfile ==
  ASSUME NEW m \in Profile, NEW mode \in {"WI", "SI", "Adaptive"}, NEW r, r = Switched(m, mode)
  PROVE  /\ r \in Profile /\ r.mode = mode /\ r.last = m.last /\ r.window = m.window
         /\ r.lastType = m.lastType /\ r.reuse = m.reuse
         /\ r.reads = m.reads /\ r.writes = m.writes
         /\ r.sharers = m.sharers /\ r.invalidations = m.invalidations
         /\ r.windowReads = m.windowReads /\ r.windowWrites = m.windowWrites
         /\ r.phaseChanges = m.phaseChanges
<1>1. PICK v : v = (IF m.mode = mode THEN m.switches ELSE m.switches + 1)
  OBVIOUS
<1>2. v \in Nat
  BY <1>1 DEF Profile
<1>3. r = [m EXCEPT !.mode = mode, !.switches = v]
  BY <1>1 DEF Switched
<1>. QED
  BY <1>2, <1>3, Zenon DEF Profile

\* The profile after an access, field by field.
LEMMA ObservedProfile ==
  ASSUME NEW m \in Profile, NEW e \in Nat \ {0}, m.last < e, NEW w \in Nat,
         NEW type \in {"Read", "Write"}, NEW local \in BOOLEAN, NEW counted, NEW r,
         counted = [CountAccess(PhaseChange(ReuseDistance(EnterWindow(m, w), e), type), type, local)
                      EXCEPT !.last = e],
         r = Switched(counted, DecideCoherenceMode(counted))
  PROVE  /\ r \in Profile /\ r.last = e /\ r.window = w /\ r.lastType = type
         /\ r.reuse = IF m.last = 0 THEN m.reuse ELSE e - m.last
         /\ r.reads = m.reads + One(type = "Read")
         /\ r.writes = m.writes + One(type = "Write")
         /\ r.sharers = m.sharers + One(type = "Read" /\ ~local)
         /\ r.invalidations = m.invalidations + One(type = "Write" /\ ~local)
         /\ r.windowReads = (IF m.window = w THEN m.windowReads ELSE 0) + One(type = "Read")
         /\ r.windowWrites = (IF m.window = w THEN m.windowWrites ELSE 0) + One(type = "Write")
         /\ r.phaseChanges = (IF m.window = w THEN m.phaseChanges ELSE 0)
                               + One(m.last # 0 /\ m.lastType # type)
         /\ r.mode = DecideCoherenceMode(r)
<1>1. PICK a : a = EnterWindow(m, w)
  OBVIOUS
<1>2. /\ a \in Profile /\ a.window = w /\ a.last = m.last /\ a.lastType = m.lastType
      /\ a.reuse = m.reuse /\ SameTotals(a, m)
      /\ a.windowReads = IF m.window = w THEN m.windowReads ELSE 0
      /\ a.windowWrites = IF m.window = w THEN m.windowWrites ELSE 0
      /\ a.phaseChanges = IF m.window = w THEN m.phaseChanges ELSE 0
  BY <1>1, Zenon DEF EnterWindow, Profile, SameTotals
<1>3. PICK c : c = ReuseDistance(a, e)
  OBVIOUS
<1>4. /\ c \in Profile /\ c.window = w /\ c.last = m.last /\ c.lastType = m.lastType
      /\ c.reuse = (IF m.last = 0 THEN m.reuse ELSE e - m.last) /\ SameTotals(c, m)
      /\ c.windowReads = a.windowReads /\ c.windowWrites = a.windowWrites
      /\ c.phaseChanges = a.phaseChanges
  <2>1. m.last \in Nat /\ e - m.last \in Nat
    BY DEF Profile
  <2>. QED BY <1>2, <1>3, <2>1 DEF ReuseDistance, Profile, SameTotals
<1>5. PICK d : d = PhaseChange(c, type)
  OBVIOUS
<1>6. /\ d \in Profile /\ d.window = w /\ d.last = m.last /\ d.lastType = type
      /\ d.reuse = c.reuse /\ SameTotals(d, m)
      /\ d.windowReads = c.windowReads /\ d.windowWrites = c.windowWrites
      /\ d.phaseChanges = c.phaseChanges + One(m.last # 0 /\ m.lastType # type)
  <2>1. PICK v : v = c.phaseChanges + One(m.last # 0 /\ m.lastType # type)
    OBVIOUS
  <2>2. c.phaseChanges \in Nat
    BY <1>4 DEF Profile
  <2>3. v \in Nat
    BY <2>1, <2>2 DEF One
  <2>4. v = IF m.last # 0 /\ m.lastType # type THEN c.phaseChanges + 1 ELSE c.phaseChanges
    BY <2>1, <2>2 DEF One
  <2>5. d = [c EXCEPT !.lastType = type, !.phaseChanges = v]
    BY <1>4, <1>5, <2>4 DEF PhaseChange
  <2>. QED BY <1>4, <2>1, <2>3, <2>5, Zenon DEF Profile, SameTotals
<1>7. PICK f : f = CountAccess(d, type, local)
  OBVIOUS
<1>8. /\ f \in Profile /\ f.window = w /\ f.lastType = type
      /\ f.reuse = d.reuse /\ f.phaseChanges = d.phaseChanges
      /\ f.reads = d.reads + One(type = "Read") /\ f.writes = d.writes + One(type = "Write")
      /\ f.sharers = d.sharers + One(type = "Read" /\ ~local)
      /\ f.invalidations = d.invalidations + One(type = "Write" /\ ~local)
      /\ f.windowReads = d.windowReads + One(type = "Read")
      /\ f.windowWrites = d.windowWrites + One(type = "Write")
  <2>1. /\ d.reads \in Nat /\ d.writes \in Nat /\ d.windowReads \in Nat /\ d.windowWrites \in Nat
        /\ d.sharers \in Nat /\ d.invalidations \in Nat
    BY <1>6 DEF Profile
  <2>2. CASE type = "Read"
    <3>1. PICK x \in Nat : x = d.reads + 1
      BY <2>1
    <3>2. PICK y \in Nat : y = d.windowReads + 1
      BY <2>1
    <3>3. PICK z \in Nat : z = (IF local THEN d.sharers ELSE d.sharers + 1)
      BY <2>1
    <3>4. f = [d EXCEPT !.reads = x, !.windowReads = y, !.sharers = z]
      BY <1>7, <2>2, <3>1, <3>2, <3>3 DEF CountAccess
    <3>5. /\ f \in Profile /\ f.window = w /\ f.lastType = type /\ f.reuse = d.reuse
          /\ f.reads = x /\ f.writes = d.writes /\ f.invalidations = d.invalidations
          /\ f.sharers = z /\ f.windowReads = y /\ f.windowWrites = d.windowWrites
          /\ f.phaseChanges = d.phaseChanges
      BY <1>6, <3>4, Zenon DEF Profile
    <3>. QED BY <2>1, <2>2, <3>1, <3>2, <3>3, <3>5 DEF One
  <2>3. CASE type = "Write"
    <3>1. PICK x \in Nat : x = d.writes + 1
      BY <2>1
    <3>2. PICK y \in Nat : y = d.windowWrites + 1
      BY <2>1
    <3>3. PICK z \in Nat : z = (IF local THEN d.invalidations ELSE d.invalidations + 1)
      BY <2>1
    <3>4. f = [d EXCEPT !.writes = x, !.windowWrites = y, !.invalidations = z]
      BY <1>7, <2>3, <3>1, <3>2, <3>3 DEF CountAccess
    <3>5. /\ f \in Profile /\ f.window = w /\ f.lastType = type /\ f.reuse = d.reuse
          /\ f.writes = x /\ f.reads = d.reads /\ f.sharers = d.sharers
          /\ f.invalidations = z /\ f.windowReads = d.windowReads /\ f.windowWrites = y
          /\ f.phaseChanges = d.phaseChanges
      BY <1>6, <3>4, Zenon DEF Profile
    <3>. QED BY <2>1, <2>3, <3>1, <3>2, <3>3, <3>5 DEF One
  <2>. QED BY <2>2, <2>3
<1>9. counted = [f EXCEPT !.last = e]
  BY <1>1, <1>3, <1>5, <1>7
<1>10. /\ counted \in Profile /\ counted.last = e /\ counted.window = w /\ counted.lastType = type
       /\ counted.reuse = f.reuse /\ SameTotals(counted, f)
       /\ counted.windowReads = f.windowReads /\ counted.windowWrites = f.windowWrites
       /\ counted.phaseChanges = f.phaseChanges
  BY <1>8, <1>9, Zenon DEF Profile, SameTotals
<1>11. PICK mode : mode = DecideCoherenceMode(counted)
  OBVIOUS
<1>12. mode \in {"WI", "SI", "Adaptive"}
  BY <1>11, ProfileAssumption DEF DecideCoherenceMode
<1>13. /\ r \in Profile /\ r.last = e /\ r.window = w /\ r.lastType = type
       /\ r.reuse = counted.reuse /\ SameTotals(r, counted)
       /\ r.windowReads = counted.windowReads /\ r.windowWrites = counted.windowWrites
       /\ r.phaseChanges = counted.phaseChanges /\ r.mode = mode
  <2>1. r = Switched(counted, mode)
    BY <1>11
  <2>. QED BY ONLY <1>10, <1>12, <2>1, SwitchedProfile DEF SameTotals
<1>14. r.mode = DecideCoherenceMode(r)
  BY <1>11, <1>13, Zenon DEF DecideCoherenceMode, SameTotals
<1>15. /\ r.reads = m.reads + One(type = "Read") /\ r.writes = m.writes + One(type = "Write")
       /\ r.sharers = m.sharers + One(type = "Read" /\ ~local)
       /\ r.invalidations = m.invalidations + One(type = "Write" /\ ~local)
  BY <1>2, <1>4, <1>6, <1>8, <1>10, <1>13 DEF SameTotals
<1>. QED
  BY <1>2, <1>4, <1>6, <1>8, <1>10, <1>13, <1>14, <1>15

-----------------------------------------------------------------------------
(* The steps. *)

\* The record of a block stays true when the block is accessed.
LEMMA AccessedBlock ==
  ASSUME ProfileInv, NEW b \in Blocks, NEW type \in {"Read", "Write"}, NEW local \in BOOLEAN,
         ObserveAccess(b, type, local)
  PROVE  /\ meta'[b] \in Profile /\ BlockInv(b)'
         /\ meta'[b].mode = DecideCoherenceMode(meta'[b]) /\ meta'[b].last = Len(log')
<1>a. PICK m : m = meta[b]
  OBVIOUS
<1>b. PICK r : r = meta'[b]
  OBVIOUS
<1>c. PICK S : S = At(b)
  OBVIOUS
<1>0. PICK n : n = Len(log)
  BY Zenon
<1>1. PICK e : e = n + 1
  OBVIOUS
<1>2. PICK x : x = [block |-> b, type |-> type, local |-> local]
  BY Zenon
<1>d. /\ epoch = n /\ log \in Seq(Access) /\ x \in Access /\ log' = Append(log, x) /\ BlockInv(b)
  BY <1>0, <1>1, <1>2 DEF ProfileInv, TypeOK, ObserveAccess, Access
<1>3. n \in Nat /\ e \in Nat \ {0} /\ m \in Profile
  BY <1>a, <1>0, <1>1 DEF ProfileInv, TypeOK
<1>4. /\ log' \in Seq(Access) /\ Len(log') = e /\ log'[e] = x
      /\ \A i \in 1 .. n : log'[i] = log[i]
      /\ At(b)' = S \cup {e}
  BY <1>0, <1>1, <1>2, <1>c, <1>d, LogGrows
<1>5. /\ S \in SUBSET (1 .. n) /\ InWindow(b) = LastWindow(S) /\ InWindow(b) \in SUBSET S
      /\ \A i : Before(b, i) = LastBefore(S, i)
  BY <1>0, <1>c, <1>d, Positions
<1>6. /\ InWindow(b)' = LastWindow(S \cup {e})
      /\ \A i : Before(b, i)' = LastBefore(S \cup {e}, i)
  BY <1>4 DEF InWindow, LastWindow, WindowOf, Before, LastBefore
<1>7. /\ S = {} => m.last = 0 /\ m.window = 0 /\ m.reuse = 0
      /\ S # {} => /\ m.last \in S /\ \A j \in S : j <= m.last
                   /\ m.lastType = log[m.last].type
                   /\ m.window = WindowOf(m.last)
  BY <1>a, <1>c, <1>d DEF BlockInv
<1>8. PICK w \in Nat : w = WindowOf(e)
  BY <1>3, WindowsInOrder
<1>9. m.last < e
  <2>1. m.last \in Nat
    BY <1>3 DEF Profile
  <2>2. m.last = 0 \/ m.last \in 1 .. n
    BY <1>5, <1>7, Zenon
  <2>. QED BY <1>1, <1>3, <2>1, <2>2
<1>10. PICK Q : Q = IF m.window = w THEN InWindow(b) ELSE {}
  BY Zenon
<1>11. InWindow(b)' = Q \cup {e} /\ Q \in SUBSET (1 .. n)
  <2>1. CASE S = {}
    <3>1. LastWindow(S) = {} /\ LastWindow(S \cup {e}) = {e}
      BY <1>1, <1>3, <1>5, <2>1, LastWindowGrows
    <3>. QED BY <1>5, <1>6, <1>10, <3>1
  <2>2. CASE S # {}
    <3>1. LastWindow(S \cup {e}) = (IF WindowOf(m.last) = WindowOf(e) THEN LastWindow(S) ELSE {}) \cup {e}
      <4>1. PICK k \in S : k = m.last /\ \A j \in S : j <= k
        BY <1>7, <2>2
      <4>. QED BY ONLY <1>1, <1>3, <1>5, <4>1, LastWindowGrows
    <3>. QED BY <1>5, <1>6, <1>7, <1>8, <1>10, <2>2, <3>1, Zenon
  <2>. QED BY <2>1, <2>2
<1>12. /\ r \in Profile /\ r.last = e /\ r.window = w /\ r.lastType = type
       /\ r.reuse = (IF m.last = 0 THEN m.reuse ELSE e - m.last)
       /\ r.reads = m.reads + One(type = "Read")
       /\ r.writes = m.writes + One(type = "Write")
       /\ r.sharers = m.sharers + One(type = "Read" /\ ~local)
       /\ r.invalidations = m.invalidations + One(type = "Write" /\ ~local)
       /\ r.windowReads = (IF m.window = w THEN m.windowReads ELSE 0) + One(type = "Read")
       /\ r.windowWrites = (IF m.window = w THEN m.windowWrites ELSE 0) + One(type = "Write")
       /\ r.phaseChanges = (IF m.window = w THEN m.phaseChanges ELSE 0)
                             + One(m.last # 0 /\ m.lastType # type)
       /\ r.mode = DecideCoherenceMode(r)
  <2>1. PICK counted : counted =
          [CountAccess(PhaseChange(ReuseDistance(EnterWindow(m, w), e), type), type, local) EXCEPT !.last = e]
    BY Zenon
  <2>2. r = Switched(counted, DecideCoherenceMode(counted))
    <3>1. epoch + 1 = e
      BY <1>1, <1>d
    <3>2. meta \in [Blocks -> Profile]
      BY DEF ProfileInv, TypeOK
    <3>. QED BY <1>a, <1>b, <1>8, <2>1, <3>1, <3>2 DEF ObserveAccess
  <2>. QED BY ONLY <1>3, <1>8, <1>9, <2>1, <2>2, ObservedProfile
<1>13. /\ At(b)' # {} /\ r.last \in At(b)' /\ \A j \in At(b)' : j <= r.last
       /\ r.lastType = log'[r.last].type /\ r.window = WindowOf(r.last)
  <2>1. \A j \in S \cup {e} : j <= e
    BY <1>1, <1>3, <1>5
  <2>2. log'[e].type = type
    BY <1>2, <1>4
  <2>. QED BY <1>4, <1>8, <1>12, <2>1, <2>2
<1>14. /\ \A i \in 1 .. n : Before(b, i)' = Before(b, i)
       /\ Before(b, e)' = m.last
  <2>1. \A i \in 1 .. n : LastBefore(S \cup {e}, i) = LastBefore(S, i)
    <3>1. S \in SUBSET (1 .. n)
      BY <1>5
    <3>2. n \in Nat
      BY <1>3
    <3>. TAKE i \in 1 .. n
    <3>. QED BY ONLY <1>1, <3>1, <3>2, LastBeforeKept, i \in 1 .. n
  <2>2. LastBefore(S \cup {e}, e) = m.last
    <3>1. CASE S = {}
      <4>1. LastBefore(S \cup {e}, e) = 0
        BY ONLY <1>1, <1>3, <1>5, <3>1, LastBeforeNext
      <4>. QED BY <1>7, <3>1, <4>1
    <3>2. CASE S # {}
      <4>1. PICK k \in S : k = m.last /\ \A j \in S : j <= k
        BY <1>7, <3>2
      <4>. QED BY ONLY <1>1, <1>3, <1>5, <4>1, LastBeforeNext
    <3>. QED BY <3>1, <3>2
  <2>. QED BY <1>5, <1>6, <2>1, <2>2
<1>15. r.reuse = IF Before(b, r.last)' = 0 THEN 0 ELSE r.last - Before(b, r.last)'
  <2>1. Before(b, r.last)' = m.last
    BY <1>12, <1>14
  <2>2. m.last = 0 => m.reuse = 0
    BY <1>5, <1>7
  <2>. QED BY <1>12, <2>1, <2>2
<1>16. ASSUME NEW t \in {"Read", "Write"}
       PROVE  /\ Cardinality(OfType(At(b), t)') = Cardinality(OfType(At(b), t)) + One(type = t)
              /\ Cardinality(Remote(b, t)') = Cardinality(Remote(b, t)) + One(type = t /\ ~local)
  <2>1. PICK A : A = {i \in S : log[i].type = t}
    BY Zenon
  <2>2. PICK R : R = {i \in S : log[i].type = t /\ ~log[i].local}
    BY Zenon
  <2>3. OfType(At(b), t) = A /\ Remote(b, t) = R /\ A \in SUBSET (1 .. n) /\ R \in SUBSET (1 .. n)
    BY <1>c, <1>5, <2>1, <2>2 DEF Remote, OfType
  <2>4. /\ OfType(At(b), t)' = {i \in S \cup {e} : log'[i].type = t}
        /\ Remote(b, t)' = {i \in S \cup {e} : log'[i].type = t /\ ~log'[i].local}
    BY <1>4 DEF Remote, OfType
  <2>5. log'[e].type = type /\ log'[e].local = local
    BY <1>2, <1>4
  <2>6. \A i \in S : log'[i] = log[i]
    BY <1>4, <1>5
  <2>7. PICK one \in BOOLEAN : one <=> type = t
    BY Zenon
  <2>8. PICK two \in BOOLEAN : two <=> type = t /\ ~local
    BY Zenon
  <2>9. PICK A2 : A2 = OfType(At(b), t)'
    BY Zenon
  <2>10. PICK R2 : R2 = Remote(b, t)'
    BY Zenon
  <2>11. A2 = IF one THEN A \cup {n + 1} ELSE A
    BY <1>1, <2>1, <2>4, <2>5, <2>6, <2>7, <2>9, Zenon
  <2>12. R2 = IF two THEN R \cup {n + 1} ELSE R
    BY <1>1, <2>2, <2>4, <2>5, <2>6, <2>8, <2>10, Zenon
  <2>13. Cardinality(A2) = Cardinality(A) + IF one THEN 1 ELSE 0
    BY <1>3, <2>3, <2>11, CountStep, Zenon
  <2>14. Cardinality(R2) = Cardinality(R) + IF two THEN 1 ELSE 0
    BY <1>3, <2>3, <2>12, CountStep, Zenon
  <2>. QED BY <2>3, <2>7, <2>8, <2>9, <2>10, <2>13, <2>14, Zenon DEF One
<1>20. /\ r.reads = Cardinality(OfType(At(b), "Read")') /\ r.writes = Cardinality(OfType(At(b), "Write")')
       /\ r.sharers = Cardinality(Remote(b, "Read")') /\ r.invalidations = Cardinality(Remote(b, "Write")')
  <2>1. /\ m.reads = Cardinality(OfType(At(b), "Read")) /\ m.writes = Cardinality(OfType(At(b), "Write"))
        /\ m.sharers = Cardinality(Remote(b, "Read")) /\ m.invalidations = Cardinality(Remote(b, "Write"))
    BY <1>a, <1>d, Zenon DEF BlockInv
  <2>. QED BY <1>12, <1>16, <2>1, Zenon
<1>17. ASSUME NEW t \in {"Read", "Write"}
       PROVE  LET old == IF t = "Read" THEN m.windowReads ELSE m.windowWrites
              IN Cardinality(OfType(InWindow(b), t)') = (IF m.window = w THEN old ELSE 0) + One(type = t)
  <2>. DEFINE old == IF t = "Read" THEN m.windowReads ELSE m.windowWrites
  <2>1. PICK R : R = {i \in Q : log[i].type = t}
    BY Zenon
  <2>2. PICK add \in BOOLEAN : add <=> type = t
    BY Zenon
  <2>3. OfType(InWindow(b), t)' = {i \in Q \cup {e} : log'[i].type = t}
    BY <1>11 DEF OfType
  <2>5. log'[e].type = type
    BY <1>2, <1>4
  <2>6. \A i \in Q : log'[i] = log[i]
    BY <1>4, <1>11, Zenon
  <2>7. OfType(InWindow(b), t)' = IF add THEN R \cup {n + 1} ELSE R
    BY <1>1, <2>1, <2>2, <2>3, <2>5, <2>6
  <2>8. R \in SUBSET (1 .. n)
    BY <1>11, <2>1, Zenon
  <2>9. Cardinality(OfType(InWindow(b), t)') = Cardinality(R) + IF add THEN 1 ELSE 0
    BY <1>3, <2>7, <2>8, CountStep, Zenon
  <2>10. Cardinality(R) = IF m.window = w THEN old ELSE 0
    <3>1. CASE m.window = w
      <4>1. R = OfType(InWindow(b), t)
        BY <1>10, <2>1, <3>1 DEF OfType
      <4>. QED BY <1>a, <1>d, <3>1, <4>1, Zenon DEF BlockInv
    <3>2. CASE m.window # w
      <4>1. R = {}
        BY <1>10, <2>1, <3>2
      <4>. QED BY <3>2, <4>1, FS_EmptySet
    <3>. QED BY <3>1, <3>2
  <2>. QED BY <2>2, <2>9, <2>10 DEF One
<1>18. /\ r.windowReads = Cardinality(OfType(InWindow(b), "Read")')
       /\ r.windowWrites = Cardinality(OfType(InWindow(b), "Write")')
  BY <1>12, <1>17
<1>19. r.phaseChanges = Cardinality(Changes(b)')
  <2>1. PICK R : R = {i \in Q : Before(b, i) # 0 /\ log[Before(b, i)].type # log[i].type}
    BY Zenon
  <2>2. PICK add \in BOOLEAN : add <=> m.last # 0 /\ m.lastType # type
    BY Zenon
  <2>3. Changes(b)' = {i \in Q \cup {e} : Before(b, i)' # 0 /\ log'[Before(b, i)'].type # log'[i].type}
    BY <1>11 DEF Changes
  <2>4. ASSUME NEW i \in Q
        PROVE  /\ Before(b, i)' = Before(b, i)
               /\ Before(b, i) # 0 => log'[Before(b, i)] = log[Before(b, i)]
               /\ log'[i] = log[i]
    <3>1. i \in 1 .. n /\ i \in Nat \ {0} /\ S \in SUBSET (1 .. n)
      BY <1>3, <1>5, <1>11
    <3>2. LastBefore(S, i) \in {0} \cup S
      BY ONLY <1>3, <3>1, LastBeforeIs, Zenon
    <3>3. Before(b, i) # 0 => Before(b, i) \in 1 .. n
      BY <1>5, <3>1, <3>2, Zenon
    <3>. QED BY <1>4, <1>14, <3>1, <3>3
  <2>5. (Before(b, e)' # 0 /\ log'[Before(b, e)'].type # log'[e].type) <=> add
    <3>1. log'[e].type = type
      BY <1>2, <1>4
    <3>2. m.last # 0 => m.last \in S /\ m.lastType = log[m.last].type
      BY <1>7
    <3>3. m.last # 0 => log'[m.last] = log[m.last]
      BY <1>4, <1>5, <3>2
    <3>. QED BY <1>14, <2>2, <3>1, <3>2, <3>3
  <2>7. Changes(b)' = IF add THEN R \cup {n + 1} ELSE R
    <3>1. \A i \in Q : (Before(b, i)' # 0 /\ log'[Before(b, i)'].type # log'[i].type) <=> i \in R
      BY <2>1, <2>4
    <3>2. R \in SUBSET Q
      BY <2>1
    <3>. QED BY <1>1, <2>3, <2>5, <3>1, <3>2
  <2>8. R \in SUBSET (1 .. n)
    BY <1>11, <2>1, Zenon
  <2>9. Cardinality(Changes(b)') = Cardinality(R) + IF add THEN 1 ELSE 0
    BY <1>3, <2>7, <2>8, CountStep, Zenon
  <2>10. Cardinality(R) = IF m.window = w THEN m.phaseChanges ELSE 0
    <3>1. CASE m.window = w
      <4>1. R = Changes(b)
        BY <1>10, <2>1, <3>1 DEF Changes
      <4>. QED BY <1>a, <1>d, <3>1, <4>1 DEF BlockInv
    <3>2. CASE m.window # w
      <4>1. R = {}
        BY <1>10, <2>1, <3>2
      <4>. QED BY <3>2, <4>1, FS_EmptySet
    <3>. QED BY <3>1, <3>2
  <2>. QED BY <1>12, <2>2, <2>9, <2>10 DEF One
<1>. QED
  BY <1>b, <1>4, <1>12, <1>13, <1>15, <1>18, <1>19, <1>20 DEF BlockInv

\* The invariant holds before the first access.
LEMMA ProfileInit == Init => ProfileInv
<1>. SUFFICES ASSUME Init PROVE ProfileInv
  OBVIOUS
<1>1. TypeOK /\ epoch = Len(log)
  <2>1. MaxAccesses \in Nat
    BY ProfileAssumption
  <2>. QED BY <2>1 DEF Init, TypeOK, Profile
<1>2. ASSUME NEW b \in Blocks PROVE BlockInv(b)
  <2>1. At(b) = {}
    BY DEF Init, At
  <2>2. /\ InWindow(b) = {} /\ Changes(b) = {}
        /\ \A type : /\ OfType(InWindow(b), type) = {} /\ OfType(At(b), type) = {}
                    /\ Remote(b, type) = {}
    BY <2>1 DEF InWindow, Remote, Changes, OfType
  <2>3. /\ meta[b].last = 0 /\ meta[b].window = 0 /\ meta[b].reuse = 0
        /\ meta[b].reads = 0 /\ meta[b].writes = 0
        /\ meta[b].sharers = 0 /\ meta[b].invalidations = 0 /\ meta[b].windowReads = 0
        /\ meta[b].windowWrites = 0 /\ meta[b].phaseChanges = 0
    BY DEF Init
  <2>4. Cardinality({}) = 0
    BY FS_EmptySet
  <2>. QED BY <2>1, <2>2, <2>3, <2>4 DEF BlockInv
<1>. QED BY <1>1, <1>2 DEF ProfileInv

\* Every step keeps it.
LEMMA ProfileStep == ProfileInv /\ [Next]_vars => ProfileInv'
<1>. SUFFICES ASSUME ProfileInv, [Next]_vars PROVE ProfileInv'
  OBVIOUS
<1>1. ASSUME NEW b \in Blocks, NEW type \in {"Read", "Write"}, NEW local \in BOOLEAN,
             ObserveAccess(b, type, local)
      PROVE  ProfileInv'
  <2>1. PICK x : x = [block |-> b, type |-> type, local |-> local]
    BY Zenon
  <2>2. /\ log \in Seq(Access) /\ x \in Access /\ log' = Append(log, x) /\ x.block = b
        /\ meta \in [Blocks -> Profile] /\ epoch = Len(log) /\ epoch \in 0 .. MaxAccesses
    BY <2>1, <1>1 DEF ProfileInv, TypeOK, ObserveAccess, Access
  <2>3. meta'[b] \in Profile /\ BlockInv(b)'
    BY <1>1, AccessedBlock
  <2>4. \A c \in Blocks \ {b} : meta'[c] = meta[c]
    BY <1>1, <2>2 DEF ObserveAccess
  <2>5. meta' \in [Blocks -> Profile]
    <3>1. meta' = [meta EXCEPT ![b] = meta'[b]]
      BY <1>1, <2>2 DEF ObserveAccess
    <3>. QED BY <2>2, <2>3, <3>1
  <2>6. \A c \in Blocks \ {b} : BlockInv(c)'
    BY <2>2, <2>4, OtherBlockUndisturbed DEF ProfileInv
  <2>7. log' \in Seq(Access) /\ epoch' = Len(log') /\ epoch' \in 0 .. MaxAccesses
    <3>1. epoch < MaxAccesses /\ epoch' = epoch + 1 /\ MaxAccesses \in Nat
      BY <1>1, ProfileAssumption DEF ObserveAccess
    <3>2. log' \in Seq(Access) /\ Len(log') = Len(log) + 1
      BY <2>2, LogGrows
    <3>. QED BY <2>2, <3>1, <3>2
  <2>. QED BY <2>3, <2>5, <2>6, <2>7 DEF ProfileInv, TypeOK
<1>2. ASSUME NEW b \in Blocks, NEW mode \in {"WI", "Adaptive"}, StoreMode(b, mode)
      PROVE  ProfileInv'
  <2>1. /\ meta \in [Blocks -> Profile] /\ log' = log /\ epoch' = epoch
        /\ meta' = [meta EXCEPT ![b].mode = mode]
    BY <1>2 DEF ProfileInv, TypeOK, StoreMode
  <2>2. PICK r : r = [meta[b] EXCEPT !.mode = mode]
    BY Zenon
  <2>3. /\ r \in Profile /\ r.mode = mode /\ r.last = meta[b].last /\ r.window = meta[b].window
        /\ r.lastType = meta[b].lastType /\ r.reuse = meta[b].reuse
        /\ r.reads = meta[b].reads /\ r.writes = meta[b].writes
        /\ r.sharers = meta[b].sharers /\ r.invalidations = meta[b].invalidations
        /\ r.windowReads = meta[b].windowReads /\ r.windowWrites = meta[b].windowWrites
        /\ r.phaseChanges = meta[b].phaseChanges
    <3>1. PICK m \in Profile : m = meta[b]
      BY <2>1
    <3>. QED BY <2>2, <3>1 DEF Profile
  <2>4. meta' = [meta EXCEPT ![b] = r]
    BY <2>1, <2>2
  <2>5. meta' \in [Blocks -> Profile] /\ meta'[b] = r /\ \A c \in Blocks \ {b} : meta'[c] = meta[c]
    BY <2>1, <2>3, <2>4
  <2>6. \A c \in Blocks : /\ At(c)' = At(c) /\ InWindow(c)' = InWindow(c)
                          /\ Changes(c)' = Changes(c)
                          /\ \A type : /\ OfType(At(c), type)' = OfType(At(c), type)
                                      /\ Remote(c, type)' = Remote(c, type)
                          /\ \A i : Before(c, i)' = Before(c, i)
                          /\ \A type : OfType(InWindow(c), type)' = OfType(InWindow(c), type)
    BY <2>1 DEF At, InWindow, Remote, Changes, OfType, Before
  <2>7. \A c \in Blocks \ {b} : BlockInv(c)'
    BY <2>1, <2>5, <2>6 DEF ProfileInv, BlockInv
  <2>8. BlockInv(b)'
    <3>1. BlockInv(b)
      BY DEF ProfileInv
    <3>. QED BY <2>1, <2>3, <2>5, <2>6, <3>1 DEF BlockInv
  <2>. QED BY <2>1, <2>5, <2>7, <2>8 DEF ProfileInv, TypeOK
<1>3. CASE UNCHANGED vars
  <2>1. log' = log /\ meta' = meta /\ epoch' = epoch
    BY <1>3 DEF vars
  <2>2. \A b \in Blocks : /\ At(b)' = At(b) /\ InWindow(b)' = InWindow(b)
                          /\ Changes(b)' = Changes(b)
                          /\ \A type : /\ OfType(At(b), type)' = OfType(At(b), type)
                                      /\ Remote(b, type)' = Remote(b, type)
                          /\ \A i : Before(b, i)' = Before(b, i)
                          /\ \A type : OfType(InWindow(b), type)' = OfType(InWindow(b), type)
    BY <2>1 DEF At, InWindow, Remote, Changes, OfType, Before
  <2>. QED BY <2>1, <2>2, Zenon DEF ProfileInv, TypeOK, BlockInv
<1>. QED
  BY <1>1, <1>2, <1>3 DEF Next

-----------------------------------------------------------------------------
(* The theorems. *)

\* The invariant holds in every reachable state.
LEMMA ProfileAlways == Spec => []ProfileInv
BY ProfileInit, ProfileStep, PTL DEF Spec

\* Every field of every profile has its type, and the epoch stays within its
\* bound (ObserveAccess, StoreMode).
THEOREM ProfileTypes == Spec => []TypeOK
<1>1. ProfileInv => TypeOK
  BY DEF ProfileInv
<1>. QED BY <1>1, ProfileAlways, PTL

\* For every window size and any number of blocks: the counters that
\* ObserveAccess resets and increments are those of a scan of all accesses of
\* the node, and no window holds more accesses than its size.
THEOREM WindowProfileAlwaysExact == Spec => []WindowProfileExact
<1>1. ASSUME ProfileInv PROVE WindowProfileExact
  <2>. SUFFICES ASSUME NEW b \in Blocks
                PROVE  /\ meta[b].windowReads = Cardinality(OfType(InWindow(b), "Read"))
                       /\ meta[b].windowWrites = Cardinality(OfType(InWindow(b), "Write"))
                       /\ meta[b].phaseChanges = Cardinality(Changes(b))
                       /\ meta[b].windowReads + meta[b].windowWrites <= SafeWindowSize
    BY DEF WindowProfileExact, Changes
  <2>1. BlockInv(b) /\ log \in Seq(Access)
    BY <1>1 DEF ProfileInv, TypeOK
  <2>2. PICK n \in Nat : n = Len(log)
    BY <2>1
  <2>3. PICK S : S = At(b)
    OBVIOUS
  <2>4. PICK Q : Q = InWindow(b)
    OBVIOUS
  <2>5. S \in SUBSET (1 .. n) /\ Q = LastWindow(S) /\ Q \in SUBSET S
    BY <2>1, <2>2, <2>3, <2>4, Positions
  <2>6. Q \in SUBSET (Nat \ {0})
    <3>1. \A q \in Q : q \in 1 .. n
      BY <2>5
    <3>2. \A q \in 1 .. n : q \in Nat \ {0}
      OBVIOUS
    <3>. QED BY <3>1, <3>2
  <2>7. IsFiniteSet(Q) /\ Cardinality(Q) \in Nat /\ Cardinality(Q) <= SafeWindowSize
    <3>1. CASE S = {}
      <4>1. Q = {}
        BY <2>5, <3>1
      <4>2. \A w : \A i \in Q : WindowOf(i) = w
        BY <4>1
      <4>. QED BY <2>6, <4>2, WindowBounded
    <3>2. CASE S # {}
      <4>1. PICK k \in S : \A j \in S : j <= k
        BY <2>1, <2>3, <3>2 DEF BlockInv
      <4>2. Q = {i \in S : WindowOf(i) = WindowOf(k)}
        BY ONLY <2>2, <2>5, <4>1, LastWindowOfMax, Zenon
      <4>3. \A i \in Q : WindowOf(i) = WindowOf(k)
        BY <4>2
      <4>. QED BY ONLY <2>6, <4>3, WindowBounded
    <3>. QED BY <3>1, <3>2
  <2>8. PICK R : R = OfType(Q, "Read")
    OBVIOUS
  <2>9. PICK W : W = OfType(Q, "Write")
    OBVIOUS
  <2>10. R \in SUBSET Q /\ W \in SUBSET Q /\ R \cap W = {}
    BY <2>8, <2>9 DEF OfType
  <2>11. IsFiniteSet(R) /\ IsFiniteSet(W) /\ R \cup W \in SUBSET Q
    BY <2>7, <2>10, FS_Subset
  <2>12. /\ Cardinality(R) \in Nat /\ Cardinality(W) \in Nat
         /\ Cardinality(R \cup W) = Cardinality(R) + Cardinality(W)
    BY <2>10, <2>11, CountApart
  <2>13. Cardinality(R \cup W) <= Cardinality(Q)
    BY <2>7, <2>11, FS_Subset
  <2>14. SafeWindowSize \in Nat
    BY WindowSizePositive
  <2>15. Cardinality(R) + Cardinality(W) <= SafeWindowSize
    BY <2>7, <2>12, <2>13, <2>14
  <2>. QED BY <2>1, <2>4, <2>8, <2>9, <2>15 DEF BlockInv
<1>. QED BY <1>1, ProfileAlways, PTL

\* The reuse distance is the number of accesses of the node between the
\* block's last two, however many windows lie between them (ObserveAccess).
THEOREM ReuseDistanceAlwaysExact == Spec => []ReuseDistanceExact
<1>1. ASSUME ProfileInv PROVE ReuseDistanceExact
  <2>. SUFFICES ASSUME NEW b \in Blocks, NEW i \in At(b), \A j \in At(b) : j <= i, Before(b, i) # 0
                PROVE  meta[b].reuse = i - Before(b, i)
    BY DEF ReuseDistanceExact
  <2>1. BlockInv(b) /\ log \in Seq(Access)
    BY <1>1 DEF ProfileInv, TypeOK
  <2>2. At(b) \in SUBSET Nat
    BY <2>1 DEF At
  <2>3. meta[b].last \in At(b) /\ i <= meta[b].last /\ meta[b].last <= i
    BY <2>1 DEF BlockInv
  <2>4. i = meta[b].last
    <3>1. PICK k \in Nat : k = meta[b].last
      BY <2>2, <2>3
    <3>. QED BY <2>2, <2>3, <3>1
  <2>. QED BY <2>1, <2>4 DEF BlockInv
<1>. QED BY <1>1, ProfileAlways, PTL

\* What ModeByLog and CachedByLog say of a block is what DecideCoherenceMode and
\* ShouldCache find in its profile, when the node's last access was to it.
DecidedByLast ==
  \A b \in Blocks :
    At(b) # {} /\ meta[b].last = Len(log) /\ meta[b].mode = DecideCoherenceMode(meta[b]) =>
      /\ meta[b].mode = ModeByLog(b)
      /\ ShouldCache(meta[b]) <=> CachedByLog(b, Len(log))

\* The reads and the writes of a set of positions make it up.
LEMMA TypesCount ==
  ASSUME log \in Seq(Access), NEW P \in SUBSET (1 .. Len(log))
  PROVE  /\ Cardinality(OfType(P, "Read")) \in Nat /\ Cardinality(OfType(P, "Write")) \in Nat
         /\ Cardinality(P) = Cardinality(OfType(P, "Read")) + Cardinality(OfType(P, "Write"))
<1>1. PICK n \in Nat : n = Len(log)
  OBVIOUS
<1>2. PICK R : R = OfType(P, "Read")
  OBVIOUS
<1>3. PICK W : W = OfType(P, "Write")
  OBVIOUS
<1>4. \A i \in P : log[i].type \in {"Read", "Write"}
  <2>1. \A x \in Access : x.type \in {"Read", "Write"}
    BY DEF Access
  <2>2. \A i \in P : log[i] \in Access
    OBVIOUS
  <2>. QED BY <2>1, <2>2, Zenon
<1>5. R \cup W = P /\ R \cap W = {} /\ R \in SUBSET P /\ W \in SUBSET P
  BY ONLY <1>2, <1>3, <1>4 DEF OfType
<1>6. IsFiniteSet(P)
  BY <1>1, CountUpTo
<1>7. IsFiniteSet(R) /\ IsFiniteSet(W)
  BY <1>5, <1>6, FS_Subset
<1>. QED BY <1>2, <1>3, <1>5, <1>7, CountApart

\* A profile that counts the log decides as the log does.
LEMMA DecisionOfLog == ProfileInv => DecidedByLast
<1>. SUFFICES ASSUME ProfileInv, NEW b \in Blocks, At(b) # {}, meta[b].last = Len(log),
                     meta[b].mode = DecideCoherenceMode(meta[b])
              PROVE  /\ meta[b].mode = ModeByLog(b)
                     /\ ShouldCache(meta[b]) <=> CachedByLog(b, Len(log))
  BY DEF DecidedByLast
<1>1. PICK m \in Profile : m = meta[b]
  BY DEF ProfileInv, TypeOK
<1>2. BlockInv(b) /\ log \in Seq(Access)
  BY DEF ProfileInv, TypeOK
<1>3. PICK Q : Q = InWindow(b)
  OBVIOUS
<1>4. At(b) \in SUBSET (1 .. Len(log)) /\ Q = LastWindow(At(b)) /\ Q \in SUBSET (1 .. Len(log))
  BY <1>2, <1>3, Positions
<1>5. /\ m.reads = Cardinality(OfType(At(b), "Read")) /\ m.writes = Cardinality(OfType(At(b), "Write"))
      /\ m.sharers = Cardinality(Remote(b, "Read")) /\ m.invalidations = Cardinality(Remote(b, "Write"))
      /\ m.windowReads = Cardinality(OfType(Q, "Read")) /\ m.windowWrites = Cardinality(OfType(Q, "Write"))
      /\ m.phaseChanges = Cardinality(Changes(b))
  BY <1>1, <1>2, <1>3, Zenon DEF BlockInv
<1>6. m.windowReads + m.windowWrites = Cardinality(Q)
  BY <1>2, <1>4, <1>5, TypesCount
<1>7. Cardinality(Q) # 0
  <2>1. PICK n \in Nat : n = Len(log)
    BY <1>2
  <2>2. PICK k \in At(b) : \A j \in At(b) : j <= k
    BY <1>2 DEF BlockInv
  <2>3. Q = {i \in At(b) : WindowOf(i) = WindowOf(k)}
    BY ONLY <1>4, <2>1, <2>2, LastWindowOfMax, Zenon
  <2>4. Q # {} /\ IsFiniteSet(Q)
    BY <1>4, <2>1, <2>3, CountUpTo
  <2>. QED BY <2>4, FS_EmptySet
<1>8. m.invalidations <= m.writes + 1
  <2>1. PICK n \in Nat : n = Len(log)
    BY <1>2
  <2>2. PICK W : W = OfType(At(b), "Write")
    OBVIOUS
  <2>3. PICK V : V = Remote(b, "Write")
    OBVIOUS
  <2>4. W \in SUBSET (1 .. n) /\ V \in SUBSET W
    BY <1>4, <2>1, <2>2, <2>3 DEF Remote, OfType
  <2>5. IsFiniteSet(W)
    BY <2>4, CountUpTo
  <2>6. Cardinality(V) <= Cardinality(W)
    BY ONLY <2>4, <2>5, FS_Subset, Zenon
  <2>7. m.invalidations \in Nat /\ m.writes \in Nat
    BY <1>1 DEF Profile
  <2>. QED BY <1>5, <2>2, <2>3, <2>6, <2>7
<1>9. m.reuse <= MaxReuse <=> (Before(b, Len(log)) # 0 => Len(log) - Before(b, Len(log)) <= MaxReuse)
  <2>1. m.reuse = IF Before(b, Len(log)) = 0 THEN 0 ELSE Len(log) - Before(b, Len(log))
    BY <1>1, <1>2 DEF BlockInv
  <2>2. 0 <= MaxReuse
    BY ProfileAssumption
  <2>3. CASE Before(b, Len(log)) = 0
    BY <2>1, <2>2, <2>3, Zenon
  <2>4. CASE Before(b, Len(log)) # 0
    BY <2>1, <2>4, Zenon
  <2>. QED BY <2>3, <2>4, Zenon
<1>10. PICK total : total = m.windowReads + m.windowWrites
  OBVIOUS
<1>11. total # 0 /\ total = Cardinality(InWindow(b))
  BY <1>3, <1>6, <1>7, <1>10
<1>12. m.mode = ModeByLog(b)
  <2>1. m.mode = DecideCoherenceMode(m)
    BY <1>1
  <2>. QED BY <1>3, <1>5, <1>10, <1>11, <2>1 DEF DecideCoherenceMode, ModeByLog
<1>13. ShouldCache(m) <=> CachedByLog(b, Len(log))
  BY <1>3, <1>5, <1>8, <1>9, <1>10, <1>11, <1>12, Zenon DEF ShouldCache, CachedByLog
<1>. QED BY <1>1, <1>12, <1>13

\* For every window size and threshold: what an access leaves as the mode of its
\* block, and whether ShouldCache then admits it, follow from the node's own
\* accesses (ObserveAccess, DecideCoherenceMode, ShouldCache), whatever modes
\* messages have stored before it.
THEOREM DecisionsByAccesses == Spec => DecidedByAccesses
<1>. DEFINE A == \A b \in Blocks : At(b)' # At(b) =>
                   /\ meta'[b].mode = ModeByLog(b)'
                   /\ ShouldCache(meta'[b]) <=> CachedByLog(b, Len(log))'
<1>1. ASSUME ProfileInv, DecidedByLast', [Next]_vars PROVE A
  <2>. SUFFICES ASSUME NEW b \in Blocks, At(b)' # At(b)
                PROVE  /\ meta'[b].mode = ModeByLog(b)'
                       /\ ShouldCache(meta'[b]) <=> CachedByLog(b, Len(log))'
    OBVIOUS
  <2>1. log' # log
    BY DEF At
  <2>2. PICK c \in Blocks, type \in {"Read", "Write"}, local \in BOOLEAN : ObserveAccess(c, type, local)
    BY <1>1, <2>1 DEF Next, StoreMode, vars
  <2>3. PICK x \in Access : log' = Append(log, x) /\ x.block = c
    BY <2>2 DEF ObserveAccess, Access
  <2>4. log \in Seq(Access)
    BY <1>1 DEF ProfileInv, TypeOK
  <2>5. c = b /\ At(b)' = At(b) \cup {Len(log) + 1}
    BY <2>3, <2>4, LogGrows
  <2>6. meta'[b].mode = DecideCoherenceMode(meta'[b]) /\ meta'[b].last = Len(log')
    BY <1>1, <2>2, <2>5, AccessedBlock
  <2>7. At(b)' # {}
    BY <2>5
  <2>. QED BY <1>1, <2>6, <2>7 DEF DecidedByLast
<1>2. ProfileInv' => DecidedByLast'
  BY DecisionOfLog, PTL
<1>3. ProfileInv /\ ProfileInv' /\ [Next]_vars => [A]_vars
  BY <1>1, <1>2
<1>. QED BY <1>3, ProfileAlways, PTL DEF Spec, DecidedByAccesses
=============================================================================
