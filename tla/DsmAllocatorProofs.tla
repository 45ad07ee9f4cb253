------------------------ MODULE DsmAllocatorProofs ------------------------
(***************************************************************************)
(* Proofs about the allocator, for every word size, block size, region     *)
(* size and set of size_t requests.                                        *)
(***************************************************************************)
EXTENDS DsmAllocator, TLAPS

\* The arithmetic and set solver has half a minute for each leaf.
USE SMTT(30)

\* Every extent is the blocks of an allocation, or is empty.
ExtentsGranted ==
  /\ \A e \in allocs : e.size # 0 => \E g \in granted : g.offset = e.offset /\ AlignUp(g.size) = e.size
  /\ \A g \in granted : [offset |-> g.offset, size |-> AlignUp(g.size)] \in allocs

\* Extents do not overlap, and no two begin at one offset.
ExtentsApart ==
  \A e, f \in allocs : e # f =>
    \/ e.offset < f.offset /\ e.offset + e.size <= f.offset
    \/ f.offset < e.offset /\ f.offset + f.size <= e.offset

\* next_offset_ is the end of the last allocation, unless a request whose
\* rounding wrapped has left an empty extent.
NoGap ==
  (\A e \in allocs : e.size # 0) =>
    next = 0 \/ \E g \in granted : next = g.offset + AlignUp(g.size)

\* As long as no sum has wrapped, next_offset_ is a block boundary of the region,
\* and everything handed out lies below it, in bytes and in blocks.
BumpInv ==
  /\ next = (next \div BlockSize) * BlockSize
  /\ \A e \in allocs : e.offset + e.size <= next
  /\ \A g \in granted : /\ g.size # 0 /\ g.offset + g.size <= next
                        /\ Blocks(g.offset, g.size) \subseteq 0 .. ((next \div BlockSize) - 1)
  /\ AllocationsDisjoint /\ BlocksPrivate
  /\ ExtentsGranted /\ ExtentsApart /\ NoGap

\* The inductive invariant.
AllocInv == TypeOK /\ (~wrapped => BumpInv)

-----------------------------------------------------------------------------
\* A remainder is below the modulus, and a number below it is its own.
LEMMA ModSmall ==
  ASSUME NEW v \in Nat, NEW m \in Nat \ {0}
  PROVE  v % m \in Nat /\ v % m < m /\ (v < m => v % m = v)
OBVIOUS

\* A quotient of naturals is a natural.
LEMMA DivNat ==
  ASSUME NEW v \in Nat, NEW m \in Nat \ {0}
  PROVE  v \div m \in Nat
OBVIOUS

\* Rounding up a request that does not wrap: at least the request, whole blocks.
LEMMA AlignUpSmall ==
  ASSUME NEW size \in Nat, size + BlockSize <= Word
  PROVE  /\ AlignUp(size) = ((size + BlockSize - 1) \div BlockSize) * BlockSize
         /\ (size + BlockSize - 1) \div BlockSize \in Nat
         /\ AlignUp(size) \in Nat
         /\ size <= AlignUp(size) /\ AlignUp(size) < size + BlockSize
<1>1. Word \in Nat \ {0} /\ BlockSize \in Nat \ {0} /\ RegionSize \in Nat
  BY SizesAssumption
<1>2. (size + BlockSize - 1) % Word = size + BlockSize - 1
  BY <1>1, ModSmall
<1>3. DEFINE v == size + BlockSize - 1
<1>4. v \in Nat
  BY <1>1
<1>5. /\ v \div BlockSize \in Nat /\ (v \div BlockSize) * BlockSize \in Nat
      /\ (v \div BlockSize) * BlockSize <= v /\ v < (v \div BlockSize) * BlockSize + BlockSize
  <2> HIDE DEF v
  <2> QED BY <1>1, <1>4
<1> QED BY <1>1, <1>2, <1>5 DEF AlignUp

\* Rounding up a request whose sum with the block size passes 2^64 gives 0.
LEMMA AlignUpWraps ==
  ASSUME NEW size \in Nat, size < Word, Word < size + BlockSize
  PROVE  AlignUp(size) = 0
<1>1. Word \in Nat \ {0} /\ BlockSize \in Nat \ {0}
  BY SizesAssumption
<1> DEFINE v == size + BlockSize - 1
<1>2. v \in Nat /\ Word <= v /\ v - Word \in Nat /\ v - Word < BlockSize
  BY <1>1
<1>3. v % Word \in Nat /\ v % Word < BlockSize
  <2>1. CASE BlockSize <= Word
    <3>1. v < Word + Word
      BY <1>1, <2>1
    <3> HIDE DEF v
    <3> QED BY <1>1, <1>2, <3>1
  <2>2. CASE Word < BlockSize
    <3> HIDE DEF v
    <3> QED BY <1>1, <1>2, <2>2, ModSmall
  <2> QED BY <1>1, <2>1, <2>2
<1>4. (v % Word) \div BlockSize = 0
  <2> HIDE DEF v
  <2> QED BY <1>1, <1>3
<1> QED BY <1>1, <1>4 DEF AlignUp

\* A rounded size is a size_t.
LEMMA AlignUpWord ==
  ASSUME NEW size \in Nat
  PROVE  AlignUp(size) \in 0 .. (Word - 1)
<1>1. Word \in Nat \ {0} /\ BlockSize \in Nat \ {0}
  BY SizesAssumption
<1> DEFINE v == (size + BlockSize - 1) % Word
<1>2. v \in Nat /\ v < Word
  BY <1>1, ModSmall
<1>3. (v \div BlockSize) * BlockSize \in Nat /\ (v \div BlockSize) * BlockSize <= v
  <2> HIDE DEF v
  <2> QED BY <1>1, <1>2
<1>4. AlignUp(size) = (v \div BlockSize) * BlockSize
  BY DEF AlignUp
<1> HIDE DEF v
<1> QED BY <1>1, <1>2, <1>3, <1>4

\* What a request does to next_offset_ when Allocate lets it pass and the sum does
\* not wrap: nothing if its rounding wraps, else it moves by the rounded size
\* within the region.
LEMMA EndOfRequest ==
  ASSUME next \in 0 .. RegionSize, NEW size \in Sizes, size # 0,
         Fits((next + AlignUp(size)) % Word), next + AlignUp(size) < Word
  PROVE  \/ /\ AlignUp(size) = 0
            /\ (next + AlignUp(size)) % Word = next
         \/ /\ size + BlockSize <= Word
            /\ AlignUp(size) \in Nat /\ size <= AlignUp(size)
            /\ (next + AlignUp(size)) % Word = next + AlignUp(size)
            /\ next + AlignUp(size) <= RegionSize
<1>1. /\ Word \in Nat \ {0} /\ BlockSize \in Nat \ {0} /\ RegionSize \in Nat
      /\ size \in Nat /\ size < Word /\ next \in Nat
  BY SizesAssumption
<1>2. AlignUp(size) \in Nat
  BY <1>1, AlignUpWord
<1>3. (next + AlignUp(size)) % Word = next + AlignUp(size)
  BY <1>1, <1>2, ModSmall
<1>4. CASE Word < size + BlockSize
  <2>1. AlignUp(size) = 0
    BY <1>1, <1>4, AlignUpWraps
  <2> QED BY <1>1, <1>3, <2>1
<1>5. CASE size + BlockSize <= Word
  <2>1. size <= AlignUp(size)
    BY <1>1, <1>5, AlignUpSmall
  <2> QED BY <1>2, <1>3, <1>5, <2>1 DEF Fits
<1> QED BY <1>1, <1>4, <1>5

\* The blocks of a request at a block boundary: they begin there and end before
\* the next boundary behind the rounded size.
LEMMA BlocksOfRequest ==
  ASSUME next \in Nat, next = (next \div BlockSize) * BlockSize,
         NEW size \in Nat \ {0}, size + BlockSize <= Word,
         next + AlignUp(size) <= RegionSize
  PROVE  LET end == next + AlignUp(size)
         IN /\ end = (end \div BlockSize) * BlockSize
            /\ next \div BlockSize <= end \div BlockSize
            /\ Blocks(next, size) \subseteq (next \div BlockSize) .. ((end \div BlockSize) - 1)
<1>1. Word \in Nat \ {0} /\ BlockSize \in Nat \ {0} /\ RegionSize \in Nat /\ RegionSize < Word
  BY SizesAssumption
<1> DEFINE q == next \div BlockSize
           r == (size + BlockSize - 1) \div BlockSize
           x == next + size - 1
<1>2. /\ AlignUp(size) = r * BlockSize /\ r \in Nat /\ AlignUp(size) \in Nat
      /\ size <= AlignUp(size) /\ AlignUp(size) < size + BlockSize
  BY <1>1, AlignUpSmall
<1>3. q \in Nat /\ next = q * BlockSize
  BY <1>1
<1>4. x \in Nat /\ x % Word = x
  <2>1. x \in Nat /\ x < Word
    BY <1>1, <1>2
  <2> HIDE DEF x
  <2> QED BY <1>1, <2>1, ModSmall
<1>5. x < q * BlockSize + r * BlockSize
  BY <1>1, <1>2, <1>3
<1> HIDE DEF q, r, x
<1>6. q * BlockSize + r * BlockSize = (q + r) * BlockSize
  BY <1>1, <1>2, <1>3
<1>7. ((q + r) * BlockSize) \div BlockSize = q + r
  BY <1>1, <1>2, <1>3
<1>8. x \div BlockSize \in Nat /\ x \div BlockSize <= q + r - 1
  <2>1. x \div BlockSize \in Nat /\ (x \div BlockSize) * BlockSize <= x
    BY <1>1, <1>4
  <2>2. (x \div BlockSize) * BlockSize < (q + r) * BlockSize
    BY <1>1, <1>2, <1>3, <1>4, <1>5, <1>6, <2>1
  <2> QED BY <1>1, <1>2, <1>3, <2>1, <2>2
<1>9. next + AlignUp(size) = (q + r) * BlockSize
  BY <1>2, <1>3, <1>6
<1>10. Blocks(next, size) = q .. (x \div BlockSize)
  BY <1>4 DEF Blocks, q, x
<1> DEFINE e == next + AlignUp(size)
<1>11. e \div BlockSize = q + r /\ e = (q + r) * BlockSize
  BY <1>7, <1>9
<1>12. next \div BlockSize = q
  BY DEF q
<1> HIDE DEF e
<1>13. /\ e = (e \div BlockSize) * BlockSize
       /\ next \div BlockSize <= e \div BlockSize
       /\ Blocks(next, size) \subseteq (next \div BlockSize) .. ((e \div BlockSize) - 1)
  BY <1>2, <1>3, <1>8, <1>10, <1>11, <1>12
<1> QED BY <1>13 DEF e

-----------------------------------------------------------------------------
\* lm_malloc's own range check refuses an address with an empty extent.
LEMMA EmptyExtentRefused ==
  ASSUME NEW A \in SUBSET Extent, NEW o \in Nat, NEW x \in A, x.offset = o,
         \A e \in A : e.offset = o => e.size = 0,
         NEW size \in Nat, size # 0, size < Word
  PROVE  ~ValidateRange(A, o, size)
<1>1. Word \in Nat \ {0}
  BY SizesAssumption
<1>2. SUFFICES ASSUME NEW e \in ExtentBelow(A, o), (o - e.offset + size) % Word <= e.size
               PROVE  FALSE
  BY DEF ValidateRange
<1>3. e \in A /\ e.offset \in Nat /\ e.offset <= o /\ x.offset <= e.offset
  BY DEF ExtentBelow, Extent
<1>4. e.offset = o /\ e.size = 0
  BY <1>3
<1>5. (o - e.offset + size) % Word = size
  <2>1. o - e.offset + size = size
    BY <1>3, <1>4
  <2>2. size % Word = size
    BY <1>1, ModSmall
  <2> QED BY <2>1, <2>2
<1> QED BY <1>2, <1>4, <1>5

\* It lets an address pass whose extent is as large as the request.
LEMMA NewExtentAccepted ==
  ASSUME NEW A \in SUBSET Extent, NEW o \in Nat, NEW x \in A, x.offset = o,
         \A e \in A : e.offset <= o,
         NEW size \in Nat, size # 0, size <= x.size,
         o + x.size <= RegionSize, o + x.size < Word
  PROVE  ValidateRange(A, o, size)
<1>1. Word \in Nat \ {0} /\ RegionSize \in Nat /\ x.size \in Nat
  BY SizesAssumption DEF Extent
<1>2. x \in ExtentBelow(A, o)
  BY DEF ExtentBelow
<1>3. o - x.offset + size = size /\ size % Word = size
  BY <1>1, ModSmall
<1>4. (o + size) % Word = o + size
  <2>1. o + size \in Nat /\ o + size < Word
    BY <1>1
  <2> QED BY <1>1, <2>1, ModSmall
<1>5. (o - x.offset + size) % Word <= x.size /\ (o + size) % Word <= RegionSize
  BY <1>1, <1>3, <1>4
<1> QED BY <1>2, <1>5 DEF ValidateRange

\* A request that Allocate lets pass but lm_malloc does not grant: next_offset_
\* may move, an empty extent may be added, nothing is handed out.
LEMMA UngrantedKeeps ==
  ASSUME TypeOK, BumpInv, ~wrapped, ~wrapped', NEW size \in Sizes, size # 0,
         next' = next \/ (/\ size + BlockSize <= Word
                          /\ next' = next + AlignUp(size)
                          /\ next' <= RegionSize),
         NEW x \in Extent, x.size = 0, x.offset = next,
         allocs' = allocs \cup {x},
         x \in allocs \/ \A e \in allocs : e.offset # next,
         UNCHANGED <<table, granted>>
  PROVE  BumpInv'
<1>1. /\ Word \in Nat \ {0} /\ BlockSize \in Nat \ {0} /\ RegionSize \in Nat
      /\ size \in Nat
  BY SizesAssumption
<1>2. /\ next \in Nat /\ allocs \subseteq Extent /\ granted \subseteq Extent
      /\ next = (next \div BlockSize) * BlockSize
  BY DEF BumpInv, TypeOK
<1>3. /\ next' \in Nat /\ next <= next' /\ next' = (next' \div BlockSize) * BlockSize
      /\ next \div BlockSize <= next' \div BlockSize
  <2>1. CASE next' = next
    BY <1>1, <1>2, <2>1
  <2>2. CASE /\ size + BlockSize <= Word
             /\ next' = next + AlignUp(size)
             /\ next' <= RegionSize
    <3>1. AlignUp(size) \in Nat
      BY <1>1, <2>2, AlignUpSmall
    <3>2. next' \in Nat /\ next <= next'
      BY <1>2, <2>2, <3>1
    <3>3. /\ next' = (next' \div BlockSize) * BlockSize
          /\ next \div BlockSize <= next' \div BlockSize
      BY <1>1, <1>2, <2>2, BlocksOfRequest
    <3> QED BY <2>2, <3>2, <3>3
  <2> QED BY <2>1, <2>2
<1>4. next \div BlockSize \in Nat /\ next' \div BlockSize \in Nat
  BY <1>1, <1>2, <1>3, DivNat, Zenon
<1>6. /\ \A e \in allocs' : e.offset + e.size <= next'
      /\ \A g \in granted' : /\ g.size # 0 /\ g.offset + g.size <= next'
                             /\ Blocks(g.offset, g.size) \subseteq 0 .. ((next' \div BlockSize) - 1)
  <2>1. \A e \in allocs : e.offset \in Nat /\ e.size \in Nat /\ e.offset + e.size <= next
    BY <1>2 DEF BumpInv, Extent
  <2>2. \A g \in granted : /\ g.size # 0 /\ g.offset + g.size <= next
                           /\ Blocks(g.offset, g.size) \subseteq 0 .. ((next \div BlockSize) - 1)
                           /\ g.offset \in Nat /\ g.size \in Nat
    BY <1>2 DEF BumpInv, Extent
  <2>3. 0 .. ((next \div BlockSize) - 1) \subseteq 0 .. ((next' \div BlockSize) - 1)
    BY <1>3, <1>4
  <2>4. \A e \in allocs' : e.offset + e.size <= next'
    BY <1>2, <1>3, <2>1
  <2>5. \A g \in granted : g.offset + g.size <= next'
    BY <1>2, <1>3, <2>2
  <2> QED BY <2>2, <2>3, <2>4, <2>5
<1>7. AllocationsDisjoint' /\ BlocksPrivate'
  BY DEF BumpInv, AllocationsDisjoint, BlocksPrivate, Blocks
<1>8. ExtentsGranted'
  BY DEF BumpInv, ExtentsGranted, AlignUp
<1>9. ExtentsApart'
  <2>1. SUFFICES ASSUME NEW e \in allocs, e # x, x \notin allocs
                 PROVE  e.offset < x.offset /\ e.offset + e.size <= x.offset
    BY DEF BumpInv, ExtentsApart
  <2>2. e.offset \in Nat /\ e.size \in Nat /\ e.offset + e.size <= next /\ e.offset # next
    BY <1>2, <2>1 DEF BumpInv, Extent
  <2> QED BY <1>2, <2>2
<1>10. NoGap'
  BY DEF NoGap
<1> QED BY <1>3, <1>6, <1>7, <1>8, <1>9, <1>10 DEF BumpInv, Blocks

\* A request that is granted: its bytes and blocks lie between the old and the
\* new next_offset_, behind everything handed out before.
LEMMA GrantedKeeps ==
  ASSUME TypeOK, BumpInv, ~wrapped, ~wrapped', NEW size \in Sizes, size # 0,
         size + BlockSize <= Word,
         next' = next + AlignUp(size), next' <= RegionSize,
         NEW x \in Extent, x.size = AlignUp(size), x.offset = next,
         allocs' = allocs \cup {x}, \A e \in allocs : e.offset # next,
         NEW h \in Extent, h.offset = next, h.size = size,
         granted' = granted \cup {h},
         table' = table \cup Blocks(next, size)
  PROVE  BumpInv'
<1>1. /\ Word \in Nat \ {0} /\ BlockSize \in Nat \ {0} /\ RegionSize \in Nat
      /\ size \in Nat
  BY SizesAssumption
<1>2. /\ next \in Nat /\ allocs \subseteq Extent /\ granted \subseteq Extent
      /\ next = (next \div BlockSize) * BlockSize
  BY DEF BumpInv, TypeOK
<1>3. AlignUp(size) \in Nat /\ size <= AlignUp(size)
  BY <1>1, AlignUpSmall
<1>4. /\ next' \in Nat /\ next < next' /\ next + size <= next'
      /\ next' = (next' \div BlockSize) * BlockSize
      /\ next \div BlockSize <= next' \div BlockSize
      /\ Blocks(next, size) \subseteq (next \div BlockSize) .. ((next' \div BlockSize) - 1)
  <2>1. next' \in Nat /\ next < next' /\ next + size <= next'
    BY <1>1, <1>2, <1>3
  <2>2. /\ next' = (next' \div BlockSize) * BlockSize
        /\ next \div BlockSize <= next' \div BlockSize
        /\ Blocks(next, size) \subseteq (next \div BlockSize) .. ((next' \div BlockSize) - 1)
    BY <1>1, <1>2, BlocksOfRequest
  <2> QED BY <2>1, <2>2
<1>5. next \div BlockSize \in Nat /\ next' \div BlockSize \in Nat
  BY <1>1, <1>2, <1>4, DivNat
<1>6. \A e \in allocs : e.offset \in Nat /\ e.size \in Nat /\ e.offset + e.size <= next
  BY <1>2 DEF BumpInv, Extent
<1>7. \A g \in granted : /\ g.size # 0 /\ g.offset + g.size <= next
                         /\ Blocks(g.offset, g.size) \subseteq 0 .. ((next \div BlockSize) - 1)
                         /\ g.offset \in Nat /\ g.size \in Nat
  BY <1>2 DEF BumpInv, Extent
<1>10. \A e \in allocs' : e.offset + e.size <= next'
  BY <1>2, <1>3, <1>4, <1>6
<1>11. \A g \in granted' : /\ g.size # 0 /\ g.offset + g.size <= next'
                           /\ Blocks(g.offset, g.size) \subseteq 0 .. ((next' \div BlockSize) - 1)
  <2>1. 0 .. ((next \div BlockSize) - 1) \subseteq 0 .. ((next' \div BlockSize) - 1)
    BY <1>4, <1>5
  <2>2. (next \div BlockSize) .. ((next' \div BlockSize) - 1) \subseteq 0 .. ((next' \div BlockSize) - 1)
    BY <1>5
  <2>3. \A g \in granted : g.offset + g.size <= next'
    BY <1>2, <1>4, <1>7
  <2>4. ASSUME NEW g \in granted'
        PROVE  /\ g.size # 0 /\ g.offset + g.size <= next'
               /\ Blocks(g.offset, g.size) \subseteq 0 .. ((next' \div BlockSize) - 1)
    <3>1. CASE g \in granted
      BY <1>7, <2>1, <2>3, <3>1
    <3>2. CASE g = h
      BY <1>4, <2>2, <3>2
    <3> QED BY <3>1, <3>2
  <2> QED BY <2>4
<1>12. AllocationsDisjoint'
  <2>1. \A g \in granted' : g.offset + g.size <= RegionSize
    BY <1>1, <1>2, <1>4, <1>7
  <2>2. \A g \in granted : g.offset + g.size <= h.offset
    BY <1>7
  <2> QED BY <2>1, <2>2 DEF BumpInv, AllocationsDisjoint
<1>13. BlocksPrivate'
  <2>1. \A g \in granted : Blocks(g.offset, g.size) \cap Blocks(h.offset, h.size) = {}
    <3>1. 0 .. ((next \div BlockSize) - 1)
            \cap ((next \div BlockSize) .. ((next' \div BlockSize) - 1)) = {}
      BY <1>5
    <3> QED BY <1>4, <1>7, <3>1
  <2>2. \A g \in granted' : Blocks(g.offset, g.size) \subseteq table'
    BY DEF BumpInv, BlocksPrivate
  <2>3. \A f, g \in granted' : f # g => Blocks(f.offset, f.size) \cap Blocks(g.offset, g.size) = {}
    BY <2>1, Zenon DEF BumpInv, BlocksPrivate
  <2> QED BY <2>2, <2>3 DEF BlocksPrivate, Blocks
<1>14. ExtentsGranted'
  <2>1. [offset |-> h.offset, size |-> AlignUp(h.size)] = x
    BY DEF Extent
  <2> QED BY <2>1 DEF BumpInv, ExtentsGranted, AlignUp
<1>15. ExtentsApart'
  <2>1. \A e \in allocs : e.offset < x.offset /\ e.offset + e.size <= x.offset
    BY <1>2, <1>6
  <2> QED BY <2>1 DEF BumpInv, ExtentsApart
<1>16. NoGap'
  BY DEF NoGap, AlignUp
<1> QED BY <1>4, <1>10, <1>11, <1>12, <1>13, <1>14, <1>15, <1>16 DEF BumpInv, Blocks

-----------------------------------------------------------------------------
\* The invariant of an empty region.
LEMMA EmptyRegion ==
  Init => AllocInv
<1>1. Word \in Nat \ {0} /\ BlockSize \in Nat \ {0} /\ RegionSize \in Nat
  BY SizesAssumption
<1>2. 0 = (0 \div BlockSize) * BlockSize
  BY <1>1
<1>3. ASSUME Init PROVE TypeOK
  <2>1. next \in 0 .. RegionSize
    BY <1>1, <1>3 DEF Init
  <2> QED BY <1>3, <2>1, Zenon DEF Init, TypeOK
<1>4. ASSUME Init PROVE BumpInv
  BY <1>2, <1>4 DEF Init, BumpInv, AllocationsDisjoint, BlocksPrivate,
                    ExtentsGranted, ExtentsApart, NoGap
<1> QED BY <1>3, <1>4 DEF AllocInv

\* An lm_malloc that gets past Allocate keeps to the region and the word.
LEMMA GrantKeepsType ==
  ASSUME TypeOK, NEW size \in Sizes, Fits((next + AlignUp(size)) % Word), Grant(size)
  PROVE  TypeOK'
<1>1. /\ Word \in Nat \ {0} /\ BlockSize \in Nat \ {0} /\ RegionSize \in Nat
      /\ size \in 0 .. (Word - 1) /\ next \in 0 .. RegionSize
  BY SizesAssumption DEF TypeOK
<1>2. AlignUp(size) \in 0 .. (Word - 1)
  BY <1>1, AlignUpWord
<1>3. next' \in 0 .. RegionSize
  <2>1. (next + AlignUp(size)) % Word \in Nat
    BY <1>1, <1>2, ModSmall
  <2> QED BY <1>1, <2>1 DEF Grant, Fits
<1>4. [offset |-> next, size |-> AlignUp(size)] \in Extent /\ [offset |-> next, size |-> size] \in Extent
  BY <1>1, <1>2 DEF Extent
<1>5. allocs' \subseteq Extent
  BY <1>4 DEF Grant, Emplace, TypeOK
<1>6. Blocks(next, size) \subseteq 0 .. (Word - 1)
  <2> DEFINE x == (next + size - 1) % Word
  <2>1. x \in Int /\ 0 <= x /\ x < Word
    BY <1>1
  <2>2. x \div BlockSize \in Nat /\ x \div BlockSize <= x
    <3> HIDE DEF x
    <3> QED BY <1>1, <2>1
  <2>3. next \div BlockSize \in Nat
    BY <1>1
  <2>4. Blocks(next, size) = (next \div BlockSize) .. (x \div BlockSize)
    BY DEF Blocks
  <2> HIDE DEF x
  <2> QED BY <1>1, <2>1, <2>2, <2>3, <2>4
<1>7. granted' \subseteq Extent /\ table' \subseteq 0 .. (Word - 1) /\ status' \in {"ok", "invalid"}
  <2>1. granted \subseteq Extent /\ table \subseteq 0 .. (Word - 1)
    BY DEF TypeOK
  <2>2. \/ /\ table' = table \cup Blocks(next, size)
           /\ granted' = granted \cup {[offset |-> next, size |-> size]}
           /\ status' = "ok"
        \/ /\ status' = "invalid"
           /\ table' = table /\ granted' = granted
    BY Zenon DEF Grant
  <2>3. granted \cup {[offset |-> next, size |-> size]} \subseteq Extent
    BY <1>4, <2>1, Zenon
  <2>4. table \cup Blocks(next, size) \subseteq 0 .. (Word - 1)
    BY <1>6, <2>1, Zenon
  <2> QED BY <2>1, <2>2, <2>3, <2>4, Zenon
<1>8. wrapped' \in BOOLEAN
  BY Zenon DEF Grant
<1> QED BY <1>3, <1>5, <1>7, <1>8, Zenon DEF TypeOK

\* An lm_malloc that gets past Allocate, with sums that never wrapped.
LEMMA GrantKeeps ==
  ASSUME TypeOK, BumpInv, ~wrapped, ~wrapped', NEW size \in Sizes, size # 0,
         Fits((next + AlignUp(size)) % Word), Grant(size)
  PROVE  BumpInv'
<1>1. /\ Word \in Nat \ {0} /\ BlockSize \in Nat \ {0} /\ RegionSize \in Nat /\ RegionSize < Word
      /\ size \in Nat /\ size < Word
  BY SizesAssumption
<1>2. /\ next \in Nat /\ next < Word /\ next <= RegionSize /\ allocs \in SUBSET Extent
      /\ \A e \in allocs : e.offset \in Nat /\ e.size \in Nat /\ e.offset + e.size <= next
  BY <1>1 DEF BumpInv, TypeOK, Extent
<1>3. AlignUp(size) \in 0 .. (Word - 1)
  BY <1>1, AlignUpWord
<1>4. \/ /\ AlignUp(size) = 0
         /\ next' = next
      \/ /\ size + BlockSize <= Word /\ size <= AlignUp(size)
         /\ next' = next + AlignUp(size)
         /\ next' <= RegionSize
  <2>1. next + AlignUp(size) < Word
    <3>1. ~(next + AlignUp(size) >= Word)
      BY Zenon DEF Grant
    <3> QED BY <1>1, <1>2, <1>3, <3>1
  <2> QED BY <1>2, <2>1, EndOfRequest DEF Grant, TypeOK
<1>5. CASE \E e \in allocs : e.offset = next
  <2>1. PICK x \in allocs : x.offset = next
    BY <1>5
  <2>2. allocs' = allocs
    BY <1>5 DEF Grant, Emplace
  <2>3. \A e \in allocs : e.offset = next => e.size = 0
    BY <1>2
  <2>4. ~ValidateRange(allocs', next, size)
    BY <1>1, <1>2, <2>1, <2>2, <2>3, EmptyExtentRefused
  <2>5. UNCHANGED <<table, granted>>
    BY <2>4 DEF Grant
  <2>6. x \in Extent /\ x.size = 0 /\ allocs' = allocs \cup {x}
    BY <1>2, <2>1, <2>2, <2>3
  <2> QED BY <1>4, <2>1, <2>5, <2>6, UngrantedKeeps
<1>6. CASE \A e \in allocs : e.offset # next
  <2>1. PICK x : x = [offset |-> next, size |-> AlignUp(size)]
    BY Zenon
  <2>2. x \in Extent /\ x.offset = next /\ x.size = AlignUp(size)
    BY <1>1, <1>2, <1>3, <2>1 DEF Extent
  <2>3. allocs' = allocs \cup {x}
    BY <1>6, <2>1 DEF Grant, Emplace
  <2>4. allocs' \in SUBSET Extent /\ x \in allocs'
    BY <1>2, <2>2, <2>3
  <2>5. CASE AlignUp(size) = 0 /\ next' = next
    <3>1. \A e \in allocs' : e.offset = next => e.size = 0
      BY <1>6, <2>2, <2>3, <2>5
    <3>2. ~ValidateRange(allocs', next, size)
      BY <1>1, <1>2, <2>2, <2>4, <3>1, EmptyExtentRefused
    <3>3. UNCHANGED <<table, granted>>
      BY <3>2 DEF Grant
    <3> QED BY <1>6, <2>2, <2>3, <2>5, <3>3, UngrantedKeeps
  <2>6. CASE /\ size + BlockSize <= Word /\ size <= AlignUp(size)
             /\ next' = next + AlignUp(size)
             /\ next' <= RegionSize
    <3>1. \A e \in allocs' : e.offset <= next
      BY <1>2, <2>2, <2>3
    <3>2. ValidateRange(allocs', next, size)
      BY <1>1, <1>2, <2>2, <2>4, <2>6, <3>1, NewExtentAccepted
    <3>3. PICK h : h = [offset |-> next, size |-> size]
      BY Zenon
    <3>4. h \in Extent /\ h.offset = next /\ h.size = size
      BY <1>1, <1>2, <3>3 DEF Extent
    <3>5. granted' = granted \cup {h} /\ table' = table \cup Blocks(next, size)
      BY <3>2, <3>3 DEF Grant
    <3> QED BY <1>6, <2>2, <2>3, <2>6, <3>4, <3>5, GrantedKeeps
  <2> QED BY <1>4, <2>5, <2>6
<1> QED BY <1>5, <1>6

\* Every step keeps the invariant.
LEMMA AllocInvKept ==
  AllocInv /\ [Next]_vars => AllocInv'
<1> SUFFICES ASSUME AllocInv, [Next]_vars PROVE AllocInv'
  OBVIOUS
<1>1. ASSUME UNCHANGED <<next, allocs, table, granted, wrapped>>,
             status' \in {"ok", "invalid", "not_found"}
      PROVE  AllocInv'
  BY <1>1 DEF AllocInv, BumpInv, TypeOK, AllocationsDisjoint, BlocksPrivate, ExtentsGranted,
              ExtentsApart, NoGap, Blocks, AlignUp
<1>2. ASSUME NEW size \in Sizes, lm_malloc(size) PROVE AllocInv'
  <2>1. CASE Refuse
    BY <1>1, <2>1 DEF Refuse
  <2>2. CASE size # 0 /\ Fits((next + AlignUp(size)) % Word) /\ Grant(size)
    <3>1. TypeOK'
      BY <2>2, GrantKeepsType DEF AllocInv
    <3>2. ASSUME ~wrapped' PROVE BumpInv'
      <4>1. ~wrapped
        BY <2>2, <3>2, Zenon DEF Grant
      <4> QED BY <2>2, <3>2, <4>1, GrantKeeps DEF AllocInv
    <3> QED BY <3>1, <3>2 DEF AllocInv
  <2> QED BY <1>2, <2>1, <2>2 DEF lm_malloc
<1>3. ASSUME NEW own \in BOOLEAN, NEW offset \in 0 .. RegionSize, lm_free(own, offset) PROVE AllocInv'
  BY <1>1, <1>3 DEF lm_free
<1>4. CASE Restart
  <2>1. Word \in Nat \ {0} /\ BlockSize \in Nat \ {0} /\ RegionSize \in Nat
    BY SizesAssumption
  <2>2. 0 = (0 \div BlockSize) * BlockSize
    BY <2>1
  <2>3. TypeOK'
    <3>1. next' \in 0 .. RegionSize
      BY <1>4, <2>1 DEF Restart
    <3> QED BY <1>4, <3>1, Zenon DEF Restart, TypeOK
  <2>4. BumpInv'
    BY <1>4, <2>2 DEF Restart, BumpInv, AllocationsDisjoint, BlocksPrivate,
                      ExtentsGranted, ExtentsApart, NoGap
  <2> QED BY <2>3, <2>4 DEF AllocInv
<1>5. CASE UNCHANGED vars
  BY <1>1, <1>5 DEF vars, AllocInv, TypeOK
<1> QED BY <1>2, <1>3, <1>4, <1>5 DEF Next

\* AllocInv holds in every state the allocator reaches.
LEMMA AllocInvHolds ==
  Spec => []AllocInv
<1> QED BY EmptyRegion, AllocInvKept, PTL DEF Spec

-----------------------------------------------------------------------------
\* next_offset_ and every offset lm_malloc hands out stay inside the region and
\* every extent stays a size_t, whatever sizes are asked for, those included whose
\* sum with next_offset_ wraps.
THEOREM AllocatorTypes == Spec => []TypeOK
<1>1. AllocInv => TypeOK
  BY DEF AllocInv
<1> QED BY <1>1, AllocInvHolds, PTL

\* If every request leaves room for the region and a block below 2^64, the sum of
\* next_offset_ and aligned_size never wraps, so the four theorems below hold
\* without their condition.
THEOREM SmallRequestsNeverWrap ==
  ASSUME \A s \in Sizes : s + BlockSize + RegionSize <= Word
  PROVE  Spec => []~wrapped
<1>1. ASSUME TypeOK, ~wrapped, [Next]_vars PROVE ~wrapped'
  <2>1. ASSUME NEW size \in Sizes, Grant(size) PROVE ~wrapped'
    <3>1. /\ Word \in Nat \ {0} /\ BlockSize \in Nat \ {0} /\ RegionSize \in Nat
          /\ size \in Nat /\ next \in 0 .. RegionSize /\ size + BlockSize + RegionSize <= Word
      BY <1>1, SizesAssumption DEF TypeOK
    <3>2. AlignUp(size) \in Nat /\ AlignUp(size) < size + BlockSize
      BY <3>1, AlignUpSmall
    <3>3. next + AlignUp(size) < Word
      BY <3>1, <3>2
    <3>4. ~(next + AlignUp(size) >= Word)
      BY <3>1, <3>2, <3>3
    <3> QED BY <1>1, <2>1, <3>4, Zenon DEF Grant
  <2> QED BY <1>1, <2>1 DEF Next, vars, lm_malloc, Refuse, lm_free, Restart
<1>2. Init => ~wrapped
  BY DEF Init
<1> QED BY <1>1, <1>2, AllocatorTypes, PTL DEF Spec

\* As long as no sum has wrapped, lm_malloc never hands out a byte twice or outside
\* the region, for every word, block and region size and every size_t request.
THEOREM AllocationsPrivate == Spec => []AllocationsDisjoint
<1>1. AllocInv => AllocationsDisjoint
  BY Zenon DEF AllocInv, BumpInv, AllocationsDisjoint
<1> QED BY <1>1, AllocInvHolds, PTL

\* As long as no sum has wrapped, no two allocations of a node share a coherence
\* block, for every word, block and region size: what one allocation's accesses do
\* to block metadata concerns it alone.
THEOREM BlocksArePrivate == Spec => []BlocksPrivate
<1>1. AllocInv => BlocksPrivate
  BY Zenon DEF AllocInv, BumpInv, BlocksPrivate
<1> QED BY <1>1, AllocInvHolds, PTL

\* If twice the region size is below 2^64, an access that passes validation lies
\* in the extent found for it.
LEMMA ValidatedInside ==
  ASSUME TypeOK, BumpInv, RegionSize + RegionSize < Word,
         NEW offset \in 0 .. RegionSize, NEW size \in 1 .. RegionSize,
         ValidateRange(allocs, offset, size)
  PROVE  \E g \in granted : g.offset <= offset /\ offset + size <= g.offset + AlignUp(g.size)
<1>1. Word \in Nat \ {0} /\ RegionSize \in Nat
  BY SizesAssumption
<1>2. PICK e \in ExtentBelow(allocs, offset) : (offset - e.offset + size) % Word <= e.size
  BY DEF ValidateRange
<1>3. e \in allocs /\ e.offset \in Nat /\ e.size \in Nat /\ e.offset <= offset
  BY DEF ExtentBelow, TypeOK, Extent
<1>4. (offset - e.offset + size) % Word = offset - e.offset + size
  <2>1. offset - e.offset + size \in Nat /\ offset - e.offset + size < Word
    BY <1>1, <1>3
  <2> QED BY <1>1, <2>1, ModSmall
<1>5. offset - e.offset + size <= e.size /\ e.size # 0
  BY <1>2, <1>3, <1>4
<1>6. PICK g \in granted : g.offset = e.offset /\ AlignUp(g.size) = e.size
  BY <1>3, <1>5 DEF BumpInv, ExtentsGranted
<1> QED BY <1>3, <1>5, <1>6

\* An access within the blocks of an allocation passes validation.
LEMMA InsideValidated ==
  ASSUME TypeOK, BumpInv, NEW offset \in 0 .. RegionSize, NEW size \in 1 .. RegionSize,
         NEW g \in granted, g.offset <= offset, offset + size <= g.offset + AlignUp(g.size)
  PROVE  ValidateRange(allocs, offset, size)
<1>1. Word \in Nat \ {0} /\ RegionSize \in Nat /\ RegionSize < Word
  BY SizesAssumption
<1>2. PICK e : e = [offset |-> g.offset, size |-> AlignUp(g.size)]
  BY Zenon
<1>3. e \in allocs /\ e.offset = g.offset /\ e.size = AlignUp(g.size)
  BY <1>2 DEF BumpInv, ExtentsGranted
<1>4. /\ next \in Nat /\ next < Word /\ next <= RegionSize
      /\ \A f \in allocs : f.offset \in Nat /\ f.size \in Nat /\ f.offset + f.size <= next
  BY <1>1 DEF BumpInv, TypeOK, Extent
<1>5. e \in ExtentBelow(allocs, offset)
  <2>1. ASSUME NEW f \in allocs, f.offset <= offset PROVE f.offset <= e.offset
    <3>1. CASE f = e
      BY <1>4, <3>1
    <3>2. CASE f # e
      <4>1. \/ e.offset < f.offset /\ e.offset + e.size <= f.offset
            \/ f.offset < e.offset /\ f.offset + f.size <= e.offset
        BY <1>3, <3>2 DEF BumpInv, ExtentsApart
      <4> QED BY <1>3, <1>4, <2>1, <4>1
    <3> QED BY <3>1, <3>2
  <2> QED BY <1>3, <2>1 DEF ExtentBelow
<1>6. /\ offset - e.offset + size \in Nat /\ offset - e.offset + size < Word
      /\ offset - e.offset + size <= e.size
      /\ offset + size \in Nat /\ offset + size < Word /\ offset + size <= RegionSize
  BY <1>1, <1>3, <1>4
<1>7. /\ (offset - e.offset + size) % Word = offset - e.offset + size
      /\ (offset + size) % Word = offset + size
  <2>1. (offset - e.offset + size) % Word = offset - e.offset + size
    BY <1>1, <1>6, ModSmall, Zenon
  <2>2. (offset + size) % Word = offset + size
    BY <1>1, <1>6, ModSmall, Zenon
  <2> QED BY <2>1, <2>2
<1>8. (offset - e.offset + size) % Word <= e.size /\ (offset + size) % Word <= RegionSize
  BY <1>6, <1>7
<1> QED BY <1>5, <1>8 DEF ValidateRange

\* As long as no sum has wrapped, the check of local accesses is exact, if twice the region size is below 2^64:
\* then no offset and size within the region can wrap in it.
THEOREM ValidationIsExact ==
  ASSUME RegionSize + RegionSize < Word
  PROVE  Spec => []ValidationExact
<1>1. AllocInv => ValidationExact
  BY ValidatedInside, InsideValidated DEF AllocInv, ValidationExact
<1> QED BY <1>1, AllocInvHolds, PTL

\* As long as no sum has wrapped, no request that fits behind the allocations made
\* so far is refused.
THEOREM FittingGranted ==
  Spec => FittingIsGranted
<1> DEFINE Due(size) ==
      /\ lm_malloc(size) /\ size # 0
      /\ ~wrapped /\ \A e \in allocs : e.size # 0
      /\ AlignUp(size) # 0
      /\ AlignUp(size) <= RegionSize
      /\ \A g \in granted : g.offset + AlignUp(g.size) + AlignUp(size) <= RegionSize
<1>1. ASSUME AllocInv, NEW size \in Sizes, Due(size)
      PROVE  \E g \in granted' \ granted : g.size = size
  <2>1. /\ Word \in Nat \ {0} /\ BlockSize \in Nat \ {0} /\ RegionSize \in Nat /\ RegionSize < Word
        /\ size \in Nat /\ size < Word
    BY SizesAssumption
  <2>2. /\ next \in Nat /\ next < Word /\ next <= RegionSize /\ allocs \in SUBSET Extent
        /\ \A e \in allocs : e.offset \in Nat /\ e.size \in Nat /\ e.offset + e.size <= next
        /\ \A g \in granted : g.offset \in Nat /\ g.size \in Nat \ {0} /\ g.offset + g.size <= next
    BY <1>1, <2>1 DEF AllocInv, BumpInv, TypeOK, Extent
  <2>3. size + BlockSize <= Word
    BY <1>1, <2>1, AlignUpWraps
  <2>4. AlignUp(size) \in Nat /\ size <= AlignUp(size)
    BY <2>1, <2>3, AlignUpSmall
  <2>5. next + AlignUp(size) <= RegionSize
    <3>1. CASE next = 0
      BY <1>1, <2>4, <3>1
    <3>2. CASE \E g \in granted : next = g.offset + AlignUp(g.size)
      BY <1>1, <3>2
    <3> QED BY <1>1, <3>1, <3>2 DEF AllocInv, BumpInv, NoGap
  <2>6. next + AlignUp(size) \in Nat /\ next + AlignUp(size) < Word
    BY <2>1, <2>2, <2>3, <2>4, <2>5
  <2>7. (next + AlignUp(size)) % Word = next + AlignUp(size)
    BY <2>1, <2>6, ModSmall
  <2>8. Grant(size)
    BY <1>1, <2>5, <2>7 DEF lm_malloc, Fits
  <2>9. \A e \in allocs : e.offset # next
    BY <1>1, <2>2
  <2>10. PICK x : x = [offset |-> next, size |-> AlignUp(size)]
    BY Zenon
  <2>11. x \in Extent /\ x.offset = next /\ x.size = AlignUp(size) /\ allocs' = allocs \cup {x}
    BY <2>1, <2>2, <2>4, <2>5, <2>8, <2>9, <2>10 DEF Extent, Grant, Emplace
  <2>12. allocs' \in SUBSET Extent /\ x \in allocs' /\ \A e \in allocs' : e.offset <= next
    BY <2>2, <2>11
  <2>13. ValidateRange(allocs', next, size)
    BY <1>1, <2>1, <2>2, <2>4, <2>5, <2>6, <2>11, <2>12, NewExtentAccepted
  <2>14. [offset |-> next, size |-> size] \in granted'
    BY <2>8, <2>13 DEF Grant
  <2>15. [offset |-> next, size |-> size] \notin granted
    BY <2>1, <2>2
  <2> QED BY <2>14, <2>15
<1>2. AllocInv /\ [Next]_vars =>
        [\A size \in Sizes : Due(size) => \E g \in granted' \ granted : g.size = size]_vars
  BY <1>1
<1> QED BY <1>2, AllocInvHolds, PTL DEF Spec, FittingIsGranted
=============================================================================
