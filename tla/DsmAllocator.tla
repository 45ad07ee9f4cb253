---------------------------- MODULE DsmAllocator ----------------------------
(***************************************************************************)
(* The bump allocator of a node's DSM region                               *)
(* (src/src/memory/global/dsm_allocator.cc) behind lm_malloc and lm_free   *)
(* (src/src/api/alloc_api.cc).  size_t arithmetic wraps at Word.  The      *)
(* validation of local accesses (ResolveBlockRange, TranslateLocal) is an  *)
(* operator: it changes nothing.                                           *)
(***************************************************************************)
EXTENDS Integers

CONSTANTS Word,        \* 2^64, the number of size_t values
          BlockSize,   \* Config::block_size
          RegionSize,  \* Config::local_region_size
          Sizes        \* the sizes the application asks for

\* Every size is a size_t, and a block is not empty.
ASSUME SizesAssumption ==
  /\ Word \in Nat \ {0} /\ BlockSize \in 1 .. (Word - 1) /\ RegionSize \in 0 .. (Word - 1)
  /\ Sizes \subseteq 0 .. (Word - 1)

VARIABLES next,     \* next_offset_
          allocs,   \* allocations_: offset and aligned size
          table,    \* indexes of the blocks whose metadata say that this node is
                    \* their home and owner
          granted,  \* history: offset and size of each successful lm_malloc
          wrapped,  \* history: next_offset_ + aligned_size has passed 2^64 in an
                    \* Allocate that went on
          status    \* whether the last call succeeded

vars == <<next, allocs, table, granted, wrapped, status>>

Extent == [offset : 0 .. RegionSize, size : 0 .. (Word - 1)]

\* The types.  Whatever is asked for, next_offset_ and every offset handed out
\* lie in the region.
TypeOK ==
  /\ next \in 0 .. RegionSize
  /\ allocs \subseteq Extent
  /\ table \subseteq 0 .. (Word - 1)
  /\ granted \subseteq Extent
  /\ wrapped \in BOOLEAN
  /\ status \in {"ok", "invalid", "not_found"}

Init ==
  /\ next = 0
  /\ allocs = {}
  /\ table = {}
  /\ granted = {}
  /\ wrapped = FALSE
  /\ status = "ok"

-----------------------------------------------------------------------------
(* Mutants. *)

\* The size is not rounded at all.
AlignNot(value) == value

\* One block of the region is kept back.
FitsWithSpare(end) == end + BlockSize <= RegionSize

\* The place of the access within the extent is left out.
ValidateRangeBySize(A, offset, size) ==
  /\ size # 0
  /\ \E e \in A : e.offset <= offset /\ size <= e.size

\* The range starts one block early.
BlocksFromBelow(offset, size) ==
  ((offset \div BlockSize) - 1) .. (((offset + size - 1) % Word) \div BlockSize)

-----------------------------------------------------------------------------
AlignUp(value) == (((value + BlockSize - 1) % Word) \div BlockSize) * BlockSize

\* The comparison of Allocate with the region.
Fits(end) == end <= RegionSize

\* upper_bound and one step back: the extent with the greatest offset that is
\* not above the given one, if there is any.
ExtentBelow(A, offset) ==
  {e \in A : e.offset <= offset /\ \A f \in A : f.offset <= offset => f.offset <= e.offset}

\* ValidateRangeUnlocked, for an address of this node.
ValidateRange(A, offset, size) ==
  /\ size # 0
  /\ \E e \in ExtentBelow(A, offset) :
       /\ (offset - e.offset + size) % Word <= e.size
       /\ (offset + size) % Word <= RegionSize

\* The block indexes ResolveBlockRange returns.
Blocks(offset, size) ==
  (offset \div BlockSize) .. (((offset + size - 1) % Word) \div BlockSize)

\* allocations_.emplace: an entry with that offset stays as it is.
Emplace(A, offset, size) ==
  IF \E e \in A : e.offset = offset THEN A
  ELSE A \cup {[offset |-> offset, size |-> size]}

Refuse ==
  /\ status' = "invalid"
  /\ UNCHANGED <<next, allocs, table, granted, wrapped>>

\* A mutant: the pointer moves by whole blocks of the request only.
GrantWithoutLastBlock(size) ==
  /\ next' = next + (size \div BlockSize) * BlockSize
  /\ allocs' = Emplace(allocs, next, AlignUp(size))
  /\ ValidateRange(allocs', next, size)
  /\ table' = table \cup Blocks(next, size)
  /\ granted' = granted \cup {[offset |-> next, size |-> size]}
  /\ wrapped' = (wrapped \/ next + AlignUp(size) >= Word)
  /\ status' = "ok"

\* A mutant: what Allocate returns is handed out unchecked.
GrantUnchecked(size) ==
  /\ next' = (next + AlignUp(size)) % Word
  /\ allocs' = Emplace(allocs, next, AlignUp(size))
  /\ wrapped' = (wrapped \/ next + AlignUp(size) >= Word)
  /\ table' = table \cup Blocks(next, size)
  /\ granted' = granted \cup {[offset |-> next, size |-> size]}
  /\ status' = "ok"

\* Allocate, then the range check of lm_malloc on what was allocated and the
\* metadata of its blocks.
Grant(size) ==
  LET end == (next + AlignUp(size)) % Word
  IN /\ next' = end
     /\ allocs' = Emplace(allocs, next, AlignUp(size))
     /\ wrapped' = (wrapped \/ next + AlignUp(size) >= Word)
     /\ \/ /\ ValidateRange(allocs', next, size)
           /\ table' = table \cup Blocks(next, size)
           /\ granted' = granted \cup {[offset |-> next, size |-> size]}
           /\ status' = "ok"
        \/ /\ ~ValidateRange(allocs', next, size)
           /\ status' = "invalid"
           /\ UNCHANGED <<table, granted>>

lm_malloc(size) ==
  \/ /\ size = 0 \/ ~Fits((next + AlignUp(size)) % Word)
     /\ Refuse
  \/ /\ size # 0 /\ Fits((next + AlignUp(size)) % Word)
     /\ Grant(size)

\* Free refuses an address that is invalid or of another node, and only looks the
\* offset of the others up.
lm_free(own, offset) ==
  /\ status' = CASE ~own -> "invalid"
                 [] own /\ (\E e \in allocs : e.offset = offset) -> "ok"
                 [] OTHER -> "not_found"
  /\ UNCHANGED <<next, allocs, table, granted, wrapped>>

\* lm_shutdown and the next lm_init.
Restart ==
  /\ next' = 0
  /\ allocs' = {}
  /\ table' = {}
  /\ granted' = {}
  /\ wrapped' = FALSE
  /\ status' = "ok"

Next ==
  \/ \E size \in Sizes : lm_malloc(size)
  \/ \E own \in BOOLEAN, offset \in 0 .. RegionSize : lm_free(own, offset)
  \/ Restart

Spec == Init /\ [][Next]_vars

-----------------------------------------------------------------------------
\* Memory handed out by lm_malloc lies in the region, and no two allocations
\* share a byte, after any sequence of successful and refused requests in which
\* next_offset_ + aligned_size has not passed 2^64: Allocate compares the wrapped
\* sum with the region, so a request that large is granted and moves next_offset_
\* back over earlier allocations.  A request whose rounding alone wraps does no
\* harm.
AllocationsDisjoint ==
  ~wrapped =>
    /\ \A g \in granted : g.offset + g.size <= RegionSize
    /\ \A g, h \in granted : g # h =>
         g.offset + g.size <= h.offset \/ h.offset + h.size <= g.offset

\* No two allocations of a node share a block, so the coherence metadata of one
\* are never those of another, and every block of an allocation has metadata, as
\* long as next_offset_ + aligned_size has not passed 2^64.
BlocksPrivate ==
  ~wrapped =>
    /\ \A g \in granted : Blocks(g.offset, g.size) \subseteq table
    /\ \A g, h \in granted : g # h => Blocks(g.offset, g.size) \cap Blocks(h.offset, h.size) = {}

\* A local access passes validation exactly if it lies within the whole blocks
\* of one allocation: no valid access is refused, and none that runs from one
\* allocation into the next is let through, as long as next_offset_ + aligned_size
\* has not passed 2^64.
ValidationExact ==
  ~wrapped =>
    \A offset \in 0 .. RegionSize, size \in 1 .. RegionSize :
      ValidateRange(allocs, offset, size) <=>
        \E g \in granted : g.offset <= offset /\ offset + size <= g.offset + AlignUp(g.size)

\* A request is refused only if its blocks do not fit behind the allocations
\* made so far: nothing is lost between them, unless next_offset_ + aligned_size
\* has passed 2^64 or a request whose rounding wrapped has left an empty extent
\* behind.
FittingIsGranted ==
  [][\A size \in Sizes :
       /\ lm_malloc(size) /\ size # 0
       /\ ~wrapped /\ \A e \in allocs : e.size # 0
       /\ AlignUp(size) # 0
       /\ AlignUp(size) <= RegionSize
       /\ \A g \in granted : g.offset + AlignUp(g.size) + AlignUp(size) <= RegionSize
       => \E g \in granted' \ granted : g.size = size]_vars
=============================================================================
