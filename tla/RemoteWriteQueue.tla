-------------------------- MODULE RemoteWriteQueue --------------------------
(***************************************************************************)
(* The per-destination queue of remote writes kept by CacheManager         *)
(* (src/src/memory/cache/cache_manager.cc) and what the stub transport     *)
(* does with a drained queue (src/src/transport/transport_stub.cc).        *)
(*                                                                         *)
(* A queued write is the half-open byte range [lo, hi) of one destination  *)
(* region with its payload, a function from the offsets of the range to    *)
(* bytes.  Byte 0 is the fill byte of std::vector<uint8_t>(n, 0): the      *)
(* initial content of a region and the background of a merged payload.     *)
(* The mode and the owner_biased / owner_handoff flags of an entry reach   *)
(* only statistics counters and are left out.                              *)
(***************************************************************************)
EXTENDS Naturals, Sequences

CONSTANTS RegionSize,  \* Config::local_region_size, in bytes
          AddrLimit,   \* end of the offsets an application can address
          Bytes        \* the bytes an application stores, all different from 0

ASSUME SizeAssumption == RegionSize \in Nat \ {0} /\ AddrLimit \in Nat
ASSUME BytesAssumption == 0 \notin Bytes

Offsets == 0 .. (RegionSize - 1)
Regions == [Offsets -> Bytes \cup {0}]

\* The byte ranges of the address space, without wrap-around.
Ranges == {r \in (0 .. AddrLimit) \X (0 .. AddrLimit) : r[1] < r[2]}

\* PendingRemoteWrite: a range and one byte per offset of the range.
PayloadOn(r) == [r[1] .. (r[2] - 1) -> Bytes \cup {0}]
WritesTo(r) == [lo : {r[1]}, hi : {r[2]}, data : PayloadOn(r)]
PendingRemoteWrite == UNION {WritesTo(r) : r \in Ranges}

Covers(w, x) == w.lo <= x /\ x < w.hi

-----------------------------------------------------------------------------
(* Mutants of the merge rules. *)

\* Ranges one byte apart count as adjacent.
CanMergeWritesAcrossGap(current, incoming) ==
  ~(incoming.hi + 1 < current.lo \/ current.hi + 1 < incoming.lo)

\* The queued bytes win over the incoming ones.
MergeWritesKeepingOld(current, incoming) ==
  LET lo == IF current.lo <= incoming.lo THEN current.lo ELSE incoming.lo
      hi == IF current.hi >= incoming.hi THEN current.hi ELSE incoming.hi
  IN [lo |-> lo, hi |-> hi,
      data |-> [x \in lo .. (hi - 1) |->
                  IF Covers(current, x) THEN current.data[x]
                  ELSE IF Covers(incoming, x) THEN incoming.data[x] ELSE 0]]

\* The payload grows and the range keeps its end.
MergeWritesNotExtended(current, incoming) ==
  LET lo == IF current.lo <= incoming.lo THEN current.lo ELSE incoming.lo
      hi == IF current.hi >= incoming.hi THEN current.hi ELSE incoming.hi
  IN [lo |-> lo, hi |-> current.hi,
      data |-> [x \in lo .. (hi - 1) |->
                  IF Covers(incoming, x) THEN incoming.data[x]
                  ELSE IF Covers(current, x) THEN current.data[x] ELSE 0]]

-----------------------------------------------------------------------------
\* The ranges overlap or touch (the source's last two disjuncts are implied).
CanMergeWrites(current, incoming) ==
  ~(incoming.hi < current.lo \/ current.hi < incoming.lo)

\* A zero-filled payload over both ranges, the queued bytes copied first and
\* the incoming bytes over them.
MergeWrites(current, incoming) ==
  LET lo == IF current.lo <= incoming.lo THEN current.lo ELSE incoming.lo
      hi == IF current.hi >= incoming.hi THEN current.hi ELSE incoming.hi
  IN [lo |-> lo, hi |-> hi,
      data |-> [x \in lo .. (hi - 1) |->
                  IF Covers(incoming, x) THEN incoming.data[x]
                  ELSE IF Covers(current, x) THEN current.data[x] ELSE 0]]

\* The queued writes an incoming write can merge with.
Mergeable(q, w) == {k \in 1 .. Len(q) : CanMergeWrites(q[k], w)}

\* The loop of QueueRemoteWrite takes the first one, in queue order.
FirstMergeable(q, w) ==
  CHOOSE k \in Mergeable(q, w) : \A j \in Mergeable(q, w) : k <= j

\* QueueRemoteWrite: merge into the first mergeable entry, else push_back.
QueueRemoteWrite(q, w) ==
  IF Mergeable(q, w) = {}
  THEN Append(q, w)
  ELSE LET k == FirstMergeable(q, w) IN [q EXCEPT ![k] = MergeWrites(q[k], w)]

\* The bounds test of StubTransport::Write.
InRegion(w) == w.hi <= RegionSize

\* BatchWrite stops at the first request that Write refuses.
AppliedRequests(q) ==
  {k \in 1 .. Len(q) : \A j \in 1 .. k : InRegion(q[j])}

BatchSucceeds(q) == \A k \in 1 .. Len(q) : InRegion(q[k])

\* The region after the requests K of q are applied in queue order: each offset
\* holds the byte of the last of them that covers it.
ApplyWrites(region, q, K) ==
  [x \in Offsets |->
     LET covering == {k \in K : Covers(q[k], x)}
     IN IF covering = {} THEN region[x]
        ELSE q[CHOOSE k \in covering : \A j \in covering : j <= k].data[x]]

\* StubTransport::BatchWrite: the destination region it leaves behind.
BatchWrite(region, q) == ApplyWrites(region, q, AppliedRequests(q))
=============================================================================
