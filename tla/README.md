# LeoMem in TLA+

LeoMem is a distributed shared memory. Every node owns a region of bytes; a
global address is a home node and an offset in its region. The application calls
`lm_malloc`, `lm_free`, `lm_read`, `lm_write` and `lm_fence`. Remote reads may be
kept in a cache, remote writes may wait in a queue, and control messages tell the
home of a block about invalidations and changes of owner. This directory models
those mechanisms and how they act together, checks them with TLC and proves most of
their safety properties with TLAPS.

## The system and its parts

| Part | Source (under `src/src/`) | Module |
|---|---|---|
| Queue of remote writes, merging | `memory/cache/cache_manager.cc` | `RemoteWriteQueue` |
| Remote write path of `lm_write`, `lm_fence` | `api/access_api.cc`, `api/sync_api.cc` | `WriteBatching`, which implements `StoreBuffer` |
| `lm_read`, `lm_write`, `lm_fence` of several nodes | `api/access_api.cc`, `api/sync_api.cc` | `LeoMem` |
| Shadow cache | `memory/cache/cache_manager.cc` | `ShadowCache` |
| Block profile, coherence mode, cache admission | `memory/cache/cache_manager.cc`, `metadata/block_meta.h` | `BlockProfile` |
| Control mailbox | `transport/rdma_transport.cc` | `ControlMailbox` |
| Requests, acks, timeouts, retries | `api/access_api.cc`, `api/sync_api.cc`, `runtime/context.cc` | `ControlPlane` |
| Block metadata, owner-aware read | `api/access_api.cc`, `metadata/block_table.cc` | `LeoMem`, and for one block `ControlPlane` |
| Allocator, `lm_malloc`, `lm_free` | `memory/global/dsm_allocator.cc`, `api/alloc_api.cc`, `common/utils.cc` | `DsmAllocator` |
| Stub transport | `transport/transport_stub.cc` | batches in `RemoteWriteQueue`, the rest in `LeoMem` |
| RDMA data path and bring-up | `transport/rdma_transport.cc` | `RdmaTransport` |
| Runtime context, init and shutdown | `runtime/context.cc`, `runtime/init.cc` | shutdown and init as actions of each module |
| Statistics | `stats/counters.cc`, `api/admin_api.cc` | three counters, in `WriteBatching` |
| Configuration loader, logging, barrier, benchmarks | | not modelled |

How they interact. An API call first drains the mailbox, handles what it drained
and advances the ack timeouts. `lm_write` then changes the block's metadata, posts
requests if the mode asks for it, and queues or writes the data. `lm_read` looks in
the cache, then asks the owner or the home, and may fill the cache. `lm_fence`
drains, flushes every queue and drains again. The coherence mode of a block comes
from its profile, which `ObserveAccess` updates at every access.

Every node runs one application thread, as in the benchmarks and tests. A call is
therefore one step in the modules about one node. In `ControlPlane` a call is a
series of steps, and the nodes interleave between any two file operations. In
`LeoMem` a call is split where another node can see the difference.

## Modules

**RemoteWriteQueue** has the pure operations. A queued write is a range and a
payload; `QueueRemoteWrite` merges it into the first entry it overlaps or touches
and appends it otherwise. `BatchWrite` is what the stub transport does: it applies
the requests in order and stops at the first one outside the region. Offsets do not
wrap around.

**WriteBatching** is the write path over it. `lm_write` is rejected, written
through, queued, or queued and flushed; `lm_fence` is rejected, flushes everything,
or stops at the first destination whose batch fails. A flush drains the queue
before it writes, as the code does. The modes of the touched blocks and the outcome
of control processing belong to other components and are chosen freely. `Init` picks
whether batching is on. `lm_shutdown` loses what is queued; `lm_init` comes back to
the old regions or, with a new transport, to blank ones. The variable `accepted` is history: each region as it would be if every write that
returned kOk had been applied at once.

**StoreBuffer** is what that path promises an application: a destination moves from
one accepted content to the latest one, never to a part of it or to another order of
the writes; a kOk fence makes everything visible; where writes were lost the
destination is marked failed and the others are not disturbed. `WriteBatching`
implements it with the identity on `memory`, `accepted`, `failed` and `last`.

**LeoMem** composes cache, queues, metadata, messages and the regions of all nodes.
`config` is chosen by `Init`: the clients that run, the transport, the ranges in use,
the mode override, the admission policy and the cache's capacity, batching and its
threshold. A node is the owner of the blocks it has allocated. Over the stub
one process runs, holds private copies of the other regions, and a request's ack is
in its inbox as it is posted. Otherwise clients share the regions by one-sided reads
and writes. `lm_read` is one step: cache, then owner or home, then admission. A read
that the owner does not answer falls back to the home, and one that the home does not
answer fails (`ReadFails`).
`lm_write` posts its requests in one step and writes its data in another (`Transfer`),
and `lm_fence` writes one destination per step (`FenceFlush`). `PostFails`,
`TransferFails` and `FenceFlushFails` are the error returns; a batch that fails may
have reached the home in part (`DeliveredInPart`). Metadata is keyed by
block index alone, as in `BlockTable`. What it abstracts:

- a read by the transport is one step, and so is the delivery of a write or of a whole
  batch (`Delivered`): neither a torn range nor a batch under way is visible;
- a request is handled by a step of its own between two calls (`HandleMessage`) or
  dropped (`DropMessage`); loss, retry and timeout in detail are in `ControlPlane`;
- the mode that `ObserveAccess` decides and the entries that `InsertCached` evicts
  are free choices; `BlockProfile` and `ShadowCache` say which occur when;
- addresses lie inside allocations, which `DsmAllocator` is about.

`order`, `seen`, `released` and `acquired` are history: the writes of each cell in
their order at the home, the latest each client has met, and what fences have
released and acquired.

**ShadowCache** has the map, the recency list and the byte counter as three
variables, which every operation updates separately. A lookup that misses its exact
key may hit any entry that contains the range. `newer` is history: the pairs of keys
of which the first was used after the second. The bytes of a set of entries are
counted one by one. Payloads and the eviction counter decide nothing and are left out.

**BlockProfile** has the fields of `BlockMeta` that `ObserveAccess` maintains and
the two decisions made from them. Ratios are compared by cross-multiplication,
which agrees with the code's doubles for the small counts involved. Blocks of
different homes at one index share a `BlockMeta`, so an access is local or remote
whatever the block. `log` is history.

**ControlMailbox** has the file operations. A message is a file named by receiver,
sender and sequence number. It is visible before it is filled; a drain that meets
it then removes it and the message is lost. Files are handled in the order of their
names, in which 10 precedes 9.

**ControlPlane** has the calls of several nodes on one block. `BeginCall` drains;
`HandleAck` and `HandleRequest` take the drained messages one by one;
`AdvanceTimeouts` and `TimeOut` are the two outcomes of
`AdvanceControlAckTimeouts`; `PostNext` and `Close` are the two halves of posting a
file; `FinishRead`, `WriteAtHome`, `WriteRemote`, `FinishWrite`, `DrainAgain` and
`FinishFence` are the rest of each call, and `FlushFails` is an `lm_fence` that
returns before its second drain; `Restart` is shutdown and init over the
same exchange directory. One drain reads all its files in one step: a file that
is created during the scan is seen by the next drain. `hist` is history, and counts
polls only up to the number that makes a request time out.

**DsmAllocator** is the bump allocator with `size_t` arithmetic modulo `Word`.
Requests may be of any size that a `size_t` holds. `wrapped` is history: it is set when
`next_offset_ + aligned_size` passes 2^64 in an `Allocate` that goes on. The code compares
the wrapped sum with the region, so such a request passes for one that fits and moves
`next_offset_` back. Until then the properties hold; after it they do not, and they say
so. A request whose rounding alone wraps (to zero) is caught by the range check of
`lm_malloc` and is not excluded.

**RdmaTransport** is bring-up and one-sided requests. Bring-up takes the peers in
the order of their ids: write a file for the peer, wait for the peer's, connect. A
file is empty between its creation and its filling, and files of an earlier life
stay. A data call posts requests and then waits for as many completions; `left` is
what it still waits for. The network card is external: it completes the requests of
a queue pair in order, and it gives up a request to a peer that has not connected
yet or has been restarted, after which the queue pair stays in error. Polling the
completion queue may fail at any time (`PollFails`), which ends the call and leaves its
requests counted. `leftover` and
`lost` are history.

`MC*` modules give the constants their values. Operators under the heading
"Mutants" are deliberate errors. None is part of a specification; each one is a way
to confirm that a property notices the error.

The RDMA transport does not compile with verbs enabled: line 550 passes a reference
where `TransitionQueuePair` wants a pointer, and `std::min` at line 579 mixes types.
The file is modelled as it is evidently meant to run.

## Runs

| Run | Instance | Checks | Result |
|---|---|---|---|
| `write_batching_order` | batching off, and on with thresholds 2 and 1; 2 destinations, 4-byte regions, 3 writes, restarts | `TypeOK` `ProgramOrder` `FenceReleases` `NoFabricatedByte` `QueueBelowThreshold` `StatsBalance` `WriteThroughReleased` `ImplementsStoreBuffer` | holds |
| `write_batching_reorder` | threshold 3 | `ProgramOrder` | violated |
| `write_batching_dropped` | writes beyond the region | `AcceptedWritesReleased` | violated |
| `shadow_cache` | 6 keys, 4 bytes | `TypeOK` `LruIsRecency` `BytesAccounted` `CapacityRespected` `EvictsLeastRecent` `EvictsNoMoreThanNeeded` | holds |
| `control_plane_acks` | 2 nodes, 2 writes, 1 retry, 1 file error, drains of one message | `TypeOK` `AckedWasHandled` `PostsWithinBudget` `HandledAtMostPosted` `TimeoutNotEarly` | holds |
| `control_plane_liveness` | 2 nodes, 1 write, 1 retry, 1 restart | `RequestsSettle` `TimeoutNotEarly` | holds |
| `dsm_allocator` | region of 18 bytes, blocks of 4, words of 64 values | `TypeOK` `AllocationsDisjoint` `BlocksPrivate` `ValidationExact` `FittingIsGranted` | holds |
| `block_profile` | 2 blocks, windows of 3, 5 accesses | `TypeOK` `WindowProfileExact` `ReuseDistanceExact` `DecidedByAccesses` | holds |
| `rdma_transport` | 3 nodes, one of them posts 3 requests, 1 restart | `TypeOK` `CountCovers` `OkMeansDone` `CallReturns` `BringUpSettles` | holds |
| `leomem` | 11 configurations of up to 3 clients, 2 or 3 writes each | `TypeOK` `AtomicReads` `ReadsOwnCells` `StubAcksAtOnce` `SessionOrder` | holds |
| `leomem_release` | `baseline_fixed_si.conf` over the stub | `ReleaseVisible` | violated |
| `leomem_alias` | `baseline_fixed_wi.conf` over the stub, two homes | `ReleaseVisible` | violated |

What the `leomem` run says of the consistency an application gets:

- `AtomicReads`: in WI mode a read returns the home's content of that moment. It
  needs `Unaliased`: no client uses blocks of two other homes at one index.
- `ReadsOwnCells`: in every mode a byte that is read was written to that very cell.
  It also needs `Unaliased`.
- `SessionOrder`: if writes leave in their own call, ranges do not overlap and the
  clients are `Unaliased`, then until a call fails no client goes back in the order of a
  cell, although other clients' writes invalidate nothing of its cache.
- `StubAcksAtOnce`: over the stub no request waits for its ack, also after restarts
  that reuse request ids.

In the `block_profile` run, `DecidedByAccesses` compares what an access leaves (the
mode, and whether `ShouldCache` admits the block) with a decision made from the log of
the node's accesses alone. Messages store modes between the accesses and must leave no
trace in the next decision.

The violated properties are statements of the repository's own documents, all of
them invariants of `src/doc/leomem_design_review.md` section 13. `PROJECT.json`
quotes each one under `findings`.

- *Reordering.* With x and z queued as separate entries, a write that touches both
  is merged into x. The flush then applies the old z over it. It takes three queue
  places, so `remote_write_batch_threshold >= 3`; the files in `src/configs` have at
  most 2, `src/benchmarks/micro/phase_shift_modes.cc` has 3.
- *Dropped batch.* A flush that fails has already emptied its queue. Earlier writes
  that returned kOk are gone, and the next fence returns kOk.
- *Stale cache after a release.* A read between a queued write and the fence does not
  look at the queue and caches the home's old content. The fence flushes the queue
  and leaves the cache, so the node that wrote reads the old content after its own
  fence.
- *Aliased blocks.* Blocks of two homes at one index share a `BlockMeta`. Its owner,
  set by an access to one of them, redirects a read of the other to the wrong region.

Two more configurations, `ControlPlaneOwners.cfg` and `ControlPlaneVersion.cfg` with
module `MCControlPlane`, show statements of the same section to fail. `SingleOwner`
(line 611): an Adaptive write makes the writer owner in its own metadata and tells
only the home. `VersionProgress` (line 619): `DrainControl` in `lm_fence` ignores the
version of an invalidation that the other calls store.

### Bounds

- Writes: three calls are enough to fill a queue of two, flush it at the threshold or
  by a fence, merge, and queue again for the other destination; the ranges overlap, touch, lie apart and cross the end of
  the region. Two byte values tell old from new. The destinations are symmetric.
- LeoMem: each configuration asks for one hard combination, because all of them in one
  are out of reach: overlapping ranges in WI mode; modes chosen per access over single
  cells, and over a range of two blocks with a failure; SI without batching; two
  writers of a third node's block; three clients of one home; two clients of two homes;
  the stub with overlapping ranges and queued writes, with a cache without limit and with
  one of a single byte; a batch of two writes that fails in part; and blocks at one index
  of two homes with a read that fails. Each write has a byte of its own. The view
  leaves out `released` and `acquired`, which only `ReleaseVisible` reads and no
  action tests.
- Cache: the keys include an exact key, containing ones, a partial overlap, the same
  offsets at another home, and one larger than the cache. Nothing bounds the number
  of operations.
- Control: `MaxWrites`, `MaxErrors` and `MaxRestarts` bound writes, files that
  cannot be created and restarts; reads and fences are unbounded. The acks run starts
  at sequence number 8, so names pass from 9 to 10. With one retry a request and its
  repetition can be under way together. Sequence numbers stay below 100, which the
  name order relies on.
- Allocator: the region is not a multiple of the block size, and sizes lie around
  one and two blocks, at 0, above the region and next to the word size, where the sum
  or the rounding wraps. Once the sum has wrapped the view leaves out `granted`, which
  no action reads and only `TypeOK` then looks at.
- Profile: five accesses cross one window boundary, with both blocks on either side.
  The thresholds for ratios are the defaults of `Config`.
- RDMA: three nodes are the least for which a circle of waits is not simply two
  nodes waiting for each other. Three requests allow a batch that stops early, a call
  that meets its leftovers, and a fence. Deadlock is not checked: a cluster in which
  a node has given up really stops, and so does a fence after a failed request.

### Fairness

`RequestsSettle` assumes weak fairness of a node's call steps and of beginning a
call: threads keep running, and the application keeps calling. The second is
needed, because nothing but an API call drains the mailbox or advances a timeout.
There is no fairness for the delivery of a message: every file may be drained while
it is empty. The property then holds because the retries run out and the call
returns kTimedOut.

`CallReturns` and `BringUpSettles` assume that threads run and that the card
completes every request with success or failure, as a reliable connection does after
its retries. The bootstrap timeout is not fair, so bring-up must settle without it.
`CallReturns` is about the nodes of `Clients`, whose applications call; the others only
come up and serve. It says nothing after a failed request: `PollCompletions` then keeps
counting completions it has thrown away, and a later fence waits forever.

## Proofs

The theorems hold for every value of the constants that the named assumptions admit.
Every invariant and action property that a passing run checks is proved, except
`SessionOrder` and the liveness properties. Where a property is not inductive as it
stands, the proof is about a stronger invariant, which is named below and was checked
with TLC before it was proved.

Counters of the code are related to cardinalities (bytes as pairs of key and offset,
requests as pairs of peer and number), and one step adds or removes known elements; so
no induction over the data is needed. `EveryPlaceTaken` says that in a finite strict
order some element has exactly k before it, for every k below the number of elements.
This is why a scan in the order of file names, and a list from which entries are erased,
are well defined.

**WriteBatchingProofs**, for every region size, set of destinations, set of ranges,
set of byte values and number of writes.

- `TypeCorrect`: `TypeOK`. The queue type says that a payload has exactly the offsets
  of its range, so a merge that gets its bounds wrong is a type error.
- `NoByteFabricated`, `QueuesBounded` and `StatsAlwaysBalance`: `NoFabricatedByte`,
  `QueueBelowThreshold` and `StatsBalance`, for all thresholds. The inductive invariant
  `QueueInv` joins them with `TypeOK`. `MergeHasNoGap` is the reason no zero survives:
  ranges that overlap or touch cover their union. `ThresholdBound` shows that no call
  uses a threshold above the SI threshold.
- `WriteThroughReleases`: with batching off, a kOk fence covers every accepted write.
  The invariant `ThroughInv` says that queues stay empty and memory equals `accepted`.
- `ProgramOrderKept` and `FencesRelease`: with `SIThreshold <= 2`, `ProgramOrder` and
  `FenceReleases`. The invariant `OrderInv` adds `QueueBelowThreshold`: a queue holds
  at most one entry between calls, so the first mergeable entry is the only one, and
  `QueueOrder` shows that merging or appending then has the effect of applying the
  write last. The bound is sharp, as `write_batching_reorder` shows for 3.
- `WriteBatchingImplementsStoreBuffer`: the refinement, with `SIThreshold <= 2`. One
  lemma per action maps it to an abstract step, under the invariants above. The
  argument is `CaughtUp`: an empty queue of a destination that is not failed means that
  its memory is the accepted content.

**LeoMemProofs**, for every set of nodes, ranges and configurations, with messages in
any order, failures and restarts.

- `ReadsAreAtomic`: `AtomicReads`. The invariant `AtomicInv` says that in WI mode
  nothing is cached, and that the owner a client knows for a block is nobody, the
  client, or a home of a range in use with that block. With `Unaliased` the last is the
  home that is read, so a redirection leads to the same region.
- `LeoMemTypes`: `TypeOK`. The invariant `StateInv` also says whose bytes lie where:
  a region, and every queued write to it, holds only bytes of writes to those very
  cells (`Own`). Merging queued writes and applying batches keep that.
- `ReadsReturnOwnCells`: `ReadsOwnCells`. `ReadInv` adds that the caches hold bytes of
  their own cells. A hit copies a part of an entry at the right place, a miss reads the
  home or its own region by `Unaliased`, and a cached Adaptive write holds its own byte.
- `StubAcksThere`: `StubAcksAtOnce`. The invariant `AcksInv` covers all nodes.

**ShadowCacheProofs**, for every set of keys and capacity, without a bound on the
operations: `ShadowTypes`, `LruAlwaysRecency`, `BytesAlwaysAccounted`,
`CapacityAlwaysRespected`, and the action properties `LeastRecentEvicted` and
`NoMoreEvictedThanNeeded`. The invariant `ShadowInv` says that the list holds the keys
of the map once each in the order of `newer`, which is asymmetric, and that the counter
is the number of resident bytes. The victims are a tail of the list, the shortest that
makes room.

**BlockProfileProofs**, for every number of blocks and accesses, window size and
threshold: `ProfileTypes`, `WindowProfileAlwaysExact`, `ReuseDistanceAlwaysExact`,
and the action property `DecisionsByAccesses`. The invariant `ProfileInv` relates each
field of a profile to the log: the epoch is its length, `last` its last access to the
block, and each counter the number of accesses of its kind, in the window of that access
or in the whole log. `DecisionOfLog` then turns the tests of `DecideCoherenceMode` and
`ShouldCache` into tests of the log; it also shows that two of them are always met after
an access (a window is not empty, and `invalidation_cost` is at most the writes).

**RdmaTransportProofs**, for every number of nodes, requests and restarts:
`TransportTypes`, `CountAlwaysCovers`, `OkAlwaysMeansDone`. The invariant `RdmaInv` adds
that a fence, and every call of a node without leftovers, waits for exactly as many
completions as the counter says.

**DsmAllocatorProofs**, for every word, block and region size and every set of requests
of that word size.

- `AllocatorTypes`, `AllocationsPrivate` and `BlocksArePrivate`: `TypeOK`,
  `AllocationsDisjoint` and `BlocksPrivate`. `TypeOK` keeps `next_offset_` and the
  offsets in the region also after the sum has wrapped. The invariant `AllocInv` says
  that until then `next_offset_` is a block boundary inside the region and that everything handed out
  lies below it, in bytes and in blocks. `AlignUpWraps` treats requests whose rounding
  wraps: their extent is empty.
- `ValidationIsExact`: `ValidationExact`, if twice the region size is below the word
  size; otherwise `offset + size` may wrap in the test.
- `SmallRequestsNeverWrap`: if every request plus a block and the region is at most
  2^64, `wrapped` stays false, and the properties hold without their condition.
- `FittingGranted`: `FittingIsGranted`, from `NoGap`, the part of `AllocInv` that puts
  `next_offset_` at the end of the last allocation.

**ControlPlaneProofs**, for any number of nodes, writes, polls, retries and file
errors, and any limit of the drains. It extends **ControlPlaneLemmas**, which defines
the parts of the inductive invariants and proves what concerns one part alone: what the
mailbox operations return (`FilledOK`, `CreatedOK`), that messages stay well formed
wherever they are, and that a step keeps the budgets and the acks.

- `TimeoutsNotEarly`: `TimeoutNotEarly`, restarts included. The invariant `ClockInv`
  relates the two counters of a pending entry to the polls really made: each entry has
  been polled at least `Charged` times. `IdInv` keeps request ids within the table: a
  write draws at most one.
- `ControlTypes`: `TypeOK`, restarts included. `ControlInv` adds what a call holds in
  each of its phases (`PhaseInv`), and that messages and metadata carry versions made
  so far (`MailInv`, `MetaInv`); without these the version counters have no bound.
- `RetriesBounded`: `PostsWithinBudget`, restarts included. `BudgetInv` counts the retry
  under way too: it is charged when the timeouts advance and posted some steps later.
- `AcksFollowHandling`: `AckedWasHandled`, for `MaxRestarts = 0`. `AckInv` says that
  every ack in a file, an inbox or an outbox is for a request that was handled, and
  that a request posted and no longer pending was handled.
- `PostsHandledOnce`: `HandledAtMostPosted`, for `MaxRestarts = 0`. `CopiesInv` counts
  where the posts of a request can be: handled, in a file, drained, or being written.

The last two need `MaxRestarts = 0` because of the code. A restarted node draws its
request ids from 1 again while files of its earlier life are still in the directory, so
an old ack or an old request counts for a new id.

Assumptions are the named ones of the modules: sizes are naturals, regions and blocks
are not empty, 0 is not an application byte, thresholds and budgets are naturals, node
ids are 16-bit numbers below the invalid one, and in `LeoMem` a region is not larger than
the address space. Keeping 0 apart from the application's bytes tells fill from data.
TLC evaluates them on every run.

Only model-checked:

- `RequestsSettle`, `CallReturns` and `BringUpSettles`: liveness and ENABLED are beyond
  TLAPS.
- `SessionOrder`: it relates the order of the writes at the home to what each client
  has met in cache, queue or region, and its invariant has not been worked out.
- That `Without` of `ShadowCache` filters a list as `SelectSeq` does, which TLC
  evaluates as an assumption of `MCShadowCache`.

## What is not modelled

- The text parser of the configuration: it has no state, and the modules quantify
  over the configurations it can produce.
- Logging, and statistics that are only incremented and read.
- `lm_barrier`: it tests that the runtime is initialized, returns kOk and changes
  nothing.
- An `Init` that fails half-way: the runtime stays uninitialized, so other calls are
  refused, and the next `Init` replaces every object.
- Benchmarks and the smoke test: they were read as statements of what is expected.
- Two threads of one process: no benchmark or test runs them.
