---------------------------- MODULE WriteBatching ----------------------------
(***************************************************************************)
(* The remote write path of one node: lm_write queues, merges and flushes  *)
(* (src/src/api/access_api.cc), lm_fence flushes what is still queued      *)
(* (src/src/api/sync_api.cc).  One application thread per node issues the  *)
(* calls, so a call is one step here.  The coherence modes of the touched  *)
(* blocks and the outcome of control-message processing are chosen freely: *)
(* they are the state of other components and no value of them is excluded.*)
(***************************************************************************)
EXTENDS RemoteWriteQueue

CONSTANTS Remote,             \* NodeIds of the other nodes
          WriteRanges,        \* <<lo, hi>> ranges the application writes
          SIThreshold,        \* Config::remote_write_batch_threshold
          AdaptiveThreshold,  \* Config::adaptive_mode_batch_threshold
          EnableBatching,     \* the values of Config::enable_write_batching
          MaxWrites           \* bound: number of lm_write calls in a behaviour

ASSUME ConfigAssumption ==
  /\ SIThreshold \in Nat /\ AdaptiveThreshold \in Nat
  /\ EnableBatching \subseteq BOOLEAN
  /\ MaxWrites \in Nat
  /\ WriteRanges \subseteq Ranges

Modes == {"WI", "SI", "Adaptive"}

VARIABLES batching,  \* Config::enable_write_batching, picked by Init
          queue,     \* CacheManager::write_queues_, per destination
          memory,    \* the region of each remote node
          stats,     \* StatsCollector's queued, merged and flushed remote
                     \* write counters, broken down by destination
          last,      \* the last API call that returned, and its status
          writes,    \* number of lm_write calls so far
          accepted,  \* history: each region if every write that returned kOk
                     \* had been applied at once, in program order
          failed     \* history: the destinations that lost queued writes to a
                     \* failed flush or to lm_shutdown

vars == <<batching, queue, memory, stats, last, writes, accepted, failed>>

TypeOK ==
  /\ batching \in BOOLEAN
  /\ queue \in [Remote -> Seq(PendingRemoteWrite)]
  /\ memory \in [Remote -> Regions]
  /\ accepted \in [Remote -> Regions]
  /\ stats \in [Remote -> [queued : Nat, merged : Nat, flushed : Nat]]
  /\ last \in [op : {"lm_init", "lm_write", "lm_fence", "lm_shutdown"}, ok : BOOLEAN]
  /\ writes \in Nat
  /\ failed \subseteq Remote

Init ==
  /\ batching \in EnableBatching
  /\ queue = [d \in Remote |-> <<>>]
  /\ memory = [d \in Remote |-> [x \in Offsets |-> 0]]
  /\ accepted = memory
  /\ stats = [d \in Remote |-> [queued |-> 0, merged |-> 0, flushed |-> 0]]
  /\ last = [op |-> "lm_init", ok |-> TRUE]
  /\ writes = 0
  /\ failed = {}

-----------------------------------------------------------------------------
(* Mutants of the flush rules. *)

\* The queue may grow one entry past the threshold.
ShouldFlushDestinationLate(q, threshold) == Len(q) > threshold

\* The transport's status is dropped: every write is reported as kOk.
WriteThroughUnchecked(d, w) ==
  /\ ~batching
  /\ last' = [op |-> "lm_write", ok |-> TRUE]
  /\ memory' = [memory EXCEPT ![d] = BatchWrite(@, <<w>>)]
  /\ accepted' = [accepted EXCEPT ![d] =
                    [x \in Offsets |-> IF Covers(w, x) THEN w.data[x] ELSE @[x]]]
  /\ UNCHANGED <<queue, stats, failed>>

\* A destination with one queued write is not pending.
PendingDestinationsFull == {d \in Remote : Len(queue[d]) > 1}

-----------------------------------------------------------------------------
AtLeastOne(n) == IF n = 0 THEN 1 ELSE n

EffectiveBatchThreshold(mode) ==
  CASE mode = "WI" -> 1
    [] mode = "Adaptive" -> AtLeastOne(AdaptiveThreshold)
    [] mode = "SI" -> AtLeastOne(SIThreshold)

\* The least threshold of SI mode and of the modes of the touched blocks.
MostAggressiveBatchThreshold(modes) ==
  LET thresholds == {EffectiveBatchThreshold(m) : m \in modes \cup {"SI"}}
  IN CHOOSE t \in thresholds : \A u \in thresholds : t <= u

ShouldFlushDestination(q, threshold) == Len(q) >= AtLeastOne(threshold)

\* Whether QueueRemoteWrite merged: the increment of merged_remote_writes.
Merges(q, w) == IF Mergeable(q, w) = {} THEN 0 ELSE 1

\* The history of a region after a write that returned kOk.
Accept(region, w) ==
  [x \in Offsets |-> IF Covers(w, x) THEN w.data[x] ELSE region[x]]

\* Control messages could not be processed or posted: the call returns their
\* status before it queues anything.
RejectWrite ==
  /\ last' = [op |-> "lm_write", ok |-> FALSE]
  /\ UNCHANGED <<queue, memory, stats, accepted, failed>>

\* enable_write_batching is off: the transport writes at once.
WriteThrough(d, w) ==
  /\ ~batching
  /\ last' = [op |-> "lm_write", ok |-> InRegion(w)]
  /\ memory' = [memory EXCEPT ![d] = BatchWrite(@, <<w>>)]
  /\ accepted' = IF InRegion(w) THEN [accepted EXCEPT ![d] = Accept(@, w)] ELSE accepted
  /\ UNCHANGED <<queue, stats, failed>>

\* Queue or merge; below the threshold the call returns kOk at once.
QueueWrite(d, w, modes) ==
  LET q == QueueRemoteWrite(queue[d], w)
  IN /\ batching
     /\ "WI" \notin modes
     /\ ~ShouldFlushDestination(q, MostAggressiveBatchThreshold(modes))
     /\ queue' = [queue EXCEPT ![d] = q]
     /\ stats' = [stats EXCEPT ![d] =
                    [queued  |-> @.queued + 1,
                     merged  |-> @.merged + Merges(queue[d], w),
                     flushed |-> @.flushed]]
     /\ last' = [op |-> "lm_write", ok |-> TRUE]
     /\ accepted' = [accepted EXCEPT ![d] = Accept(@, w)]
     /\ UNCHANGED <<memory, failed>>

\* A mutant: a write of a WI block goes to the transport past the queued ones.
QueueWriteAndFlushAlone(d, w, modes) ==
  /\ batching /\ "WI" \in modes /\ InRegion(w)
  /\ memory' = [memory EXCEPT ![d] = BatchWrite(@, <<w>>)]
  /\ accepted' = [accepted EXCEPT ![d] = Accept(@, w)]
  /\ last' = [op |-> "lm_write", ok |-> TRUE]
  /\ UNCHANGED <<queue, stats, failed>>

\* Queue or merge, then FlushDestination: the queue is drained before the
\* batch is written, so a batch that fails is gone from the queue.
QueueWriteAndFlush(d, w, modes) ==
  LET q == QueueRemoteWrite(queue[d], w)
      ok == BatchSucceeds(q)
  IN /\ batching
     /\ \/ "WI" \in modes
        \/ ShouldFlushDestination(q, MostAggressiveBatchThreshold(modes))
     /\ queue' = [queue EXCEPT ![d] = <<>>]
     /\ memory' = [memory EXCEPT ![d] = BatchWrite(@, q)]
     /\ stats' = [stats EXCEPT ![d] =
                    [queued  |-> @.queued + 1,
                     merged  |-> @.merged + Merges(queue[d], w),
                     flushed |-> @.flushed + (IF ok THEN Len(q) ELSE 0)]]
     /\ last' = [op |-> "lm_write", ok |-> ok]
     /\ accepted' = IF ok THEN [accepted EXCEPT ![d] = Accept(@, w)] ELSE accepted
     /\ failed' = IF ok THEN failed ELSE failed \cup {d}

\* IsInitialized: other calls return kNotInitialized at once.
Running == last.op # "lm_shutdown"

lm_write(d, w, modes) ==
  /\ Running
  /\ writes < MaxWrites
  /\ writes' = writes + 1
  /\ UNCHANGED batching
  /\ \/ RejectWrite
     \/ WriteThrough(d, w)
     \/ QueueWrite(d, w, modes)
     \/ QueueWriteAndFlush(d, w, modes)

-----------------------------------------------------------------------------
PendingDestinations == {d \in Remote : queue[d] # <<>>}

\* Drain each destination of todo and write its batch; the batches of done
\* are the ones that succeed.
Flush(todo, done) ==
  /\ queue' = [d \in Remote |-> IF d \in todo THEN <<>> ELSE queue[d]]
  /\ memory' = [d \in Remote |-> IF d \in todo THEN BatchWrite(memory[d], queue[d])
                                              ELSE memory[d]]
  /\ stats' = [d \in Remote |->
                [queued  |-> stats[d].queued,
                 merged  |-> stats[d].merged,
                 flushed |-> stats[d].flushed + (IF d \in done THEN Len(queue[d]) ELSE 0)]]
  /\ failed' = failed \cup (todo \ done)

\* DrainControl fails on entry: nothing is flushed.
RejectFence ==
  /\ last' = [op |-> "lm_fence", ok |-> FALSE]
  /\ UNCHANGED <<queue, memory, stats, failed>>

\* Every batch is written; the transport's Fence and the second DrainControl
\* decide the status.
FenceAll(ok) ==
  /\ \A d \in PendingDestinations : BatchSucceeds(queue[d])
  /\ Flush(PendingDestinations, PendingDestinations)
  /\ last' = [op |-> "lm_fence", ok |-> ok]

\* A mutant: every queue is drained up front, so an error drops the batches
\* that were not reached.
FenceUntilErrorDrainingAll(done, bad) ==
  /\ bad \in PendingDestinations \ done
  /\ ~BatchSucceeds(queue[bad])
  /\ \A d \in done : BatchSucceeds(queue[d])
  /\ queue' = [d \in Remote |-> <<>>]
  /\ memory' = [d \in Remote |-> IF d \in done \cup {bad} THEN BatchWrite(memory[d], queue[d])
                                                         ELSE memory[d]]
  /\ failed' = failed \cup {bad}
  /\ last' = [op |-> "lm_fence", ok |-> FALSE]
  /\ UNCHANGED stats

\* The loop visits the destinations in hash order and returns at the first
\* batch that fails: done were flushed before it, the others stay queued.
FenceUntilError(done, bad) ==
  /\ bad \in PendingDestinations \ done
  /\ ~BatchSucceeds(queue[bad])
  /\ \A d \in done : BatchSucceeds(queue[d])
  /\ Flush(done \cup {bad}, done)
  /\ last' = [op |-> "lm_fence", ok |-> FALSE]

lm_fence ==
  /\ Running
  /\ UNCHANGED <<batching, writes, accepted>>
  /\ \/ RejectFence
     \/ \E ok \in BOOLEAN : FenceAll(ok)
     \/ \E done \in SUBSET PendingDestinations, bad \in PendingDestinations :
          FenceUntilError(done, bad)

-----------------------------------------------------------------------------
\* RuntimeContext::Shutdown destroys the cache manager, and its queues with it.
lm_shutdown ==
  /\ Running
  /\ queue' = [d \in Remote |-> <<>>]
  /\ failed' = failed \cup PendingDestinations
  /\ last' = [op |-> "lm_shutdown", ok |-> TRUE]
  /\ UNCHANGED <<batching, memory, stats, writes, accepted>>

\* RuntimeContext::Init with the same configuration.  The stub's copies of the
\* remote regions start over; the regions of other processes stay.
lm_init ==
  /\ ~Running
  /\ stats' = [d \in Remote |-> [queued |-> 0, merged |-> 0, flushed |-> 0]]
  /\ last' = [op |-> "lm_init", ok |-> TRUE]
  /\ \/ UNCHANGED <<memory, accepted, failed>>
     \/ /\ memory' = [d \in Remote |-> [x \in Offsets |-> 0]]
        /\ accepted' = memory'
        /\ failed' = {}
  /\ UNCHANGED <<batching, queue, writes>>

Next ==
  \/ \E d \in Remote, r \in WriteRanges, modes \in (SUBSET Modes) \ {{}} :
       \E data \in [r[1] .. (r[2] - 1) -> Bytes] :
         lm_write(d, [data |-> data, lo |-> r[1], hi |-> r[2]], modes)
  \/ lm_fence
  \/ lm_shutdown
  \/ lm_init

Spec == Init /\ [][Next]_vars

-----------------------------------------------------------------------------
\* Flushing now what is queued for a destination leaves there exactly what the
\* kOk writes of lm_write leave when applied one by one in program order, as
\* long as that destination has lost none of them; a loss at one destination
\* does not disturb another.  Merging into the first mergeable
\* queue entry (QueueRemoteWrite) and early returns of lm_fence put it at risk.
ProgramOrder ==
  \A d \in Remote \ failed :
    ApplyWrites(memory[d], queue[d], 1 .. Len(queue[d])) = accepted[d]

\* After an lm_fence that returned kOk nothing is queued, and a destination
\* that has not lost writes holds every accepted one.
FenceReleases ==
  last = [op |-> "lm_fence", ok |-> TRUE] =>
    /\ \A d \in Remote : queue[d] = <<>>
    /\ \A d \in Remote \ failed : memory[d] = accepted[d]

\* The zero fill of MergeWrites never reaches a queued payload: every byte sent
\* to a destination is one the application wrote.
NoFabricatedByte ==
  \A d \in Remote : \A k \in 1 .. Len(queue[d]) :
    \A x \in DOMAIN queue[d][k].data : queue[d][k].data[x] \in Bytes

\* Between calls a destination has fewer queued writes than the SI threshold,
\* whatever modes the blocks were in: no call leaves a full queue behind.
QueueBelowThreshold ==
  \A d \in Remote : Len(queue[d]) < AtLeastOne(SIThreshold)

\* The counters reported by lm_stats balance: a queued write was merged, is
\* flushed or is still pending, unless a failed flush or a shutdown dropped it.
StatsBalance ==
  \A d \in Remote :
    LET explained == stats[d].merged + stats[d].flushed + Len(queue[d])
    IN /\ explained <= stats[d].queued
       /\ d \notin failed => explained = stats[d].queued

\* A kOk fence covers every write that returned kOk, failed flushes or not.
AcceptedWritesReleased ==
  last = [op |-> "lm_fence", ok |-> TRUE] => memory = accepted

\* With batching off that holds.
WriteThroughReleased == ~batching => AcceptedWritesReleased

\* The queues are a store buffer: seen from a destination, the accepted writes
\* become visible in program order and all at once, at a flush or a fence, and
\* are lost only where the destination is marked failed.
Abstract == INSTANCE StoreBuffer WITH Destinations <- Remote, Cells <- Offsets

ImplementsStoreBuffer == Abstract!Spec
=============================================================================
