------------------------------- MODULE LeoMem -------------------------------
(***************************************************************************)
(* The runtime as an application sees it: lm_read, lm_write and lm_fence   *)
(* over the read cache, the write queues, the block metadata, the control  *)
(* messages and the regions of all nodes (src/src/api/access_api.cc,       *)
(* src/src/api/sync_api.cc).                                               *)
(*                                                                         *)
(* Init picks the configuration, and with it the transport.  Over the stub *)
(* one process runs and holds private copies of the other regions, and a   *)
(* request is acknowledged as it is posted.  Otherwise the clients share   *)
(* the regions by one-sided reads and writes and requests travel between   *)
(* them; the loss, retry and timeout of those are the subject of           *)
(* ControlPlane, and here any call may be refused for them.                *)
(*                                                                         *)
(* A call is split where another node can see the difference: a request is *)
(* posted before its data is written, and lm_fence writes one destination  *)
(* after another.  A node handles requests at the start of its calls: a    *)
(* request is handled by a step of its own while the node is between       *)
(* calls, since it may also have arrived too late for the last drain.      *)
(* The modes ObserveAccess decides and the evictions InsertCached makes    *)
(* are chosen freely; BlockProfile and ShadowCache say which occur when.   *)
(***************************************************************************)
EXTENDS RemoteWriteQueue, Integers

CONSTANTS Nodes,        \* NodeIds; every one is the home of a region
          NoNode,       \* kInvalidNodeId
          BlockSize,    \* Config::block_size
          Configs,      \* the configurations Init picks from
          MaxWrites     \* bound: number of lm_write calls in a behaviour, over all
                        \* configurations

Modes == {"WI", "SI", "Adaptive"}
Keys == {k \in [home : Nodes, lo : Offsets, hi : 1 .. RegionSize] : k.lo < k.hi}

\* The fields of Config that matter here, the nodes that run and the ranges
\* the application uses, all inside allocations of their homes.
ConfigType == [clients : SUBSET Nodes, stub : BOOLEAN, keys : SUBSET Keys,
               override : Modes \cup {"none"},           \* coherence_mode_override
               policy : {"profiled", "always", "never"}, \* cache_admission_policy
               capacity : Nat,                           \* cache_capacity_bytes
               batching : BOOLEAN,                       \* enable_write_batching
               threshold : Nat \ {0},                    \* remote_write_batch_threshold
               writes : 0 .. MaxWrites,  \* bound: number of lm_write calls
               failures : Nat]           \* bound: number of posts, reads and batches
                                         \* that fail

ASSUME LeoMemAssumption ==
  /\ NoNode \notin Nodes
  /\ BlockSize \in Nat \ {0} /\ MaxWrites \in Nat
  /\ RegionSize <= AddrLimit
  /\ Bytes = 1 .. MaxWrites
  /\ Configs \subseteq ConfigType

Cells(k) == k.lo .. (k.hi - 1)

\* The indexes of the blocks of a region, and of those a range touches.
Blocks == {x \div BlockSize : x \in Offsets}
BlocksOf(k) == {x \div BlockSize : x \in Cells(k)}

VARIABLES config,    \* RuntimeContext::config_ of every node
          memory,    \* the region of each node
          node,      \* what each client's process holds
          mail,      \* requests on their way
          last,      \* what the last call read, if it was an lm_read
          issued,    \* history: caller and range of each lm_write; write i stores byte i
          failures,  \* number of failures so far
          order,     \* history: the bytes each cell has held, in order
          seen,      \* history: how far in order each client has read or written
          released,  \* history: how far in order the fences of the writers reach
          acquired   \* history: released at each client's own last fence

vars == <<config, memory, node, mail, last, issued, failures, order, seen, released, acquired>>

NoRead == [node |-> NoNode]
Idle == [op |-> "none"]
EmptyCache == [k \in {} |-> <<>>]

BlockMeta == [owner : Nodes \cup {NoNode}, version : Nat, validated : Nat,
              state : {"Invalid", "Shared", "Owner", "Home"}]

ControlMessage == [to : Nodes, source : Nodes, op : {"InvalidateRange", "OwnerTransfer"},
                   blocks : SUBSET Blocks, version : Nat]

Payload(k) == [Cells(k) -> Bytes \cup {0}]

TypeOK ==
  /\ config \in Configs
  /\ memory \in [Nodes -> Regions]
  /\ \A n \in Nodes :
       /\ node[n].meta \in [Blocks -> BlockMeta]
       /\ DOMAIN node[n].cache \subseteq Keys
       /\ \A k \in DOMAIN node[n].cache : node[n].cache[k] \in Payload(k)
       /\ node[n].queue \in [Nodes -> Seq(PendingRemoteWrite)]
       /\ node[n].pending \subseteq Nat /\ node[n].nextId \in Nat /\ node[n].inbox \in Seq(Nat)
       /\ node[n].call.op \in {"none", "write", "flush", "fence"}
  /\ mail \subseteq ControlMessage
  /\ issued \in Seq([node : Nodes, key : Keys]) /\ failures \in 0 .. config.failures
  /\ order \in [Nodes -> [Offsets -> Seq(Bytes)]]
  /\ seen \in [Nodes -> [Nodes -> [Offsets -> Int]]]
  /\ released \in [Nodes -> [Offsets -> Nat]]
  /\ acquired \in [Nodes -> [Nodes -> [Offsets -> Nat]]]

\* The blocks of the ranges that node n has allocated.
Allocated(n) == UNION {BlocksOf(k) : k \in {l \in config.keys : l.home = n}}

\* RuntimeContext::Init builds the components anew, and lm_malloc makes the node
\* the owner of the blocks it allocates.  inbox is the stub's entry in
\* g_control_inboxes.
FreshNode(n, inbox) ==
  [cache |-> EmptyCache, queue |-> [h \in Nodes |-> <<>>],
   meta |-> [b \in Blocks |-> [owner |-> IF b \in Allocated(n) THEN n ELSE NoNode,
                               version |-> 0, validated |-> 0, state |-> "Home"]],
   pending |-> {}, nextId |-> 1, inbox |-> inbox, call |-> Idle]

FreshMemory == [h \in Nodes |-> [x \in Offsets |-> 0]]

Init ==
  /\ config \in Configs
  /\ memory = FreshMemory
  /\ node = [n \in Nodes |-> FreshNode(n, <<>>)]
  /\ mail = {}
  /\ last = NoRead
  /\ issued = <<>>
  /\ failures = 0
  /\ order = [h \in Nodes |-> [x \in Offsets |-> <<>>]]
  /\ seen = [n \in Nodes |-> FreshMemory]
  /\ released = FreshMemory
  /\ acquired = [n \in Nodes |-> FreshMemory]

-----------------------------------------------------------------------------
(* Histories. *)

Held(s) == {s[i] : i \in 1 .. Len(s)}

\* The place of byte v in the order of cell x of home h: 0 for the initial
\* content, -1 for a byte the cell never held.
Rank(h, x, v) ==
  CASE v = 0 -> 0
    [] v \in Held(order[h][x]) -> CHOOSE i \in 1 .. Len(order[h][x]) : order[h][x][i] = v
    [] OTHER -> -1

\* Client n was told data for range k.
Returned(n, k, data) ==
  /\ last' = [node |-> n, key |-> k, data |-> data]
  /\ seen' = [seen EXCEPT ![n][k.home] =
                [x \in Offsets |-> IF x \in Cells(k) THEN Rank(k.home, x, data[x]) ELSE @[x]]]
  /\ UNCHANGED <<issued, order, released, acquired>>

\* The batch q of client n reaches home h.
Delivered(n, h, q) ==
  LET hit == {x \in Offsets : \E i \in 1 .. Len(q) : Covers(q[i], x)}
  IN /\ memory' = [memory EXCEPT ![h] = BatchWrite(@, q)]
     /\ order' = [order EXCEPT ![h] = [x \in Offsets |->
                    IF x \in hit THEN Append(@[x], memory'[h][x]) ELSE @[x]]]
     /\ seen' = [seen EXCEPT ![n][h] = [x \in Offsets |->
                   IF x \in hit THEN Len(order'[h][x]) ELSE @[x]]]

\* A request of the batch fails after those before it.
DeliveredInPart(n, h, q) == \E i \in 1 .. Len(q) : Delivered(n, h, SubSeq(q, 1, i - 1))

\* A fence of n releases what n wrote and acquires what has been released.
Fenced(n) ==
  LET own(h, x) == {i \in 1 .. Len(order[h][x]) : issued[order[h][x][i]].node = n}
      latest(S, i) == CHOOSE j \in S \cup {i} : \A l \in S \cup {i} : l <= j
  IN /\ released' = [h \in Nodes |-> [x \in Offsets |-> latest(own(h, x), released[h][x])]]
     /\ acquired' = [acquired EXCEPT ![n] = released']

\* A call on the transport fails.
Fails ==
  /\ failures < config.failures
  /\ failures' = failures + 1

-----------------------------------------------------------------------------
(* Mutants. *)

\* A hit copies from the start of the entry.
CachedBytesFromStart(payload, l, k) == [x \in Cells(k) |-> payload[x - k.lo + l.lo]]

\* The payload is one byte short.
InsertCachedShort(cache, k, data, kept) ==
  [l \in (kept \cap DOMAIN cache) \cup {k} |->
     IF l = k THEN [x \in k.lo .. (k.hi - 2) |-> data[x]] ELSE cache[l]]

\* Reads of blocks in WI mode are admitted too.
AdmissionsInAnyMode(modes) ==
  CASE config.policy = "always" -> {TRUE}
    [] config.policy = "never" -> {FALSE}
    [] OTHER -> BOOLEAN

\* Only a write in WI mode invalidates the caller's own cache.
InvalidateOwnInWI(cache, k, modes) ==
  IF \E b \in DOMAIN modes : modes[b] = "WI"
  THEN [l \in {m \in DOMAIN cache : m.home # k.home \/ m.hi <= k.lo \/ k.hi <= m.lo} |-> cache[l]]
  ELSE cache

\* The stub acknowledges the first request of a write only.
PostAckingFirst(n, k, s, ops, version) ==
  LET ids == {s.nextId + i - 1 : i \in 1 .. Len(ops)}
  IN [node |-> [s EXCEPT !.nextId = @ + Len(ops), !.pending = @ \cup ids,
                         !.inbox = IF ops = <<>> THEN <<>> ELSE <<s.nextId>>],
      mail |-> mail]

-----------------------------------------------------------------------------
(* Control messages. *)

SameHomeOverlap(k, home, lo, hi) == k.home = home /\ k.lo < hi /\ lo < k.hi

InvalidateRange(cache, home, lo, hi) ==
  [k \in {l \in DOMAIN cache : ~SameHomeOverlap(l, home, lo, hi)} |-> cache[k]]

\* The blocks' byte range, as a range of node m.source (BlockRangeBaseAddr).
InvalidateBlocks(cache, m) ==
  [k \in {l \in DOMAIN cache : l.home # m.source \/ BlocksOf(l) \cap m.blocks = {}} |-> cache[k]]

\* ProcessPendingControlMessages, at the start of lm_read and lm_write.
HandleInAccess(s, m) ==
  IF m.op = "InvalidateRange"
  THEN [s EXCEPT !.cache = InvalidateBlocks(@, m),
                 !.meta = [b \in Blocks |->
                   IF b \in m.blocks THEN [@[b] EXCEPT !.version = m.version, !.state = "Invalid"]
                   ELSE @[b]]]
  ELSE [s EXCEPT !.meta = [b \in Blocks |->
                   IF b \in m.blocks
                   THEN [@[b] EXCEPT !.owner = m.source, !.version = m.version, !.state = "Owner"]
                   ELSE @[b]]]

\* DrainControl, in lm_fence: an invalidation leaves the metadata alone, a
\* transfer the state.
HandleInFence(s, m) ==
  IF m.op = "InvalidateRange"
  THEN [s EXCEPT !.cache = InvalidateBlocks(@, m)]
  ELSE [s EXCEPT !.meta = [b \in Blocks |->
                   IF b \in m.blocks THEN [@[b] EXCEPT !.owner = m.source, !.version = m.version]
                   ELSE @[b]]]

\* A request is drained and handled.  The handler of lm_fence also runs when
\* the fence is about to finish.
HandleMessage(n, m) ==
  /\ m \in mail /\ m.to = n
  /\ mail' = mail \ {m}
  /\ \/ node[n].call = Idle /\ node' = [node EXCEPT ![n] = HandleInAccess(@, m)]
     \/ /\ node[n].call \in {Idle, [op |-> "fence", todo |-> {}]}
        /\ node' = [node EXCEPT ![n] = HandleInFence(@, m)]
  /\ last' = NoRead
  /\ UNCHANGED <<config, memory, issued, failures, order, seen, released, acquired>>

\* The ack of an earlier message could not be posted: the call returns and this
\* one, drained with it, is not handled.
DropMessage(n, m) ==
  /\ m \in mail /\ m.to = n /\ node[n].call = Idle
  /\ Fails
  /\ mail' = mail \ {m}
  /\ last' = NoRead
  /\ UNCHANGED <<config, memory, node, issued, order, seen, released, acquired>>

\* The drain over the stub: the acks in the inbox complete what is pending.
Drained(s) == [s EXCEPT !.inbox = <<>>, !.pending = @ \ Held(s.inbox)]

\* With control_ack_timeout_polls and control_ack_max_retries both 0, a request
\* still pending after the drain makes the call return kTimedOut.
TimesOut(s) == s.pending # {}

-----------------------------------------------------------------------------
(* Block metadata: keyed by block index alone, whatever the home. *)

\* The greatest version among the blocks of a range.
MaxObservedVersion(meta, k) ==
  LET versions == {meta[b].version : b \in BlocksOf(k)}
  IN CHOOSE v \in versions : \A u \in versions : u <= v

PrepareMetadata(meta, n, k, type) ==
  [b \in Blocks |->
     IF b \notin BlocksOf(k) THEN meta[b]
     ELSE IF k.home = n
     THEN [meta[b] EXCEPT !.state = "Home", !.owner = n,
                          !.version = IF type = "Write" THEN @ + 1 ELSE @]
     ELSE [meta[b] EXCEPT !.owner = IF @ = NoNode THEN k.home ELSE @,
                          !.state = IF @ = "Home" THEN "Shared" ELSE @]]

DominantOwnerNode(meta, k) ==
  LET owner == meta[k.lo \div BlockSize].owner
  IN IF \A b \in BlocksOf(k) : meta[b].owner = owner THEN owner ELSE k.home

AllMetasValidated(meta, k) == \A b \in BlocksOf(k) : meta[b].validated >= meta[b].version

\* Whose region TryOwnerAwareRead reads first.  Its look into the cache repeats the
\* one lm_read has just missed.
ReadSource(meta, n, k) ==
  LET owner == DominantOwnerNode(meta, k)
  IN IF owner # n /\ AllMetasValidated(meta, k) THEN owner ELSE k.home

\* MarkReadValidated and what follows it in TryOwnerAwareRead and lm_read: a
\* read of the home revalidates invalid blocks unless the reader is the owner,
\* a redirected read makes the blocks owned, with one version.
ReadMetadata(meta, n, k, source) ==
  LET redirected == source # k.home
      revalidated == DominantOwnerNode(meta, k) # n
  IN [b \in Blocks |->
        IF b \notin BlocksOf(k) THEN meta[b]
        ELSE IF redirected
        THEN [meta[b] EXCEPT !.validated = meta[b].version, !.state = "Owner",
                             !.version = MaxObservedVersion(meta, k)]
        ELSE IF revalidated /\ meta[b].state = "Invalid"
        THEN [meta[b] EXCEPT !.validated = meta[b].version, !.state = "Shared", !.owner = k.home]
        ELSE [meta[b] EXCEPT !.validated = meta[b].version]]

ApplyWriteMetadata(meta, n, k, modes) ==
  [b \in Blocks |->
     IF b \notin BlocksOf(k) THEN meta[b]
     ELSE [meta[b] EXCEPT
             !.version = @ + 1,
             !.owner = CASE modes[b] = "WI" -> k.home [] modes[b] = "Adaptive" -> n [] OTHER -> @,
             !.state = IF modes[b] = "Adaptive" THEN "Owner" ELSE "Shared"]]

-----------------------------------------------------------------------------
(* lm_read *)

Slice(region, k) == [x \in Cells(k) |-> region[x]]

\* The cached range TryReadCached answers from: the exact key, else any entry
\* that contains the range.
CacheHits(cache, k) ==
  IF k \in DOMAIN cache THEN {k}
  ELSE {l \in DOMAIN cache : l.home = k.home /\ l.lo <= k.lo /\ k.hi <= l.hi}

\* What a hit on entry l copies out for range k: from k.lo - l.lo on.
CachedBytes(payload, l, k) == [x \in Cells(k) |-> payload[x]]

\* InsertCached refuses what is larger than the cache; of the other entries, those
\* of kept are not evicted.
InsertCached(cache, k, data, kept) ==
  IF config.capacity # 0 /\ k.hi - k.lo > config.capacity THEN cache
  ELSE [l \in (kept \cap DOMAIN cache) \cup {k} |-> IF l = k THEN data ELSE cache[l]]

\* What ObserveAccess can make of the blocks of an access.
ObservedModes(k) ==
  [BlocksOf(k) -> IF config.override = "none" THEN Modes ELSE {config.override}]

HasMode(modes, mode) == \E b \in DOMAIN modes : modes[b] = mode

\* ShouldCache for all blocks.
ShouldAdmitCached ==
  CASE config.policy = "always" -> {TRUE}
    [] config.policy = "never" -> {FALSE}
    [] OTHER -> BOOLEAN

Admissions(modes) == IF HasMode(modes, "WI") THEN {FALSE} ELSE ShouldAdmitCached

ReadLocal(n, k, s) ==
  /\ k.home = n
  /\ node' = [node EXCEPT ![n] = s]
  /\ Returned(n, k, Slice(memory[n], k))

ReadCached(n, k, s) ==
  /\ k.home # n
  /\ node' = [node EXCEPT ![n] = s]
  /\ \E l \in CacheHits(s.cache, k) : Returned(n, k, CachedBytes(s.cache[l], l, k))

\* The transport answers from the region of source.
ReadMiss(n, k, s, source) ==
  LET data == Slice(memory[source], k)
      t == [s EXCEPT !.meta = ReadMetadata(@, n, k, source)]
  IN /\ k.home # n
     /\ CacheHits(s.cache, k) = {}
     /\ Returned(n, k, data)
     /\ \E modes \in ObservedModes(k) : \E admitted \in Admissions(modes) :
          IF admitted
          THEN \E kept \in SUBSET DOMAIN s.cache :
                 node' = [node EXCEPT ![n] = [t EXCEPT !.cache = InsertCached(@, k, data, kept)]]
          ELSE node' = [node EXCEPT ![n] = t]

\* The read of the home fails, and lm_read with it.
ReadFails(n, k, s) ==
  /\ k.home # n
  /\ CacheHits(s.cache, k) = {}
  /\ node' = [node EXCEPT ![n] = s]
  /\ last' = NoRead
  /\ UNCHANGED <<issued, order, seen, released, acquired>>

\* A read that the owner does not answer falls back to the home.
lm_read(n, k) ==
  LET s == Drained(node[n])
      prepared == [s EXCEPT !.meta = PrepareMetadata(@, n, k, "Read")]
      source == ReadSource(prepared.meta, n, k)
  IN /\ node[n].call = Idle /\ ~TimesOut(s)
     /\ \/ ReadLocal(n, k, prepared) /\ UNCHANGED failures
        \/ ReadCached(n, k, prepared) /\ UNCHANGED failures
        \/ ReadMiss(n, k, prepared, source) /\ UNCHANGED failures
        \/ source # k.home /\ ReadMiss(n, k, prepared, k.home) /\ Fails
        \/ ReadFails(n, k, prepared) /\ Fails
     /\ UNCHANGED <<config, memory, mail>>

-----------------------------------------------------------------------------
(* lm_write *)

\* The least threshold of the modes; adaptive_mode_batch_threshold is 1.
MostAggressiveBatchThreshold(modes) ==
  IF HasMode(modes, "WI") \/ HasMode(modes, "Adaptive") THEN 1 ELSE config.threshold

WriteLocal(n, k, s, w) ==
  /\ k.home = n
  /\ node' = [node EXCEPT ![n] = s]
  /\ Delivered(n, n, <<w>>)
  /\ UNCHANGED <<mail, failures>>

\* The requests of a remote write, in the order they are posted.
Requests(meta, n, modes) ==
  LET handoff == \E b \in DOMAIN modes : modes[b] = "Adaptive" /\ meta[b].owner # n
  IN (IF HasMode(modes, "WI") THEN <<"InvalidateRange">> ELSE <<>>)
       \o (IF handoff THEN <<"OwnerTransfer">> ELSE <<>>)

\* PostControlMessage and TrackPendingControlAck of requests ops about range k.
\* Over the stub the ack is in the sender's inbox at once.
Post(n, k, s, ops, version) ==
  LET ids == {s.nextId + i - 1 : i \in 1 .. Len(ops)}
      messages == {[to |-> k.home, source |-> n, op |-> ops[i],
                    blocks |-> BlocksOf(k), version |-> version] : i \in 1 .. Len(ops)}
  IN [node |-> IF config.stub
               THEN [s EXCEPT !.nextId = @ + Len(ops), !.pending = @ \cup ids,
                              !.inbox = [i \in 1 .. Len(ops) |-> s.nextId + i - 1]]
               ELSE s,
      mail |-> IF config.stub \/ k.home \notin config.clients THEN mail ELSE mail \cup messages]

\* The caller's own cache: all overlapping entries in WI mode, else the exact key.
InvalidateOwn(cache, k, modes) ==
  IF HasMode(modes, "WI") THEN InvalidateRange(cache, k.home, k.lo, k.hi)
  ELSE [l \in DOMAIN cache \ {k} |-> cache[l]]

\* Metadata, requests, own cache and queue; the data leaves in the next step if
\* the call is to write or flush it.
WriteRemote(n, k, s, w, modes) ==
  LET meta == ApplyWriteMetadata(s.meta, n, k, modes)
      posted == Post(n, k, s, Requests(s.meta, n, modes), MaxObservedVersion(meta, k))
      cache == InvalidateOwn(s.cache, k, modes)
      q == QueueRemoteWrite(s.queue[k.home], w)
      flush == HasMode(modes, "WI") \/ Len(q) >= MostAggressiveBatchThreshold(modes)
  IN /\ k.home # n
     /\ mail' = posted.mail
     /\ \/ /\ ~config.batching
           /\ node' = [node EXCEPT ![n] = [posted.node EXCEPT
                !.meta = meta, !.cache = cache, !.call = [op |-> "write", home |-> k.home, write |-> w]]]
        \/ /\ config.batching
           /\ \E kept \in SUBSET DOMAIN cache :
                node' = [node EXCEPT ![n] = [posted.node EXCEPT
                  !.meta = meta, !.queue[k.home] = q,
                  !.cache = IF HasMode(modes, "Adaptive") THEN InsertCached(cache, k, w.data, kept)
                            ELSE cache,
                  !.call = IF flush THEN [op |-> "flush", home |-> k.home] ELSE Idle]]
     /\ UNCHANGED <<memory, failures, order, seen>>

\* A request cannot be posted: the call returns with the metadata changed and
\* the requests before it under way.
PostFails(n, k, s, modes) ==
  LET meta == ApplyWriteMetadata(s.meta, n, k, modes)
      ops == Requests(s.meta, n, modes)
  IN /\ k.home # n /\ ~config.stub
     /\ Fails
     /\ \E sent \in 0 .. (Len(ops) - 1) :
          LET posted == Post(n, k, s, SubSeq(ops, 1, sent), MaxObservedVersion(meta, k))
          IN /\ mail' = posted.mail
             /\ node' = [node EXCEPT ![n] = [posted.node EXCEPT !.meta = meta]]
     /\ UNCHANGED <<memory, order, seen>>

lm_write(n, k) ==
  LET s == Drained(node[n])
      prepared == [s EXCEPT !.meta = PrepareMetadata(@, n, k, "Write")]
      w == [lo |-> k.lo, hi |-> k.hi, data |-> [x \in Cells(k) |-> Len(issued) + 1]]
  IN /\ node[n].call = Idle /\ ~TimesOut(s)
     /\ Len(issued) < config.writes
     /\ issued' = Append(issued, [node |-> n, key |-> k])
     /\ \/ WriteLocal(n, k, prepared, w)
        \/ \E modes \in ObservedModes(k) :
             WriteRemote(n, k, prepared, w, modes) \/ PostFails(n, k, prepared, modes)
     /\ last' = NoRead
     /\ UNCHANGED <<config, released, acquired>>

\* The data of a write leaves: transport Write, or FlushDestination.
Transfer(n) ==
  LET c == node[n].call
  IN /\ c.op \in {"write", "flush"}
     /\ Delivered(n, c.home, IF c.op = "write" THEN <<c.write>> ELSE node[n].queue[c.home])
     /\ node' = [node EXCEPT ![n].call = Idle,
                             ![n].queue[c.home] = IF c.op = "flush" THEN <<>> ELSE @]
     /\ last' = NoRead
     /\ UNCHANGED <<config, mail, issued, failures, released, acquired>>

\* A request of it fails: those before it reach the home, the rest of a drained
\* batch is gone.
TransferFails(n) ==
  LET c == node[n].call
  IN /\ c.op \in {"write", "flush"}
     /\ Fails
     /\ DeliveredInPart(n, c.home, IF c.op = "write" THEN <<c.write>> ELSE node[n].queue[c.home])
     /\ node' = [node EXCEPT ![n].call = Idle,
                             ![n].queue[c.home] = IF c.op = "flush" THEN <<>> ELSE @]
     /\ last' = NoRead
     /\ UNCHANGED <<config, mail, issued, released, acquired>>

-----------------------------------------------------------------------------
(* lm_fence.  lm_barrier only tests that the runtime is initialized. *)

PendingDestinations(s) == {h \in Nodes : s.queue[h] # <<>>}

lm_fence(n) ==
  LET s == Drained(node[n])
  IN /\ node[n].call = Idle /\ ~TimesOut(s)
     /\ node' = [node EXCEPT ![n] = [s EXCEPT !.call = [op |-> "fence", todo |-> PendingDestinations(s)]]]
     /\ last' = NoRead
     /\ UNCHANGED <<config, memory, mail, issued, failures, order, seen, released, acquired>>

\* One destination is drained and its batch written.
FenceFlush(n, h) ==
  /\ node[n].call.op = "fence" /\ h \in node[n].call.todo
  /\ Delivered(n, h, node[n].queue[h])
  /\ node' = [node EXCEPT ![n].queue[h] = <<>>, ![n].call.todo = @ \ {h}]
  /\ last' = NoRead
  /\ UNCHANGED <<config, mail, issued, failures, released, acquired>>

\* A request of the batch fails: lm_fence returns, the destinations after it stay
\* queued.
FenceFlushFails(n, h) ==
  /\ node[n].call.op = "fence" /\ h \in node[n].call.todo
  /\ Fails
  /\ DeliveredInPart(n, h, node[n].queue[h])
  /\ node' = [node EXCEPT ![n].queue[h] = <<>>, ![n].call = Idle]
  /\ last' = NoRead
  /\ UNCHANGED <<config, mail, issued, released, acquired>>

\* All batches are written and the second DrainControl is done.
FenceReturns(n) ==
  LET s == Drained(node[n])
  IN /\ node[n].call = [op |-> "fence", todo |-> {}] /\ ~TimesOut(s)
     /\ node' = [node EXCEPT ![n] = [s EXCEPT !.call = Idle]]
     /\ Fenced(n)
     /\ last' = NoRead
     /\ UNCHANGED <<config, memory, mail, issued, failures, order, seen>>

\* Over the stub, lm_shutdown and lm_init again: the regions, local and remote,
\* start over, only the inbox stays.
Restart(n) ==
  /\ config.stub /\ node[n].call = Idle
  /\ node' = [node EXCEPT ![n] = FreshNode(n, @.inbox)]
  /\ memory' = FreshMemory
  /\ order' = [h \in Nodes |-> [x \in Offsets |-> <<>>]]
  /\ seen' = [m \in Nodes |-> FreshMemory]
  /\ released' = FreshMemory
  /\ acquired' = [m \in Nodes |-> FreshMemory]
  /\ last' = NoRead
  /\ UNCHANGED <<config, mail, issued, failures>>

Next ==
  \E n \in config.clients :
    \/ \E k \in config.keys : lm_read(n, k) \/ lm_write(n, k)
    \/ Transfer(n) \/ TransferFails(n)
    \/ lm_fence(n) \/ FenceReturns(n)
    \/ \E h \in Nodes : FenceFlush(n, h) \/ FenceFlushFails(n, h)
    \/ \E m \in mail : HandleMessage(n, m) \/ DropMessage(n, m)
    \/ Restart(n)

Spec == Init /\ [][Next]_vars

-----------------------------------------------------------------------------
\* No client uses blocks of two other nodes at the same index, which would share
\* their metadata with each other.
Unaliased ==
  \A n \in config.clients : \A k, l \in config.keys :
    k.home # l.home /\ BlocksOf(k) \cap BlocksOf(l) # {} => n \in {k.home, l.home}

\* In WI mode without such blocks every lm_read returns what the home's region
\* holds at that moment, whoever wrote it and by whatever ranges: neither the
\* read cache nor the queues nor a redirection to an owner ever shows.
AtomicReads ==
  config.override = "WI" /\ Unaliased /\ last # NoRead =>
    last.data = Slice(memory[last.key.home], last.key)

\* Without such blocks a read returns bytes that some lm_write stored to just
\* those cells, or their initial content: through merging, caching by range,
\* handoffs and redirection, no byte ends up at another offset or in the region
\* of another node.
ReadsOwnCells ==
  Unaliased /\ last # NoRead =>
    \A x \in Cells(last.key) :
      last.data[x] # 0 => LET k == issued[last.data[x]].key
                          IN k.home = last.key.home /\ x \in Cells(k)

\* A write leaves in the call that makes it.
Unqueued ==
  ~config.batching \/ config.threshold = 1 \/ config.override \in {"WI", "Adaptive"}

Disjoint(keys) ==
  \A k, l \in keys : k # l => ~SameHomeOverlap(k, l.home, l.lo, l.hi)

\* If writes leave in their own call, the application uses ranges that do not
\* overlap and no client uses blocks of two other nodes at the same index, then
\* until a call fails no client ever goes back: a read of a cell returns what the
\* client last read or wrote there or something newer, although cached ranges
\* are invalidated by exact key only and nobody tells a reader of other
\* clients' writes.
SessionOrder ==
  [][Unaliased /\ Unqueued /\ Disjoint(config.keys) /\ failures' = 0 /\ last' # NoRead =>
       \A n, h \in Nodes : \A x \in Offsets : seen'[n][h][x] >= seen[n][h][x]]_seen

\* Over the stub no call times out, even if an ack has to be there at the first
\* poll: a pending request's ack is in the inbox, also after restarts that
\* reuse request ids.
StubAcksAtOnce ==
  config.stub => \A n \in config.clients : node[n].pending \subseteq Held(node[n].inbox)

\* Release visibility: where the reader's last fence acquired a write that its
\* writer's fence had released, a read returns that write or a later one.
ReleaseVisible ==
  last # NoRead =>
    \A x \in Cells(last.key) :
      LET due == acquired[last.node][last.key.home][x]
      IN due > 0 => Rank(last.key.home, x, last.data[x]) >= due
=============================================================================
