---------------------------- MODULE LeoMemProofs ----------------------------
(***************************************************************************)
(* For every set of nodes, ranges and configurations: in WI mode reads are *)
(* atomic unless blocks alias; in all modes the state is well-typed, reads *)
(* return bytes of their own cells unless blocks alias, and the stub's     *)
(* acks are there when they are looked for.                                *)
(***************************************************************************)
EXTENDS LeoMem, WellFoundedInduction, TLAPS

\* The arithmetic and set solver has half a minute for each leaf.
USE SMTT(30)

(* What the proof needs of a node. *)

\* The configurations AtomicReads speaks of.
WIConfig == config.override = "WI" /\ Unaliased

\* The fields of a node and of the metadata of a block.
IsNode(s) ==
  s = [cache |-> s.cache, queue |-> s.queue, meta |-> s.meta, pending |-> s.pending,
       nextId |-> s.nextId, inbox |-> s.inbox, call |-> s.call]

IsMeta(m) ==
  m = [owner |-> m.owner, version |-> m.version, validated |-> m.validated, state |-> m.state]

\* The nodes a client can come to know as the owner of its block b.
Owners(keys, n, b) ==
  {NoNode, n} \cup {k.home : k \in {l \in keys : b \in BlocksOf(l)}}

\* Metadata of node n: every owner is no one, the node, or a home of such a block.
MetaOK(keys, meta, n) ==
  /\ meta = [b \in Blocks |-> meta[b]]
  /\ \A b \in Blocks : IsMeta(meta[b]) /\ meta[b].owner \in Owners(keys, n, b)

\* A node in WI mode: nothing is cached.
NodeOK(keys, s, n) == IsNode(s) /\ DOMAIN s.cache = {} /\ MetaOK(keys, s.meta, n)

\* The inductive invariant.
AtomicInv ==
  /\ config \in Configs
  /\ WIConfig =>
       /\ node = [n \in Nodes |-> node[n]]
       /\ \A n \in Nodes : NodeOK(config.keys, node[n], n)
       /\ \A m \in mail : m.op = "InvalidateRange"
       /\ last # NoRead => last.data = Slice(memory[last.key.home], last.key)

-----------------------------------------------------------------------------
(* Least and greatest numbers. *)

\* A non-empty set of naturals has a least element.
LEMMA LeastNat ==
  ASSUME NEW S \in SUBSET Nat, S # {}
  PROVE  \E m \in S : \A n \in S : m <= n
<1>1. PICK m \in S : \A n \in S : ~(<<n, m>> \in OpToRel(<, Nat))
  BY NatLessThanWellFounded, WFMin, Zenon
<1>2. \A n \in S : ~(n < m)
  BY <1>1, Zenon DEF OpToRel
<1>. QED
  BY <1>2

\* A non-empty set of naturals below a bound has a greatest element.
LEMMA GreatestNat ==
  ASSUME NEW b \in Nat, NEW S \in SUBSET (0 .. b), S # {}
  PROVE  \E m \in S : \A n \in S : n <= m
<1>. DEFINE T == {b - k : k \in S}
<1>1. T \in SUBSET Nat
  OBVIOUS
<1>2. T # {}
  BY Zenon
<1>3. PICK t \in T : \A u \in T : t <= u
  BY <1>2, <1>1, LeastNat, Zenon
<1>4. PICK m \in S : t = b - m
  BY Zenon
<1>5. \A n \in S : b - m <= b - n
  BY <1>3, <1>4, Zenon
<1>. QED
  BY <1>5

\* Finitely many numbers have a bound.
LEMMA BoundedNats ==
  ASSUME NEW n \in Nat, NEW D \in SUBSET (0 .. n), NEW f, \A x \in D : f[x] \in Nat
  PROVE  \E v \in Nat : \A x \in D : f[x] <= v
<1>. DEFINE Bounds(m) == {v \in Nat : \A x \in D : x < m => f[x] <= v}
            U == {m \in Nat : Bounds(m) = {}}
<1>1. ASSUME U # {} PROVE FALSE
  <2>1. PICK m \in U : \A k \in U : m <= k
    BY <1>1, LeastNat, Zenon
  <2>2. m - 1 \in Nat /\ m - 1 \notin U
    <3>1. m \in Nat /\ m # 0
      OBVIOUS
    <3>. HIDE DEF U
    <3>. QED BY <2>1, <3>1
  <2>3. PICK v \in Nat : \A x \in D : x < m - 1 => f[x] <= v
    BY <2>2, Zenon
  <2>4. PICK w \in Nat : w >= v /\ (m - 1 \in D => w >= f[m - 1])
    OBVIOUS
  <2>5. \A x \in D : x < m => f[x] <= w
    BY <2>3, <2>4
  <2>. QED BY <2>5, Zenon
<1>2. PICK v \in Nat : \A x \in D : x < n + 1 => f[x] <= v
  BY <1>1
<1>. QED BY <1>2

-----------------------------------------------------------------------------
(* Ranges and their blocks. *)

\* A range in use touches at least the block of its first cell, and only blocks
\* of the region.
LEMMA RangeBlocks ==
  ASSUME config \in Configs, NEW k \in config.keys
  PROVE  /\ k.home \in Nodes
         /\ k.lo \div BlockSize \in BlocksOf(k)
         /\ BlocksOf(k) \subseteq Blocks
<1>1. k.home \in Nodes /\ k.lo \in Offsets /\ k.hi \in 1 .. RegionSize /\ k.lo < k.hi
  BY LeoMemAssumption, Zenon DEF Keys, ConfigType
<1>. QED BY <1>1, SizeAssumption DEF BlocksOf, Blocks, Cells, Offsets

\* A client is a node.
LEMMA ClientIsNode ==
  ASSUME config \in Configs, NEW n \in config.clients
  PROVE  n \in Nodes
BY LeoMemAssumption, Zenon DEF ConfigType

\* In WI mode every access has a WI block and no other.
LEMMA AllWI ==
  ASSUME config \in Configs, config.override = "WI", NEW k \in config.keys,
         NEW modes \in ObservedModes(k)
  PROVE  /\ DOMAIN modes = BlocksOf(k)
         /\ \A b \in BlocksOf(k) : modes[b] = "WI"
         /\ HasMode(modes, "WI") /\ ~HasMode(modes, "Adaptive")
BY RangeBlocks, Zenon DEF ObservedModes, HasMode

\* For a remote range of a client, an owner of its blocks is the client or the
\* home, once there is one.
LEMMA OwnersOfRange ==
  ASSUME config \in Configs, Unaliased, NEW n \in config.clients, NEW k \in config.keys,
         k.home # n, NEW b \in BlocksOf(k)
  PROVE  Owners(config.keys, n, b) = {NoNode, n, k.home}
BY DEF Unaliased, Owners

-----------------------------------------------------------------------------
(* Metadata. *)

\* PrepareMetadata keeps the owners and leaves no block of the range without one.
LEMMA PrepareOK ==
  ASSUME config \in Configs, NEW n \in Nodes, NEW k \in config.keys, NEW type,
         NEW meta, MetaOK(config.keys, meta, n)
  PROVE  /\ MetaOK(config.keys, PrepareMetadata(meta, n, k, type), n)
         /\ \A b \in BlocksOf(k) : PrepareMetadata(meta, n, k, type)[b].owner # NoNode
<1>. DEFINE new == PrepareMetadata(meta, n, k, type)
<1>1. new = [b \in Blocks |-> new[b]]
  BY Zenon DEF PrepareMetadata
<1>2. k.home # NoNode /\ n # NoNode
  BY RangeBlocks, LeoMemAssumption, Zenon
<1>3. ASSUME NEW b \in Blocks
      PROVE  /\ IsMeta(new[b]) /\ new[b].owner \in Owners(config.keys, n, b)
             /\ b \in BlocksOf(k) => new[b].owner # NoNode
  <2>1. IsMeta(meta[b]) /\ meta[b].owner \in Owners(config.keys, n, b)
    BY Zenon DEF MetaOK
  <2>2. CASE b \notin BlocksOf(k)
    BY <2>1, <2>2, Zenon DEF PrepareMetadata
  <2>3. CASE b \in BlocksOf(k) /\ k.home = n
    BY <2>3, <2>1, <1>2, Zenon DEF PrepareMetadata, IsMeta, Owners
  <2>4. CASE b \in BlocksOf(k) /\ k.home # n
    BY <2>4, <2>1, <1>2, Zenon DEF PrepareMetadata, IsMeta, Owners
  <2>. QED
    BY <2>2, <2>3, <2>4, Zenon
<1>. HIDE DEF new
<1>. QED BY <1>1, <1>3, RangeBlocks, Zenon DEF new, MetaOK

\* ReadMetadata keeps the owners.
LEMMA ReadMetaOK ==
  ASSUME config \in Configs, NEW n \in Nodes, NEW k \in config.keys, NEW source,
         NEW meta, MetaOK(config.keys, meta, n)
  PROVE  MetaOK(config.keys, ReadMetadata(meta, n, k, source), n)
<1>. DEFINE new == ReadMetadata(meta, n, k, source)
<1>1. new = [b \in Blocks |-> new[b]]
  BY Zenon DEF ReadMetadata
<1>2. ASSUME NEW b \in Blocks
      PROVE  IsMeta(new[b]) /\ new[b].owner \in Owners(config.keys, n, b)
  <2>1. IsMeta(meta[b]) /\ meta[b].owner \in Owners(config.keys, n, b)
    BY Zenon DEF MetaOK
  <2>2. CASE b \notin BlocksOf(k)
    BY <2>1, <2>2, Zenon DEF ReadMetadata
  <2>3. CASE b \in BlocksOf(k)
    BY <2>3, <2>1, Zenon DEF ReadMetadata, IsMeta, Owners
  <2>. QED
    BY <2>2, <2>3, Zenon
<1>. HIDE DEF new
<1>. QED BY <1>1, <1>2, Zenon DEF new, MetaOK

\* A write in WI mode leaves the home as the owner of its blocks.
LEMMA WriteMetaOK ==
  ASSUME config \in Configs, config.override = "WI", NEW n \in Nodes, NEW k \in config.keys,
         NEW modes \in ObservedModes(k), NEW meta, MetaOK(config.keys, meta, n)
  PROVE  MetaOK(config.keys, ApplyWriteMetadata(meta, n, k, modes), n)
<1>. DEFINE new == ApplyWriteMetadata(meta, n, k, modes)
<1>1. new = [b \in Blocks |-> new[b]]
  BY Zenon DEF ApplyWriteMetadata
<1>2. ASSUME NEW b \in Blocks
      PROVE  IsMeta(new[b]) /\ new[b].owner \in Owners(config.keys, n, b)
  <2>1. IsMeta(meta[b]) /\ meta[b].owner \in Owners(config.keys, n, b)
    BY Zenon DEF MetaOK
  <2>2. CASE b \notin BlocksOf(k)
    BY <2>1, <2>2, Zenon DEF ApplyWriteMetadata
  <2>3. CASE b \in BlocksOf(k)
    BY <2>3, AllWI, <2>1, Zenon DEF ApplyWriteMetadata, IsMeta, Owners
  <2>. QED
    BY <2>2, <2>3, Zenon
<1>. HIDE DEF new
<1>. QED BY <1>1, <1>2, Zenon DEF new, MetaOK

\* With such metadata a remote range is read from its home.
LEMMA ReadsFromHome ==
  ASSUME config \in Configs, Unaliased, NEW n \in config.clients, NEW k \in config.keys,
         k.home # n, NEW meta, MetaOK(config.keys, meta, n),
         \A b \in BlocksOf(k) : meta[b].owner # NoNode
  PROVE  ReadSource(meta, n, k) = k.home
BY RangeBlocks, OwnersOfRange DEF MetaOK, DominantOwnerNode, ReadSource

-----------------------------------------------------------------------------
(* Nodes. *)

\* Replacing the state of one node by a good one.
LEMMA NodeReplaced ==
  ASSUME config' = config, node = [n \in Nodes |-> node[n]],
         \A n \in Nodes : NodeOK(config.keys, node[n], n),
         NEW n \in Nodes, NEW s, NodeOK(config.keys, s, n), node' = [node EXCEPT ![n] = s]
  PROVE  /\ node' = [m \in Nodes |-> node'[m]]
         /\ \A m \in Nodes : NodeOK(config'.keys, node'[m], m)
BY Zenon

\* Draining the inbox keeps a node good.
LEMMA DrainedOK ==
  ASSUME NEW n, NEW s, NodeOK(config.keys, s, n)
  PROVE  NodeOK(config.keys, Drained(s), n)
<1>. DEFINE left == s.pending \ Held(s.inbox)
            t == [cache |-> s.cache, queue |-> s.queue, meta |-> s.meta, pending |-> left,
                  nextId |-> s.nextId, inbox |-> <<>>, call |-> s.call]
<1>1. Drained(s) = [s EXCEPT !.inbox = <<>>, !.pending = left]
  BY Zenon DEF Drained
<1>. HIDE DEF left
<1>. QED BY <1>1, Zenon DEF NodeOK, IsNode

\* So does putting good metadata in place.
LEMMA WithMetaOK ==
  ASSUME NEW n, NEW s, NodeOK(config.keys, s, n), NEW meta, MetaOK(config.keys, meta, n)
  PROVE  /\ NodeOK(config.keys, [s EXCEPT !.meta = meta], n)
         /\ [s EXCEPT !.meta = meta].meta = meta
         /\ [s EXCEPT !.meta = meta].cache = s.cache
BY DEF NodeOK, IsNode

\* Any change of the other fields keeps a node good.
LEMMA OtherFieldsOK ==
  ASSUME NEW n, NEW s, NodeOK(config.keys, s, n), NEW t, IsNode(t), t.cache = s.cache, t.meta = s.meta
  PROVE  NodeOK(config.keys, t, n)
BY Zenon DEF NodeOK

\* The state a call of client n starts from.
LEMMA PreparedOK ==
  ASSUME config \in Configs, NEW n \in Nodes, NEW k \in config.keys, NEW type,
         NodeOK(config.keys, node[n], n)
  PROVE  LET s == Drained(node[n])
             p == [s EXCEPT !.meta = PrepareMetadata(@, n, k, type)]
         IN NodeOK(config.keys, p, n) /\ \A b \in BlocksOf(k) : p.meta[b].owner # NoNode
<1>. DEFINE s == Drained(node[n])
            new == PrepareMetadata(s.meta, n, k, type)
            p == [s EXCEPT !.meta = PrepareMetadata(@, n, k, type)]
<1>1. NodeOK(config.keys, s, n)
  BY DrainedOK, Zenon
<1>2. MetaOK(config.keys, new, n) /\ \A b \in BlocksOf(k) : new[b].owner # NoNode
  BY <1>1, PrepareOK, Zenon DEF NodeOK
<1>3. p = [s EXCEPT !.meta = new]
  BY Zenon
<1>4. NodeOK(config.keys, p, n) /\ p.meta = new
  <2>. HIDE DEF s, new, p
  <2>. QED
    BY <1>1, <1>2, <1>3, WithMetaOK
<1>. QED
  BY <1>2, <1>4, Zenon

-----------------------------------------------------------------------------
(* The steps. *)

\* lm_read finds nothing cached and reads the home, or fails.
LEMMA ReadAtomic ==
  ASSUME AtomicInv, WIConfig, NEW n \in config.clients, NEW k \in config.keys, lm_read(n, k)
  PROVE  /\ node' = [m \in Nodes |-> node'[m]] /\ \A m \in Nodes : NodeOK(config'.keys, node'[m], m)
         /\ last' \in {NoRead, [node |-> n, key |-> k, data |-> Slice(memory[k.home], k)]}
<1>. DEFINE s == Drained(node[n])
            p == [s EXCEPT !.meta = PrepareMetadata(@, n, k, "Read")]
<1>1. n \in Nodes /\ config \in Configs /\ Unaliased /\ config.override = "WI"
  BY ClientIsNode, Zenon DEF AtomicInv, WIConfig
<1>2. NodeOK(config.keys, p, n) /\ \A b \in BlocksOf(k) : p.meta[b].owner # NoNode
  BY <1>1, PreparedOK, Zenon DEF AtomicInv
<1>3. \/ ReadLocal(n, k, p) \/ ReadCached(n, k, p) \/ ReadFails(n, k, p)
      \/ \E source \in {ReadSource(p.meta, n, k), k.home} : ReadMiss(n, k, p, source)
  BY Zenon DEF lm_read
<1>4. /\ config' = config /\ node = [m \in Nodes |-> node[m]]
      /\ \A m \in Nodes : NodeOK(config.keys, node[m], m)
  BY Zenon DEF lm_read, AtomicInv
<1>. HIDE DEF p
<1>5. CASE ReadLocal(n, k, p)
  BY <1>5, <1>4, <1>1, <1>2, NodeReplaced, Zenon DEF ReadLocal, Returned
<1>6. CASE ReadCached(n, k, p)
  BY <1>2, <1>6, Zenon DEF NodeOK, CacheHits, ReadCached
<1>7. CASE ReadFails(n, k, p)
  BY <1>7, <1>4, <1>1, <1>2, NodeReplaced, Zenon DEF ReadFails
<1>8. ASSUME NEW source \in {ReadSource(p.meta, n, k), k.home}, ReadMiss(n, k, p, source)
      PROVE  /\ node' = [m \in Nodes |-> node'[m]] /\ \A m \in Nodes : NodeOK(config'.keys, node'[m], m)
             /\ last' = [node |-> n, key |-> k, data |-> Slice(memory[k.home], k)]
  <2>. DEFINE new == ReadMetadata(p.meta, n, k, source)
              t == [p EXCEPT !.meta = ReadMetadata(@, n, k, source)]
  <2>1. last' = [node |-> n, key |-> k, data |-> Slice(memory[k.home], k)]
    BY <1>1, <1>2, <1>8, ReadsFromHome, Zenon DEF Returned, NodeOK, ReadMiss
  <2>2. node' = [node EXCEPT ![n] = t]
    BY <1>8, <1>1, AllWI, Zenon DEF ReadMiss, Admissions
  <2>3. NodeOK(config.keys, t, n)
    <3>1. MetaOK(config.keys, new, n)
      BY <1>1, <1>2, ReadMetaOK, Zenon DEF NodeOK
    <3>2. t = [p EXCEPT !.meta = new]
      BY Zenon
    <3>. HIDE DEF new, t
    <3>. QED
      BY <1>2, <3>1, <3>2, WithMetaOK, Zenon
  <2>. HIDE DEF t
  <2>. QED
    BY <1>4, <1>1, <2>1, <2>2, <2>3, NodeReplaced, Zenon
<1>. QED
  BY <1>3, <1>5, <1>6, <1>7, <1>8, Zenon

\* A step that replaces the state of client n and reads nothing keeps the
\* invariant if the new state is good and only invalidations are on their way.
LEMMA StepKeeps ==
  ASSUME AtomicInv, config' = config, NEW n \in Nodes, NEW t, last' = NoRead,
         node' = [node EXCEPT ![n] = t],
         WIConfig => NodeOK(config.keys, t, n) /\ \A m \in mail' : m.op = "InvalidateRange"
  PROVE  AtomicInv'
BY NodeReplaced, Zenon DEF AtomicInv, WIConfig, Unaliased

\* The requests of a write in WI mode are invalidations.
LEMMA RequestsWI ==
  ASSUME config \in Configs, config.override = "WI", NEW k \in config.keys,
         NEW modes \in ObservedModes(k), NEW meta, NEW n
  PROVE  /\ HasMode(modes, "WI") /\ ~HasMode(modes, "Adaptive")
         /\ Requests(meta, n, modes) = <<"InvalidateRange">>
<1>1. HasMode(modes, "WI") /\ \A b \in DOMAIN modes : modes[b] = "WI"
  BY AllWI, Zenon DEF HasMode
<1>2. ~HasMode(modes, "Adaptive") /\ ~\E b \in DOMAIN modes : modes[b] = "Adaptive" /\ meta[b].owner # n
  BY <1>1, Zenon DEF HasMode
<1>. QED
  BY <1>1, <1>2 DEF Requests

\* Requests and messages that only invalidate.
OnlyInvalidate(ops) == \A i \in 1 .. Len(ops) : ops[i] = "InvalidateRange"

InvalidationMail(messages) == \A m \in messages : m.op = "InvalidateRange"

\* Posting requests ops touches neither the cache nor the metadata and adds only
\* messages with these operations to the mail.
LEMMA PostOK ==
  ASSUME NEW n, NEW k, NEW s, IsNode(s), NEW ops, NEW version,
         OnlyInvalidate(ops), InvalidationMail(mail),
         NEW posted, posted = Post(n, k, s, ops, version)
  PROVE  /\ IsNode(posted.node) /\ posted.node.cache = s.cache /\ posted.node.meta = s.meta
         /\ InvalidationMail(posted.mail)
<1>. DEFINE ids == {s.nextId + i - 1 : i \in 1 .. Len(ops)}
            acks == [i \in 1 .. Len(ops) |-> s.nextId + i - 1]
            next == s.nextId + Len(ops)
            pending == s.pending \cup ids
            stubbed == [s EXCEPT !.nextId = next, !.pending = pending, !.inbox = acks]
            messages == {[to |-> k.home, source |-> n, op |-> ops[i],
                          blocks |-> BlocksOf(k), version |-> version] : i \in 1 .. Len(ops)}
<1>1. posted =
        [node |-> IF config.stub THEN stubbed ELSE s,
         mail |-> IF config.stub \/ k.home \notin config.clients THEN mail ELSE mail \cup messages]
  BY Zenon DEF Post
<1>2. InvalidationMail(messages)
  BY DEF OnlyInvalidate, InvalidationMail
<1>3. IsNode(stubbed) /\ stubbed.cache = s.cache /\ stubbed.meta = s.meta
  <2>1. stubbed = [s EXCEPT !.nextId = next, !.pending = pending, !.inbox = acks]
    BY Zenon
  <2>. HIDE DEF next, pending, acks, stubbed
  <2>. QED
    BY <2>1, Zenon DEF IsNode
<1>. HIDE DEF stubbed, messages
<1>. QED
  BY <1>1, <1>2, <1>3 DEF InvalidationMail

\* Invalidating in an empty cache leaves it empty.
LEMMA InvalidateEmpty ==
  ASSUME NEW cache, DOMAIN cache = {}, NEW k, NEW modes
  PROVE  DOMAIN InvalidateOwn(cache, k, modes) = {}
BY Zenon DEF InvalidateOwn, InvalidateRange

\* lm_write of a remote range.
LEMMA WriteRemoteKeeps ==
  ASSUME AtomicInv, WIConfig, NEW n \in Nodes, NEW k \in config.keys,
         NEW modes \in ObservedModes(k), NEW s, NodeOK(config.keys, s, n), NEW w,
         WriteRemote(n, k, s, w, modes)
  PROVE  /\ \E t : node' = [node EXCEPT ![n] = t] /\ NodeOK(config.keys, t, n)
         /\ \A m \in mail' : m.op = "InvalidateRange"
<1>. DEFINE meta == ApplyWriteMetadata(s.meta, n, k, modes)
            posted == Post(n, k, s, Requests(s.meta, n, modes), MaxObservedVersion(meta, k))
            cache == InvalidateOwn(s.cache, k, modes)
            q == QueueRemoteWrite(s.queue[k.home], w)
            flush == HasMode(modes, "WI") \/ Len(q) >= MostAggressiveBatchThreshold(modes)
            call == IF flush THEN [op |-> "flush", home |-> k.home] ELSE Idle
            writing == [op |-> "write", home |-> k.home, write |-> w]
<1>1. IsNode(s) /\ DOMAIN s.cache = {} /\ MetaOK(config.keys, s.meta, n) /\ config \in Configs
      /\ config.override = "WI" /\ \A m \in mail : m.op = "InvalidateRange"
  BY Zenon DEF NodeOK, AtomicInv, WIConfig
<1>2. MetaOK(config.keys, meta, n)
  BY <1>1, WriteMetaOK, Zenon
<1>3. DOMAIN cache = {}
  BY <1>1, InvalidateEmpty, Zenon
<1>4. ~HasMode(modes, "Adaptive") /\ Requests(s.meta, n, modes) = <<"InvalidateRange">>
  BY <1>1, RequestsWI, Zenon
<1>5. IsNode(posted.node) /\ \A m \in posted.mail : m.op = "InvalidateRange"
  <2>1. PICK ops, v : ops = Requests(s.meta, n, modes) /\ v = MaxObservedVersion(meta, k)
    BY Zenon
  <2>2. IsNode(s) /\ OnlyInvalidate(ops) /\ InvalidationMail(mail)
    BY <1>1, <1>4, <2>1 DEF OnlyInvalidate, InvalidationMail
  <2>3. PICK p : p = posted /\ p = Post(n, k, s, ops, v)
    BY <2>1, Zenon
  <2>4. IsNode(p.node) /\ InvalidationMail(p.mail)
    BY ONLY <2>2, <2>3, PostOK, SMTT(30)
  <2> QED BY <2>3, <2>4, Zenon DEF InvalidationMail
<1>6. /\ mail' = posted.mail
      /\ \/ node' = [node EXCEPT ![n] = [posted.node EXCEPT
              !.meta = meta, !.cache = cache, !.call = writing]]
         \/ node' = [node EXCEPT ![n] = [posted.node EXCEPT
              !.meta = meta, !.queue[k.home] = q, !.cache = cache, !.call = call]]
  BY <1>4, Zenon DEF WriteRemote
<1>. HIDE DEF meta, posted, cache, q, call, writing
<1>7. ASSUME NEW t, IsNode(t), t.cache = cache, t.meta = meta
      PROVE  NodeOK(config.keys, t, n)
  BY <1>2, <1>3, <1>7, Zenon DEF NodeOK
<1>8. CASE node' = [node EXCEPT ![n] = [posted.node EXCEPT
              !.meta = meta, !.cache = cache, !.call = writing]]
  <2>1. PICK t : t = [posted.node EXCEPT !.meta = meta, !.cache = cache, !.call = writing]
    BY Zenon
  <2>2. IsNode(t) /\ t.cache = cache /\ t.meta = meta
    BY <1>5, <2>1, Zenon DEF IsNode
  <2>. QED BY <1>5, <1>6, <1>7, <1>8, <2>1, <2>2, Zenon
<1>9. CASE node' = [node EXCEPT ![n] = [posted.node EXCEPT
              !.meta = meta, !.queue[k.home] = q, !.cache = cache, !.call = call]]
  <2>1. PICK t : t = [posted.node EXCEPT
                        !.meta = meta, !.queue[k.home] = q, !.cache = cache, !.call = call]
    BY Zenon
  <2>2. IsNode(t) /\ t.cache = cache /\ t.meta = meta
    BY <1>5, <2>1, Zenon DEF IsNode
  <2>. QED BY <1>5, <1>6, <1>7, <1>9, <2>1, <2>2, Zenon
<1>. QED
  BY <1>6, <1>8, <1>9, Zenon

\* lm_write whose request is refused.
LEMMA PostFailsKeeps ==
  ASSUME AtomicInv, WIConfig, NEW n \in Nodes, NEW k \in config.keys,
         NEW modes \in ObservedModes(k), NEW s, NodeOK(config.keys, s, n),
         PostFails(n, k, s, modes)
  PROVE  /\ \E t : node' = [node EXCEPT ![n] = t] /\ NodeOK(config.keys, t, n)
         /\ \A m \in mail' : m.op = "InvalidateRange"
<1>. DEFINE meta == ApplyWriteMetadata(s.meta, n, k, modes)
            ops == Requests(s.meta, n, modes)
            posted(i) == Post(n, k, s, SubSeq(ops, 1, i), MaxObservedVersion(meta, k))
<1>1. IsNode(s) /\ DOMAIN s.cache = {} /\ MetaOK(config.keys, s.meta, n) /\ config \in Configs
      /\ config.override = "WI" /\ \A m \in mail : m.op = "InvalidateRange"
  BY Zenon DEF NodeOK, AtomicInv, WIConfig
<1>2. MetaOK(config.keys, meta, n)
  BY <1>1, WriteMetaOK, Zenon
<1>3. ops = <<"InvalidateRange">>
  BY <1>1, RequestsWI, Zenon
<1>4. PICK sent \in 0 .. (Len(ops) - 1) :
        mail' = posted(sent).mail /\ node' = [node EXCEPT ![n] = [posted(sent).node EXCEPT !.meta = meta]]
  BY Zenon DEF PostFails
<1>5. \A i \in 1 .. Len(SubSeq(ops, 1, sent)) : SubSeq(ops, 1, sent)[i] = "InvalidateRange"
  BY <1>3, <1>4
<1>6. /\ IsNode(posted(sent).node) /\ posted(sent).node.cache = s.cache /\ posted(sent).node.meta = s.meta
      /\ \A m \in posted(sent).mail : m.op = "InvalidateRange"
  <2>. DEFINE o == SubSeq(ops, 1, sent)
              v == MaxObservedVersion(meta, k)
              p == Post(n, k, s, o, v)
  <2>1. IsNode(s) /\ OnlyInvalidate(o) /\ InvalidationMail(mail)
    BY <1>1, <1>5, Zenon DEF OnlyInvalidate, InvalidationMail
  <2>2. posted(sent) = p
    BY Zenon
  <2>. HIDE DEF o, v
  <2>3. /\ IsNode(p.node) /\ p.node.cache = s.cache /\ p.node.meta = s.meta
        /\ InvalidationMail(p.mail)
    BY <2>1, PostOK
  <2>. HIDE DEF posted, p
  <2>. QED
    BY <2>2, <2>3, Zenon DEF InvalidationMail
<1>. HIDE DEF posted, meta
<1>7. NodeOK(config.keys, [posted(sent).node EXCEPT !.meta = meta], n)
  BY <1>1, <1>2, <1>6, WithMetaOK, Zenon DEF NodeOK
<1>. QED
  BY <1>4, <1>6, <1>7, Zenon

\* lm_write.
LEMMA WriteKeeps ==
  ASSUME AtomicInv, NEW n \in config.clients, NEW k \in config.keys, lm_write(n, k)
  PROVE  AtomicInv'
<1>. DEFINE s == Drained(node[n])
            p == [s EXCEPT !.meta = PrepareMetadata(@, n, k, "Write")]
            w == [lo |-> k.lo, hi |-> k.hi, data |-> [x \in Cells(k) |-> Len(issued) + 1]]
<1>1. n \in Nodes /\ config \in Configs /\ config' = config /\ last' = NoRead
  BY ClientIsNode, Zenon DEF AtomicInv, lm_write
<1>2. \/ WriteLocal(n, k, p, w)
      \/ \E modes \in ObservedModes(k) : WriteRemote(n, k, p, w, modes) \/ PostFails(n, k, p, modes)
  BY Zenon DEF lm_write
<1>3. WIConfig => NodeOK(config.keys, p, n)
  BY <1>1, PreparedOK, Zenon DEF AtomicInv
<1>. HIDE DEF p, w
<1>4. CASE WIConfig
  BY <1>3, <1>4, <1>1, WriteRemoteKeeps, PostFailsKeeps, <1>2, StepKeeps, Zenon DEF WriteLocal, AtomicInv
<1>5. CASE ~WIConfig
  BY <1>1, <1>2, <1>5, StepKeeps, Zenon DEF WriteLocal, WriteRemote, PostFails
<1>. QED
  BY <1>4, <1>5, Zenon

\* The data of a write leaves or is lost: a queue and the call change.
LEMMA QueueStepKeeps ==
  ASSUME AtomicInv, NEW n \in Nodes, config' = config, last' = NoRead, mail' = mail,
         NEW queue, NEW call,
         node' = [node EXCEPT ![n] = [node[n] EXCEPT !.call = call, !.queue = queue]]
  PROVE  AtomicInv'
<1>1. PICK t : t = [node[n] EXCEPT !.call = call, !.queue = queue]
  BY Zenon
<1>2. ASSUME WIConfig
      PROVE  NodeOK(config.keys, t, n) /\ \A m \in mail' : m.op = "InvalidateRange"
  <2>1. NodeOK(config.keys, node[n], n) /\ \A m \in mail : m.op = "InvalidateRange"
    BY <1>2, Zenon DEF AtomicInv
  <2>. QED BY <1>1, <2>1, OtherFieldsOK, Zenon DEF NodeOK, IsNode
<1>. QED BY <1>1, <1>2, StepKeeps, Zenon

\* The call of a drained node changes.
LEMMA CallStepKeeps ==
  ASSUME AtomicInv, NEW n \in Nodes, config' = config, last' = NoRead, mail' = mail,
         NEW call, node' = [node EXCEPT ![n] = [Drained(node[n]) EXCEPT !.call = call]]
  PROVE  AtomicInv'
<1>. DEFINE s == Drained(node[n])
<1>1. PICK t : t = [s EXCEPT !.call = call]
  BY Zenon
<1>2. node' = [node EXCEPT ![n] = t]
  BY <1>1, Zenon
<1>3. ASSUME WIConfig
      PROVE  NodeOK(config.keys, t, n) /\ \A m \in mail' : m.op = "InvalidateRange"
  <2>1. NodeOK(config.keys, s, n) /\ \A m \in mail : m.op = "InvalidateRange"
    BY <1>3, DrainedOK, Zenon DEF AtomicInv
  <2>. HIDE DEF s
  <2>. QED BY <1>1, <2>1, OtherFieldsOK, Zenon DEF NodeOK, IsNode
<1>. QED
  BY <1>2, <1>3, StepKeeps, Zenon

\* The two ends of the transfer of a write.
LEMMA TransferKeeps ==
  ASSUME AtomicInv, NEW n \in Nodes, Transfer(n) \/ TransferFails(n)
  PROVE  AtomicInv'
<1>. DEFINE c == node[n].call
            queue == [node[n].queue EXCEPT ![c.home] = IF c.op = "flush" THEN <<>> ELSE @]
<1>1. config' = config /\ last' = NoRead /\ mail' = mail
  BY Zenon DEF Transfer, TransferFails
<1>2. node' = [node EXCEPT ![n].call = Idle,
                           ![n].queue[c.home] = IF c.op = "flush" THEN <<>> ELSE @]
  BY Zenon DEF Transfer, TransferFails
<1>3. node' = [node EXCEPT ![n] = [node[n] EXCEPT !.call = Idle, !.queue = queue]]
  BY <1>2, Zenon
<1>. HIDE DEF queue
<1>. QED
  BY <1>1, <1>3, QueueStepKeeps, Zenon

\* The beginning and the end of lm_fence.
LEMMA FenceKeeps ==
  ASSUME AtomicInv, NEW n \in Nodes, lm_fence(n) \/ FenceReturns(n)
  PROVE  AtomicInv'
BY CallStepKeeps, Zenon DEF lm_fence, FenceReturns

\* A destination flushed by lm_fence, or lost.
LEMMA FenceFlushKeeps ==
  ASSUME AtomicInv, NEW n \in Nodes, NEW h \in Nodes, FenceFlush(n, h) \/ FenceFlushFails(n, h)
  PROVE  AtomicInv'
<1>. DEFINE queue == [node[n].queue EXCEPT ![h] = <<>>]
            rest == [node[n].call EXCEPT !.todo = @ \ {h}]
<1>1. config' = config /\ last' = NoRead /\ mail' = mail
  BY Zenon DEF FenceFlush, FenceFlushFails
<1>2. CASE FenceFlush(n, h)
  <2>1. node' = [node EXCEPT ![n] = [node[n] EXCEPT !.call = rest, !.queue = queue]]
    BY <1>2, Zenon DEF FenceFlush
  <2>. HIDE DEF queue, rest
  <2>. QED
    BY <1>1, <2>1, QueueStepKeeps, Zenon
<1>3. CASE FenceFlushFails(n, h)
  <2>1. node' = [node EXCEPT ![n] = [node[n] EXCEPT !.call = Idle, !.queue = queue]]
    BY <1>3, Zenon DEF FenceFlushFails
  <2>. HIDE DEF queue
  <2>. QED
    BY <1>1, <2>1, QueueStepKeeps, Zenon
<1>. QED
  BY <1>2, <1>3, Zenon

\* Handling an invalidation changes the cache, which is empty, and at most the
\* versions and states of blocks.
LEMMA HandledOK ==
  ASSUME NEW n, NEW s, NodeOK(config.keys, s, n), NEW m, m.op = "InvalidateRange"
  PROVE  NodeOK(config.keys, HandleInAccess(s, m), n) /\ NodeOK(config.keys, HandleInFence(s, m), n)
<1>. DEFINE cache == InvalidateBlocks(s.cache, m)
            new == [b \in Blocks |->
                      IF b \in m.blocks
                      THEN [s.meta[b] EXCEPT !.version = m.version, !.state = "Invalid"]
                      ELSE s.meta[b]]
<1>1. DOMAIN cache = {}
  BY Zenon DEF NodeOK, InvalidateBlocks
<1>2. MetaOK(config.keys, new, n)
  <2>1. ASSUME NEW b \in Blocks
        PROVE  IsMeta(new[b]) /\ new[b].owner \in Owners(config.keys, n, b)
    <3>1. IsMeta(s.meta[b]) /\ s.meta[b].owner \in Owners(config.keys, n, b)
      BY Zenon DEF NodeOK, MetaOK
    <3>2. PICK old : old = s.meta[b]
      BY Zenon
    <3>3. \/ new[b] = [old EXCEPT !.version = m.version, !.state = "Invalid"]
          \/ new[b] = old
      BY <3>2, Zenon
    <3>. HIDE DEF new
    <3>. QED BY <3>1, <3>2, <3>3, Zenon DEF IsMeta
  <2>2. new = [b \in Blocks |-> new[b]]
    BY Zenon
  <2>. HIDE DEF new
  <2>. QED
    BY <2>1, <2>2, Zenon DEF MetaOK
<1>3. HandleInAccess(s, m) = [s EXCEPT !.cache = cache, !.meta = new]
  BY Zenon DEF HandleInAccess
<1>4. HandleInFence(s, m) = [s EXCEPT !.cache = cache]
  BY Zenon DEF HandleInFence
<1>. HIDE DEF cache, new
<1>5. ASSUME NEW t, t = [s EXCEPT !.cache = cache, !.meta = new]
      PROVE  NodeOK(config.keys, t, n)
  BY <1>5, <1>1, <1>2, Zenon DEF NodeOK, IsNode
<1>6. ASSUME NEW t, t = [s EXCEPT !.cache = cache]
      PROVE  NodeOK(config.keys, t, n)
  BY <1>6, <1>1, Zenon DEF NodeOK, IsNode
<1>. QED
  BY <1>3, <1>4, <1>5, <1>6, Zenon

\* A request handled or dropped.
LEMMA HandleKeeps ==
  ASSUME AtomicInv, NEW n \in Nodes, NEW m \in mail, HandleMessage(n, m) \/ DropMessage(n, m)
  PROVE  AtomicInv'
<1>1. config' = config /\ last' = NoRead /\ mail' = mail \ {m}
  BY Zenon DEF HandleMessage, DropMessage
<1>2. CASE HandleMessage(n, m)
  BY <1>2, <1>1, HandledOK, StepKeeps, Zenon DEF HandleMessage, AtomicInv
<1>3. CASE DropMessage(n, m)
  BY <1>3, <1>1, Zenon DEF DropMessage, WIConfig, Unaliased, AtomicInv
<1>. QED
  BY <1>2, <1>3, Zenon

\* A fresh node is good.
LEMMA FreshOK ==
  ASSUME NEW n, NEW inbox
  PROVE  NodeOK(config.keys, FreshNode(n, inbox), n)
BY Zenon DEF FreshNode, IsNode, EmptyCache, MetaOK, IsMeta, Owners, NodeOK

\* A restart over the stub.
LEMMA RestartKeeps ==
  ASSUME AtomicInv, NEW n \in Nodes, Restart(n)
  PROVE  AtomicInv'
BY FreshOK, StepKeeps, Zenon DEF Restart, AtomicInv

\* lm_read, in every configuration.
LEMMA ReadKeeps ==
  ASSUME AtomicInv, NEW n \in config.clients, NEW k \in config.keys, lm_read(n, k)
  PROVE  AtomicInv'
BY ReadAtomic DEF lm_read, WIConfig, Unaliased, AtomicInv

-----------------------------------------------------------------------------
\* In WI mode and without aliased blocks, lm_read returns what the home's region
\* holds at that moment: for any number of nodes, ranges, writes and failures.
THEOREM ReadsAreAtomic == Spec => []AtomicReads
<1>1. Init => AtomicInv
  BY FreshOK, Zenon DEF Init, AtomicInv
<1>2. AtomicInv /\ [Next]_vars => AtomicInv'
  BY ReadKeeps, WriteKeeps, ClientIsNode, TransferKeeps, FenceKeeps, FenceFlushKeeps, HandleKeeps,
     RestartKeeps, Zenon DEF WIConfig, Unaliased, vars, AtomicInv, Next
<1>3. AtomicInv => AtomicReads
  BY Zenon DEF AtomicInv, AtomicReads, WIConfig
<1>. QED
  BY <1>1, <1>2, <1>3, PTL DEF Spec

-----------------------------------------------------------------------------
(* All configurations: the types, and whose bytes lie where. *)

\* Byte v was stored to cell x of home h by one of the writes iss.
Own(iss, h, x, v) ==
  v \in 1 .. Len(iss) /\ iss[v].key.home = h /\ x \in Cells(iss[v].key)

\* The queued writes that carry only such bytes to h.
OwnWrites(iss, h) ==
  {w \in PendingRemoteWrite :
     w.hi <= RegionSize /\ \A x \in w.lo .. (w.hi - 1) : Own(iss, h, x, w.data[x])}

\* The region of h holds only such bytes.
OwnRegion(iss, h, region) ==
  region \in Regions /\ \A x \in Offsets : region[x] # 0 => Own(iss, h, x, region[x])

CacheType(cache) ==
  /\ cache = [k \in DOMAIN cache |-> cache[k]] /\ DOMAIN cache \subseteq Keys
  /\ \A k \in DOMAIN cache : cache[k] \in Payload(k)

\* So does the read cache.
OwnData(iss, k, data) == \A x \in Cells(k) : data[x] # 0 => Own(iss, k.home, x, data[x])

OwnCache(iss, cache) == \A k \in DOMAIN cache : OwnData(iss, k, cache[k])

\* The calls a client can be in the middle of.
CallType(iss, c) ==
  \/ c = Idle
  \/ \E h \in Nodes : c = [op |-> "flush", home |-> h]
  \/ \E h \in Nodes : \E w \in OwnWrites(iss, h) : c = [op |-> "write", home |-> h, write |-> w]
  \/ \E todo \in SUBSET Nodes : c = [op |-> "fence", todo |-> todo]

QueueType(iss, queue) ==
  queue = [h \in Nodes |-> queue[h]] /\ \A h \in Nodes : queue[h] \in Seq(OwnWrites(iss, h))

NodeType(iss, s) ==
  /\ IsNode(s)
  /\ s.meta \in [Blocks -> BlockMeta]
  /\ CacheType(s.cache)
  /\ QueueType(iss, s.queue)
  /\ s.pending \subseteq Nat /\ s.nextId \in Nat /\ s.inbox \in Seq(Nat)
  /\ CallType(iss, s.call)

\* The writes of the application in configuration c.
Issued(c) == Seq([node : Nodes, key : c.keys])

HistoryType ==
  /\ order \in [Nodes -> [Offsets -> Seq(Bytes)]]
  /\ seen \in [Nodes -> [Nodes -> [Offsets -> Int]]]
  /\ released \in [Nodes -> [Offsets -> Nat]]
  /\ acquired \in [Nodes -> [Nodes -> [Offsets -> Nat]]]

\* The inductive invariant of the types and of the bytes.
StateInv ==
  /\ config \in Configs
  /\ issued \in Issued(config) /\ Len(issued) <= config.writes
  /\ failures \in 0 .. config.failures
  /\ memory = [h \in Nodes |-> memory[h]] /\ \A h \in Nodes : OwnRegion(issued, h, memory[h])
  /\ node = [n \in Nodes |-> node[n]] /\ \A n \in Nodes : NodeType(issued, node[n])
  /\ mail \subseteq ControlMessage
  /\ HistoryType

\* The inductive invariant of ReadsOwnCells, over StateInv.
ReadInv ==
  Unaliased =>
    /\ \A n \in Nodes : OwnCache(issued, node[n].cache)
    /\ last # NoRead => OwnData(issued, last.key, last.data)

\* The inductive invariant of StubAcksAtOnce, over StateInv.
AcksInv == config.stub => \A n \in Nodes : node[n].pending \subseteq Held(node[n].inbox)

\* Another write leaves the bytes of the earlier ones where they are.
LEMMA OwnGrows ==
  ASSUME NEW S, NEW iss \in Seq(S), NEW e \in S
  PROVE  /\ \A h, x, v : Own(iss, h, x, v) => Own(Append(iss, e), h, x, v)
         /\ \A h : OwnWrites(iss, h) \subseteq OwnWrites(Append(iss, e), h)
BY DEF Own, OwnWrites

\* What a queued write of this kind consists of.
LEMMA OwnWriteFields ==
  ASSUME NEW iss, NEW h, NEW w \in OwnWrites(iss, h)
  PROVE  /\ w = [lo |-> w.lo, hi |-> w.hi, data |-> w.data]
         /\ w.lo \in Nat /\ w.hi \in Nat /\ w.lo < w.hi /\ w.hi <= RegionSize
         /\ w.data \in [w.lo .. (w.hi - 1) -> Bytes \cup {0}]
         /\ \A x \in Nat : Covers(w, x) => Own(iss, h, x, w.data[x]) /\ w.data[x] \in Bytes \cup {0}
<1>1. PICK r \in Ranges : w \in WritesTo(r)
  BY Zenon DEF OwnWrites, PendingRemoteWrite
<1>2. /\ w = [lo |-> w.lo, hi |-> w.hi, data |-> w.data]
      /\ w.lo = r[1] /\ w.hi = r[2] /\ w.data \in [r[1] .. (r[2] - 1) -> Bytes \cup {0}]
  BY <1>1, Zenon DEF WritesTo, PayloadOn
<1>3. r[1] \in Nat /\ r[2] \in Nat /\ r[1] < r[2]
  BY SizeAssumption DEF Ranges
<1>4. w.hi <= RegionSize /\ \A x \in w.lo .. (w.hi - 1) : Own(iss, h, x, w.data[x])
  BY Zenon DEF OwnWrites
<1>. HIDE DEF OwnWrites
<1>. QED BY <1>2, <1>3, <1>4 DEF Covers

\* And how to make one.
LEMMA OwnWriteIntro ==
  ASSUME NEW iss, NEW h, NEW lo \in Nat, NEW hi \in Nat, lo < hi, hi <= RegionSize,
         NEW data \in [lo .. (hi - 1) -> Bytes \cup {0}],
         \A x \in lo .. (hi - 1) : Own(iss, h, x, data[x])
  PROVE  [lo |-> lo, hi |-> hi, data |-> data] \in OwnWrites(iss, h)
<1>1. PICK w : w = [lo |-> lo, hi |-> hi, data |-> data]
  BY Zenon
<1>2. w \in WritesTo(<<lo, hi>>) /\ w.lo = lo /\ w.hi = hi /\ w.data = data
  BY <1>1, Zenon DEF WritesTo, PayloadOn
<1>. QED BY <1>1, <1>2, LeoMemAssumption, SizeAssumption DEF OwnWrites, PendingRemoteWrite, Ranges

\* Merging two writes that may merge puts no fill byte between them.
LEMMA MergeOwn ==
  ASSUME NEW iss, NEW h, NEW v \in OwnWrites(iss, h), NEW w \in OwnWrites(iss, h),
         CanMergeWrites(v, w)
  PROVE  MergeWrites(v, w) \in OwnWrites(iss, h)
<1>. DEFINE lo == IF v.lo <= w.lo THEN v.lo ELSE w.lo
            hi == IF v.hi >= w.hi THEN v.hi ELSE w.hi
            byte(x) == IF Covers(w, x) THEN w.data[x] ELSE IF Covers(v, x) THEN v.data[x] ELSE 0
            data == [x \in lo .. (hi - 1) |-> byte(x)]
<1>1. MergeWrites(v, w) = [lo |-> lo, hi |-> hi, data |-> data]
  BY Zenon DEF MergeWrites
<1>2. /\ v.lo \in Nat /\ v.hi \in Nat /\ v.lo < v.hi /\ v.hi <= RegionSize
      /\ w.lo \in Nat /\ w.hi \in Nat /\ w.lo < w.hi /\ w.hi <= RegionSize
      /\ \A x \in Nat : Covers(v, x) => Own(iss, h, x, v.data[x]) /\ v.data[x] \in Bytes \cup {0}
      /\ \A x \in Nat : Covers(w, x) => Own(iss, h, x, w.data[x]) /\ w.data[x] \in Bytes \cup {0}
  BY OwnWriteFields, Zenon
<1>3. lo \in Nat /\ hi \in Nat /\ lo < hi /\ hi <= RegionSize
  BY <1>2
<1>4. \A x \in lo .. (hi - 1) : x \in Nat /\ (Covers(v, x) \/ Covers(w, x))
  BY <1>2 DEF Covers, CanMergeWrites
<1>. HIDE DEF lo, hi
<1>5. /\ data \in [lo .. (hi - 1) -> Bytes \cup {0}]
      /\ \A x \in lo .. (hi - 1) : Own(iss, h, x, data[x])
  BY <1>2, <1>4, Zenon
<1>. HIDE DEF data
<1>. QED
  BY <1>1, <1>3, <1>5, OwnWriteIntro, Zenon

\* QueueRemoteWrite keeps such a queue.
LEMMA QueueOwn ==
  ASSUME NEW iss, NEW h, NEW q \in Seq(OwnWrites(iss, h)), NEW w \in OwnWrites(iss, h)
  PROVE  QueueRemoteWrite(q, w) \in Seq(OwnWrites(iss, h))
<1>1. PICK W : W = OwnWrites(iss, h)
  BY Zenon
<1>2. CASE Mergeable(q, w) = {}
  BY <1>1, <1>2 DEF QueueRemoteWrite
<1>3. CASE Mergeable(q, w) # {}
  <2>1. Mergeable(q, w) \in SUBSET Nat
    BY DEF Mergeable
  <2>2. PICK k : k = FirstMergeable(q, w)
    BY Zenon
  <2>3. k \in 1 .. Len(q) /\ CanMergeWrites(q[k], w)
    BY <1>3, <2>1, <2>2, LeastNat, Zenon DEF Mergeable, FirstMergeable
  <2>4. PICK m : m = MergeWrites(q[k], w)
    BY Zenon
  <2>5. m \in W
    BY <1>1, <2>3, <2>4, MergeOwn
  <2>6. q \in Seq(W)
    BY <1>1, Zenon
  <2>7. [q EXCEPT ![k] = m] \in Seq(W)
    BY ONLY <2>3, <2>5, <2>6
  <2>. QED BY <1>1, <1>3, <2>2, <2>4, <2>7, Zenon DEF QueueRemoteWrite
<1>. QED
  BY <1>2, <1>3, Zenon

\* A batch of them is applied entirely, and leaves no fill byte where it hits.
LEMMA BatchOwn ==
  ASSUME NEW iss, NEW h, NEW region, OwnRegion(iss, h, region), NEW q \in Seq(OwnWrites(iss, h))
  PROVE  /\ OwnRegion(iss, h, BatchWrite(region, q))
         /\ \A x \in Offsets : (\E i \in 1 .. Len(q) : Covers(q[i], x)) =>
              Own(iss, h, x, BatchWrite(region, q)[x]) /\ BatchWrite(region, q)[x] \in Bytes \cup {0}
<1>. DEFINE hit(x) == \E i \in 1 .. Len(q) : Covers(q[i], x)
<1>1. \A i \in 1 .. Len(q) : q[i] \in OwnWrites(iss, h)
  OBVIOUS
<1>2. AppliedRequests(q) = 1 .. Len(q)
  BY <1>1, OwnWriteFields DEF AppliedRequests, InRegion
<1>3. PICK new : new = BatchWrite(region, q)
  BY Zenon
<1>4. new = [x \in Offsets |->
               LET covering == {k \in 1 .. Len(q) : Covers(q[k], x)}
               IN IF covering = {} THEN region[x]
                  ELSE q[CHOOSE k \in covering : \A j \in covering : j <= k].data[x]]
  BY <1>2, <1>3 DEF BatchWrite, ApplyWrites
<1>5. ASSUME NEW x \in Offsets, hit(x)
      PROVE  Own(iss, h, x, new[x]) /\ new[x] \in Bytes \cup {0}
  <2>1. PICK covering : covering = {k \in 1 .. Len(q) : Covers(q[k], x)}
    BY Zenon
  <2>2. covering # {} /\ covering \in SUBSET (0 .. Len(q)) /\ Len(q) \in Nat
    BY <1>5, <2>1
  <2>3. PICK top : top = CHOOSE k \in covering : \A j \in covering : j <= k
    BY Zenon
  <2>4. top \in covering
    BY <2>2, <2>3, GreatestNat, Zenon
  <2>5. new[x] = q[top].data[x]
    BY <1>4, <2>1, <2>2, <2>3, Zenon
  <2>6. q[top] \in OwnWrites(iss, h) /\ Covers(q[top], x) /\ x \in Nat
    BY <1>1, <2>1, <2>4, SizeAssumption DEF Offsets
  <2>. QED
    BY <2>5, <2>6, OwnWriteFields
<1>6. ASSUME NEW x \in Offsets, ~hit(x)
      PROVE  new[x] = region[x]
  BY <1>4, <1>6, Zenon
<1>7. new = [x \in Offsets |-> new[x]]
  BY <1>4
<1>. HIDE DEF hit
<1>. QED BY <1>3, <1>5, <1>6, <1>7, Zenon DEF hit, OwnRegion, Regions

\* The write lm_write makes carries its own bytes.
LEMMA IssuedWriteOwn ==
  ASSUME NEW S, NEW iss \in Seq(S), Len(iss) < MaxWrites, NEW k \in Keys, NEW e \in S, e.key = k
  PROVE  [lo |-> k.lo, hi |-> k.hi, data |-> [x \in Cells(k) |-> Len(iss) + 1]]
           \in OwnWrites(Append(iss, e), k.home)
<1>1. k.lo \in Nat /\ k.hi \in Nat /\ k.lo < k.hi /\ k.hi <= RegionSize
  BY SizeAssumption DEF Keys, Offsets
<1>2. PICK new : new = Append(iss, e)
  BY Zenon
<1>3. PICK data : data = [x \in Cells(k) |-> Len(iss) + 1]
  BY Zenon
<1>4. data \in [k.lo .. (k.hi - 1) -> Bytes \cup {0}] /\ \A x \in k.lo .. (k.hi - 1) : data[x] = Len(iss) + 1
  BY <1>3, LeoMemAssumption DEF Cells
<1>5. \A x \in k.lo .. (k.hi - 1) : Own(new, k.home, x, data[x])
  BY <1>2, <1>4 DEF Own, Cells
<1>. QED BY <1>1, <1>2, <1>3, <1>4, <1>5, OwnWriteIntro, Zenon

-----------------------------------------------------------------------------
(* The metadata is well typed. *)

\* A range in use has a node as its home and touches blocks of the region.
LEMMA KeyBlocks ==
  ASSUME NEW k \in Keys
  PROVE  /\ k.home \in Nodes /\ k.lo \in Nat /\ k.hi \in Nat /\ k.lo < k.hi
         /\ Cells(k) \subseteq Offsets
         /\ BlocksOf(k) \in SUBSET Blocks /\ BlocksOf(k) # {}
BY SizeAssumption DEF Keys, Offsets, Cells, BlocksOf, Blocks

\* So the greatest version of its blocks exists.
LEMMA MaxVersion ==
  ASSUME NEW k \in Keys, NEW meta \in [Blocks -> BlockMeta]
  PROVE  MaxObservedVersion(meta, k) \in Nat
<1>1. PICK versions : versions = {meta[b].version : b \in BlocksOf(k)}
  BY Zenon
<1>2. BlocksOf(k) \in SUBSET Blocks /\ BlocksOf(k) # {}
  BY KeyBlocks, Zenon
<1>3. \A b \in BlocksOf(k) : meta[b].version \in Nat
  BY <1>2, Zenon DEF BlockMeta
<1>4. versions \in SUBSET Nat /\ versions # {}
  BY <1>1, <1>2, <1>3, Zenon
<1>5. PICK f : f = [x \in Cells(k) |-> meta[x \div BlockSize].version]
  BY Zenon
<1>6. PICK bound \in Nat : \A x \in Cells(k) : f[x] <= bound
  <2>1. Cells(k) \in SUBSET (0 .. RegionSize) /\ RegionSize \in Nat
    BY KeyBlocks, SizeAssumption DEF Offsets
  <2>. QED BY <1>3, <1>5, <2>1, BoundedNats, Zenon DEF BlocksOf
<1>7. \E v \in versions : \A u \in versions : u <= v
  <2>1. versions \in SUBSET (0 .. bound)
    BY <1>1, <1>4, <1>5, <1>6 DEF BlocksOf
  <2>. QED
    BY <1>4, <2>1, GreatestNat, Zenon
<1>. QED BY <1>1, <1>4, <1>7, Zenon DEF MaxObservedVersion

\* The owner a range is read from, or redirected to, is a node.
LEMMA SourceIsNode ==
  ASSUME NEW n \in Nodes, NEW k \in Keys, NEW meta \in [Blocks -> BlockMeta],
         \A b \in BlocksOf(k) : meta[b].owner # NoNode
  PROVE  ReadSource(meta, n, k) \in Nodes
BY KeyBlocks, Zenon DEF Cells, BlocksOf, BlockMeta, DominantOwnerNode, ReadSource

\* PrepareMetadata.
LEMMA PrepareType ==
  ASSUME NEW n \in Nodes, NEW k \in Keys, NEW type, NEW meta \in [Blocks -> BlockMeta]
  PROVE  /\ PrepareMetadata(meta, n, k, type) \in [Blocks -> BlockMeta]
         /\ \A b \in BlocksOf(k) : PrepareMetadata(meta, n, k, type)[b].owner # NoNode
<1>. DEFINE new == PrepareMetadata(meta, n, k, type)
<1>1. k.home \in Nodes /\ BlocksOf(k) \in SUBSET Blocks /\ NoNode \notin Nodes
  BY KeyBlocks, LeoMemAssumption, Zenon
<1>2. new = [b \in Blocks |-> new[b]]
  BY Zenon DEF PrepareMetadata
<1>3. ASSUME NEW b \in Blocks
      PROVE  new[b] \in BlockMeta /\ (b \in BlocksOf(k) => new[b].owner # NoNode)
  <2>1. PICK m \in BlockMeta : m = meta[b]
    BY Zenon
  <2>2. \/ b \notin BlocksOf(k) /\ new[b] = m
        \/ new[b] = [m EXCEPT !.state = "Home", !.owner = n,
                              !.version = IF type = "Write" THEN @ + 1 ELSE @]
        \/ new[b] = [m EXCEPT !.owner = IF @ = NoNode THEN k.home ELSE @,
                              !.state = IF @ = "Home" THEN "Shared" ELSE @]
    BY <2>1, Zenon DEF PrepareMetadata
  <2>. HIDE DEF new
  <2>3. PICK version \in Nat : version = IF type = "Write" THEN m.version + 1 ELSE m.version
    BY DEF BlockMeta
  <2>4. PICK owner \in Nodes : owner = IF m.owner = NoNode THEN k.home ELSE m.owner
    BY <1>1, Zenon DEF BlockMeta
  <2>5. PICK state \in {"Invalid", "Shared", "Owner", "Home"} :
          state = IF m.state = "Home" THEN "Shared" ELSE m.state
    BY Zenon DEF BlockMeta
  <2>6. PICK r : r = new[b]
    BY Zenon
  <2>7. CASE b \notin BlocksOf(k) /\ r = m
    BY <2>6, <2>7, Zenon
  <2>8. CASE r = [m EXCEPT !.state = "Home", !.owner = n, !.version = version]
    <3>1. r \in BlockMeta /\ r.owner = n
      BY <2>8, Zenon DEF BlockMeta
    <3>. QED
      BY <1>1, <2>6, <3>1, Zenon
  <2>9. CASE r = [m EXCEPT !.owner = owner, !.state = state]
    <3>1. r \in BlockMeta /\ r.owner = owner
      BY <2>9, Zenon DEF BlockMeta
    <3>. QED
      BY <1>1, <2>6, <3>1, Zenon
  <2>. QED BY <2>2, <2>3, <2>4, <2>5, <2>6, <2>7, <2>8, <2>9, Zenon DEF BlockMeta
<1>. HIDE DEF new
<1>. QED BY <1>1, <1>2, <1>3, Zenon DEF new

\* ReadMetadata.
LEMMA ReadMetaType ==
  ASSUME NEW n \in Nodes, NEW k \in Keys, NEW source, NEW meta \in [Blocks -> BlockMeta]
  PROVE  ReadMetadata(meta, n, k, source) \in [Blocks -> BlockMeta]
<1>. DEFINE new == ReadMetadata(meta, n, k, source)
<1>1. k.home \in Nodes
  BY KeyBlocks, Zenon
<1>2. new = [b \in Blocks |-> new[b]]
  BY Zenon DEF ReadMetadata
<1>3. PICK top \in Nat : top = MaxObservedVersion(meta, k)
  BY MaxVersion, Zenon
<1>4. ASSUME NEW b \in Blocks
      PROVE  new[b] \in BlockMeta
  <2>1. PICK m \in BlockMeta : m = meta[b]
    BY Zenon
  <2>2. \/ new[b] = m
        \/ new[b] = [m EXCEPT !.validated = m.version, !.state = "Owner", !.version = top]
        \/ new[b] = [m EXCEPT !.validated = m.version, !.state = "Shared", !.owner = k.home]
        \/ new[b] = [m EXCEPT !.validated = m.version]
    BY <1>3, <2>1, Zenon DEF ReadMetadata
  <2>. HIDE DEF new
  <2>. QED
    BY <1>1, <2>2, Zenon DEF BlockMeta
<1>. HIDE DEF new
<1>. QED BY <1>2, <1>4, Zenon DEF new

\* ApplyWriteMetadata.
LEMMA WriteMetaType ==
  ASSUME NEW n \in Nodes, NEW k \in Keys, NEW modes, NEW meta \in [Blocks -> BlockMeta]
  PROVE  ApplyWriteMetadata(meta, n, k, modes) \in [Blocks -> BlockMeta]
<1>. DEFINE new == ApplyWriteMetadata(meta, n, k, modes)
<1>1. k.home \in Nodes
  BY KeyBlocks, Zenon
<1>2. new = [b \in Blocks |-> new[b]]
  BY Zenon DEF ApplyWriteMetadata
<1>3. ASSUME NEW b \in Blocks
      PROVE  new[b] \in BlockMeta
  <2>1. PICK m \in BlockMeta : m = meta[b]
    BY Zenon
  <2>2. PICK owner : owner = CASE modes[b] = "WI" -> k.home [] modes[b] = "Adaptive" -> n [] OTHER -> m.owner
    BY Zenon
  <2>3. owner \in {k.home, n, m.owner}
    BY <2>2, Zenon
  <2>4. PICK state \in {"Owner", "Shared"} : state = IF modes[b] = "Adaptive" THEN "Owner" ELSE "Shared"
    BY Zenon
  <2>5. \/ new[b] = m
        \/ new[b] = [m EXCEPT !.version = @ + 1, !.owner = owner, !.state = state]
    BY <2>1, <2>2, <2>4, Zenon DEF ApplyWriteMetadata, BlockMeta
  <2>. HIDE DEF new
  <2>6. m.version + 1 \in Nat /\ owner \in Nodes \cup {NoNode}
    BY <1>1, <2>3 DEF BlockMeta
  <2>. QED
    BY ONLY <2>5, <2>6, m \in BlockMeta, state \in {"Owner", "Shared"}, Zenon DEF BlockMeta
<1>. HIDE DEF new
<1>. QED BY <1>2, <1>3, Zenon DEF new

-----------------------------------------------------------------------------
(* The parts of a node. *)

\* A node is well typed if its fields are.
LEMMA NodeIntro ==
  ASSUME NEW iss, NEW t, NEW cache, NEW queue, NEW meta \in [Blocks -> BlockMeta],
         NEW pending \in SUBSET Nat, NEW nextId \in Nat, NEW inbox \in Seq(Nat), NEW call,
         CacheType(cache), QueueType(iss, queue), CallType(iss, call),
         t = [cache |-> cache, queue |-> queue, meta |-> meta, pending |-> pending,
              nextId |-> nextId, inbox |-> inbox, call |-> call]
  PROVE  /\ NodeType(iss, t)
         /\ t.cache = cache /\ t.queue = queue /\ t.meta = meta /\ t.pending = pending
         /\ t.nextId = nextId /\ t.inbox = inbox /\ t.call = call
BY Zenon DEF NodeType, IsNode

\* Its fields, for use with NodeIntro.
LEMMA NodeFields ==
  ASSUME NEW iss, NEW s, NodeType(iss, s)
  PROVE  /\ s = [cache |-> s.cache, queue |-> s.queue, meta |-> s.meta, pending |-> s.pending,
                 nextId |-> s.nextId, inbox |-> s.inbox, call |-> s.call]
         /\ s.meta \in [Blocks -> BlockMeta] /\ s.pending \in SUBSET Nat /\ s.nextId \in Nat
         /\ s.inbox \in Seq(Nat)
         /\ CacheType(s.cache) /\ QueueType(iss, s.queue) /\ CallType(iss, s.call)
BY Zenon DEF NodeType, IsNode

\* Another write leaves a node well typed, and its cache with bytes of its own.
LEMMA NodeGrows ==
  ASSUME NEW S, NEW iss \in Seq(S), NEW e \in S, NEW s, NodeType(iss, s)
  PROVE  NodeType(Append(iss, e), s) /\ (OwnCache(iss, s.cache) => OwnCache(Append(iss, e), s.cache))
<1>1. PICK new : new = Append(iss, e)
  BY Zenon
<1>2. /\ \A h, x, v : Own(iss, h, x, v) => Own(new, h, x, v)
      /\ \A h : OwnWrites(iss, h) \subseteq OwnWrites(new, h)
  BY <1>1, OwnGrows, Zenon
<1>3. CallType(new, s.call)
  BY <1>2, Zenon DEF NodeType, CallType
<1>. QED BY <1>1, <1>2, <1>3 DEF OwnCache, OwnData, NodeType, QueueType

\* Dropping entries keeps a cache.
LEMMA SubCache ==
  ASSUME NEW cache, CacheType(cache), NEW D \in SUBSET DOMAIN cache, NEW new,
         new = [l \in D |-> cache[l]]
  PROVE  CacheType(new) /\ \A iss : OwnCache(iss, cache) => OwnCache(iss, new)
BY Zenon DEF CacheType, OwnCache

\* So does inserting an entry.
LEMMA InsertType ==
  ASSUME NEW cache, CacheType(cache), NEW k \in Keys, NEW data \in Payload(k), NEW kept
  PROVE  /\ CacheType(InsertCached(cache, k, data, kept))
         /\ \A iss : OwnCache(iss, cache) /\ OwnData(iss, k, data) =>
              OwnCache(iss, InsertCached(cache, k, data, kept))
<1>1. PICK new : new = [l \in (kept \cap DOMAIN cache) \cup {k} |-> IF l = k THEN data ELSE cache[l]]
  BY Zenon
<1>2. CacheType(new) /\ \A iss : OwnCache(iss, cache) /\ OwnData(iss, k, data) => OwnCache(iss, new)
  BY <1>1, Zenon DEF CacheType, OwnCache
<1>3. InsertCached(cache, k, data, kept) = new \/ InsertCached(cache, k, data, kept) = cache
  BY <1>1, Zenon DEF InsertCached
<1>. QED
  BY <1>2, <1>3, Zenon

\* Draining completes what the inbox acknowledges.
LEMMA DrainedType ==
  ASSUME NEW iss, NEW s, NodeType(iss, s)
  PROVE  /\ NodeType(iss, Drained(s))
         /\ Drained(s).cache = s.cache /\ Drained(s).queue = s.queue /\ Drained(s).meta = s.meta
         /\ Drained(s).call = s.call /\ Drained(s).nextId = s.nextId
         /\ Drained(s).inbox = <<>> /\ Drained(s).pending = s.pending \ Held(s.inbox)
<1>1. PICK left : left = s.pending \ Held(s.inbox)
  BY Zenon
<1>2. PICK none : none = <<>>
  BY Zenon
<1>3. none \in Seq(Nat)
  BY <1>2
<1>4. s = [cache |-> s.cache, queue |-> s.queue, meta |-> s.meta, pending |-> s.pending,
           nextId |-> s.nextId, inbox |-> s.inbox, call |-> s.call]
  BY NodeFields, Zenon
<1>5. PICK t : t = Drained(s)
  BY Zenon
<1>6. t = [s EXCEPT !.inbox = none, !.pending = left]
  BY <1>2, <1>1, <1>5, Zenon DEF Drained
<1>7. t = [cache |-> s.cache, queue |-> s.queue, meta |-> s.meta, pending |-> left,
           nextId |-> s.nextId, inbox |-> none, call |-> s.call]
  BY ONLY <1>6, <1>4, Zenon
<1>8. NodeType(iss, t)
  BY <1>1, <1>7, <1>3, NodeFields, NodeIntro
<1>. QED BY <1>2, <1>1, <1>5, <1>7, <1>8

\* New metadata.
LEMMA WithMetaType ==
  ASSUME NEW iss, NEW s, NodeType(iss, s), NEW meta \in [Blocks -> BlockMeta],
         NEW t, t = [s EXCEPT !.meta = meta]
  PROVE  /\ NodeType(iss, t)
         /\ t.cache = s.cache /\ t.queue = s.queue /\ t.meta = meta /\ t.call = s.call
         /\ t.nextId = s.nextId /\ t.inbox = s.inbox /\ t.pending = s.pending
BY NodeFields, NodeIntro

\* A new cache.
LEMMA WithCacheType ==
  ASSUME NEW iss, NEW s, NodeType(iss, s), NEW cache, CacheType(cache),
         NEW t, t = [s EXCEPT !.cache = cache]
  PROVE  /\ NodeType(iss, t)
         /\ t.cache = cache /\ t.queue = s.queue /\ t.meta = s.meta /\ t.call = s.call
         /\ t.nextId = s.nextId /\ t.inbox = s.inbox /\ t.pending = s.pending
BY NodeFields, NodeIntro

\* What one step of node n does to its state: the types, the acks of the stub
\* and, without aliased blocks, the bytes in the cache are kept.
NodeStep(n) ==
  \E t : /\ node' = [node EXCEPT ![n] = t]
         /\ NodeType(issued', t)
         /\ config.stub /\ node[n].pending \subseteq Held(node[n].inbox) =>
              t.pending \subseteq Held(t.inbox)
         /\ Unaliased /\ OwnCache(issued, node[n].cache) => OwnCache(issued', t.cache)

-----------------------------------------------------------------------------
(* The histories and the regions. *)

\* Rank is a number.
LEMMA RankType ==
  ASSUME HistoryType, NEW h \in Nodes, NEW x \in Offsets, NEW v
  PROVE  Rank(h, x, v) \in Int
BY BytesAssumption DEF HistoryType, Held, Rank

\* One row of the table of what the clients have seen is replaced.
LEMMA SeenReplaced ==
  ASSUME NEW table \in [Nodes -> [Nodes -> [Offsets -> Int]]], NEW n \in Nodes, NEW h \in Nodes,
         NEW row \in [Offsets -> Int]
  PROVE  [table EXCEPT ![n][h] = row] \in [Nodes -> [Nodes -> [Offsets -> Int]]]
BY Zenon

\* A read.
LEMMA ReturnedType ==
  ASSUME HistoryType, NEW n \in Nodes, NEW k \in Keys, NEW data, Returned(n, k, data)
  PROVE  HistoryType' /\ issued' = issued
<1>1. k.home \in Nodes
  BY KeyBlocks, Zenon
<1>2. PICK row : row = [x \in Offsets |-> IF x \in Cells(k) THEN Rank(k.home, x, data[x])
                                          ELSE seen[n][k.home][x]]
  BY Zenon
<1>3. \A x \in Offsets : seen[n][k.home][x] \in Int
  BY <1>1 DEF HistoryType
<1>4. seen' \in [Nodes -> [Nodes -> [Offsets -> Int]]]
  BY <1>1, <1>2, <1>3, RankType, SeenReplaced, Zenon DEF HistoryType, Returned
<1>. QED
  BY <1>4, Zenon DEF Returned, HistoryType

\* A batch of writes.
LEMMA DeliveredType ==
  ASSUME HistoryType, NEW n \in Nodes, NEW h \in Nodes, NEW iss, Len(iss) \in 0 .. MaxWrites,
         memory = [g \in Nodes |-> memory[g]], \A g \in Nodes : OwnRegion(iss, g, memory[g]),
         NEW q \in Seq(OwnWrites(iss, h)), Delivered(n, h, q),
         UNCHANGED <<released, acquired>>
  PROVE  /\ HistoryType'
         /\ memory' = [g \in Nodes |-> memory'[g]]
         /\ \A g \in Nodes : OwnRegion(iss, g, memory'[g])
<1>1. PICK new : new = BatchWrite(memory[h], q)
  BY Zenon
<1>2. PICK hit : hit = {x \in Offsets : \E i \in 1 .. Len(q) : Covers(q[i], x)}
  BY Zenon
<1>3. OwnRegion(iss, h, new) /\ \A x \in hit : Own(iss, h, x, new[x])
  BY <1>1, <1>2, BatchOwn, Zenon
<1>4. memory' = [memory EXCEPT ![h] = new]
  BY <1>1, Zenon DEF Delivered
<1>5. \A x \in hit : new[x] \in Bytes
  BY <1>3, LeoMemAssumption DEF Own
<1>6. memory'[h] = new
  BY <1>4, Zenon
<1>7. PICK row : row = [x \in Offsets |-> IF x \in hit THEN Append(order[h][x], new[x]) ELSE order[h][x]]
  BY Zenon
<1>8. order' = [order EXCEPT ![h] = row]
  BY <1>2, <1>6, <1>7, Zenon DEF Delivered
<1>9. row \in [Offsets -> Seq(Bytes)]
  BY <1>5, <1>7 DEF HistoryType
<1>10. order' \in [Nodes -> [Offsets -> Seq(Bytes)]] /\ order'[h] = row
  BY <1>8, <1>9, Zenon DEF HistoryType
<1>11. PICK far : far = [x \in Offsets |-> IF x \in hit THEN Len(row[x]) ELSE seen[n][h][x]]
  BY Zenon
<1>12. seen' = [seen EXCEPT ![n][h] = far]
  BY <1>2, <1>10, <1>11, Zenon DEF Delivered
<1>13. seen' \in [Nodes -> [Nodes -> [Offsets -> Int]]]
  BY <1>9, <1>11, <1>12, SeenReplaced DEF HistoryType
<1>14. memory' = [g \in Nodes |-> memory'[g]] /\ \A g \in Nodes : g # h => memory'[g] = memory[g]
  BY <1>4, Zenon
<1>. QED BY <1>3, <1>6, <1>10, <1>13, <1>14, Zenon DEF HistoryType

\* The first writes of a batch.
LEMMA DeliveredInPartType ==
  ASSUME HistoryType, NEW n \in Nodes, NEW h \in Nodes, NEW iss, Len(iss) \in 0 .. MaxWrites,
         memory = [g \in Nodes |-> memory[g]], \A g \in Nodes : OwnRegion(iss, g, memory[g]),
         NEW q \in Seq(OwnWrites(iss, h)), DeliveredInPart(n, h, q),
         UNCHANGED <<released, acquired>>
  PROVE  /\ HistoryType'
         /\ memory' = [g \in Nodes |-> memory'[g]]
         /\ \A g \in Nodes : OwnRegion(iss, g, memory'[g])
<1>1. PICK i \in 1 .. Len(q) : Delivered(n, h, SubSeq(q, 1, i - 1))
  BY Zenon DEF DeliveredInPart
<1>2. PICK W : W = OwnWrites(iss, h)
  BY Zenon
<1>3. q \in Seq(W)
  BY <1>2, Zenon
<1>4. SubSeq(q, 1, i - 1) \in Seq(W)
  BY ONLY <1>1, <1>3
<1>. QED
  BY <1>1, <1>2, <1>4, DeliveredType, Zenon

\* A fence.
LEMMA FencedType ==
  ASSUME HistoryType, NEW n \in Nodes, Fenced(n), UNCHANGED <<order, seen>>
  PROVE  HistoryType'
<1>. DEFINE own(h, x) == {i \in 1 .. Len(order[h][x]) : issued[order[h][x][i]].node = n}
            latest(S, i) == CHOOSE j \in S \cup {i} : \A l \in S \cup {i} : l <= j
<1>1. released' = [h \in Nodes |-> [x \in Offsets |-> latest(own(h, x), released[h][x])]]
  BY Zenon DEF Fenced
<1>2. ASSUME NEW h \in Nodes, NEW x \in Offsets
      PROVE  latest(own(h, x), released[h][x]) \in Nat
  <2>1. PICK len \in Nat : len = Len(order[h][x])
    BY DEF HistoryType
  <2>2. PICK r \in Nat : r = released[h][x]
    BY Zenon DEF HistoryType
  <2>3. PICK S : S = own(h, x) \cup {r}
    BY Zenon
  <2>4. PICK b \in Nat : b = len + r
    OBVIOUS
  <2>5. \A i \in own(h, x) : i \in 1 .. len
    BY <2>1, Zenon
  <2>. HIDE DEF own
  <2>6. S \in SUBSET (0 .. b) /\ S # {}
    BY <2>3, <2>4, <2>5
  <2>7. \E m \in S : \A l \in S : l <= m
    BY <2>6, GreatestNat, Zenon
  <2>8. latest(own(h, x), released[h][x]) = CHOOSE j \in S : \A l \in S : l <= j
    BY <2>2, <2>3, Zenon
  <2>9. PICK top : top = latest(own(h, x), released[h][x])
    BY Zenon
  <2>. HIDE DEF latest
  <2>10. top \in S
    BY <2>7, <2>8, <2>9, Zenon
  <2>11. top \in Nat
    BY ONLY <2>4, <2>6, <2>10
  <2>. QED
    BY <2>9, <2>11, Zenon
<1>. HIDE DEF own, latest
<1>3. released' \in [Nodes -> [Offsets -> Nat]]
  BY <1>1, <1>2, Zenon
<1>. QED BY <1>3, Zenon DEF HistoryType, Fenced

-----------------------------------------------------------------------------
(* lm_read. *)

\* Clients are nodes and the ranges in use are well formed.
LEMMA InUse ==
  ASSUME config \in Configs
  PROVE  /\ config.clients \subseteq Nodes /\ config.keys \subseteq Keys
         /\ config.writes \in 0 .. MaxWrites /\ config.failures \in Nat /\ config.stub \in BOOLEAN
BY LeoMemAssumption, Zenon DEF ConfigType

\* The number of writes is bounded.
LEMMA IssuedBound ==
  ASSUME StateInv
  PROVE  Len(issued) \in 0 .. MaxWrites
BY InUse, LeoMemAssumption DEF StateInv, Issued

\* So is the number of failures.
LEMMA FailsType ==
  ASSUME StateInv, Fails
  PROVE  failures' \in 0 .. config.failures
BY InUse DEF StateInv, Fails

\* The state a read or write starts from.
Prepared(s, n, k, type) == [Drained(s) EXCEPT !.meta = PrepareMetadata(@, n, k, type)]

\* A prepared node has its type and knows an owner of every block of the range.
LEMMA PreparedType ==
  ASSUME NEW iss, NEW s, NodeType(iss, s), NEW n \in Nodes, NEW k \in Keys, NEW type,
         NEW p, p = Prepared(s, n, k, type)
  PROVE  /\ NodeType(iss, p) /\ \A b \in BlocksOf(k) : p.meta[b].owner # NoNode
         /\ p.cache = s.cache /\ p.queue = s.queue /\ p.call = s.call /\ p.inbox = <<>>
         /\ p.pending = Drained(s).pending
<1>1. PICK d : d = Drained(s)
  BY Zenon
<1>2. /\ NodeType(iss, d) /\ d.cache = s.cache /\ d.queue = s.queue
      /\ d.call = s.call /\ d.inbox = <<>>
  BY <1>1, DrainedType, Zenon
<1>3. PICK new : new = PrepareMetadata(d.meta, n, k, type)
  BY Zenon
<1>4. new \in [Blocks -> BlockMeta] /\ \A b \in BlocksOf(k) : new[b].owner # NoNode
  BY <1>2, NodeFields, <1>3, PrepareType, Zenon
<1>5. p = [d EXCEPT !.meta = new]
  BY <1>1, <1>3, Zenon DEF Prepared
<1>6. /\ NodeType(iss, p) /\ p.cache = d.cache /\ p.queue = d.queue /\ p.meta = new
      /\ p.call = d.call /\ p.inbox = d.inbox /\ p.pending = d.pending
  BY ONLY <1>2, <1>4, <1>5, WithMetaType
<1>. QED
  BY <1>1, <1>2, <1>4, <1>6, Zenon

\* What a region holds for a range is a payload of it.
LEMMA SliceType ==
  ASSUME NEW k \in Keys, NEW region \in Regions
  PROVE  Slice(region, k) \in Payload(k)
BY KeyBlocks, Zenon DEF Slice, Payload, Regions

\* Without aliased blocks a redirected read finds a region that nobody wrote
\* there: its bytes are fill bytes.
LEMMA SourceOwn ==
  ASSUME StateInv, Unaliased, NEW n \in config.clients, NEW k \in config.keys, k.home # n,
         NEW meta, NEW source \in Nodes, source \in {ReadSource(meta, n, k), k.home}
  PROVE  OwnData(issued, k, Slice(memory[source], k))
<1>1. k \in Keys /\ Cells(k) \subseteq Offsets /\ issued \in Seq([node : Nodes, key : config.keys])
  BY InUse, KeyBlocks, Zenon DEF StateInv, Issued
<1>2. \A x \in Offsets : memory[source][x] # 0 => Own(issued, source, x, memory[source][x])
  BY Zenon DEF StateInv, OwnRegion
<1>3. ASSUME NEW x \in Cells(k), memory[source][x] # 0
      PROVE  source = k.home
  <2>1. PICK v : v = memory[source][x]
    BY Zenon
  <2>2. v \in 1 .. Len(issued) /\ issued[v].key.home = source /\ x \in Cells(issued[v].key)
    BY <1>1, <1>2, <1>3, <2>1, Zenon DEF Own
  <2>3. PICK K : K = config.keys
    BY Zenon
  <2>4. PICK l \in K : l = issued[v].key
    <3>1. issued[v] \in [node : Nodes, key : K]
      <4>1. PICK S : S = [node : Nodes, key : K]
        BY Zenon
      <4>2. issued \in Seq(S)
        BY <1>1, <2>3, <4>1, Zenon
      <4>3. issued[v] \in S
        BY ONLY <2>2, <4>2
      <4>. QED
        BY <4>1, <4>3, Zenon
    <3>. QED
      BY <3>1, Zenon
  <2>5. x \div BlockSize \in BlocksOf(k) /\ x \div BlockSize \in BlocksOf(l)
    BY <2>2, <2>4, Zenon DEF BlocksOf
  <2>. QED BY <2>3, <2>2, <2>4, <2>5, Zenon DEF ReadSource, Unaliased
<1>. QED BY <1>1, <1>2, <1>3, Zenon DEF OwnData, Slice

\* A hit copies the bytes of the same cells.
LEMMA HitOwn ==
  ASSUME NEW iss, NEW cache, CacheType(cache), OwnCache(iss, cache), NEW k \in Keys,
         NEW l \in CacheHits(cache, k)
  PROVE  OwnData(iss, k, CachedBytes(cache[l], l, k))
BY KeyBlocks DEF CacheHits, CacheType, Cells, OwnCache, CachedBytes, OwnData

\* lm_read keeps the types, and returns bytes of its own cells.
LEMMA ReadStep ==
  ASSUME StateInv, NEW n \in config.clients, NEW k \in config.keys, lm_read(n, k)
  PROVE  /\ NodeStep(n) /\ HistoryType' /\ issued' = issued /\ failures' \in 0 .. config.failures
         /\ \/ last' = NoRead
            \/ Unaliased /\ OwnCache(issued, node[n].cache) => OwnData(issued, last'.key, last'.data)
<1>1. PICK p : p = Prepared(node[n], n, k, "Read")
  BY Zenon
<1>2. n \in Nodes /\ k \in Keys /\ NodeType(issued, node[n]) /\ HistoryType
  BY InUse, Zenon DEF StateInv
<1>3. /\ NodeType(issued, p) /\ p.cache = node[n].cache
      /\ \A b \in BlocksOf(k) : p.meta[b].owner # NoNode
      /\ p.pending = Drained(node[n]).pending
  BY <1>1, <1>2, PreparedType
<1>4. p.pending = {}
  BY <1>3, Zenon DEF lm_read, TimesOut
<1>5. ASSUME NEW data, Returned(n, k, data)
      PROVE  HistoryType' /\ issued' = issued /\ last'.key = k /\ last'.data = data
  BY <1>2, <1>5, ReturnedType, Zenon DEF Returned
<1>6. ASSUME NEW t, node' = [node EXCEPT ![n] = t], issued' = issued, NodeType(issued, t), t.pending = {},
             Unaliased /\ OwnCache(issued, node[n].cache) => OwnCache(issued, t.cache)
      PROVE  NodeStep(n)
  BY <1>6, Zenon DEF NodeStep
<1>7. ASSUME ReadLocal(n, k, p)
      PROVE  /\ NodeStep(n) /\ HistoryType' /\ issued' = issued
             /\ Unaliased /\ OwnCache(issued, node[n].cache) => OwnData(issued, last'.key, last'.data)
  BY <1>7, <1>5, <1>2, KeyBlocks, <1>3, <1>4, <1>6 DEF ReadLocal, StateInv, OwnData, OwnRegion, Slice
<1>8. ASSUME ReadCached(n, k, p)
      PROVE  /\ NodeStep(n) /\ HistoryType' /\ issued' = issued
             /\ Unaliased /\ OwnCache(issued, node[n].cache) => OwnData(issued, last'.key, last'.data)
  BY <1>8, <1>5, <1>2, <1>3, HitOwn, NodeFields, <1>4, <1>6, Zenon DEF ReadCached
<1>9. ASSUME ReadFails(n, k, p)
      PROVE  NodeStep(n) /\ HistoryType' /\ issued' = issued /\ last' = NoRead
  BY <1>9, <1>2, <1>3, <1>4, <1>6, Zenon DEF ReadFails, HistoryType
<1>10. ASSUME NEW source \in {ReadSource(p.meta, n, k), k.home}, ReadMiss(n, k, p, source)
       PROVE  /\ NodeStep(n) /\ HistoryType' /\ issued' = issued
              /\ Unaliased /\ OwnCache(issued, node[n].cache) => OwnData(issued, last'.key, last'.data)
  <2>2. PICK data : data = Slice(memory[source], k)
    BY Zenon
  <2>3. PICK t : t = [p EXCEPT !.meta = ReadMetadata(@, n, k, source)]
    BY Zenon
  <2>4. Returned(n, k, data) /\ k.home # n
    BY <1>10, <2>2, Zenon DEF ReadMiss
  <2>5. HistoryType' /\ issued' = issued /\ last'.key = k /\ last'.data = data
    BY <1>5, <2>4, Zenon
  <2>6. p.meta \in [Blocks -> BlockMeta]
    BY <1>3, NodeFields, Zenon
  <2>7. source \in Nodes
    BY <1>2, <1>3, <1>10, <2>6, SourceIsNode, KeyBlocks, Zenon
  <2>8. Unaliased => OwnData(issued, k, data)
    BY <1>10, <2>2, <2>4, <2>7, SourceOwn, Zenon
  <2>9. data \in Payload(k)
    BY <1>2, <2>2, <2>7, SliceType, Zenon DEF StateInv, OwnRegion
  <2>10. PICK meta \in [Blocks -> BlockMeta] : meta = ReadMetadata(p.meta, n, k, source)
    BY <1>2, <2>6, ReadMetaType, Zenon
  <2>11. NodeType(issued, t) /\ t.cache = p.cache /\ t.pending = {} /\ t.inbox = p.inbox
    BY <2>3, <2>10, <1>3, <1>4, WithMetaType
  <2>12. CASE node' = [node EXCEPT ![n] = t]
    BY <1>3, <1>6, <2>5, <2>11, <2>12, <2>8, Zenon
  <2>13. ASSUME NEW kept, node' = [node EXCEPT ![n] = [t EXCEPT !.cache = InsertCached(@, k, data, kept)]]
         PROVE  NodeStep(n)
    <3>1. PICK cache : cache = InsertCached(t.cache, k, data, kept)
      BY Zenon
    <3>2. /\ CacheType(cache)
          /\ OwnCache(issued, t.cache) /\ OwnData(issued, k, data) => OwnCache(issued, cache)
      BY <1>2, <2>9, <2>11, <3>1, InsertType, NodeFields, Zenon
    <3>3. PICK u : u = [t EXCEPT !.cache = cache]
      BY Zenon
    <3>4. NodeType(issued, u) /\ u.cache = cache /\ u.pending = t.pending
      BY ONLY <2>11, <3>2, <3>3, WithCacheType
    <3>. QED BY <1>3, <1>6, <2>5, <2>8, <2>11, <2>13, <3>1, <3>2, <3>3, <3>4, Zenon
  <2>. QED BY <1>10, <2>2, <2>3, <2>5, <2>8, <2>12, <2>13, Zenon DEF ReadMiss
<1>11. \/ ReadLocal(n, k, p) \/ ReadCached(n, k, p) \/ ReadFails(n, k, p)
       \/ \E source \in {ReadSource(p.meta, n, k), k.home} : ReadMiss(n, k, p, source)
  BY <1>1, Zenon DEF lm_read, Prepared
<1>12. failures' \in 0 .. config.failures
  BY FailsType, Zenon DEF lm_read, StateInv
<1>. QED BY <1>7, <1>8, <1>9, <1>10, <1>11, <1>12, Zenon

-----------------------------------------------------------------------------
(* lm_write. *)

\* One queue is replaced.
LEMMA QueueReplaced ==
  ASSUME NEW iss, NEW queue, QueueType(iss, queue), NEW h \in Nodes, NEW q \in Seq(OwnWrites(iss, h))
  PROVE  QueueType(iss, [queue EXCEPT ![h] = q])
BY Zenon DEF QueueType

\* The requests of a write are control messages.
LEMMA RequestsType ==
  ASSUME NEW meta, NEW n, NEW modes
  PROVE  Requests(meta, n, modes) \in Seq({"InvalidateRange", "OwnerTransfer"})
<1>1. PICK O : O = {"InvalidateRange", "OwnerTransfer"}
  BY Zenon
<1>2. <<>> \in Seq(O) /\ <<"InvalidateRange">> \in Seq(O) /\ <<"OwnerTransfer">> \in Seq(O)
  BY <1>1
<1>3. PICK a : a = IF HasMode(modes, "WI") THEN <<"InvalidateRange">> ELSE <<>>
  BY Zenon
<1>4. PICK b : b = IF \E c \in DOMAIN modes : modes[c] = "Adaptive" /\ meta[c].owner # n
                   THEN <<"OwnerTransfer">> ELSE <<>>
  BY Zenon
<1>5. a \in Seq(O) /\ b \in Seq(O)
  BY <1>2, <1>3, <1>4, Zenon
<1>6. a \o b \in Seq(O)
  BY ONLY <1>5
<1>. QED BY <1>1, <1>3, <1>4, <1>6, Zenon DEF Requests

\* Posting requests: over the stub every request of a drained node has its ack.
LEMMA PostType ==
  ASSUME mail \subseteq ControlMessage, NEW n \in Nodes, NEW k \in Keys, NEW iss, NEW s,
         NodeType(iss, s), s.pending = {}, NEW ops \in Seq({"InvalidateRange", "OwnerTransfer"}),
         NEW version \in Nat, NEW posted, posted = Post(n, k, s, ops, version)
  PROVE  /\ NodeType(iss, posted.node) /\ posted.node.cache = s.cache
         /\ posted.node.queue = s.queue /\ posted.node.call = s.call
         /\ config.stub => posted.node.pending \subseteq Held(posted.node.inbox)
         /\ posted.mail \subseteq ControlMessage
<1>1. PICK len \in Nat : len = Len(ops)
  OBVIOUS
<1>2. PICK first \in Nat : first = s.nextId
  BY NodeFields, Zenon
<1>3. PICK ids : ids = {first + i - 1 : i \in 1 .. len}
  BY Zenon
<1>4. PICK acks : acks = [i \in 1 .. len |-> first + i - 1]
  BY Zenon
<1>5. PICK messages : messages = {[to |-> k.home, source |-> n, op |-> ops[i],
                                   blocks |-> BlocksOf(k), version |-> version] : i \in 1 .. len}
  BY Zenon
<1>6. ids \in SUBSET Nat /\ acks \in Seq(Nat) /\ Len(acks) = len /\ ids = Held(acks)
  <2>1. \A i \in 1 .. len : first + i - 1 \in Nat
    OBVIOUS
  <2>2. acks \in Seq(Nat) /\ Len(acks) = len
    BY <1>4, <2>1
  <2>3. ids \in SUBSET Nat /\ ids = {acks[i] : i \in 1 .. len}
    BY <1>3, <1>4, <2>1, Zenon
  <2>. QED BY <2>2, <2>3, Zenon DEF Held
<1>7. PICK next \in Nat : next = first + len
  OBVIOUS
<1>8. PICK t : t = [s EXCEPT !.nextId = next, !.pending = ids, !.inbox = acks]
  BY Zenon
<1>9. /\ posted.node = IF config.stub THEN t ELSE s
      /\ posted.mail = mail \/ posted.mail = mail \cup messages
  BY <1>1, <1>2, <1>3, <1>4, <1>5, <1>7, <1>8, Zenon DEF Post
<1>10. t = [cache |-> s.cache, queue |-> s.queue, meta |-> s.meta, pending |-> ids,
            nextId |-> next, inbox |-> acks, call |-> s.call]
  <2>1. s = [cache |-> s.cache, queue |-> s.queue, meta |-> s.meta, pending |-> s.pending,
             nextId |-> s.nextId, inbox |-> s.inbox, call |-> s.call]
    BY NodeFields, Zenon
  <2>. QED
    BY ONLY <1>8, <2>1, Zenon
<1>11. NodeType(iss, t) /\ t.cache = s.cache /\ t.queue = s.queue /\ t.call = s.call
       /\ t.pending \subseteq Held(t.inbox)
  BY <1>6, <1>10, NodeFields, NodeIntro
<1>. QED BY <1>1, <1>5, <1>9, <1>11, KeyBlocks DEF ControlMessage

\* lm_write of a remote range, up to the transfer of its data.
LEMMA WriteRemoteStep ==
  ASSUME mail \subseteq ControlMessage, NEW n \in Nodes, NEW k \in Keys, NEW s,
         NodeType(issued', s), s.pending = {}, NEW w \in OwnWrites(issued', k.home),
         w.data \in Payload(k), OwnData(issued', k, w.data),
         NEW modes, WriteRemote(n, k, s, w, modes)
  PROVE  /\ \E t : /\ node' = [node EXCEPT ![n] = t] /\ NodeType(issued', t)
                   /\ config.stub => t.pending \subseteq Held(t.inbox)
                   /\ OwnCache(issued', s.cache) => OwnCache(issued', t.cache)
         /\ mail' \subseteq ControlMessage
<1>. DEFINE flush == HasMode(modes, "WI") \/ Len(QueueRemoteWrite(s.queue[k.home], w))
                                               >= MostAggressiveBatchThreshold(modes)
<1>1. k.home \in Nodes /\ CacheType(s.cache) /\ QueueType(issued', s.queue)
      /\ s.meta \in [Blocks -> BlockMeta]
  BY KeyBlocks, NodeFields, Zenon
<1>2. PICK meta : meta = ApplyWriteMetadata(s.meta, n, k, modes)
  BY Zenon
<1>3. meta \in [Blocks -> BlockMeta]
  BY <1>1, <1>2, WriteMetaType, Zenon
<1>4. PICK version \in Nat : version = MaxObservedVersion(meta, k)
  BY <1>3, MaxVersion, Zenon
<1>5. PICK ops \in Seq({"InvalidateRange", "OwnerTransfer"}) : ops = Requests(s.meta, n, modes)
  BY RequestsType, Zenon
<1>6. PICK posted : posted = Post(n, k, s, ops, version)
  BY Zenon
<1>7. /\ NodeType(issued', posted.node) /\ posted.node.cache = s.cache
      /\ posted.node.queue = s.queue /\ posted.node.call = s.call
      /\ config.stub => posted.node.pending \subseteq Held(posted.node.inbox)
      /\ posted.mail \subseteq ControlMessage
  BY <1>6, n \in Nodes, k \in Keys, PostType
<1>8. PICK p : p = posted.node
  BY Zenon
<1>9. PICK cache : cache = InvalidateOwn(s.cache, k, modes)
  BY Zenon
<1>10. CacheType(cache) /\ (OwnCache(issued', s.cache) => OwnCache(issued', cache))
  <2>1. \E D \in SUBSET DOMAIN s.cache : cache = [l \in D |-> s.cache[l]]
    BY <1>9, Zenon DEF InvalidateOwn, InvalidateRange
  <2>. QED
    BY <1>1, <2>1, SubCache, Zenon
<1>11. PICK q : q = QueueRemoteWrite(s.queue[k.home], w)
  BY Zenon
<1>12. q \in Seq(OwnWrites(issued', k.home))
  BY <1>1, <1>11, QueueOwn, Zenon DEF QueueType
<1>13. PICK queue : queue = [s.queue EXCEPT ![k.home] = q]
  BY Zenon
<1>14. QueueType(issued', queue)
  BY <1>1, <1>12, <1>13, QueueReplaced, Zenon
<1>15. ASSUME NEW t, NEW cache2, NEW queue2, NEW call2, CacheType(cache2), QueueType(issued', queue2),
              CallType(issued', call2),
              t = [cache |-> cache2, queue |-> queue2, meta |-> meta, pending |-> p.pending,
                   nextId |-> p.nextId, inbox |-> p.inbox, call |-> call2]
       PROVE  /\ NodeType(issued', t) /\ t.cache = cache2
              /\ config.stub => t.pending \subseteq Held(t.inbox)
  BY <1>7, <1>8, NodeFields, <1>3, <1>15, Zenon DEF NodeType, IsNode
<1>16. p = [cache |-> p.cache, queue |-> p.queue, meta |-> p.meta, pending |-> p.pending,
            nextId |-> p.nextId, inbox |-> p.inbox, call |-> p.call]
  BY <1>7, <1>8, NodeFields, Zenon
<1>17. mail' = posted.mail
  BY <1>2, <1>4, <1>5, <1>6, Zenon DEF WriteRemote
<1>18. \/ node' = [node EXCEPT ![n] = [posted.node EXCEPT
            !.meta = meta, !.cache = cache, !.call = [op |-> "write", home |-> k.home, write |-> w]]]
       \/ \E kept :
            node' = [node EXCEPT ![n] = [posted.node EXCEPT
              !.meta = meta, !.queue[k.home] = q,
              !.cache = IF HasMode(modes, "Adaptive") THEN InsertCached(cache, k, w.data, kept)
                        ELSE cache,
              !.call = IF flush THEN [op |-> "flush", home |-> k.home] ELSE Idle]]
  BY <1>2, <1>4, <1>5, <1>6, <1>9, <1>11, Zenon DEF WriteRemote
<1>19. CASE node' = [node EXCEPT ![n] = [posted.node EXCEPT
            !.meta = meta, !.cache = cache, !.call = [op |-> "write", home |-> k.home, write |-> w]]]
  <2>1. PICK call : call = [op |-> "write", home |-> k.home, write |-> w]
    BY Zenon
  <2>2. CallType(issued', call)
    BY <1>1, <2>1, Zenon DEF CallType
  <2>3. PICK t : t = [p EXCEPT !.meta = meta, !.cache = cache, !.call = call]
    BY Zenon
  <2>4. t = [cache |-> cache, queue |-> p.queue, meta |-> meta, pending |-> p.pending,
             nextId |-> p.nextId, inbox |-> p.inbox, call |-> call]
    BY ONLY <1>16, <2>3, Zenon
  <2>5. /\ NodeType(issued', t) /\ t.cache = cache
        /\ config.stub => t.pending \subseteq Held(t.inbox)
    BY <1>1, <1>7, <1>8, <1>10, <1>15, <2>2, <2>4, Zenon
  <2>6. node' = [node EXCEPT ![n] = t]
    BY <1>8, <1>19, <2>1, <2>3, Zenon
  <2>. QED
    BY <1>7, <1>10, <1>17, <2>5, <2>6, Zenon
<1>20. ASSUME NEW kept,
              node' = [node EXCEPT ![n] = [posted.node EXCEPT
                !.meta = meta, !.queue[k.home] = q,
                !.cache = IF HasMode(modes, "Adaptive") THEN InsertCached(cache, k, w.data, kept)
                          ELSE cache,
                !.call = IF flush THEN [op |-> "flush", home |-> k.home] ELSE Idle]]
       PROVE  \E t : /\ node' = [node EXCEPT ![n] = t] /\ NodeType(issued', t)
                     /\ config.stub => t.pending \subseteq Held(t.inbox)
                     /\ OwnCache(issued', s.cache) => OwnCache(issued', t.cache)
  <2>1. PICK call : call = IF flush THEN [op |-> "flush", home |-> k.home] ELSE Idle
    BY Zenon
  <2>2. PICK filled : filled = IF HasMode(modes, "Adaptive") THEN InsertCached(cache, k, w.data, kept)
                               ELSE cache
    BY Zenon
  <2>3. CacheType(filled) /\ (OwnCache(issued', s.cache) => OwnCache(issued', filled))
    BY <1>10, <2>2, InsertType, Zenon
  <2>4. PICK t : t = [p EXCEPT !.meta = meta, !.queue = queue, !.cache = filled, !.call = call]
    BY Zenon
  <2>5. t = [cache |-> filled, queue |-> queue, meta |-> meta, pending |-> p.pending,
             nextId |-> p.nextId, inbox |-> p.inbox, call |-> call]
    BY ONLY <1>16, <2>4, Zenon
  <2>6. /\ NodeType(issued', t) /\ t.cache = filled
        /\ config.stub => t.pending \subseteq Held(t.inbox)
    <3>1. CallType(issued', call)
      BY <1>1, <2>1, Zenon DEF CallType
    <3>. QED BY <1>14, <1>15, <2>3, <2>5, <3>1, Zenon
  <2>7. t = [p EXCEPT !.meta = meta, !.queue[k.home] = q, !.cache = filled, !.call = call]
    BY <1>7, <1>8, <1>13, <1>16, <2>4, Zenon
  <2>8. node' = [node EXCEPT ![n] = t]
    <3>. HIDE DEF flush
    <3>. QED
      BY ONLY <1>8, <1>20, <2>1, <2>2, <2>7, Zenon
  <2>. QED
    BY <2>3, <2>6, <2>8, Zenon
<1>. QED
  BY <1>7, <1>17, <1>18, <1>19, <1>20, Zenon

\* lm_write whose request is refused: only the metadata changes, over RDMA.
LEMMA PostFailsStep ==
  ASSUME mail \subseteq ControlMessage, NEW n \in Nodes, NEW k \in Keys, NEW s,
         NodeType(issued', s), s.pending = {}, NEW modes, PostFails(n, k, s, modes)
  PROVE  /\ \E t : /\ node' = [node EXCEPT ![n] = t] /\ NodeType(issued', t)
                   /\ t.cache = s.cache
         /\ ~config.stub /\ mail' \subseteq ControlMessage
<1>1. s.meta \in [Blocks -> BlockMeta] /\ ~config.stub
  BY NodeFields, Zenon DEF PostFails
<1>2. PICK meta : meta = ApplyWriteMetadata(s.meta, n, k, modes)
  BY Zenon
<1>3. meta \in [Blocks -> BlockMeta]
  BY <1>1, <1>2, WriteMetaType, Zenon
<1>4. PICK version \in Nat : version = MaxObservedVersion(meta, k)
  BY <1>3, MaxVersion, Zenon
<1>5. PICK ops \in Seq({"InvalidateRange", "OwnerTransfer"}) : ops = Requests(s.meta, n, modes)
  BY RequestsType, Zenon
<1>6. PICK sent \in 0 .. (Len(ops) - 1) :
        /\ mail' = Post(n, k, s, SubSeq(ops, 1, sent), version).mail
        /\ node' = [node EXCEPT ![n] =
                      [Post(n, k, s, SubSeq(ops, 1, sent), version).node EXCEPT !.meta = meta]]
  BY <1>2, <1>4, <1>5, Zenon DEF PostFails
<1>7. PICK some \in Seq({"InvalidateRange", "OwnerTransfer"}) : some = SubSeq(ops, 1, sent)
  <2>1. PICK O : O = {"InvalidateRange", "OwnerTransfer"}
    BY Zenon
  <2>2. ops \in Seq(O)
    BY <1>5, <2>1, Zenon
  <2>3. SubSeq(ops, 1, sent) \in Seq(O)
    BY ONLY <1>6, <2>2
  <2>. QED
    BY <2>1, <2>3, Zenon
<1>8. PICK posted : posted = Post(n, k, s, some, version)
  BY Zenon
<1>9. /\ NodeType(issued', posted.node) /\ posted.node.cache = s.cache
      /\ posted.mail \subseteq ControlMessage
  BY <1>8, PostType
<1>10. PICK t : t = [posted.node EXCEPT !.meta = meta]
  BY Zenon
<1>11. NodeType(issued', t) /\ t.cache = s.cache
  BY <1>3, <1>9, <1>10, WithMetaType
<1>. QED BY <1>1, <1>6, <1>7, <1>8, <1>9, <1>10, <1>11, Zenon

\* lm_write.
LEMMA WriteStep ==
  ASSUME StateInv, NEW n \in config.clients, NEW k \in config.keys, lm_write(n, k)
  PROVE  /\ NodeStep(n) /\ HistoryType' /\ mail' \subseteq ControlMessage
         /\ \E e \in [node : Nodes, key : config.keys] : issued' = Append(issued, e)
         /\ Len(issued) < config.writes /\ failures' \in 0 .. config.failures
         /\ memory' = [h \in Nodes |-> memory'[h]] /\ \A h \in Nodes : OwnRegion(issued', h, memory'[h])
<1>1. n \in Nodes /\ k \in Keys /\ config.writes \in 0 .. MaxWrites /\ config.failures \in Nat
  BY InUse, Zenon DEF StateInv
<1>2. PICK e \in [node : Nodes, key : config.keys] : e = [node |-> n, key |-> k]
  BY <1>1, Zenon
<1>3. issued' = Append(issued, e) /\ Len(issued) < config.writes
  BY <1>2, Zenon DEF lm_write
<1>4. PICK S : S = [node : Nodes, key : config.keys]
  BY Zenon
<1>5. issued \in Seq(S) /\ e \in S /\ e.key = k
  BY <1>2, <1>4, Zenon DEF StateInv, Issued
<1>6. Len(issued') \in 0 .. MaxWrites /\ Len(issued) < MaxWrites
  BY <1>5, <1>1, <1>3, LeoMemAssumption
<1>7. PICK p : p = Prepared(node[n], n, k, "Write")
  BY Zenon
<1>8. /\ NodeType(issued, p) /\ p.cache = node[n].cache /\ p.pending = Drained(node[n]).pending
  BY <1>1, <1>7, PreparedType DEF StateInv
<1>9. p.pending = {}
  BY <1>8, Zenon DEF lm_write, TimesOut
<1>10. NodeType(issued', p) /\ (OwnCache(issued, p.cache) => OwnCache(issued', p.cache))
  BY <1>3, <1>5, <1>8, NodeGrows, Zenon
<1>11. PICK w : w = [lo |-> k.lo, hi |-> k.hi, data |-> [x \in Cells(k) |-> Len(issued) + 1]]
  BY Zenon
<1>12. w \in OwnWrites(issued', k.home)
  BY <1>1, <1>3, <1>5, <1>6, <1>11, IssuedWriteOwn, Zenon
<1>13. w.data \in Payload(k) /\ OwnData(issued', k, w.data)
  <2>1. w.data \in Payload(k)
    BY <1>5, <1>6, <1>11, LeoMemAssumption DEF Payload
  <2>2. \A x \in Cells(k) : x \in Nat /\ Covers(w, x)
    BY <1>1, <1>11, KeyBlocks DEF Cells, Covers
  <2>. QED BY <1>12, <2>1, <2>2, OwnWriteFields, Zenon DEF OwnData
<1>14. /\ memory = [h \in Nodes |-> memory[h]] /\ \A h \in Nodes : OwnRegion(issued', h, memory[h])
  BY <1>3, <1>5, OwnGrows, Zenon DEF StateInv, OwnRegion
<1>15. /\ config' = config /\ UNCHANGED <<released, acquired>>
       /\ \/ WriteLocal(n, k, p, w)
          \/ \E modes \in ObservedModes(k) : WriteRemote(n, k, p, w, modes)
          \/ \E modes \in ObservedModes(k) : PostFails(n, k, p, modes)
  BY <1>7, <1>11, Zenon DEF lm_write, Prepared
<1>16. ASSUME NEW t, node' = [node EXCEPT ![n] = t], NodeType(issued', t),
              config.stub => t.pending \subseteq Held(t.inbox),
              OwnCache(issued', p.cache) => OwnCache(issued', t.cache)
       PROVE  NodeStep(n)
  BY <1>8, <1>10, <1>16, Zenon DEF NodeStep
<1>17. HistoryType /\ mail \subseteq ControlMessage /\ failures \in 0 .. config.failures
  BY Zenon DEF StateInv
<1>18. CASE WriteLocal(n, k, p, w)
  <2>1. /\ k.home = n /\ node' = [node EXCEPT ![n] = p] /\ Delivered(n, n, <<w>>)
        /\ mail' = mail /\ failures' = failures
    BY <1>18, Zenon DEF WriteLocal
  <2>2. <<w>> \in Seq(OwnWrites(issued', n))
    BY <1>12, <2>1
  <2>. QED
    BY <1>1, <1>2, <1>3, <1>6, <1>9, <1>10, <1>14, <1>15, <1>16, <1>17, <2>1, <2>2, DeliveredType, Zenon
<1>19. ASSUME UNCHANGED <<memory, order, seen>>
       PROVE  /\ HistoryType' /\ memory' = [h \in Nodes |-> memory'[h]]
              /\ \A h \in Nodes : OwnRegion(issued', h, memory'[h])
  BY <1>14, <1>15, <1>17, <1>19, Zenon DEF HistoryType
<1>20. ASSUME NEW modes \in ObservedModes(k), WriteRemote(n, k, p, w, modes)
       PROVE  /\ NodeStep(n) /\ mail' \subseteq ControlMessage /\ failures' = failures
              /\ UNCHANGED <<memory, order, seen>>
  <2>1. failures' = failures /\ UNCHANGED <<memory, order, seen>>
    BY <1>20, Zenon DEF WriteRemote
  <2>. QED BY <1>1, <1>9, <1>10, <1>12, <1>13, <1>16, <1>17, <1>20, <2>1, WriteRemoteStep, Zenon
<1>21. ASSUME NEW modes \in ObservedModes(k), PostFails(n, k, p, modes)
       PROVE  /\ NodeStep(n) /\ mail' \subseteq ControlMessage /\ failures' \in 0 .. config.failures
              /\ UNCHANGED <<memory, order, seen>>
  <2>1. /\ \E t : node' = [node EXCEPT ![n] = t] /\ NodeType(issued', t) /\ t.cache = p.cache
        /\ ~config.stub /\ mail' \subseteq ControlMessage
    BY <1>1, <1>9, <1>10, <1>17, <1>21, PostFailsStep, Zenon
  <2>2. NodeStep(n)
    BY <1>16, <2>1, Zenon
  <2>. QED BY <1>21, <2>1, <2>2, FailsType, Zenon DEF PostFails
<1>. QED
  BY <1>2, <1>3, <1>15, <1>17, <1>18, <1>19, <1>20, <1>21, Zenon

-----------------------------------------------------------------------------
(* The other steps. *)

\* A call and a queue change.
LEMMA QueueStep ==
  ASSUME StateInv, NEW n \in Nodes, issued' = issued, NEW queue, QueueType(issued, queue),
         NEW call, CallType(issued, call), NEW t, t = [node[n] EXCEPT !.call = call, !.queue = queue],
         node' = [node EXCEPT ![n] = t]
  PROVE  NodeStep(n)
<1>1. PICK s : s = node[n]
  BY Zenon
<1>2. NodeType(issued, s)
  BY <1>1, Zenon DEF StateInv
<1>3. s = [cache |-> s.cache, queue |-> s.queue, meta |-> s.meta, pending |-> s.pending,
           nextId |-> s.nextId, inbox |-> s.inbox, call |-> s.call]
  BY <1>2, NodeFields, Zenon
<1>4. t = [s EXCEPT !.call = call, !.queue = queue]
  BY <1>1, Zenon
<1>5. t = [cache |-> s.cache, queue |-> queue, meta |-> s.meta, pending |-> s.pending,
           nextId |-> s.nextId, inbox |-> s.inbox, call |-> call]
  BY ONLY <1>3, <1>4, Zenon
<1>6. NodeType(issued, t)
  BY <1>2, NodeFields, <1>5, Zenon DEF NodeType, IsNode
<1>7. t.cache = s.cache /\ t.pending = s.pending /\ t.inbox = s.inbox
  BY ONLY <1>5, Zenon
<1>. QED
  BY <1>1, <1>6, <1>7, Zenon DEF NodeStep

\* The call of a drained node changes.
LEMMA CallStep ==
  ASSUME StateInv, NEW n \in Nodes, issued' = issued, ~TimesOut(Drained(node[n])),
         NEW call, CallType(issued, call), node' = [node EXCEPT ![n] = [Drained(node[n]) EXCEPT !.call = call]]
  PROVE  NodeStep(n)
<1>1. PICK s : s = Drained(node[n])
  BY Zenon
<1>2. NodeType(issued, s) /\ s.cache = node[n].cache /\ s.pending = {}
  BY <1>1, DrainedType, Zenon DEF StateInv, TimesOut
<1>3. s = [cache |-> s.cache, queue |-> s.queue, meta |-> s.meta, pending |-> s.pending,
           nextId |-> s.nextId, inbox |-> s.inbox, call |-> s.call]
  BY <1>2, NodeFields, Zenon
<1>4. PICK t : t = [s EXCEPT !.call = call]
  BY Zenon
<1>5. t = [cache |-> s.cache, queue |-> s.queue, meta |-> s.meta, pending |-> s.pending,
           nextId |-> s.nextId, inbox |-> s.inbox, call |-> call]
  BY ONLY <1>3, <1>4, Zenon
<1>6. NodeType(issued, t) /\ t.cache = s.cache /\ t.pending = s.pending
  BY <1>2, <1>5, NodeFields, NodeIntro
<1>. QED BY <1>1, <1>2, <1>4, <1>6, Zenon DEF NodeStep

\* What a call in progress is about.
LEMMA CallFields ==
  ASSUME StateInv, NEW n \in Nodes, NEW c, c = node[n].call
  PROVE  /\ c.op \in {"none", "write", "flush", "fence"}
         /\ c.op \in {"write", "flush"} => c.home \in Nodes
         /\ c.op = "write" => c.write \in OwnWrites(issued, c.home)
         /\ c.op = "fence" => \E todo \in SUBSET Nodes : c = [op |-> "fence", todo |-> todo]
<1>1. CallType(issued, c)
  BY NodeFields, Zenon DEF StateInv
<1>2. CASE c = Idle
  BY <1>2 DEF Idle
<1>3. CASE \E h \in Nodes : c = [op |-> "flush", home |-> h]
  BY <1>3
<1>4. CASE \E h \in Nodes : \E w \in OwnWrites(issued, h) : c = [op |-> "write", home |-> h, write |-> w]
  BY <1>4
<1>5. CASE \E todo \in SUBSET Nodes : c = [op |-> "fence", todo |-> todo]
  BY <1>5
<1>. QED
  BY <1>1, <1>2, <1>3, <1>4, <1>5, Zenon DEF CallType

\* An emptied queue.
LEMMA QueueEmptied ==
  ASSUME StateInv, NEW n \in Nodes, NEW h \in Nodes
  PROVE  /\ QueueType(issued, node[n].queue) /\ node[n].queue[h] \in Seq(OwnWrites(issued, h))
         /\ QueueType(issued, [node[n].queue EXCEPT ![h] = <<>>])
<1>1. QueueType(issued, node[n].queue)
  BY NodeFields, Zenon DEF StateInv
<1>2. PICK none : none = <<>>
  BY Zenon
<1>3. PICK W : W = OwnWrites(issued, h)
  BY Zenon
<1>. QED BY <1>1, <1>2, <1>3, QueueReplaced DEF QueueType

\* The data of a write leaves or is lost.
LEMMA TransferStep ==
  ASSUME StateInv, NEW n \in Nodes, Transfer(n) \/ TransferFails(n)
  PROVE  /\ NodeStep(n) /\ HistoryType' /\ failures' \in 0 .. config.failures
         /\ memory' = [h \in Nodes |-> memory'[h]] /\ \A h \in Nodes : OwnRegion(issued, h, memory'[h])
<1>1. PICK c : c = node[n].call
  BY Zenon
<1>2. /\ c.op \in {"write", "flush"} /\ issued' = issued
      /\ node' = [node EXCEPT ![n].call = Idle,
                              ![n].queue[c.home] = IF c.op = "flush" THEN <<>> ELSE @]
  BY <1>1, Zenon DEF Transfer, TransferFails
<1>3. c.home \in Nodes /\ (c.op = "write" => c.write \in OwnWrites(issued, c.home))
  BY <1>1, <1>2, CallFields, Zenon
<1>4. PICK s : s = node[n]
  BY Zenon
<1>5. PICK queue : queue = [s.queue EXCEPT ![c.home] = IF c.op = "flush" THEN <<>> ELSE @]
  BY Zenon
<1>6. QueueType(issued, queue) /\ s.queue[c.home] \in Seq(OwnWrites(issued, c.home))
  <2>1. /\ QueueType(issued, s.queue) /\ s.queue[c.home] \in Seq(OwnWrites(issued, c.home))
        /\ QueueType(issued, [s.queue EXCEPT ![c.home] = <<>>])
    BY <1>3, <1>4, QueueEmptied, Zenon
  <2>2. CASE c.op = "flush"
    BY <1>5, <2>1, <2>2, Zenon
  <2>3. CASE c.op # "flush"
    BY <1>5, <2>1, <2>3, Zenon DEF QueueType
  <2>. QED
    BY <2>2, <2>3, Zenon
<1>7. NodeStep(n)
  <2>1. PICK t : t = [s EXCEPT !.call = Idle, !.queue = queue]
    BY Zenon
  <2>2. node' = [node EXCEPT ![n] = t]
    BY <1>2, <1>4, <1>5, <2>1, Zenon
  <2>. QED BY <1>2, <1>4, <1>6, <2>1, <2>2, QueueStep, Zenon DEF CallType
<1>8. PICK q : q = IF c.op = "write" THEN <<c.write>> ELSE s.queue[c.home]
  BY Zenon
<1>9. q \in Seq(OwnWrites(issued, c.home))
  <2>1. PICK W : W = OwnWrites(issued, c.home)
    BY Zenon
  <2>2. c.op = "write" => <<c.write>> \in Seq(W)
    BY <1>3, <2>1
  <2>. QED
    BY <1>6, <1>8, <2>1, <2>2, Zenon
<1>10. CASE Transfer(n)
  <2>1. Delivered(n, c.home, q) /\ UNCHANGED <<released, acquired>> /\ failures' = failures
    BY <1>1, <1>4, <1>8, <1>10, Zenon DEF Transfer
  <2>2. /\ HistoryType' /\ memory' = [h \in Nodes |-> memory'[h]]
        /\ \A h \in Nodes : OwnRegion(issued, h, memory'[h])
    BY <1>3, <1>9, <2>1, DeliveredType, IssuedBound, Zenon DEF StateInv
  <2>. QED
    BY <1>7, <2>1, <2>2, Zenon DEF StateInv
<1>11. CASE TransferFails(n)
  <2>1. DeliveredInPart(n, c.home, q) /\ UNCHANGED <<released, acquired>> /\ Fails
    BY <1>1, <1>4, <1>8, <1>11, Zenon DEF TransferFails
  <2>2. /\ HistoryType' /\ memory' = [h \in Nodes |-> memory'[h]]
        /\ \A h \in Nodes : OwnRegion(issued, h, memory'[h])
    BY <1>3, <1>9, <2>1, DeliveredInPartType, IssuedBound, Zenon DEF StateInv
  <2>. QED
    BY <1>7, <2>1, <2>2, FailsType, Zenon
<1>. QED
  BY <1>10, <1>11, Zenon

\* The beginning and the end of lm_fence.
LEMMA FenceStep ==
  ASSUME StateInv, NEW n \in Nodes, lm_fence(n) \/ FenceReturns(n)
  PROVE  NodeStep(n) /\ HistoryType'
BY CallStep, FencedType, Zenon DEF lm_fence, FenceReturns, StateInv, CallType, PendingDestinations, HistoryType

\* A destination flushed by lm_fence, or lost.
LEMMA FenceFlushStep ==
  ASSUME StateInv, NEW n \in Nodes, NEW h \in Nodes, FenceFlush(n, h) \/ FenceFlushFails(n, h)
  PROVE  /\ NodeStep(n) /\ HistoryType' /\ failures' \in 0 .. config.failures
         /\ memory' = [g \in Nodes |-> memory'[g]] /\ \A g \in Nodes : OwnRegion(issued, g, memory'[g])
<1>1. PICK s : s = node[n]
  BY Zenon
<1>2. issued' = issued /\ s.call.op = "fence"
  BY <1>1, Zenon DEF FenceFlush, FenceFlushFails
<1>3. PICK queue : queue = [s.queue EXCEPT ![h] = <<>>]
  BY Zenon
<1>4. QueueType(issued, queue) /\ s.queue[h] \in Seq(OwnWrites(issued, h))
  BY <1>1, <1>3, QueueEmptied, Zenon
<1>5. CASE FenceFlush(n, h)
  <2>1. PICK call : call = [s.call EXCEPT !.todo = @ \ {h}]
    BY Zenon
  <2>2. PICK todo \in SUBSET Nodes : s.call = [op |-> "fence", todo |-> todo]
    BY <1>1, <1>2, CallFields, Zenon
  <2>3. call = [op |-> "fence", todo |-> todo \ {h}]
    BY <2>1, <2>2
  <2>4. CallType(issued, call)
    BY <2>3, Zenon DEF CallType
  <2>5. PICK t : t = [s EXCEPT !.call = call, !.queue = queue]
    BY Zenon
  <2>6. node' = [node EXCEPT ![n] = t]
    BY <1>5, <1>1, <1>3, <2>1, <2>5, Zenon DEF FenceFlush
  <2>7. NodeStep(n)
    BY <1>1, <1>2, <1>4, <2>4, <2>5, <2>6, QueueStep, Zenon
  <2>8. PICK q : q = s.queue[h]
    BY Zenon
  <2>9. Delivered(n, h, q) /\ UNCHANGED <<released, acquired>> /\ failures' = failures
    BY <1>1, <1>5, <2>8, Zenon DEF FenceFlush
  <2>10. Len(issued) \in 0 .. MaxWrites
    BY IssuedBound, Zenon
  <2>. QED BY <1>4, <2>7, <2>8, <2>9, <2>10, DeliveredType, Zenon DEF StateInv
<1>6. CASE FenceFlushFails(n, h)
  <2>1. PICK t : t = [s EXCEPT !.call = Idle, !.queue = queue]
    BY Zenon
  <2>2. node' = [node EXCEPT ![n] = t]
    BY <1>6, <1>1, <1>3, <2>1, Zenon DEF FenceFlushFails
  <2>3. NodeStep(n)
    BY <1>1, <1>2, <1>4, <2>1, <2>2, QueueStep, Zenon DEF CallType
  <2>4. PICK q : q = s.queue[h]
    BY Zenon
  <2>5. DeliveredInPart(n, h, q) /\ UNCHANGED <<released, acquired>> /\ Fails
    BY <1>1, <1>6, <2>4, Zenon DEF FenceFlushFails
  <2>6. Len(issued) \in 0 .. MaxWrites
    BY IssuedBound, Zenon
  <2>7. failures' \in 0 .. config.failures
    BY <2>5, FailsType, Zenon
  <2>. QED BY <1>4, <2>3, <2>4, <2>5, <2>6, <2>7, DeliveredInPartType, Zenon DEF StateInv
<1>. QED
  BY <1>5, <1>6, Zenon

\* Handling a request drops cached ranges and changes metadata.
LEMMA HandledType ==
  ASSUME NEW iss, NEW s, NodeType(iss, s), NEW m \in ControlMessage,
         NEW t, t \in {HandleInAccess(s, m), HandleInFence(s, m)}
  PROVE  /\ NodeType(iss, t) /\ t.pending = s.pending /\ t.inbox = s.inbox
         /\ \A i : OwnCache(i, s.cache) => OwnCache(i, t.cache)
<1>1. PICK cache : cache = InvalidateBlocks(s.cache, m)
  BY Zenon
<1>2. CacheType(cache) /\ \A i : OwnCache(i, s.cache) => OwnCache(i, cache)
  <2>1. \E D \in SUBSET DOMAIN s.cache : cache = [l \in D |-> s.cache[l]]
    BY <1>1, Zenon DEF InvalidateBlocks
  <2>. QED
    BY <2>1, NodeFields, SubCache, Zenon
<1>3. m.source \in Nodes /\ m.version \in Nat
  BY Zenon DEF ControlMessage
<1>. DEFINE invalid == [b \in Blocks |->
              IF b \in m.blocks THEN [s.meta[b] EXCEPT !.version = m.version, !.state = "Invalid"]
              ELSE s.meta[b]]
            owned == [b \in Blocks |->
              IF b \in m.blocks
              THEN [s.meta[b] EXCEPT !.owner = m.source, !.version = m.version, !.state = "Owner"]
              ELSE s.meta[b]]
            moved == [b \in Blocks |->
              IF b \in m.blocks THEN [s.meta[b] EXCEPT !.owner = m.source, !.version = m.version]
              ELSE s.meta[b]]
<1>4. s.meta \in [Blocks -> BlockMeta]
  BY NodeFields, Zenon
<1>5. /\ invalid \in [Blocks -> BlockMeta] /\ owned \in [Blocks -> BlockMeta]
      /\ moved \in [Blocks -> BlockMeta]
  <2>1. ASSUME NEW b \in Blocks
        PROVE  invalid[b] \in BlockMeta /\ owned[b] \in BlockMeta /\ moved[b] \in BlockMeta
    BY <1>4, <1>3, Zenon DEF BlockMeta
  <2>. QED
    BY <2>1, Zenon
<1>6. \/ t = [s EXCEPT !.cache = cache, !.meta = invalid]
      \/ t = [s EXCEPT !.meta = owned]
      \/ t = [s EXCEPT !.cache = cache]
      \/ t = [s EXCEPT !.meta = moved]
  BY <1>1, Zenon DEF HandleInAccess, HandleInFence
<1>. HIDE DEF invalid, owned, moved
<1>7. CASE t = [s EXCEPT !.cache = cache, !.meta = invalid]
  <2>1. PICK u : u = [s EXCEPT !.cache = cache]
    BY Zenon
  <2>2. /\ NodeType(iss, u) /\ u.cache = cache /\ u.pending = s.pending /\ u.inbox = s.inbox
    BY <1>2, <2>1, WithCacheType
  <2>3. t = [u EXCEPT !.meta = invalid]
    BY <1>7, <2>1, Zenon
  <2>. QED BY <1>2, <1>5, <2>2, <2>3, WithMetaType
<1>8. CASE t = [s EXCEPT !.meta = owned]
  BY <1>5, <1>8, WithMetaType
<1>9. CASE t = [s EXCEPT !.cache = cache]
  BY <1>2, <1>9, WithCacheType
<1>10. CASE t = [s EXCEPT !.meta = moved]
  BY <1>5, <1>10, WithMetaType
<1>. QED
  BY <1>6, <1>7, <1>8, <1>9, <1>10, Zenon

\* A request handled or dropped.
LEMMA HandleStep ==
  ASSUME StateInv, NEW n \in Nodes, NEW m \in mail, HandleMessage(n, m) \/ DropMessage(n, m)
  PROVE  /\ NodeStep(n) /\ HistoryType' /\ failures' \in 0 .. config.failures
         /\ mail' \subseteq ControlMessage
<1>1. /\ mail' = mail \ {m} /\ issued' = issued /\ UNCHANGED <<order, seen, released, acquired>>
  BY Zenon DEF HandleMessage, DropMessage
<1>2. mail' \subseteq ControlMessage /\ HistoryType' /\ m \in ControlMessage /\ NodeType(issued, node[n])
      /\ failures \in 0 .. config.failures /\ config.failures \in Nat
  <2>1. mail' \subseteq ControlMessage /\ m \in ControlMessage /\ NodeType(issued, node[n])
        /\ failures \in 0 .. config.failures /\ config \in Configs /\ HistoryType
    BY <1>1, Zenon DEF StateInv
  <2>2. HistoryType'
    BY <1>1, <2>1, Zenon DEF HistoryType
  <2>. QED BY <2>1, <2>2, InUse, Zenon
<1>3. CASE HandleMessage(n, m)
  BY <1>3, <1>2, HandledType, <1>1 DEF HandleMessage, NodeStep
<1>4. CASE DropMessage(n, m)
  <2>1. node' = node /\ failures < config.failures /\ failures' = failures + 1
    BY <1>4, Zenon DEF DropMessage, Fails
  <2>2. node' = [node EXCEPT ![n] = node[n]]
    BY <2>1, Zenon DEF StateInv
  <2>3. NodeStep(n)
    BY <1>1, <1>2, <2>2, Zenon DEF NodeStep
  <2>. QED BY <1>2, <2>1, <2>3
<1>. QED
  BY <1>3, <1>4, Zenon

\* A fresh node and fresh regions.
LEMMA FreshType ==
  ASSUME NEW iss, NEW n \in Nodes, NEW inbox \in Seq(Nat), NEW t, t = FreshNode(n, inbox)
  PROVE  /\ NodeType(iss, t) /\ t.pending = {} /\ OwnCache(iss, t.cache)
         /\ FreshMemory = [h \in Nodes |-> FreshMemory[h]]
         /\ \A h \in Nodes : OwnRegion(iss, h, FreshMemory[h])
         /\ FreshMemory \in [Nodes -> [Offsets -> Nat]] /\ FreshMemory \in [Nodes -> [Offsets -> Int]]
<1>1. PICK queue : queue = [h \in Nodes |-> <<>>]
  BY Zenon
<1>2. PICK meta : meta = [b \in Blocks |-> [owner |-> IF b \in Allocated(n) THEN n ELSE NoNode,
                                            version |-> 0, validated |-> 0, state |-> "Home"]]
  BY Zenon
<1>3. PICK none \in SUBSET Nat : none = {}
  BY Zenon
<1>4. CacheType(EmptyCache) /\ OwnCache(iss, EmptyCache)
  BY Zenon DEF CacheType, OwnCache, EmptyCache
<1>5. meta \in [Blocks -> BlockMeta]
  BY <1>2, Zenon DEF BlockMeta
<1>6. CallType(iss, Idle)
  BY Zenon DEF CallType
<1>7. NodeType(iss, t) /\ t.pending = none /\ t.cache = EmptyCache
  BY <1>1, <1>2, <1>3, <1>4, <1>5, <1>6, inbox \in Seq(Nat), none \in SUBSET Nat DEF NodeType, IsNode,
     QueueType, FreshNode
<1>8. FreshMemory = [h \in Nodes |-> FreshMemory[h]] /\ \A h \in Nodes : OwnRegion(iss, h, FreshMemory[h])
  BY Zenon DEF FreshMemory, OwnRegion, Regions
<1>9. FreshMemory \in [Nodes -> [Offsets -> Nat]] /\ FreshMemory \in [Nodes -> [Offsets -> Int]]
  BY DEF FreshMemory
<1>. QED BY <1>3, <1>4, <1>7, <1>8, <1>9, Zenon

\* The histories of fresh regions.
LEMMA FreshHistory ==
  /\ [h \in Nodes |-> [x \in Offsets |-> <<>>]] \in [Nodes -> [Offsets -> Seq(Bytes)]]
  /\ [n \in Nodes |-> FreshMemory] \in [Nodes -> [Nodes -> [Offsets -> Int]]]
  /\ FreshMemory \in [Nodes -> [Offsets -> Nat]]
  /\ [n \in Nodes |-> FreshMemory] \in [Nodes -> [Nodes -> [Offsets -> Nat]]]
BY DEF FreshMemory

\* A restart over the stub.
LEMMA RestartStep ==
  ASSUME StateInv, NEW n \in Nodes, Restart(n)
  PROVE  /\ NodeStep(n) /\ HistoryType'
         /\ memory' = [h \in Nodes |-> memory'[h]] /\ \A h \in Nodes : OwnRegion(issued, h, memory'[h])
BY NodeFields, FreshType, FreshHistory, Zenon DEF Restart, StateInv, NodeStep, HistoryType

-----------------------------------------------------------------------------
\* What a step of node n does to the invariants, whether it issues a write or not.
LEMMA StepInv ==
  ASSUME StateInv, NEW n \in Nodes, NodeStep(n), config' = config, HistoryType',
         \/ issued' = issued
         \/ /\ \E e \in [node : Nodes, key : config.keys] : issued' = Append(issued, e)
            /\ Len(issued) < config.writes,
         failures' \in 0 .. config.failures, mail' \subseteq ControlMessage,
         memory' = [h \in Nodes |-> memory'[h]], \A h \in Nodes : OwnRegion(issued', h, memory'[h])
  PROVE  /\ StateInv' /\ (AcksInv => AcksInv')
         /\ Unaliased /\ (\A m \in Nodes : OwnCache(issued, node[m].cache))
              => \A m \in Nodes : OwnCache(issued', node'[m].cache)
<1>1. PICK S : S = [node : Nodes, key : config.keys]
  BY Zenon
<1>2. issued \in Seq(S) /\ Len(issued) <= config.writes /\ config.writes \in Nat
  BY <1>1, InUse DEF StateInv, Issued
<1>3. issued' = issued \/ ((\E e \in S : issued' = Append(issued, e)) /\ Len(issued) < config.writes)
  BY <1>1, Zenon
<1>4. issued' \in Seq(S) /\ Len(issued') <= config.writes
  BY <1>2, <1>3
<1>5. \A m \in Nodes : /\ NodeType(issued', node[m])
                       /\ OwnCache(issued, node[m].cache) => OwnCache(issued', node[m].cache)
  <2>1. \A m \in Nodes : NodeType(issued, node[m])
    BY Zenon DEF StateInv
  <2>2. CASE issued' = issued
    BY <2>1, <2>2, Zenon
  <2>3. CASE \E e \in S : issued' = Append(issued, e)
    <3>1. PICK e \in S : issued' = Append(issued, e)
      BY <2>3, Zenon
    <3>2. PICK new : new = Append(issued, e)
      BY Zenon
    <3>3. \A m \in Nodes : /\ NodeType(new, node[m])
                           /\ OwnCache(issued, node[m].cache) => OwnCache(new, node[m].cache)
      BY <1>2, <2>1, <3>2, NodeGrows, Zenon
    <3>. QED
      BY <3>1, <3>2, <3>3, Zenon
  <2>. QED
    BY <1>3, <2>2, <2>3, Zenon
<1>6. PICK t : /\ node' = [node EXCEPT ![n] = t]
               /\ NodeType(issued', t)
               /\ config.stub /\ node[n].pending \subseteq Held(node[n].inbox)
                    => t.pending \subseteq Held(t.inbox)
               /\ Unaliased /\ OwnCache(issued, node[n].cache) => OwnCache(issued', t.cache)
  BY Zenon DEF NodeStep
<1>7. node = [m \in Nodes |-> node[m]]
  BY Zenon DEF StateInv
<1>8. /\ node' = [m \in Nodes |-> node'[m]] /\ node'[n] = t
      /\ \A m \in Nodes : m # n => node'[m] = node[m]
  BY ONLY <1>6, <1>7, n \in Nodes, Zenon
<1>9. \A m \in Nodes : NodeType(issued', node'[m])
  BY <1>5, <1>6, <1>8, Zenon
<1>10. config \in Configs
  BY Zenon DEF StateInv
<1>11. StateInv'
  BY <1>1, <1>4, <1>8, <1>9, <1>10, Zenon DEF StateInv, Issued
<1>12. ASSUME AcksInv
       PROVE  AcksInv'
  BY <1>12, <1>6, <1>8 DEF AcksInv, Held
<1>13. ASSUME Unaliased, \A m \in Nodes : OwnCache(issued, node[m].cache), NEW m \in Nodes
       PROVE  OwnCache(issued', node'[m].cache)
  BY <1>5, <1>6, <1>8, <1>13, Zenon
<1>. QED
  BY <1>11, <1>12, <1>13, Zenon

\* StateInv allows what TypeOK states.
LEMMA StateTypes ==
  ASSUME StateInv
  PROVE  TypeOK
<1>1. ASSUME NEW n \in Nodes
      PROVE  /\ node[n].meta \in [Blocks -> BlockMeta]
             /\ DOMAIN node[n].cache \subseteq Keys
             /\ \A k \in DOMAIN node[n].cache : node[n].cache[k] \in Payload(k)
             /\ node[n].queue \in [Nodes -> Seq(PendingRemoteWrite)]
             /\ node[n].pending \subseteq Nat /\ node[n].nextId \in Nat /\ node[n].inbox \in Seq(Nat)
             /\ node[n].call.op \in {"none", "write", "flush", "fence"}
  <2>1. PICK s : s = node[n]
    BY Zenon
  <2>2. NodeType(issued, s)
    BY <2>1, Zenon DEF StateInv
  <2>3. ASSUME NEW h \in Nodes
        PROVE  s.queue[h] \in Seq(PendingRemoteWrite)
    <3>1. PICK W : W = OwnWrites(issued, h)
      BY Zenon
    <3>2. s.queue[h] \in Seq(W) /\ W \subseteq PendingRemoteWrite
      BY <2>2, <3>1, Zenon DEF NodeType, QueueType, OwnWrites
    <3>3. PICK P : P = PendingRemoteWrite
      BY Zenon
    <3>4. s.queue[h] \in Seq(P)
      BY ONLY <3>2, <3>3
    <3>. QED
      BY <3>3, <3>4, Zenon
  <2>4. s.queue \in [Nodes -> Seq(PendingRemoteWrite)]
    BY <2>2, <2>3, Zenon DEF NodeType, QueueType
  <2>5. s.call.op \in {"none", "write", "flush", "fence"}
    <3>1. PICK c : c = s.call
      BY Zenon
    <3>2. CASE c = Idle
      BY <3>1, <3>2 DEF Idle
    <3>3. CASE \E h \in Nodes : c = [op |-> "flush", home |-> h]
      BY <3>1, <3>3
    <3>4. CASE \E h \in Nodes : \E w \in OwnWrites(issued, h) : c = [op |-> "write", home |-> h, write |-> w]
      BY <3>1, <3>4
    <3>5. CASE \E todo \in SUBSET Nodes : c = [op |-> "fence", todo |-> todo]
      BY <3>1, <3>5
    <3>. QED BY <2>2, <3>1, <3>2, <3>3, <3>4, <3>5, Zenon DEF CallType, NodeType
  <2>. QED
    BY <2>1, <2>2, <2>4, <2>5, Zenon DEF NodeType, CacheType
<1>2. memory \in [Nodes -> Regions]
  BY Zenon DEF StateInv, OwnRegion
<1>3. issued \in Seq([node : Nodes, key : Keys])
  <2>1. PICK S : S = [node : Nodes, key : config.keys]
    BY Zenon
  <2>2. PICK T : T = [node : Nodes, key : Keys]
    BY Zenon
  <2>3. issued \in Seq(S) /\ S \subseteq T
    BY <2>1, <2>2, InUse, Zenon DEF StateInv, Issued
  <2>4. issued \in Seq(T)
    BY ONLY <2>3
  <2>. QED
    BY <2>2, <2>4, Zenon
<1>. QED
  BY <1>1, <1>2, <1>3, Zenon DEF TypeOK, StateInv, HistoryType

\* A started runtime satisfies the invariants.
LEMMA InitInv ==
  ASSUME Init
  PROVE  StateInv /\ ReadInv /\ AcksInv
<1>1. PICK none : none = <<>>
  BY Zenon
<1>. none \in Seq(Nat)
  BY <1>1
<1>2. node = [n \in Nodes |-> node[n]] /\ \A n \in Nodes : node[n] = FreshNode(n, none)
  BY <1>1, Zenon DEF Init
<1>3. ASSUME NEW n \in Nodes
      PROVE  NodeType(issued, node[n]) /\ node[n].pending = {} /\ OwnCache(issued, node[n].cache)
  <2>1. PICK t : t = FreshNode(n, none)
    BY Zenon
  <2>2. node[n] = t
    BY <1>2, <2>1, Zenon
  <2>3. NodeType(issued, t) /\ t.pending = {} /\ OwnCache(issued, t.cache)
    BY ONLY <2>1, n \in Nodes, none \in Seq(Nat), FreshType, Zenon
  <2>. QED
    BY <2>2, <2>3, Zenon
<1>4. FreshMemory = [h \in Nodes |-> FreshMemory[h]] /\ \A h \in Nodes : OwnRegion(issued, h, FreshMemory[h])
  BY Zenon DEF FreshMemory, OwnRegion, Regions
<1>5. HistoryType
  BY FreshHistory, Zenon DEF Init, HistoryType
<1>6. memory = [h \in Nodes |-> memory[h]] /\ \A h \in Nodes : OwnRegion(issued, h, memory[h])
  BY <1>4, Zenon DEF Init
<1>7. StateInv
  BY <1>2, <1>3, <1>5, <1>6, InUse DEF StateInv, Init, Issued
<1>. QED BY <1>3, <1>7, Zenon DEF AcksInv, ReadInv, Init

\* Every step keeps the types, the stub's acks and the bytes in their cells.
LEMMA NextInv ==
  ASSUME StateInv, Next
  PROVE  StateInv' /\ (AcksInv => AcksInv') /\ (ReadInv => ReadInv')
<1>1. PICK n \in config.clients :
        \/ \E k \in config.keys : lm_read(n, k) \/ lm_write(n, k)
        \/ Transfer(n) \/ TransferFails(n)
        \/ lm_fence(n) \/ FenceReturns(n)
        \/ \E h \in Nodes : FenceFlush(n, h) \/ FenceFlushFails(n, h)
        \/ \E m \in mail : HandleMessage(n, m) \/ DropMessage(n, m)
        \/ Restart(n)
  BY Zenon DEF Next
<1>2. n \in Nodes
  BY <1>1, InUse, Zenon DEF StateInv
<1>3. /\ failures \in 0 .. config.failures /\ mail \subseteq ControlMessage
      /\ memory = [h \in Nodes |-> memory[h]] /\ \A h \in Nodes : OwnRegion(issued, h, memory[h])
  BY Zenon DEF StateInv
<1>4. SUFFICES /\ NodeStep(n) /\ config' = config /\ HistoryType'
               /\ \/ issued' = issued
                  \/ /\ \E e \in [node : Nodes, key : config.keys] : issued' = Append(issued, e)
                     /\ Len(issued) < config.writes
               /\ failures' \in 0 .. config.failures /\ mail' \subseteq ControlMessage
               /\ memory' = [h \in Nodes |-> memory'[h]]
               /\ \A h \in Nodes : OwnRegion(issued', h, memory'[h])
               /\ \/ last' = NoRead
                  \/ /\ issued' = issued
                     /\ Unaliased /\ OwnCache(issued, node[n].cache)
                          => OwnData(issued, last'.key, last'.data)
  <2>1. /\ StateInv' /\ (AcksInv => AcksInv')
        /\ Unaliased /\ (\A m \in Nodes : OwnCache(issued, node[m].cache))
             => \A m \in Nodes : OwnCache(issued', node'[m].cache)
    BY <1>2, <1>4, StepInv, Zenon
  <2>2. Unaliased' <=> Unaliased
    BY <1>4, Zenon DEF Unaliased
  <2>3. ASSUME ReadInv
        PROVE  ReadInv'
    BY <2>2, <2>1, <2>3, <1>2, <1>4, Zenon DEF ReadInv, NoRead
  <2>. QED
    BY <2>1, <2>3, Zenon
<1>5. CASE \E k \in config.keys : lm_read(n, k)
  BY <1>5, <1>1, ReadStep, <1>3, Zenon DEF lm_read
<1>6. CASE \E k \in config.keys : lm_write(n, k)
  BY <1>6, <1>1, WriteStep, Zenon DEF lm_write
<1>7. CASE Transfer(n) \/ TransferFails(n)
  BY <1>7, <1>2, <1>3, TransferStep, Zenon DEF Transfer, TransferFails
<1>8. CASE lm_fence(n) \/ FenceReturns(n)
  BY <1>2, <1>3, <1>8, FenceStep, Zenon DEF lm_fence, FenceReturns
<1>9. CASE \E h \in Nodes : FenceFlush(n, h) \/ FenceFlushFails(n, h)
  BY <1>9, <1>2, <1>3, FenceFlushStep, Zenon DEF FenceFlush, FenceFlushFails
<1>10. CASE \E m \in mail : HandleMessage(n, m) \/ DropMessage(n, m)
  BY <1>10, <1>2, <1>3, HandleStep, Zenon DEF HandleMessage, DropMessage
<1>11. CASE Restart(n)
  BY <1>11, <1>2, <1>3, RestartStep, Zenon DEF Restart
<1>. QED
  BY <1>1, <1>5, <1>6, <1>7, <1>8, <1>9, <1>10, <1>11, Zenon

\* So does a step that changes nothing.
LEMMA StutterInv ==
  ASSUME StateInv /\ ReadInv /\ AcksInv, UNCHANGED vars
  PROVE  (StateInv /\ ReadInv /\ AcksInv)'
BY Zenon DEF vars, StateInv, HistoryType, ReadInv, Unaliased, AcksInv

\* A byte that was read comes from a write to the cell that was read.
LEMMA ReadInvGives ==
  ASSUME ReadInv
  PROVE  ReadsOwnCells
BY Zenon DEF ReadInv, ReadsOwnCells, OwnData, Own

\* Clients are nodes.
LEMMA AcksInvGives ==
  ASSUME StateInv, AcksInv
  PROVE  StubAcksAtOnce
BY InUse, Zenon DEF StateInv, AcksInv, StubAcksAtOnce

\* The state keeps its types in every configuration: caches hold payloads of their
\* keys, and queues hold entries as long as their ranges.
THEOREM LeoMemTypes == Spec => []TypeOK
<1>1. Init => StateInv /\ ReadInv /\ AcksInv
  BY InitInv, Zenon
<1>2. (StateInv /\ ReadInv /\ AcksInv) /\ [Next]_vars => (StateInv /\ ReadInv /\ AcksInv)'
  BY NextInv, StutterInv, Zenon
<1>3. StateInv => TypeOK
  BY StateTypes, Zenon
<1>. QED
  BY <1>1, <1>2, <1>3, PTL DEF Spec

\* In every configuration, with failures, lost requests and restarts, lm_read
\* returns bytes written to the cells it asked for, unless blocks of two homes
\* share their metadata.
THEOREM ReadsReturnOwnCells == Spec => []ReadsOwnCells
<1>1. Init => StateInv /\ ReadInv /\ AcksInv
  BY InitInv, Zenon
<1>2. (StateInv /\ ReadInv /\ AcksInv) /\ [Next]_vars => (StateInv /\ ReadInv /\ AcksInv)'
  BY NextInv, StutterInv, Zenon
<1>3. ReadInv => ReadsOwnCells
  BY ReadInvGives, Zenon
<1>. QED
  BY <1>1, <1>2, <1>3, PTL DEF Spec

\* Over the stub, every request whose ack is awaited has it in the inbox.
THEOREM StubAcksThere == Spec => []StubAcksAtOnce
<1>1. Init => StateInv /\ ReadInv /\ AcksInv
  BY InitInv, Zenon
<1>2. (StateInv /\ ReadInv /\ AcksInv) /\ [Next]_vars => (StateInv /\ ReadInv /\ AcksInv)'
  BY NextInv, StutterInv, Zenon
<1>3. StateInv /\ AcksInv => StubAcksAtOnce
  BY AcksInvGives, Zenon
<1>. QED
  BY <1>1, <1>2, <1>3, PTL DEF Spec
=============================================================================
