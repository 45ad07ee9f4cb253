------------------------------ MODULE MCLeoMem ------------------------------
(* Instances of LeoMem for TLC. *)
EXTENDS LeoMem

MCBytes == 1 .. MaxWrites

K(home, lo, hi) == [home |-> home, lo |-> lo, hi |-> hi]

\* Ranges of node 1 that overlap, and a range of node 0 in the same block.
Overlapping == {K(1, 0, 1), K(1, 0, 2), K(0, 0, 1)}

\* Single cells of nodes 0 and 1 in the same block.
Single == {K(1, 0, 1), K(0, 0, 1)}

\* Both cells of node 1 and the range over them.
Cells01 == {K(1, 0, 1), K(1, 1, 2), K(1, 0, 2)}

\* Single cells of nodes 1 and 2 in different blocks.
Apart == {K(1, 0, 1), K(2, 1, 2)}

\* Two cells of node 1 that do not touch.
Gap == {K(1, 0, 1), K(1, 2, 3)}

\* Single cells of nodes 1 and 2 in blocks at the same index.
Aliased == {K(1, 0, 1), K(2, 0, 1)}

\* Clients 0 and 1 over one-sided reads and writes.
Shared(keys, override, policy, batching, threshold, calls, faults) ==
  [clients |-> {0, 1}, stub |-> FALSE, keys |-> keys, override |-> override,
   policy |-> policy, capacity |-> 0, batching |-> batching, threshold |-> threshold,
   writes |-> calls, failures |-> faults]

\* Process 0 over the stub.
Stub(keys, override, policy, batching, threshold, calls) ==
  [clients |-> {0}, stub |-> TRUE, keys |-> keys, override |-> override,
   policy |-> policy, capacity |-> 0, batching |-> batching, threshold |-> threshold,
   writes |-> calls, failures |-> 0]

\* WI mode with overlapping ranges; modes chosen per access, with single cells,
\* and with a range of two blocks and a failure; SI mode without batching; two
\* writers of a third node's block; three clients of one home; two clients of
\* two homes; the stub with overlapping ranges and queued writes, with a cache
\* without limit and one of a single byte; a batch of two writes and a failure;
\* and blocks at one index of two homes, with a failure.
MCConfigs ==
  {Shared(Overlapping, "WI", "always", TRUE, 2, 2, 0),
   Shared(Single, "none", "profiled", TRUE, 1, 2, 0),
   Shared({K(1, 0, 2)}, "none", "profiled", TRUE, 2, 2, 1),
   Shared(Single, "SI", "always", FALSE, 1, 3, 0),
   [Shared({K(1, 0, 1)}, "none", "profiled", TRUE, 1, 3, 0) EXCEPT !.clients = {0, 2}],
   [Shared({K(1, 0, 1)}, "Adaptive", "never", TRUE, 1, 3, 0) EXCEPT !.clients = {0, 1, 2}],
   [Shared(Apart, "Adaptive", "never", TRUE, 1, 3, 0) EXCEPT !.clients = {0, 2}],
   Stub(Cells01, "none", "profiled", TRUE, 2, 2),
   [Stub(Cells01, "none", "profiled", TRUE, 2, 2) EXCEPT !.capacity = 1],
   Shared(Gap, "SI", "never", TRUE, 3, 3, 1),
   [Shared(Aliased, "none", "profiled", FALSE, 1, 2, 1) EXCEPT !.clients = {0}]}

\* src/configs/baseline_fixed_si.conf.
MCFixedSI == {Stub({K(1, 0, 1)}, "SI", "always", TRUE, 2, 2)}

\* src/configs/baseline_fixed_wi.conf, with blocks at one index of two homes.
MCFixedWI == {Stub(Aliased, "WI", "never", FALSE, 1, 2)}

\* The state without the release histories.
MCView == <<config, memory, node, mail, last, issued, failures, order, seen>>
=============================================================================
