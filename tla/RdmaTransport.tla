--------------------------- MODULE RdmaTransport ---------------------------
(***************************************************************************)
(* The verbs part of the RDMA transport                                    *)
(* (src/src/transport/rdma_transport.cc): bring-up through files of the    *)
(* exchange directory, and one-sided requests with their completions.      *)
(*                                                                         *)
(* The network card is external: it executes the requests of a queue pair  *)
(* in order, reports each one in the completion queue, gives up a request  *)
(* to a peer that is not connected, and fails every request of a queue     *)
(* pair after that.  Payloads, keys and addresses are left out.            *)
(***************************************************************************)
EXTENDS Integers, FiniteSets, Sequences, FiniteSetsExt

CONSTANTS Nodes,        \* NodeIds, 0 .. nr_nodes - 1
          Clients,      \* nodes whose application reads and writes
          MaxBatch,     \* bound: requests in one BatchWrite
          MaxPosts,     \* bound: requests a node posts in a behaviour
          MaxRestarts   \* bound: number of times a node is restarted

ASSUME RdmaAssumption ==
  /\ Nodes \subseteq Nat /\ IsFiniteSet(Nodes) /\ Clients \subseteq Nodes
  /\ {MaxBatch, MaxPosts, MaxRestarts} \subseteq Nat

VARIABLES files,        \* exchange files: writer, reader, and the writer's life
                        \* once the file is filled
          boot,         \* each node's place in Init and RegisterMemoryRegion
          life,         \* how often the node was restarted: its queue pairs
          remote,       \* per node, ready peers and the life it knows of them
          flight,       \* requests the card has not completed, per peer
          broken,       \* peers whose queue pair is in the error state
          cq,           \* completion queue: whether each request succeeded
          outstanding,  \* outstanding_sends_
          call,         \* the transport call in WaitForCompletions
          posts, restarts,  \* what the bounds count
          leftover,     \* history: a call has failed with requests posted, and
                        \* no Fence has returned kOk since
          lost          \* history: PollCompletions has met a failed request

dataVars == <<flight, broken, cq, outstanding, call, posts, leftover, lost>>
vars == <<files, boot, life, remote, restarts, dataVars>>

Peers(n) == Nodes \ {n}
Empty == MaxRestarts + 1
Done == [step |-> "up", peer |-> 0]
Failed == [step |-> "failed", peer |-> 0]
Idle == [op |-> "none", left |-> 0]

TypeOK ==
  /\ files \subseteq [from : Nodes, to : Nodes, life : 0 .. Empty]
  /\ boot \in [Nodes -> {Done, Failed, [step |-> "down", peer |-> 0], [step |-> "open", peer |-> 0]}
                        \cup [step : {"write", "fill", "wait", "read"}, peer : Nodes]]
  /\ life \in [Nodes -> 0 .. MaxRestarts]
  /\ \A n \in Nodes : /\ DOMAIN remote[n] \subseteq Peers(n)
                      /\ \A p \in DOMAIN remote[n] : remote[n][p] \in 0 .. MaxRestarts
  /\ flight \in [Nodes -> [Nodes -> Nat]]
  /\ broken \in [Nodes -> SUBSET Nodes]
  /\ cq \in [Nodes -> Seq(BOOLEAN)]
  /\ outstanding \in [Nodes -> Nat]
  /\ call \in [Nodes -> {Idle} \cup [op : {"Read", "Write", "BatchWrite", "Fence"}, left : Nat \ {0}]]
  /\ posts \in [Nodes -> 0 .. MaxPosts] /\ restarts \in 0 .. MaxRestarts
  /\ leftover \in [Nodes -> BOOLEAN] /\ lost \in [Nodes -> BOOLEAN]

NoFlight == [p \in Nodes |-> 0]

Init ==
  /\ files = {}
  /\ boot = [n \in Nodes |-> [step |-> "down", peer |-> 0]]
  /\ life = [n \in Nodes |-> 0]
  /\ remote = [n \in Nodes |-> <<>>]
  /\ flight = [n \in Nodes |-> NoFlight]
  /\ broken = [n \in Nodes |-> {}]
  /\ cq = [n \in Nodes |-> <<>>]
  /\ outstanding = [n \in Nodes |-> 0]
  /\ call = [n \in Nodes |-> Idle]
  /\ posts = [n \in Nodes |-> 0] /\ restarts = 0
  /\ leftover = [n \in Nodes |-> FALSE] /\ lost = [n \in Nodes |-> FALSE]

-----------------------------------------------------------------------------
(* Bring-up.  The loop of ExchangeAndConnect takes the peers in the order of  *)
(* their ids: write a file for the peer, wait for the peer's, connect.        *)

InBoot(n, step) == boot[n].step = step
Go(n, b) == boot' = [boot EXCEPT ![n] = b]

\* The loop goes on with the least peer of the set, or is over.
LoopOver(S) == IF S = {} THEN Done ELSE [step |-> "write", peer |-> Min(S)]

FileOf(p, n) == {f \in files : f.from = p /\ f.to = n}

\* Device, port, protection domain, completion queue and queue pairs: any of
\* them may fail.
OpenDevice(n) ==
  /\ InBoot(n, "down")
  /\ Go(n, [step |-> "open", peer |-> 0]) \/ Go(n, Failed)
  /\ UNCHANGED <<files, life, remote, restarts, dataVars>>

RegisterMemoryRegion(n) ==
  /\ InBoot(n, "open")
  /\ Go(n, LoopOver(Peers(n))) \/ Go(n, Failed)
  /\ UNCHANGED <<files, life, remote, restarts, dataVars>>

\* A mutant: the peer's file is waited for before the own one is written.
CreateFileLate(n) ==
  /\ InBoot(n, "write")
  /\ FileOf(boot[n].peer, n) # {}
  /\ files' = (files \ FileOf(n, boot[n].peer)) \cup
              {[from |-> n, to |-> boot[n].peer, life |-> Empty]}
  /\ Go(n, [boot[n] EXCEPT !.step = "fill"])
  /\ UNCHANGED <<life, remote, restarts, dataVars>>

\* Opening the stream creates or truncates the file.
CreateFile(n) ==
  /\ InBoot(n, "write")
  /\ files' = (files \ FileOf(n, boot[n].peer)) \cup
              {[from |-> n, to |-> boot[n].peer, life |-> Empty]}
  /\ Go(n, [boot[n] EXCEPT !.step = "fill"])
  /\ UNCHANGED <<life, remote, restarts, dataVars>>

\* The stream cannot be opened.
CreateFails(n) ==
  /\ InBoot(n, "write")
  /\ Go(n, Failed)
  /\ UNCHANGED <<files, life, remote, restarts, dataVars>>

FillFile(n) ==
  /\ InBoot(n, "fill")
  /\ files' = (files \ FileOf(n, boot[n].peer)) \cup
              {[from |-> n, to |-> boot[n].peer, life |-> life[n]]}
  /\ Go(n, [boot[n] EXCEPT !.step = "wait"])
  /\ UNCHANGED <<life, remote, restarts, dataVars>>

\* The peer's file exists; it is read in a later step.
SeeFile(n) ==
  /\ InBoot(n, "wait")
  /\ FileOf(boot[n].peer, n) # {}
  /\ Go(n, [boot[n] EXCEPT !.step = "read"])
  /\ UNCHANGED <<files, life, remote, restarts, dataVars>>

\* rdma_bootstrap_timeout_ms is over.
TimeOut(n) ==
  /\ InBoot(n, "wait")
  /\ FileOf(boot[n].peer, n) = {}
  /\ Go(n, Failed)
  /\ UNCHANGED <<files, life, remote, restarts, dataVars>>

\* The peer's file parses and TransitionQueuePair succeeds.
Connect(n) ==
  LET p == boot[n].peer
  IN /\ InBoot(n, "read")
     /\ \E f \in FileOf(p, n) :
          /\ f.life # Empty
          /\ remote' = [remote EXCEPT ![n] = [q \in DOMAIN @ \cup {p} |->
                                                IF q = p THEN f.life ELSE @[q]]]
     /\ Go(n, LoopOver({q \in Peers(n) : q > p}))
     /\ UNCHANGED <<files, life, restarts, dataVars>>

\* The file is still empty and does not parse, or the queue pair cannot be moved
\* to the states RTR and RTS.
ConnectFails(n) ==
  /\ InBoot(n, "read")
  /\ Go(n, Failed)
  /\ UNCHANGED <<files, life, remote, restarts, dataVars>>

-----------------------------------------------------------------------------
(* Requests. *)

\* The requests the card still has, one element per peer and request.
Requests(n) == UNION {{p} \X (1 .. flight[n][p]) : p \in Nodes}

InFlight(n) == Cardinality(Requests(n))

Usable(n) == n \in Clients /\ boot[n] = Done /\ call[n] = Idle

\* ibv_post_send of k requests.
Post(n, p, k) ==
  /\ posts[n] + k <= MaxPosts
  /\ posts' = [posts EXCEPT ![n] = @ + k]
  /\ flight' = [flight EXCEPT ![n][p] = @ + k]
  /\ outstanding' = [outstanding EXCEPT ![n] = @ + k]

\* WaitForCompletions(left): the call is over when there is nothing to wait for.
Wait(n, op, left) ==
  call' = [call EXCEPT ![n] = IF left = 0 THEN Idle ELSE [op |-> op, left |-> left]]

\* PostOneSided.  A call that is refused posts nothing.
OneSided(n, p, op) ==
  /\ Usable(n) /\ p \in DOMAIN remote[n]
  /\ Post(n, p, 1)
  /\ Wait(n, op, 1)
  /\ UNCHANGED <<files, boot, life, remote, restarts, broken, cq, leftover, lost>>

Read(n, p) == OneSided(n, p, "Read")
Write(n, p) == OneSided(n, p, "Write")

\* Mutants: the last request is not waited for, one too many is waited for, and
\* a batch that stops early does not count what it has posted.
BatchWriteShort(n, p, k) ==
  /\ Usable(n) /\ p \in DOMAIN remote[n]
  /\ Post(n, p, k)
  /\ Wait(n, "BatchWrite", k - 1)
  /\ UNCHANGED <<files, boot, life, remote, restarts, broken, cq, leftover, lost>>

BatchWriteLong(n, p, k) ==
  /\ Usable(n) /\ p \in DOMAIN remote[n]
  /\ Post(n, p, k)
  /\ Wait(n, "BatchWrite", k + 1)
  /\ UNCHANGED <<files, boot, life, remote, restarts, broken, cq, leftover, lost>>

BatchWriteFailsUncounted(n, p, k) ==
  /\ Usable(n) /\ p \in DOMAIN remote[n]
  /\ posts[n] + k <= MaxPosts
  /\ posts' = [posts EXCEPT ![n] = @ + k]
  /\ flight' = [flight EXCEPT ![n][p] = @ + k]
  /\ leftover' = [leftover EXCEPT ![n] = TRUE]
  /\ UNCHANGED <<files, boot, life, remote, restarts, broken, cq, outstanding, call, lost>>

\* BatchWrite of a drained queue: every request is posted, then waited for.
BatchWrite(n, p, k) ==
  /\ Usable(n) /\ p \in DOMAIN remote[n]
  /\ Post(n, p, k)
  /\ Wait(n, "BatchWrite", k)
  /\ UNCHANGED <<files, boot, life, remote, restarts, broken, cq, leftover, lost>>

\* A request after the first k is out of range, or cannot be registered or
\* posted: BatchWrite returns and leaves k requests behind.
BatchWriteFails(n, p, k) ==
  /\ Usable(n) /\ p \in DOMAIN remote[n]
  /\ Post(n, p, k)
  /\ leftover' = [leftover EXCEPT ![n] = TRUE]
  /\ UNCHANGED <<files, boot, life, remote, restarts, broken, cq, call, lost>>

\* Fence waits for as many completions as outstanding_sends_ says.
Fence(n) ==
  /\ Usable(n)
  /\ Wait(n, "Fence", outstanding[n])
  /\ leftover' = [leftover EXCEPT ![n] = @ /\ outstanding[n] # 0]
  /\ UNCHANGED <<files, boot, life, remote, restarts, flight, broken, cq, outstanding, posts, lost>>

-----------------------------------------------------------------------------
(* Completions. *)

\* Both ends know the queue pair the other one has now.
Connected(n, p) ==
  /\ p \in DOMAIN remote[n] /\ remote[n][p] = life[p]
  /\ n \in DOMAIN remote[p] /\ remote[p][n] = life[n]

\* The card completes the oldest request to p.  It fails if the two queue pairs
\* are not connected by the time the card gives up, or have failed before.
Complete(n, p) ==
  LET ok == Connected(n, p) /\ p \notin broken[n]
  IN /\ flight[n][p] > 0
     /\ flight' = [flight EXCEPT ![n][p] = @ - 1]
     /\ cq' = [cq EXCEPT ![n] = Append(@, ok)]
     /\ broken' = [broken EXCEPT ![n] = IF ok THEN @ ELSE @ \cup {p}]
     /\ UNCHANGED <<files, boot, life, remote, restarts, outstanding, call, posts, leftover, lost>>

\* A mutant: everything there is is polled.
PolledAll(n) == Len(cq[n])

\* The completions one ibv_poll_cq returns.
Polled(n) == IF Len(cq[n]) <= call[n].left THEN Len(cq[n]) ELSE call[n].left

\* One round of WaitForCompletions in which PollCompletions finds something.
\* A failed request among them ends the call; all of them are gone from the
\* completion queue, and outstanding_sends_ keeps counting them.
PollCompletions(n) ==
  LET k == Polled(n)
      ok == \A i \in 1 .. k : cq[n][i]
  IN /\ call[n] # Idle
     /\ cq[n] # <<>>
     /\ cq' = [cq EXCEPT ![n] = SubSeq(@, k + 1, Len(@))]
     /\ \/ /\ ok
           /\ outstanding' = [outstanding EXCEPT ![n] = IF @ >= k THEN @ - k ELSE 0]
           /\ Wait(n, call[n].op, call[n].left - k)
           /\ leftover' = [leftover EXCEPT ![n] =
                             @ /\ ~(call[n].op = "Fence" /\ call[n].left = k)]
           /\ UNCHANGED lost
        \/ /\ ~ok
           /\ call' = [call EXCEPT ![n] = Idle]
           /\ leftover' = [leftover EXCEPT ![n] = TRUE]
           /\ lost' = [lost EXCEPT ![n] = TRUE]
           /\ UNCHANGED outstanding
     /\ UNCHANGED <<files, boot, life, remote, restarts, flight, broken, posts>>

\* ibv_poll_cq reports an error: the call returns, its requests still posted.
PollFails(n) ==
  /\ call[n] # Idle
  /\ call' = [call EXCEPT ![n] = Idle]
  /\ leftover' = [leftover EXCEPT ![n] = TRUE]
  /\ UNCHANGED <<files, boot, life, remote, restarts, flight, broken, cq, outstanding, posts, lost>>

\* Shutdown and the next Init.  The exchange files stay.
Restart(n) ==
  /\ boot[n] = Done /\ call[n] = Idle
  /\ restarts < MaxRestarts
  /\ restarts' = restarts + 1
  /\ life' = [life EXCEPT ![n] = @ + 1]
  /\ Go(n, [step |-> "down", peer |-> 0])
  /\ remote' = [remote EXCEPT ![n] = <<>>]
  /\ flight' = [flight EXCEPT ![n] = NoFlight]
  /\ broken' = [broken EXCEPT ![n] = {}]
  /\ cq' = [cq EXCEPT ![n] = <<>>]
  /\ outstanding' = [outstanding EXCEPT ![n] = 0]
  /\ leftover' = [leftover EXCEPT ![n] = FALSE]
  /\ lost' = [lost EXCEPT ![n] = FALSE]
  /\ UNCHANGED <<files, call, posts>>

BringUp(n) ==
  \/ OpenDevice(n) \/ RegisterMemoryRegion(n) \/ CreateFile(n) \/ FillFile(n)
  \/ SeeFile(n) \/ Connect(n) \/ ConnectFails(n)

Next ==
  \E n \in Nodes :
    \/ BringUp(n) \/ CreateFails(n) \/ TimeOut(n) \/ Restart(n)
    \/ \E p \in Peers(n) :
         \/ Read(n, p) \/ Write(n, p)
         \/ \E k \in 1 .. MaxBatch : BatchWrite(n, p, k)
         \/ \E k \in 1 .. (MaxBatch - 1) : BatchWriteFails(n, p, k)
         \/ Complete(n, p)
    \/ Fence(n) \/ PollCompletions(n) \/ PollFails(n)

\* Threads run, and the card completes every request in the end: a reliable
\* connection retries a bounded number of times.
Fairness ==
  /\ \A n \in Nodes : WF_vars(BringUp(n))
  /\ \A n \in Clients : /\ WF_vars(PollCompletions(n))
                        /\ WF_vars(\E p \in Peers(n) : Complete(n, p))

Spec == Init /\ [][Next]_vars /\ Fairness

-----------------------------------------------------------------------------
\* outstanding_sends_ never falls below the requests whose completion is still to
\* be polled, whatever has failed: a Fence that returns kOk leaves none behind.
CountCovers == \A n \in Nodes : outstanding[n] >= InFlight(n) + Len(cq[n])

\* Between calls nothing is in flight and nothing is left in the completion
\* queue, unless a call has failed since the last kOk Fence: the buffers of a
\* returned call are never in use, and no call takes an earlier completion for
\* its own.
OkMeansDone ==
  \A n \in Nodes : call[n] = Idle /\ ~leftover[n] =>
    InFlight(n) = 0 /\ cq[n] = <<>> /\ outstanding[n] = 0

\* A call that waits for completions returns, as long as no request has failed:
\* it waits for no more completions than will come.
CallReturns ==
  \A n \in Clients : call[n] # Idle ~> (call[n] = Idle \/ lost[n])

\* The nodes never wait for each other's files in a circle: after the
\* first start and after a restart, in the end all are up or one has given up.
BringUpSettles ==
  []<>((\A n \in Nodes : boot[n] = Done) \/ (\E n \in Nodes : boot[n] = Failed))
=============================================================================
