---------------------------- MODULE ControlPlane ----------------------------
(***************************************************************************)
(* The control plane: invalidate and owner-transfer requests, their acks,  *)
(* the ack timeouts and retries, and the block metadata they carry         *)
(* (src/src/api/access_api.cc, src/src/api/sync_api.cc,                    *)
(* src/src/runtime/context.cc) over the file mailbox.                      *)
(*                                                                         *)
(* Each node runs one application thread.  An API call drains the mailbox, *)
(* handles what it drained, advances the ack timeouts, posts the retries   *)
(* and then does its own work; the calls of different nodes interleave     *)
(* between any two file operations.  All calls are for one block with home *)
(* Home, which is allocated, so no call is refused for its range.  The     *)
(* mode ObserveAccess picks for a write is chosen freely.  A read or write *)
(* whose data path fails has the same effect here as one that succeeds.    *)
(***************************************************************************)
EXTENDS ControlMailbox

CONSTANTS Nodes,         \* NodeIds
          Home,          \* home node of the block
          TimeoutPolls,  \* Config::control_ack_timeout_polls
          MaxRetries,    \* Config::control_ack_max_retries
          StartSeq,      \* control messages each node has sent before
          MaxWrites,     \* bound: number of lm_write calls in a behaviour
          MaxErrors,     \* bound: number of files that cannot be created
          MaxRestarts    \* bound: number of times a node is restarted

NoNode == 65535   \* kInvalidNodeId

ASSUME ControlAssumption ==
  /\ Nodes \subseteq 0 .. (NoNode - 1) /\ Home \in Nodes
  /\ {TimeoutPolls, MaxRetries, StartSeq, MaxWrites, MaxErrors, MaxRestarts} \subseteq Nat

VARIABLES files,     \* the exchange directory
          nextId,    \* next_control_request_id_
          seq,       \* control_sequence_
          pending,   \* pending_control_acks_: request id -> message, counters
          meta,      \* the block's entry of each node's BlockTable
          call,      \* the API call a node is executing
          inbox,     \* messages it has drained and not handled yet
          outbox,    \* retries or requests it has still to post
          opened,    \* the message whose file it has created and not closed
          status,    \* what the control part of its last call returned
          writes, errors, restarts,  \* what the bounds count
          hist       \* history: per request, files created for it, times it
                     \* was handled, times its timeout was advanced

callVars == <<call, inbox, outbox, opened, status>>
vars == <<files, nextId, seq, pending, meta, callVars, writes, errors, restarts, hist>>

Requests == {"InvalidateRange", "OwnerTransfer"}
Acks == {"InvalidateAck", "OwnerTransferAck"}
Ids == 1 .. MaxWrites
Modes == {"WI", "SI", "Adaptive"}
Idle == [op |-> "none", step |-> "idle"]
Calls == {Idle} \cup [op : {"lm_read", "lm_write", "lm_fence", "lm_fence_end"},
                      step : {"handle", "retry", "request"}]

Message == [op : Requests \cup Acks, source : Nodes, target : Nodes, id : Ids, version : 0 .. MaxWrites]
NoMessage == Empty

BlockMeta == [version : 0 .. MaxWrites, validated : 0 .. MaxWrites, epoch : 0 .. MaxWrites,
              owner : Nodes \cup {NoNode}, state : {"Home", "Shared", "Owner", "Invalid"}]
FreshMeta == [version |-> 0, validated |-> 0, epoch |-> 0, owner |-> NoNode, state |-> "Home"]

TypeOK ==
  /\ \A f \in files : /\ f.to \in Nodes /\ f.from \in Nodes /\ f.seq \in Nat
                      /\ f.body \in Message \cup {NoMessage}
  /\ nextId \in [Nodes -> Nat] /\ seq \in [Nodes -> Nat]
  /\ \A n \in Nodes : /\ DOMAIN pending[n] \subseteq Ids
                      /\ \A i \in DOMAIN pending[n] :
                           pending[n][i] \in [message : Message, polls : 0 .. TimeoutPolls,
                                              retries : 0 .. MaxRetries]
  /\ meta \in [Nodes -> BlockMeta]
  /\ call \in [Nodes -> Calls]
  /\ inbox \in [Nodes -> Seq(Message)] /\ outbox \in [Nodes -> Seq(Message)]
  /\ opened \in [Nodes -> Message \cup {NoMessage}]
  /\ status \in [Nodes -> {"kOk", "kTimedOut", "kInternalError"}]
  /\ writes \in 0 .. MaxWrites /\ errors \in 0 .. MaxErrors /\ restarts \in 0 .. MaxRestarts
  /\ hist \in [Nodes -> [Ids -> [posts : Nat, handled : Nat, polls : Nat]]]

\* Polls until a request times out; its history counts no further.
PollBudget == (TimeoutPolls + 1) * (MaxRetries + 1)

FreshHist == [i \in Ids |-> [posts |-> 0, handled |-> 0, polls |-> 0]]

Init ==
  /\ files = {}
  /\ nextId = [n \in Nodes |-> 1]
  /\ seq = [n \in Nodes |-> StartSeq]
  /\ pending = [n \in Nodes |-> <<>>]
  /\ meta = [n \in Nodes |-> FreshMeta]
  /\ call = [n \in Nodes |-> Idle]
  /\ inbox = [n \in Nodes |-> <<>>]
  /\ outbox = [n \in Nodes |-> <<>>]
  /\ opened = [n \in Nodes |-> NoMessage]
  /\ status = [n \in Nodes |-> "kOk"]
  /\ writes = 0 /\ errors = 0 /\ restarts = 0
  /\ hist = [n \in Nodes |-> FreshHist]

-----------------------------------------------------------------------------
(* Block metadata. *)

\* PrepareMetadata.
Prepared(n, m, isWrite) ==
  IF n = Home
  THEN [m EXCEPT !.state = "Home", !.owner = n, !.version = IF isWrite THEN @ + 1 ELSE @]
  ELSE [m EXCEPT !.owner = IF @ = NoNode THEN Home ELSE @,
                 !.state = IF @ = "Home" THEN "Shared" ELSE @]

\* ApplyWriteMetadata, for a write by a node other than the home.
ApplyWriteMetadata(n, m, mode) ==
  CASE mode = "WI" -> [m EXCEPT !.version = @ + 1, !.owner = Home, !.state = "Shared"]
    [] mode = "Adaptive" -> [m EXCEPT !.version = @ + 1, !.owner = n, !.epoch = @ + 1,
                                      !.state = "Owner"]
    [] mode = "SI" -> [m EXCEPT !.version = @ + 1, !.state = "Shared"]

\* What lm_read may leave behind: the prepared metadata (a cache hit, a failed
\* read or a local read), or those of a read from the home or from the owner.
ReadMetadata(n, m) ==
  LET p == Prepared(n, m, FALSE)
      validated == p.validated >= p.version
      fromHome == [p EXCEPT !.validated = p.version,
                            !.state = IF @ = "Invalid" THEN "Shared" ELSE @,
                            !.owner = IF p.state = "Invalid" THEN Home ELSE @]
  IN IF n = Home THEN {p}
     ELSE IF p.owner = n THEN {p, [p EXCEPT !.validated = p.version]}
     ELSE {p, fromHome} \cup
          (IF validated /\ p.owner # Home
           THEN {[p EXCEPT !.validated = p.version, !.state = "Owner"]} ELSE {})

\* A drained request at its target: ProcessPendingControlMessages in lm_read and
\* lm_write, DrainControl in lm_fence.
HandledMetadata(m, msg, op) ==
  CASE msg.op = "InvalidateRange" /\ op \in {"lm_fence", "lm_fence_end"} -> m
    [] msg.op = "InvalidateRange" /\ op \notin {"lm_fence", "lm_fence_end"} ->
         [m EXCEPT !.version = msg.version, !.state = "Invalid"]
    [] msg.op = "OwnerTransfer" ->
         [m EXCEPT !.version = msg.version, !.owner = msg.source,
                   !.state = IF op \in {"lm_fence", "lm_fence_end"} THEN @ ELSE "Owner"]

\* The request a remote write posts: an invalidation in WI mode, an owner
\* transfer in Adaptive mode if the writer did not own the block before.
WriteRequest(n, before, after, mode) ==
  LET msg(op) == <<[op |-> op, source |-> n, target |-> Home, id |-> nextId[n],
                    version |-> after.version]>>
  IN CASE mode = "WI" -> msg("InvalidateRange")
       [] mode = "Adaptive" /\ before.owner # n -> msg("OwnerTransfer")
       [] OTHER -> <<>>

AckFor(n, msg) ==
  [msg EXCEPT !.op = IF @ = "InvalidateRange" THEN "InvalidateAck" ELSE "OwnerTransferAck",
              !.source = n, !.target = msg.source]

-----------------------------------------------------------------------------
(* Mutants of the table of pending acks. *)

\* Any ack empties the table.
CompletedAll(acks, id) == <<>>

\* A request never expires.
ExpiredNever(p) == FALSE

\* The retries are not waited for.
ExpiredEarly(p) == p.polls = 0

\* A retry is not charged.
AdvancedFree(acks, ids) ==
  [i \in DOMAIN acks |->
     IF i \notin ids THEN acks[i]
     ELSE IF acks[i].polls > 0 THEN [acks[i] EXCEPT !.polls = @ - 1]
     ELSE [acks[i] EXCEPT !.polls = TimeoutPolls]]

\* The loop works on copies of the entries.
AdvancedCopies(acks, ids) == acks

-----------------------------------------------------------------------------
(* The table of pending acks. *)

Tracked(acks, msg) ==
  [i \in DOMAIN acks \cup {msg.id} |->
     IF i = msg.id THEN [message |-> msg, polls |-> TimeoutPolls, retries |-> MaxRetries]
     ELSE acks[i]]

Completed(acks, id) == [i \in DOMAIN acks \ {id} |-> acks[i]]

Expired(p) == p.polls = 0 /\ p.retries = 0

\* One visit of AdvanceControlAckTimeouts to each of the requests ids: count a
\* poll down, or charge a retry and start over.
Advanced(acks, ids) ==
  [i \in DOMAIN acks |->
     IF i \notin ids THEN acks[i]
     ELSE IF acks[i].polls > 0 THEN [acks[i] EXCEPT !.polls = @ - 1]
     ELSE [acks[i] EXCEPT !.retries = @ - 1, !.polls = TimeoutPolls]]

CountPolls(n, ids) ==
  [hist EXCEPT ![n] = [i \in Ids |->
     IF i \in ids /\ hist[n][i].polls < PollBudget
     THEN [hist[n][i] EXCEPT !.polls = @ + 1] ELSE hist[n][i]]]

-----------------------------------------------------------------------------
(* Posting one message, in two file operations. *)

\* The file is created.
Post(n, msg) ==
  /\ seq' = [seq EXCEPT ![n] = @ + 1]
  /\ files' = Created(files, msg, seq[n] + 1)
  /\ opened' = [opened EXCEPT ![n] = msg]
  /\ UNCHANGED <<call, status, errors>>

CountPost(n, msg) == hist' = [hist EXCEPT ![n][msg.id].posts = @ + 1]

Return(n, s) ==
  /\ call' = [call EXCEPT ![n] = Idle]
  /\ status' = [status EXCEPT ![n] = s]

\* The file cannot be created: the call returns, and what it has drained or
\* collected and not got to yet is gone.
PostFails(n) ==
  /\ errors < MaxErrors
  /\ errors' = errors + 1
  /\ seq' = [seq EXCEPT ![n] = @ + 1]
  /\ Return(n, "kInternalError")
  /\ UNCHANGED <<files, opened>>

\* The file is closed.  A request of lm_write is tracked once it is posted.
Close(n) ==
  /\ opened[n] # NoMessage
  /\ files' = Filled(files, opened[n], seq[n])
  /\ opened' = [opened EXCEPT ![n] = NoMessage]
  /\ pending' = IF call[n].step = "request"
                THEN [pending EXCEPT ![n] = Tracked(@, opened[n])]
                ELSE pending
  /\ UNCHANGED <<nextId, seq, meta, call, inbox, outbox, status, writes, errors, restarts, hist>>

-----------------------------------------------------------------------------
(* The part every API call starts with. *)

\* DrainControlMessages.
Drain(n, op) ==
  LET scanned == Scanned({f \in files : f.to = n})
  IN /\ files' = Unread(files, scanned)
     /\ inbox' = [inbox EXCEPT ![n] = Parsed(scanned)]
     /\ call' = [call EXCEPT ![n] = [op |-> op, step |-> "handle"]]

BeginCall(n) ==
  /\ call[n] = Idle
  /\ \/ \E op \in {"lm_read", "lm_fence"} : Drain(n, op) /\ UNCHANGED writes
     \/ writes < MaxWrites /\ writes' = writes + 1 /\ Drain(n, "lm_write")
  /\ UNCHANGED <<nextId, seq, pending, meta, outbox, opened, status, errors, restarts, hist>>

InStep(n, step) == call[n].step = step /\ opened[n] = NoMessage

\* CompleteControlAck: an unknown id is ignored.
HandleAck(n) ==
  /\ InStep(n, "handle") /\ inbox[n] # <<>>
  /\ Head(inbox[n]).op \in Acks
  /\ pending' = [pending EXCEPT ![n] = Completed(@, Head(inbox[n]).id)]
  /\ inbox' = [inbox EXCEPT ![n] = Tail(@)]
  /\ UNCHANGED <<files, nextId, seq, meta, call, outbox, opened, status, writes, errors,
                 restarts, hist>>

HandleRequest(n) ==
  LET msg == Head(inbox[n])
  IN /\ InStep(n, "handle") /\ inbox[n] # <<>>
     /\ msg.op \in Requests
     /\ meta' = [meta EXCEPT ![n] = HandledMetadata(@, msg, call[n].op)]
     /\ hist' = [hist EXCEPT ![msg.source][msg.id].handled = @ + 1]
     /\ \/ Post(n, AckFor(n, msg)) /\ inbox' = [inbox EXCEPT ![n] = Tail(@)]
        \/ PostFails(n) /\ inbox' = [inbox EXCEPT ![n] = <<>>]
     /\ UNCHANGED <<nextId, pending, outbox, writes, restarts>>

\* AdvanceControlAckTimeouts with an expired request: the loop, in the order of
\* the hash map, visits some requests and returns at an expired one.  The
\* retries it has collected are not posted.
TimeOut(n) ==
  /\ InStep(n, "handle") /\ inbox[n] = <<>>
  /\ \E expired \in DOMAIN pending[n], visited \in SUBSET DOMAIN pending[n] :
       /\ Expired(pending[n][expired])
       /\ \A i \in visited : ~Expired(pending[n][i])
       /\ pending' = [pending EXCEPT ![n] = Advanced(@, visited)]
       /\ hist' = CountPolls(n, visited \cup {expired})
  /\ Return(n, "kTimedOut")
  /\ UNCHANGED <<files, nextId, seq, meta, inbox, outbox, opened, writes, errors, restarts>>

\* AdvanceControlAckTimeouts with no expired request.
AdvanceTimeouts(n) ==
  /\ InStep(n, "handle") /\ inbox[n] = <<>>
  /\ \A i \in DOMAIN pending[n] : ~Expired(pending[n][i])
  /\ pending' = [pending EXCEPT ![n] = Advanced(@, DOMAIN @)]
  /\ hist' = CountPolls(n, DOMAIN pending[n])
  /\ LET due == {i \in DOMAIN pending[n] : pending[n][i].polls = 0}
     IN \E retries \in Injection(1 .. Cardinality(due), due) :
          outbox' = [outbox EXCEPT ![n] = [k \in DOMAIN retries |-> pending[n][retries[k]].message]]
  /\ call' = [call EXCEPT ![n].step = "retry"]
  /\ UNCHANGED <<files, nextId, seq, meta, inbox, opened, status, writes, errors, restarts>>

\* The next retry (DrivePendingControlAcks), or the next request of lm_write.
PostNext(n) ==
  /\ InStep(n, "retry") \/ InStep(n, "request")
  /\ outbox[n] # <<>>
  /\ \/ /\ Post(n, Head(outbox[n])) /\ CountPost(n, Head(outbox[n]))
        /\ outbox' = [outbox EXCEPT ![n] = Tail(@)]
     \/ PostFails(n) /\ outbox' = [outbox EXCEPT ![n] = <<>>] /\ UNCHANGED hist
  /\ UNCHANGED <<nextId, pending, meta, inbox, writes, restarts>>

-----------------------------------------------------------------------------
(* The rest of each API call. *)

ControlDone(n, op) == InStep(n, "retry") /\ outbox[n] = <<>> /\ call[n].op = op

FinishRead(n) ==
  /\ ControlDone(n, "lm_read")
  /\ \E m \in ReadMetadata(n, meta[n]) : meta' = [meta EXCEPT ![n] = m]
  /\ Return(n, "kOk")
  /\ UNCHANGED <<files, nextId, seq, pending, inbox, outbox, opened, writes, errors, restarts, hist>>

WriteAtHome(n) ==
  /\ ControlDone(n, "lm_write") /\ n = Home
  /\ meta' = [meta EXCEPT ![n] = Prepared(n, @, TRUE)]
  /\ Return(n, "kOk")
  /\ UNCHANGED <<files, nextId, seq, pending, inbox, outbox, opened, writes, errors, restarts, hist>>

\* The metadata change before the request is posted.
WriteRemote(n, mode) ==
  LET before == Prepared(n, meta[n], TRUE)
      after == ApplyWriteMetadata(n, before, mode)
      request == WriteRequest(n, before, after, mode)
  IN /\ ControlDone(n, "lm_write") /\ n # Home
     /\ meta' = [meta EXCEPT ![n] = after]
     /\ outbox' = [outbox EXCEPT ![n] = request]
     /\ nextId' = [nextId EXCEPT ![n] = @ + Len(request)]
     /\ call' = [call EXCEPT ![n].step = "request"]
     /\ UNCHANGED <<files, seq, pending, inbox, opened, status, writes, errors, restarts, hist>>

\* The requests are posted; the data path follows (module WriteBatching).
FinishWrite(n) ==
  /\ InStep(n, "request") /\ outbox[n] = <<>>
  /\ Return(n, "kOk")
  /\ UNCHANGED <<files, nextId, seq, pending, meta, inbox, outbox, opened, writes, errors,
                 restarts, hist>>

\* Between its two drains lm_fence flushes the queued writes.
DrainAgain(n) ==
  /\ ControlDone(n, "lm_fence")
  /\ Drain(n, "lm_fence_end")
  /\ UNCHANGED <<nextId, seq, pending, meta, outbox, opened, status, writes, errors, restarts, hist>>

\* A flush or the transport's Fence fails: lm_fence returns before the second
\* drain.
FlushFails(n) ==
  /\ ControlDone(n, "lm_fence")
  /\ Return(n, "kOk")
  /\ UNCHANGED <<files, nextId, seq, pending, meta, inbox, outbox, opened, writes, errors,
                 restarts, hist>>

FinishFence(n) ==
  /\ ControlDone(n, "lm_fence_end")
  /\ Return(n, "kOk")
  /\ UNCHANGED <<files, nextId, seq, pending, meta, inbox, outbox, opened, writes, errors,
                 restarts, hist>>

\* A mutant: the table survives the restart.
RestartKeepingAcks(n) ==
  /\ call[n] = Idle
  /\ restarts < MaxRestarts
  /\ restarts' = restarts + 1
  /\ nextId' = [nextId EXCEPT ![n] = 1]
  /\ seq' = [seq EXCEPT ![n] = 0]
  /\ meta' = [meta EXCEPT ![n] = FreshMeta]
  /\ status' = [status EXCEPT ![n] = "kOk"]
  /\ hist' = [hist EXCEPT ![n] = FreshHist]
  /\ UNCHANGED <<files, pending, call, inbox, outbox, opened, writes, errors>>

\* lm_shutdown and the next lm_init.  The exchange directory stays as it is.
Restart(n) ==
  /\ call[n] = Idle
  /\ restarts < MaxRestarts
  /\ restarts' = restarts + 1
  /\ nextId' = [nextId EXCEPT ![n] = 1]
  /\ seq' = [seq EXCEPT ![n] = 0]
  /\ pending' = [pending EXCEPT ![n] = <<>>]
  /\ meta' = [meta EXCEPT ![n] = FreshMeta]
  /\ status' = [status EXCEPT ![n] = "kOk"]
  /\ hist' = [hist EXCEPT ![n] = FreshHist]
  /\ UNCHANGED <<files, call, inbox, outbox, opened, writes, errors>>

CallStep(n) ==
  \/ Close(n) \/ HandleAck(n) \/ HandleRequest(n) \/ TimeOut(n) \/ AdvanceTimeouts(n)
  \/ PostNext(n) \/ FinishRead(n) \/ WriteAtHome(n) \/ FinishWrite(n)
  \/ \E mode \in Modes : WriteRemote(n, mode)
  \/ DrainAgain(n) \/ FlushFails(n) \/ FinishFence(n)

Next == \E n \in Nodes : BeginCall(n) \/ CallStep(n) \/ Restart(n)

\* The threads keep running and keep calling the API: without calls nothing is
\* drained and no timeout advances.
Fairness == \A n \in Nodes : WF_vars(CallStep(n)) /\ WF_vars(BeginCall(n))

Spec == Init /\ [][Next]_vars
FairSpec == Spec /\ Fairness

-----------------------------------------------------------------------------
\* A request whose ack is no longer awaited was handled by its target: acks of
\* retries and of other requests never complete it, whatever is lost, repeated
\* or reordered (CompleteControlAck matches ids only).
AckedWasHandled ==
  \A n \in Nodes : \A i \in 1 .. (nextId[n] - 1) :
    /\ i \notin DOMAIN pending[n] /\ hist[n][i].posts > 0
    /\ ~(call[n].step = "request" /\ i = nextId[n] - 1)
    => hist[n][i].handled > 0

\* A pending request has been posted once and once per retry charged to it at
\* the most: what is left of its budget bounds the posts still to come.
PostsWithinBudget ==
  \A n \in Nodes : \A i \in DOMAIN pending[n] :
    hist[n][i].posts + pending[n][i].retries <= 1 + MaxRetries

\* A target handles a request at most as often as it was posted: a drained file
\* is gone from the directory, handled or not.
HandledAtMostPosted ==
  \A n \in Nodes : \A i \in Ids : hist[n][i].handled <= hist[n][i].posts

\* A call fails with kTimedOut only if some request was polled through every
\* timeout of its first post and of all its retries.
TimeoutNotEarly ==
  \A n \in Nodes : status[n] = "kTimedOut" =>
    \E i \in Ids : hist[n][i].polls = PollBudget

\* Every tracked request is acked in the end or the application is told that it
\* timed out: no request is forgotten.
RequestsSettle ==
  \A n \in Nodes : \A i \in Ids :
    i \in DOMAIN pending[n] ~> (i \notin DOMAIN pending[n] \/ status[n] = "kTimedOut")

\* In one owner epoch at most one node takes itself for the owner of the block.
SingleOwner ==
  \A n, k \in Nodes :
    /\ meta[n].state = "Owner" /\ meta[n].owner = n
    /\ meta[k].state = "Owner" /\ meta[k].owner = k
    /\ meta[n].epoch = meta[k].epoch
    => n = k

\* An update that reaches the home for the first time changes the version there.
VersionProgress ==
  [][\A n \in Nodes \ {Home} : \A i \in Ids :
       hist[n][i].handled = 0 /\ hist'[n][i].handled = 1 =>
         meta'[Home].version # meta[Home].version]_vars
=============================================================================
