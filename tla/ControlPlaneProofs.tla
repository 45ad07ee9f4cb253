------------------------- MODULE ControlPlaneProofs -------------------------
(***************************************************************************)
(* Proofs about requests, acks, timeouts and retries, for any number of    *)
(* nodes and writes, any limit of the drains, timeout and number of        *)
(* retries, with lost messages, file errors and restarts.                  *)
(***************************************************************************)
EXTENDS ControlPlaneLemmas

\* The arithmetic and set solver has half a minute for each leaf.
USE SMTT(30)

-----------------------------------------------------------------------------
(* What a request is charged with. *)

\* What an entry is charged with is a number.
LEMMA ChargedInt ==
  ASSUME NEW p, EntryOK(p)
  PROVE  Charged(p) \in Int
BY Constants DEF EntryOK, Charged

\* An expired entry has used all of its budget but the poll that finds it.
LEMMA ExpiredCharged ==
  ASSUME NEW p, EntryOK(p), Expired(p)
  PROVE  Charged(p) = PollBudget - 1
BY Constants DEF Expired, Charged, PollBudget

\* One visit charges an entry that has not expired with one poll.
LEMMA AdvancedCharged ==
  ASSUME NEW acks, NEW ids, NEW i \in DOMAIN acks, EntryOK(acks[i]),
         i \in ids, ~Expired(acks[i])
  PROVE  /\ EntryOK(Advanced(acks, ids)[i])
         /\ Charged(Advanced(acks, ids)[i]) = Charged(acks[i]) + 1
         /\ Charged(acks[i]) < PollBudget
<1>1. PICK p : p = acks[i]
  BY Zenon
<1>2. EntryOK(p) /\ ~Expired(p) /\ p.polls \in Nat /\ p.retries \in Nat
  BY <1>1, Constants DEF EntryOK
<1>3. CASE p.polls > 0
  <2>1. PICK q : q = [p EXCEPT !.polls = @ - 1]
    BY Zenon
  <2>2. Advanced(acks, ids)[i] = q
    BY <1>1, <1>3, <2>1, Zenon DEF Advanced
  <2>3. q.polls = p.polls - 1 /\ q.retries = p.retries /\ DOMAIN q = DOMAIN p
    BY <1>2, <2>1, Zenon DEF EntryOK
  <2>4. EntryOK(q)
    BY <1>2, <1>3, <2>3, Constants DEF EntryOK
  <2>5. Charged(q) = Charged(p) + 1 /\ Charged(p) < PollBudget
    <3>1. MaxRetries - p.retries \in Nat /\ MaxRetries - p.retries <= MaxRetries /\ TimeoutPolls + 1 \in Nat
      BY <1>2, Constants DEF EntryOK
    <3>2. (MaxRetries - p.retries) * (TimeoutPolls + 1) <= MaxRetries * (TimeoutPolls + 1)
      BY <3>1, Constants
    <3> QED BY <1>2, <2>3, <3>1, <3>2, Constants DEF Charged, PollBudget, EntryOK
  <2> QED BY <1>1, <2>2, <2>4, <2>5, Zenon
<1>4. CASE p.polls = 0
  BY <1>1, <1>4, <1>2, Constants DEF Advanced, EntryOK, Expired, Charged, PollBudget
<1> QED BY <1>2, <1>3, <1>4

-----------------------------------------------------------------------------
(* Request ids. *)

\* Every step keeps IdInv.
LEMMA IdInvKept ==
  IdInv /\ [Next]_vars => IdInv'
<1> SUFFICES ASSUME IdInv, [Next]_vars PROVE IdInv'
  BY Zenon
<1>1. /\ writes \in Nat /\ MaxWrites \in Nat /\ writes <= MaxWrites
      /\ \A n \in Nodes : nextId[n] \in Nat \ {0}
  BY Constants DEF IdInv
<1>2. CASE UNCHANGED vars
  BY <1>2, Zenon DEF vars, callVars, IdInv, BeforeRequest
<1>3. ASSUME NEW n \in Nodes, BeginCall(n) \/ CallStep(n) \/ Restart(n) PROVE IdInv'
  <2>1. CASE BeginCall(n)
    <3>1. PICK op \in {"lm_read", "lm_fence", "lm_write"} :
            /\ call' = [call EXCEPT ![n] = [op |-> op, step |-> "handle"]]
            /\ \/ op # "lm_write" /\ writes' = writes
               \/ op = "lm_write" /\ writes' = writes + 1 /\ writes < MaxWrites
      BY <2>1, Zenon DEF BeginCall, Drain
    <3> QED BY <1>1, <2>1, <3>1 DEF IdInv, BeforeRequest, Calls, Idle, BeginCall
  <2>2. ASSUME call' = [call EXCEPT ![n] = Idle], UNCHANGED <<nextId, writes>>,
               outbox' = [m \in Nodes |-> outbox'[m]], opened' = [m \in Nodes |-> opened'[m]],
               \A m \in Nodes \ {n} : outbox'[m] = outbox[m] /\ opened'[m] = opened[m]
        PROVE  IdInv'
    <3>1. call' \in [Nodes -> Calls] /\ call'[n] = Idle /\ \A m \in Nodes \ {n} : call'[m] = call[m]
      BY <2>2, Zenon DEF IdInv, Calls
    <3> QED BY <1>1, <2>2, <3>1 DEF IdInv, BeforeRequest, Idle
  <2>3. CASE Close(n)
    BY <1>1, <2>3, Zenon DEF Close, IdInv, BeforeRequest
  <2>4. CASE HandleAck(n)
    BY <2>4, Zenon DEF HandleAck, IdInv, BeforeRequest
  <2>5. CASE HandleRequest(n)
    BY <2>5, <1>1, <2>2, Zenon DEF HandleRequest, InStep, Post, IdInv, BeforeRequest, PostFails, Return
  <2>6. CASE TimeOut(n)
    BY <2>2, <2>6, Zenon DEF TimeOut, Return, IdInv
  <2>7. CASE AdvanceTimeouts(n)
    <3>1. /\ UNCHANGED <<nextId, writes, opened>> /\ call[n].step = "handle"
          /\ call' = [call EXCEPT ![n].step = "retry"]
          /\ outbox' = [m \in Nodes |-> outbox'[m]]
          /\ \A m \in Nodes \ {n} : outbox'[m] = outbox[m]
      BY <2>7, Zenon DEF AdvanceTimeouts, InStep, IdInv
    <3>2. call' \in [Nodes -> Calls]
      <4>1. call[n] \in Calls \ {Idle}
        BY <3>1 DEF IdInv, Idle
      <4> QED BY <3>1, <4>1, Zenon DEF IdInv, Calls
    <3> QED BY <1>1, <3>1, <3>2 DEF IdInv, BeforeRequest, Calls, Idle
  <2>8. CASE PostNext(n)
    <3>1. UNCHANGED <<nextId, writes>>
      BY <2>8, Zenon DEF PostNext
    <3>2. CASE PostFails(n)
      BY <2>2, <2>8, <3>1, <3>2, Zenon DEF PostNext, PostFails, Return, Post, IdInv
    <3>3. CASE Post(n, Head(outbox[n])) /\ outbox' = [outbox EXCEPT ![n] = Tail(@)]
      <4>1. UNCHANGED call /\ opened' = [opened EXCEPT ![n] = Head(outbox[n])] /\ outbox[n] # <<>>
        BY <2>8, <3>3, Zenon DEF Post, PostNext
      <4>2. call[n].step = "request" => outbox'[n] = <<>> /\ opened'[n].id \in Ids
        <5>1. SUFFICES ASSUME call[n].step = "request"
                       PROVE  outbox'[n] = <<>> /\ opened'[n].id \in Ids
          BY Zenon
        <5>2. outbox[n] = <<outbox[n][1]>> /\ outbox[n][1].id \in Ids
          BY <4>1, <5>1, Zenon DEF IdInv
        <5>3. Head(outbox[n]) = outbox[n][1] /\ Tail(outbox[n]) = <<>>
          <6>1. ASSUME NEW x PROVE Head(<<x>>) = x /\ Tail(<<x>>) = <<>>
            OBVIOUS
          <6>2. PICK x : x = outbox[n][1]
            BY Zenon
          <6> QED BY <5>2, <6>1, <6>2, Zenon
        <5> QED BY <3>3, <4>1, <5>2, <5>3, Zenon DEF IdInv
      <4> QED BY <1>1, <3>1, <3>3, <4>1, <4>2, Zenon DEF IdInv, BeforeRequest
    <3> QED BY <2>8, <3>2, <3>3, Zenon DEF PostNext
  <2>9. CASE FinishRead(n) \/ WriteAtHome(n) \/ FinishWrite(n) \/ FlushFails(n) \/ FinishFence(n)
    BY <2>2, <2>9, Zenon DEF FinishRead, WriteAtHome, FinishWrite, FlushFails, FinishFence, Return, IdInv
  <2>10. ASSUME NEW mode \in Modes, WriteRemote(n, mode) PROVE IdInv'
    <3>1. PICK before, after :
            /\ outbox' = [outbox EXCEPT ![n] = WriteRequest(n, before, after, mode)]
            /\ nextId' = [nextId EXCEPT ![n] = @ + Len(WriteRequest(n, before, after, mode))]
      BY <2>10, Zenon DEF WriteRemote
    <3>2. /\ UNCHANGED <<writes, opened>> /\ call' = [call EXCEPT ![n].step = "request"]
          /\ call[n].op = "lm_write" /\ call[n].step = "retry" /\ opened[n] = NoMessage
      BY <2>10, Zenon DEF WriteRemote, ControlDone, InStep
    <3>3. call' \in [Nodes -> Calls]
      BY <3>2 DEF IdInv, Calls, Idle
    <3>4. /\ call'[n].step = "request"
          /\ \A m \in Nodes \ {n} : call'[m] = call[m]
      BY <3>2 DEF IdInv, Calls, Idle
    <3>5. nextId[n] <= writes /\ nextId[n] \in Ids
      BY <1>1, <3>2 DEF IdInv, BeforeRequest, Ids
    <3>6. PICK request : request = WriteRequest(n, before, after, mode)
      BY Zenon
    <3>7. /\ Len(request) \in {0, 1}
          /\ \/ request = <<>>
             \/ request = <<request[1]>> /\ request[1].id \in Ids
      BY <3>5, <3>6, Zenon DEF WriteRequest, Requests, Modes
    <3>8. /\ outbox' = [outbox EXCEPT ![n] = request]
          /\ nextId' = [nextId EXCEPT ![n] = @ + Len(request)]
      BY <3>1, <3>6, Zenon
    <3>9. /\ nextId' \in [Nodes -> Nat \ {0}]
          /\ nextId'[n] - 1 <= writes
          /\ \A m \in Nodes \ {n} : nextId'[m] = nextId[m]
      <4>1. PICK v : v = nextId[n] + Len(request)
        BY Zenon
      <4>2. v \in Nat \ {0} /\ v - 1 <= writes
        <5>1. PICK k \in {0, 1} : k = Len(request)
          BY <3>7, Zenon
        <5>2. v = nextId[n] + k
          BY <4>1, <5>1, Zenon
        <5>3. PICK i \in Nat \ {0} : i = nextId[n] /\ i <= writes
          BY <1>1, <3>5, Zenon
        <5> QED BY <1>1, <5>2, <5>3
      <4> QED BY <3>8, <4>1, <4>2, Zenon DEF IdInv
    <3>10. \A m \in Nodes : nextId'[m] - 1 + (IF BeforeRequest(m)' THEN 1 ELSE 0) <= writes'
      <4>1. ASSUME NEW m \in Nodes \ {n}
            PROVE  nextId'[m] - 1 + (IF BeforeRequest(m)' THEN 1 ELSE 0) <= writes'
        BY <3>2, <3>4, <3>9, Zenon DEF BeforeRequest, IdInv
      <4> QED BY <1>1, <3>2, <3>4, <3>9, <4>1 DEF BeforeRequest
    <3>11. /\ outbox' = [m \in Nodes |-> outbox'[m]] /\ outbox'[n] = request
           /\ \A m \in Nodes \ {n} : outbox'[m] = outbox[m]
      BY <3>8, Zenon DEF IdInv
    <3> QED BY <3>2, <3>3, <3>4, <3>7, <3>9, <3>10, <3>11 DEF IdInv, Ids
  <2>11. CASE DrainAgain(n)
    BY <2>11, <1>1, Zenon DEF DrainAgain, Drain, ControlDone, Calls, IdInv, BeforeRequest
  <2>12. CASE Restart(n)
    BY <2>12, <1>1 DEF Restart, BeforeRequest, Idle, IdInv
  <2> QED BY <1>3, <2>1, <2>3, <2>4, <2>5, <2>6, <2>7, <2>8, <2>9, <2>10, <2>11, <2>12, Zenon DEF CallStep
<1> QED BY <1>2, <1>3, Zenon DEF Next

-----------------------------------------------------------------------------
(* The polls of a request. *)

\* A step that tracks, charges and reports nothing new keeps ClockInv.
LEMMA ClockInvQuiet ==
  ASSUME ClockInv, NEW n \in Nodes,
         UNCHANGED <<pending>>, hist' \in HistType,
         \A m \in Nodes : \A i \in Ids : hist'[m][i].polls = hist[m][i].polls,
         status' = [status EXCEPT ![n] = status'[n]],
         status'[n] = status[n] \/ status'[n] # "kTimedOut"
  PROVE  ClockInv'
BY DEF ClockInv, TimeoutNotEarly

\* A round of AdvanceControlAckTimeouts over the entries visited, none of which
\* has expired, with every visit counted.
LEMMA RoundCharges ==
  ASSUME ClockInv, NEW n \in Nodes, NEW visited \in SUBSET DOMAIN pending[n],
         NEW polled \in SUBSET Ids, visited \subseteq polled,
         \A i \in visited : ~Expired(pending[n][i]),
         pending' = [pending EXCEPT ![n] = Advanced(@, visited)],
         hist' = CountPolls(n, polled)
  PROVE  /\ pending' = [m \in Nodes |-> pending'[m]] /\ hist' \in HistType
         /\ \A m \in Nodes : DOMAIN pending'[m] \subseteq Ids
         /\ \A m \in Nodes : \A i \in DOMAIN pending'[m] :
              EntryOK(pending'[m][i]) /\ hist'[m][i].polls >= Charged(pending'[m][i])
         /\ \A m \in Nodes : \A i \in Ids : hist[m][i].polls = PollBudget => hist'[m][i].polls = PollBudget
<1>1. hist \in HistType /\ DOMAIN pending[n] \subseteq Ids /\ PollBudget \in Nat
  BY Constants, Zenon DEF ClockInv
<1>2. /\ hist' \in HistType
      /\ \A m \in Nodes \ {n} : hist'[m] = hist[m]
      /\ \A i \in Ids : /\ hist'[n][i].polls >= hist[n][i].polls
                        /\ i \in polled /\ hist[n][i].polls < PollBudget =>
                             hist'[n][i].polls = hist[n][i].polls + 1
                        /\ i \in polled /\ hist[n][i].polls = PollBudget =>
                             hist'[n][i].polls = PollBudget
  BY <1>1, CountPollsCounts, Zenon
<1>3. \A m \in Nodes : \A i \in Ids : hist[m][i].polls \in 0 .. PollBudget /\ hist'[m][i].polls \in 0 .. PollBudget
  BY <1>1, <1>2, Zenon DEF HistType
<1>4. /\ pending' = [m \in Nodes |-> pending'[m]] /\ pending'[n] = Advanced(pending[n], visited)
      /\ \A m \in Nodes \ {n} : pending'[m] = pending[m]
  BY Zenon DEF ClockInv
<1>5. DOMAIN pending'[n] = DOMAIN pending[n]
  BY <1>4, Zenon DEF Advanced
<1>6. ASSUME NEW i \in DOMAIN pending[n]
      PROVE  EntryOK(pending'[n][i]) /\ hist'[n][i].polls >= Charged(pending'[n][i])
  <2>1. /\ EntryOK(pending[n][i]) /\ hist[n][i].polls >= Charged(pending[n][i])
        /\ Charged(pending[n][i]) \in Int /\ i \in Ids
    BY <1>1, ChargedInt, Zenon DEF ClockInv
  <2>2. CASE i \in visited
    BY <1>1, <1>2, <1>3, <1>4, <2>1, <2>2, AdvancedCharged
  <2>3. CASE i \notin visited
    <3>1. pending'[n][i] = pending[n][i]
      BY <1>4, <2>3, Zenon DEF Advanced
    <3> QED BY <1>2, <1>3, <2>1, <3>1
  <2> QED BY <2>2, <2>3, Zenon
<1>7. ASSUME NEW i \in Ids, hist[n][i].polls = PollBudget PROVE hist'[n][i].polls = PollBudget
  BY <1>1, <1>2, <1>3, <1>7
<1>8. \A m \in Nodes \ {n} : \A i \in DOMAIN pending'[m] :
        EntryOK(pending'[m][i]) /\ hist'[m][i].polls >= Charged(pending'[m][i])
  BY <1>2, <1>4, Zenon DEF ClockInv
<1> QED BY <1>1, <1>2, <1>4, <1>5, <1>6, <1>7, <1>8, Zenon DEF ClockInv

\* Every step keeps ClockInv.
LEMMA ClockInvKept ==
  IdInv /\ ClockInv /\ [Next]_vars => ClockInv'
<1> SUFFICES ASSUME IdInv, ClockInv, [Next]_vars PROVE ClockInv'
  BY Zenon
<1>1. CASE UNCHANGED vars
  BY <1>1, Zenon DEF vars, callVars, ClockInv, TimeoutNotEarly
<1>2. ASSUME NEW n \in Nodes, BeginCall(n) \/ CallStep(n) \/ Restart(n) PROVE ClockInv'
  <2>1. ASSUME UNCHANGED <<pending, hist>>,
               status' = status \/ status' = [status EXCEPT ![n] = "kOk"]
                 \/ status' = [status EXCEPT ![n] = "kInternalError"]
        PROVE  ClockInv'
    BY <2>1, ClockInvQuiet, Zenon DEF ClockInv
  <2>2. CASE \/ BeginCall(n) \/ FinishRead(n) \/ WriteAtHome(n) \/ FinishWrite(n)
             \/ DrainAgain(n) \/ FlushFails(n) \/ FinishFence(n)
    BY <2>1, <2>2, Zenon DEF BeginCall, FinishRead, WriteAtHome, FinishWrite, DrainAgain, FlushFails,
                      FinishFence, Return
  <2>3. ASSUME NEW mode \in Modes, WriteRemote(n, mode) PROVE ClockInv'
    BY <2>1, <2>3, Zenon DEF WriteRemote
  <2>4. CASE Close(n)
    <3>1. UNCHANGED <<status, hist>>
      BY <2>4, Zenon DEF Close
    <3>2. CASE call[n].step # "request"
      BY <2>1, <2>4, <3>1, <3>2, Zenon DEF Close
    <3>3. CASE call[n].step = "request"
      <4>1. PICK p : p = [message |-> opened[n], polls |-> TimeoutPolls, retries |-> MaxRetries]
        BY Zenon
      <4>2. PICK k : k = opened[n].id
        BY Zenon
      <4>3. k \in Ids
        BY <2>4, <3>3, <4>2, Zenon DEF Close, IdInv
      <4>4. pending' = [pending EXCEPT ![n] = Tracked(@, opened[n])]
        BY <2>4, <3>3, <4>1, <4>2, Zenon DEF Close
      <4>5. EntryOK(p) /\ Charged(p) = 0
        BY <4>1, Constants DEF Charged, EntryOK
      <4>6. /\ pending' = [m \in Nodes |-> pending'[m]] /\ pending'[n] = Tracked(pending[n], opened[n])
            /\ \A m \in Nodes \ {n} : pending'[m] = pending[m]
        BY <4>4, Zenon DEF ClockInv
      <4>7. /\ DOMAIN pending'[n] = {k} \cup DOMAIN pending[n]
            /\ pending'[n][k] = p
            /\ \A i \in DOMAIN pending[n] \ {k} : pending'[n][i] = pending[n][i]
        BY <4>1, <4>2, <4>6, Zenon DEF Tracked
      <4>8. hist[n][k].polls >= 0
        BY <4>3, Constants DEF ClockInv, HistType
      <4>9. \A i \in DOMAIN pending'[n] : EntryOK(pending'[n][i]) /\ hist'[n][i].polls >= Charged(pending'[n][i])
        BY <3>1, <4>5, <4>7, <4>8, Zenon DEF ClockInv
      <4>10. TimeoutNotEarly'
        BY <3>1, Zenon DEF ClockInv, TimeoutNotEarly
      <4> QED BY <3>1, <4>3, <4>6, <4>7, <4>9, <4>10, Zenon DEF ClockInv
    <3> QED BY <3>2, <3>3, Zenon
  <2>5. CASE HandleAck(n)
    BY <2>5, Zenon DEF HandleAck, ClockInv, Completed, TimeoutNotEarly
  <2>6. CASE HandleRequest(n)
    <3>1. PICK a, b : hist' = [hist EXCEPT ![a][b].handled = @ + 1]
      BY <2>6, Zenon DEF HandleRequest
    <3>2. hist' \in HistType /\ \A m \in Nodes : \A i \in Ids : hist'[m][i].polls = hist[m][i].polls
      <4>1. hist \in HistType
        BY Zenon DEF ClockInv
      <4>2. hist' \in HistType /\ HandledOnce(hist, hist', a, b)
        BY ONLY <3>1, <4>1, HandledCounts, Zenon
      <4> QED BY <4>2, Zenon DEF HandledOnce
    <3>3. UNCHANGED pending
      BY <2>6, Zenon DEF HandleRequest
    <3>4. status' = [status EXCEPT ![n] = status'[n]] /\ (status'[n] = status[n] \/ status'[n] # "kTimedOut")
      BY <2>6, Zenon DEF ClockInv, HandleRequest, Post, PostFails, Return
    <3> QED BY <3>2, <3>3, <3>4, ClockInvQuiet, Zenon
  <2>7. CASE TimeOut(n)
    <3>1. PICK expired \in DOMAIN pending[n], visited \in SUBSET DOMAIN pending[n] :
            /\ Expired(pending[n][expired])
            /\ \A i \in visited : ~Expired(pending[n][i])
            /\ pending' = [pending EXCEPT ![n] = Advanced(@, visited)]
            /\ hist' = CountPolls(n, visited \cup {expired})
      BY <2>7, Zenon DEF TimeOut
    <3>2. visited \cup {expired} \in SUBSET Ids /\ visited \subseteq visited \cup {expired} /\ expired \in Ids
      BY Zenon DEF ClockInv
    <3>3. /\ pending' = [m \in Nodes |-> pending'[m]] /\ hist' \in HistType
          /\ \A m \in Nodes : DOMAIN pending'[m] \subseteq Ids
          /\ \A m \in Nodes : \A i \in DOMAIN pending'[m] :
               EntryOK(pending'[m][i]) /\ hist'[m][i].polls >= Charged(pending'[m][i])
          /\ \A m \in Nodes : \A i \in Ids : hist[m][i].polls = PollBudget => hist'[m][i].polls = PollBudget
      BY <3>1, <3>2, RoundCharges, Zenon
    <3>4. hist'[n][expired].polls = PollBudget
      <4>1. hist \in HistType /\ hist[n][expired].polls \in 0 .. PollBudget /\ PollBudget \in Nat
        BY <3>2, Constants, Zenon DEF ClockInv, HistType
      <4>2. hist[n][expired].polls >= PollBudget - 1
        BY <3>1, ExpiredCharged, Zenon DEF ClockInv
      <4>3. hist[n][expired].polls < PollBudget => hist'[n][expired].polls = hist[n][expired].polls + 1
        BY <3>1, <3>2, <4>1, CountPollsCounts, Zenon
      <4>4. hist[n][expired].polls = PollBudget => hist'[n][expired].polls = PollBudget
        BY <3>2, <3>3, Zenon
      <4> QED BY <4>1, <4>2, <4>3, <4>4
    <3>5. status' = [m \in Nodes |-> status'[m]] /\ \A m \in Nodes \ {n} : status'[m] = status[m]
      BY <2>7, Zenon DEF TimeOut, Return, ClockInv
    <3>6. TimeoutNotEarly'
      BY <3>2, <3>3, <3>4, <3>5, Zenon DEF ClockInv, TimeoutNotEarly, PollBudget
    <3> QED BY <3>3, <3>5, <3>6, Zenon DEF ClockInv
  <2>8. CASE AdvanceTimeouts(n)
    <3>1. /\ pending' = [pending EXCEPT ![n] = Advanced(@, DOMAIN @)]
          /\ hist' = CountPolls(n, DOMAIN pending[n]) /\ UNCHANGED status
          /\ \A i \in DOMAIN pending[n] : ~Expired(pending[n][i])
      BY <2>8, Zenon DEF AdvanceTimeouts
    <3>2. /\ pending' = [m \in Nodes |-> pending'[m]] /\ hist' \in HistType
          /\ \A m \in Nodes : DOMAIN pending'[m] \subseteq Ids
          /\ \A m \in Nodes : \A i \in DOMAIN pending'[m] :
               EntryOK(pending'[m][i]) /\ hist'[m][i].polls >= Charged(pending'[m][i])
          /\ \A m \in Nodes : \A i \in Ids : hist[m][i].polls = PollBudget => hist'[m][i].polls = PollBudget
      BY <3>1, RoundCharges, Zenon DEF ClockInv
    <3>3. TimeoutNotEarly'
      BY <3>1, <3>2, Zenon DEF ClockInv, TimeoutNotEarly, PollBudget
    <3> QED BY <3>1, <3>2, <3>3, Zenon DEF ClockInv
  <2>9. CASE PostNext(n)
    <3>1. hist' \in HistType /\ \A m \in Nodes : \A i \in Ids : hist'[m][i].polls = hist[m][i].polls
      <4>1. CASE hist' = hist
        BY <4>1, Zenon DEF ClockInv
      <4>2. ASSUME NEW b, hist' = [hist EXCEPT ![n][b].posts = @ + 1]
            PROVE  hist' \in HistType /\ \A m \in Nodes : \A i \in Ids : hist'[m][i].polls = hist[m][i].polls
        <5>1. hist \in HistType
          BY Zenon DEF ClockInv
        <5>2. hist' \in HistType /\ PostedOnce(hist, hist', n, b)
          BY ONLY <4>2, <5>1, PostsCounts, Zenon
        <5> QED BY <5>2, Zenon DEF PostedOnce
      <4> QED BY <2>9, <4>1, <4>2, Zenon DEF PostNext, CountPost
    <3> QED BY <2>9, <3>1, ClockInvQuiet, Zenon DEF PostNext, ClockInv, Post, PostFails, Return
  <2>10. CASE Restart(n)
    <3>1. /\ pending' = [pending EXCEPT ![n] = <<>>] /\ status' = [status EXCEPT ![n] = "kOk"]
          /\ hist' = [hist EXCEPT ![n] = FreshHist]
      BY <2>10, Zenon DEF Restart
    <3>2. hist' \in HistType /\ \A m \in Nodes \ {n} : hist'[m] = hist[m]
      BY <3>1, Constants DEF ClockInv, HistType, FreshHist
    <3>3. /\ pending' = [m \in Nodes |-> pending'[m]] /\ pending'[n] = <<>>
          /\ status' = [m \in Nodes |-> status'[m]] /\ status'[n] = "kOk"
          /\ \A m \in Nodes \ {n} : pending'[m] = pending[m] /\ status'[m] = status[m]
      BY <3>1, Zenon DEF ClockInv
    <3> QED BY <3>2, <3>3 DEF ClockInv, TimeoutNotEarly, PollBudget
  <2> QED BY <1>2, <2>2, <2>3, <2>4, <2>5, <2>6, <2>7, <2>8, <2>9, <2>10, Zenon DEF CallStep
<1> QED BY <1>1, <1>2, Zenon DEF Next

\* At the start no id has been drawn and no clock runs.
LEMMA ClocksInit == Init => IdInv /\ ClockInv
BY Constants DEF Init, IdInv, BeforeRequest, Calls, Idle, FreshHist, HistType, ClockInv, TimeoutNotEarly

\* A call reports kTimedOut only if some request was polled through the timeouts
\* of its first post and of all its retries, for any number of nodes, writes,
\* retries and restarts and whatever becomes of the messages.
THEOREM TimeoutsNotEarly ==
  Spec => []TimeoutNotEarly
<1>1. Init => IdInv /\ ClockInv
  BY ClocksInit, Zenon
<1>2. IdInv /\ ClockInv /\ [Next]_vars => (IdInv /\ ClockInv)'
  BY IdInvKept, ClockInvKept, Zenon
<1>3. ClockInv => TimeoutNotEarly
  BY Zenon DEF ClockInv
<1> QED BY <1>1, <1>2, <1>3, PTL DEF Spec

-----------------------------------------------------------------------------
(* The phases of a call. *)

\* Every step keeps to the phases.
LEMMA PhaseKept ==
  ASSUME NEW K, Carried(K), \A m \in K : "op" \in DOMAIN m, IdInv, PhaseInv, NEW n \in Nodes, Step(n)
  PROVE  PhaseInv'
<1>1. /\ call = [m \in Nodes |-> call[m]] /\ inbox = [m \in Nodes |-> inbox[m]]
      /\ outbox = [m \in Nodes |-> outbox[m]] /\ opened = [m \in Nodes |-> opened[m]]
      /\ nextId = [m \in Nodes |-> nextId[m]]
      /\ call[n] \in Calls
      /\ inbox[n] \in Seq(SentTo(K, n)) /\ outbox[n] \in Seq(RequestsBy(K, n))
      /\ Phase(call[n], inbox[n], outbox[n], opened[n], nextId[n])
  BY Zenon DEF Carried, IdInv, PhaseInv
<1>2. ASSUME NEW c, NEW box, NEW out, NEW open, NEW id, Phase(c, box, out, open, id),
             call' = [call EXCEPT ![n] = c], inbox' = [inbox EXCEPT ![n] = box],
             outbox' = [outbox EXCEPT ![n] = out], opened' = [opened EXCEPT ![n] = open],
             nextId' = [nextId EXCEPT ![n] = id]
      PROVE  PhaseInv'
  BY <1>1, <1>2, Zenon DEF PhaseInv
<1>3. /\ call = [call EXCEPT ![n] = call[n]] /\ inbox = [inbox EXCEPT ![n] = inbox[n]]
      /\ outbox = [outbox EXCEPT ![n] = outbox[n]] /\ opened = [opened EXCEPT ![n] = opened[n]]
      /\ nextId = [nextId EXCEPT ![n] = nextId[n]]
  BY <1>1, Zenon
<1>4. ASSUME NEW op, Drain(n, op), UNCHANGED <<nextId, outbox, opened>>,
             opened[n] = NoMessage, outbox[n] = <<>>
      PROVE  PhaseInv'
  <2>1. PICK c : c = [op |-> op, step |-> "handle"]
    BY Zenon
  <2>2. PICK box : box = Parsed(Scanned({f \in files : f.to = n}))
    BY Zenon
  <2>3. call' = [call EXCEPT ![n] = c] /\ inbox' = [inbox EXCEPT ![n] = box]
    BY <1>4, <2>1, <2>2, Zenon DEF Drain
  <2>4. Phase(c, box, outbox[n], opened[n], nextId[n])
    BY <1>4, <2>1, Zenon DEF Phase
  <2>5. /\ outbox' = [outbox EXCEPT ![n] = outbox[n]] /\ opened' = [opened EXCEPT ![n] = opened[n]]
        /\ nextId' = [nextId EXCEPT ![n] = nextId[n]]
    BY <1>3, <1>4, Zenon
  <2> QED BY <1>2, <2>3, <2>4, <2>5, Zenon
<1>5. CASE BeginCall(n)
  BY <1>1, <1>5, <1>4 DEF BeginCall, Idle, Phase
<1>6. CASE DrainAgain(n)
  BY <1>4, <1>6, Zenon DEF DrainAgain, ControlDone, InStep
<1>7. ASSUME NEW box, NEW out, call' = [call EXCEPT ![n] = Idle], UNCHANGED <<nextId, opened>>,
             opened[n] = NoMessage, box = <<>>, out = <<>>,
             inbox' = [inbox EXCEPT ![n] = box], outbox' = [outbox EXCEPT ![n] = out]
      PROVE  PhaseInv'
  <2>1. Phase(Idle, box, out, opened[n], nextId[n])
    BY <1>7, Zenon DEF Phase, Idle
  <2> QED BY <1>2, <1>3, <1>7, <2>1, Zenon
<1>8. CASE TimeOut(n)
  BY <1>1, <1>8, <1>3, <1>7, Zenon DEF TimeOut, InStep, Return, Phase
<1>9. CASE FinishRead(n) \/ WriteAtHome(n) \/ FinishWrite(n) \/ FlushFails(n) \/ FinishFence(n)
  <2>1. /\ opened[n] = NoMessage /\ outbox[n] = <<>> /\ call[n].step # "handle"
        /\ call' = [call EXCEPT ![n] = Idle] /\ UNCHANGED <<nextId, opened, inbox, outbox>>
    BY <1>9, Zenon DEF FinishRead, WriteAtHome, FinishWrite, FlushFails, FinishFence, ControlDone, InStep, Return
  <2> QED BY <1>1, <1>3, <1>7, <2>1, Zenon DEF Phase
<1>10. CASE Close(n)
  <2>1. opened' = [opened EXCEPT ![n] = NoMessage] /\ UNCHANGED <<nextId, call, inbox, outbox>>
    BY <1>10, Zenon DEF Close
  <2>2. Phase(call[n], inbox[n], outbox[n], NoMessage, nextId[n])
    BY <1>1, Zenon DEF Phase
  <2> QED BY <1>2, <1>3, <2>1, <2>2, Zenon
<1>11. CASE HandleAck(n)
  <2>1. /\ inbox' = [inbox EXCEPT ![n] = Tail(inbox[n])] /\ UNCHANGED <<nextId, call, outbox, opened>>
        /\ call[n].step = "handle"
    BY <1>11, Zenon DEF HandleAck, InStep
  <2>2. PICK box : box = Tail(inbox[n])
    BY Zenon
  <2>3. Phase(call[n], box, outbox[n], opened[n], nextId[n])
    BY <1>1, <2>1, Zenon DEF Phase
  <2>4. /\ call' = [call EXCEPT ![n] = call[n]] /\ inbox' = [inbox EXCEPT ![n] = box]
        /\ outbox' = [outbox EXCEPT ![n] = outbox[n]] /\ opened' = [opened EXCEPT ![n] = opened[n]]
        /\ nextId' = [nextId EXCEPT ![n] = nextId[n]]
    BY <1>3, <2>1, <2>2, Zenon
  <2> QED BY ONLY <1>2, <2>3, <2>4, Zenon
<1>12. CASE HandleRequest(n)
  <2>1. call[n].step = "handle" /\ opened[n] = NoMessage /\ outbox[n] = <<>> /\ UNCHANGED <<nextId, outbox>>
    BY <1>1, <1>12, Zenon DEF HandleRequest, InStep, Phase
  <2>2. CASE Post(n, AckFor(n, Head(inbox[n]))) /\ inbox' = [inbox EXCEPT ![n] = Tail(inbox[n])]
    <3>1. PICK ack : ack = AckFor(n, Head(inbox[n]))
      BY Zenon
    <3>2. PICK box : box = Tail(inbox[n])
      BY Zenon
    <3>3. opened' = [opened EXCEPT ![n] = ack] /\ UNCHANGED call
      BY <2>2, <3>1, Zenon DEF Post
    <3>4. ack.op \in Acks
      BY <1>1, <1>12, HeadTail, <3>1 DEF HandleRequest, SentTo, AckFor, Acks
    <3> QED BY <1>2, <1>3, <2>1, <2>2, <3>2, <3>3, <3>4, Zenon DEF Phase
  <2>3. CASE PostFails(n) /\ inbox' = [inbox EXCEPT ![n] = <<>>]
    BY <2>3, <1>3, <1>7, <2>1, Zenon DEF PostFails, Return
  <2> QED BY <1>12, <2>2, <2>3, Zenon DEF HandleRequest
<1>13. CASE AdvanceTimeouts(n)
  <2>1. /\ call[n].step = "handle" /\ opened[n] = NoMessage /\ inbox[n] = <<>>
        /\ call' = [call EXCEPT ![n].step = "retry"] /\ UNCHANGED <<nextId, inbox, opened>>
    BY <1>13, Zenon DEF AdvanceTimeouts, InStep
  <2>2. PICK out : outbox' = [outbox EXCEPT ![n] = out]
    BY <1>13, Zenon DEF AdvanceTimeouts
  <2>3. PICK c : c = [call[n] EXCEPT !.step = "retry"]
    BY Zenon
  <2>4. c.step = "retry"
    BY <1>1, <2>3, Zenon DEF Calls, Idle
  <2>5. call' = [call EXCEPT ![n] = c]
    BY <2>1, <2>3, Zenon
  <2>6. Phase(c, inbox[n], out, opened[n], nextId[n])
    BY <2>1, <2>4, Zenon DEF Phase
  <2>7. /\ inbox' = [inbox EXCEPT ![n] = inbox[n]] /\ opened' = [opened EXCEPT ![n] = opened[n]]
        /\ nextId' = [nextId EXCEPT ![n] = nextId[n]]
    BY <1>3, <2>1, Zenon
  <2> QED BY ONLY <1>2, <2>2, <2>5, <2>6, <2>7, Zenon
<1>14. CASE PostNext(n)
  <2>1. /\ call[n].step \in {"retry", "request"} /\ opened[n] = NoMessage /\ outbox[n] # <<>>
        /\ UNCHANGED <<nextId, inbox>>
    BY <1>14, Zenon DEF PostNext, InStep
  <2>2. inbox[n] = <<>>
    BY <1>1, <2>1, Zenon DEF Phase
  <2>3. CASE Post(n, Head(outbox[n])) /\ outbox' = [outbox EXCEPT ![n] = Tail(outbox[n])]
    <3>1. PICK m : m = Head(outbox[n])
      BY Zenon
    <3>2. PICK out : out = Tail(outbox[n])
      BY Zenon
    <3>3. m.op \in Requests /\ m = outbox[n][1]
      BY <1>1, <2>1, <3>1, HeadTail DEF RequestsBy
    <3>4. Phase(call[n], inbox[n], out, m, nextId[n])
      BY <1>1, <2>1, <2>2, <3>2, <3>3 DEF Phase
    <3> QED BY <1>2, <1>3, <2>1, <2>3, <3>1, <3>2, <3>4, Zenon DEF Post
  <2>4. CASE PostFails(n) /\ outbox' = [outbox EXCEPT ![n] = <<>>]
    <3>1. call' = [call EXCEPT ![n] = Idle] /\ UNCHANGED opened
      BY <2>4, Zenon DEF PostFails, Return
    <3> QED BY <1>3, <1>7, <2>1, <2>2, <2>4, <3>1, Zenon
  <2> QED BY <1>14, <2>3, <2>4, Zenon DEF PostNext
<1>15. ASSUME NEW mode \in Modes, WriteRemote(n, mode) PROVE PhaseInv'
  <2>1. PICK before, after :
          /\ outbox' = [outbox EXCEPT ![n] = WriteRequest(n, before, after, mode)]
          /\ nextId' = [nextId EXCEPT ![n] = nextId[n] + Len(WriteRequest(n, before, after, mode))]
    BY <1>15, Zenon DEF WriteRemote
  <2>2. /\ call[n].step = "retry" /\ opened[n] = NoMessage
        /\ call' = [call EXCEPT ![n].step = "request"] /\ UNCHANGED <<inbox, opened>>
    BY <1>15, Zenon DEF WriteRemote, ControlDone, InStep
  <2>3. PICK c : c = [call[n] EXCEPT !.step = "request"]
    BY Zenon
  <2>4. call' = [call EXCEPT ![n] = c]
    BY <2>2, <2>3, Zenon
  <2>5. PICK out : out = WriteRequest(n, before, after, mode)
    BY Zenon
  <2>6. PICK id : id = nextId[n] + Len(out)
    BY Zenon
  <2>7. out # <<>> => out = <<out[1]>> /\ out[1].id = id - 1
    <3>1. SUFFICES ASSUME NEW m, out = <<m>>, m.id = nextId[n] PROVE out = <<out[1]>> /\ out[1].id = id - 1
      BY <2>5, Zenon DEF WriteRequest, Requests, Modes
    <3> QED BY <2>6, <3>1 DEF IdInv
  <2>8. Phase(c, inbox[n], out, opened[n], id)
    BY <1>1, <2>2, <2>3, <2>7, Zenon DEF Phase, Calls, Idle
  <2>9. /\ inbox' = [inbox EXCEPT ![n] = inbox[n]] /\ opened' = [opened EXCEPT ![n] = opened[n]]
    BY <1>3, <2>2, Zenon
  <2>10. outbox' = [outbox EXCEPT ![n] = out] /\ nextId' = [nextId EXCEPT ![n] = id]
    BY <2>1, <2>5, <2>6, Zenon
  <2> QED BY ONLY <1>2, <2>4, <2>8, <2>9, <2>10, Zenon
<1>16. CASE Restart(n)
  <2>1. nextId' = [nextId EXCEPT ![n] = 1] /\ UNCHANGED <<call, inbox, outbox, opened>> /\ call[n] = Idle
    BY <1>16, Zenon DEF Restart
  <2>2. Phase(call[n], inbox[n], outbox[n], opened[n], 1)
    BY <1>1, <2>1 DEF Phase, Idle
  <2> QED BY <1>2, <1>3, <2>1, <2>2, Zenon
<1> QED BY <1>5, <1>6, <1>8, <1>9, <1>10, <1>11, <1>12, <1>13, <1>14, <1>15, <1>16, Zenon DEF Step, CallStep

-----------------------------------------------------------------------------
(* Versions. *)

\* A read validates versions there are.
LEMMA ReadMeta ==
  ASSUME NEW v \in Nat, NEW m \in MetaUpTo(v), NEW n \in Nodes, NEW r \in ReadMetadata(n, m)
  PROVE  r \in MetaUpTo(v)
<1>1. PICK p : p = Prepared(n, m, FALSE)
  BY Zenon
<1>2. p \in MetaUpTo(v)
  BY <1>1, PreparedMeta, Zenon
<1>3. /\ p.version \in 0 .. v /\ p.validated \in 0 .. v /\ p.epoch \in 0 .. v
      /\ p.owner \in Nodes \cup {NoNode} /\ p.state \in {"Home", "Shared", "Owner", "Invalid"}
      /\ p = [version |-> p.version, validated |-> p.validated, epoch |-> p.epoch,
              owner |-> p.owner, state |-> p.state]
  BY <1>2, Zenon DEF MetaUpTo
<1>4. PICK s \in {"Home", "Shared", "Owner", "Invalid"} : s = IF p.state = "Invalid" THEN "Shared" ELSE p.state
  BY <1>3, Zenon
<1>5. PICK o \in Nodes \cup {NoNode} : o = IF p.state = "Invalid" THEN Home ELSE p.owner
  BY <1>3, ControlAssumption, Zenon
<1>6. \/ r = p
      \/ r = [p EXCEPT !.validated = p.version]
      \/ r = [p EXCEPT !.validated = p.version, !.state = s, !.owner = o]
      \/ r = [p EXCEPT !.validated = p.version, !.state = "Owner"]
  BY <1>1, <1>4, <1>5, Zenon DEF ReadMetadata
<1>7. r = p \/ \E s2 \in {"Home", "Shared", "Owner", "Invalid"}, o2 \in Nodes \cup {NoNode} :
                 r = [version |-> p.version, validated |-> p.version, epoch |-> p.epoch,
                      owner |-> o2, state |-> s2]
  BY <1>3, <1>6, Zenon
<1> QED BY <1>2, <1>3, <1>7 DEF MetaUpTo

\* A handled request brings a version there is.
LEMMA HandledMeta ==
  ASSUME NEW v \in Nat, NEW m \in MetaUpTo(v), NEW msg \in Sendable(v), msg.op \in Requests, NEW op
  PROVE  HandledMetadata(m, msg, op) \in MetaUpTo(v)
BY SendableFields, Zenon DEF MetaUpTo, HandledMetadata, Requests

\* Every step keeps MetaInv.
LEMMA MetaKept ==
  ASSUME IdInv, IdInv', MailInv, MetaInv, NEW n \in Nodes, Step(n)
  PROVE  MetaInv'
<1>1. PICK v \in Nat : v = Made
  BY Zenon DEF MailInv
<1>2. PICK w \in Nat : w = Made' /\ v <= w
  BY <1>1, MadeGrows, Zenon DEF MailInv
<1>3. meta \in [Nodes -> MetaUpTo(v)] /\ MetaUpTo(v) \subseteq MetaUpTo(w)
  BY <1>1, <1>2, UpTo, Zenon DEF MetaInv
<1>4. SUFFICES meta' \in [Nodes -> MetaUpTo(w)]
  BY <1>2, Zenon DEF MetaInv
<1>5. ASSUME NEW r \in MetaUpTo(w), meta' = [meta EXCEPT ![n] = r]
      PROVE  meta' \in [Nodes -> MetaUpTo(w)]
  BY <1>3, <1>5, Zenon
<1>6. meta[n] \in MetaUpTo(v)
  BY <1>3, Zenon
<1>7. CASE UNCHANGED meta
  BY <1>3, <1>7, Zenon
<1>8. CASE HandleRequest(n)
  <2>1. PICK msg : msg = Head(inbox[n])
    BY Zenon
  <2>2. msg.op \in Requests /\ meta' = [meta EXCEPT ![n] = HandledMetadata(meta[n], msg, call[n].op)] /\ inbox[n] # <<>>
    BY <1>8, <2>1, Zenon DEF HandleRequest
  <2>3. inbox[n] \in Seq(SentTo(Sendable(v), n))
    BY <1>1, Zenon DEF MailInv, Carried
  <2>4. HandledMetadata(meta[n], msg, call[n].op) \in MetaUpTo(v)
    BY <1>6, <2>1, <2>2, <2>3, HandledMeta, HeadTail DEF SentTo
  <2> QED BY <1>3, <1>5, <2>2, <2>4, Zenon
<1>9. CASE FinishRead(n)
  BY <1>9, <1>6, ReadMeta, <1>3, <1>5, Zenon DEF FinishRead
<1>10. CASE WriteAtHome(n)
  BY <1>10, <1>1, <1>2, WriteMakes, <1>6, PreparedMeta, <1>5, Zenon DEF WriteAtHome
<1>11. ASSUME NEW mode \in Modes, WriteRemote(n, mode) PROVE meta' \in [Nodes -> MetaUpTo(w)]
  BY <1>11, <1>1, <1>2, WriteMakes, <1>6, PreparedMeta, AppliedMeta, <1>5, Zenon DEF WriteRemote
<1>12. CASE Restart(n)
  <2>1. FreshMeta \in MetaUpTo(w)
    BY DEF FreshMeta, MetaUpTo
  <2> QED BY <1>5, <1>12, <2>1, Zenon DEF Restart
<1>13. CASE \/ BeginCall(n) \/ Close(n) \/ HandleAck(n) \/ TimeOut(n) \/ AdvanceTimeouts(n) \/ PostNext(n)
            \/ FinishWrite(n) \/ DrainAgain(n) \/ FlushFails(n) \/ FinishFence(n)
  BY <1>13, <1>7, Zenon DEF BeginCall, Close, HandleAck, TimeOut, AdvanceTimeouts, PostNext, FinishWrite,
     DrainAgain, FlushFails, FinishFence
<1> QED BY <1>8, <1>9, <1>10, <1>11, <1>12, <1>13, Zenon DEF Step, CallStep

\* Every step keeps MailInv.
LEMMA MailKept ==
  ASSUME IdInv, IdInv', ClockInv, PhaseInv, MailInv, MetaInv, NEW n \in Nodes, Step(n)
  PROVE  MailInv'
<1>1. PICK v \in Nat : v = Made
  BY Zenon DEF MailInv
<1>2. PICK w \in Nat : w = Made' /\ v <= w
  BY <1>1, MadeGrows, Zenon DEF MailInv
<1>3. PICK K : K = Sendable(v)
  BY Zenon
<1>4. PICK L : L = Sendable(w)
  BY Zenon
<1>5. Carried(K)
  BY <1>1, <1>3, Zenon DEF MailInv
<1>6. Carried(L)
  BY <1>2, <1>3, <1>4, <1>5, CarriedMono, UpTo, Zenon
<1>7. \A m \in L : m # NoMessage /\ m.source \in Nodes /\ m.target \in Nodes
  BY <1>4, SendableFields, Zenon
<1>8. HandleRequest(n) => AckFor(n, Head(inbox[n])) \in SentBy(L, n)
  <2>1. SUFFICES ASSUME HandleRequest(n) PROVE AckFor(n, Head(inbox[n])) \in SentBy(L, n)
    BY Zenon
  <2>2. PICK m : m = Head(inbox[n])
    BY Zenon
  <2>3. inbox[n] \in Seq(SentTo(L, n)) /\ inbox[n] # <<>> /\ m.op \in Requests
    BY <1>6, <2>1, <2>2, Zenon DEF Carried, HandleRequest
  <2> QED BY <1>4, <2>2, <2>3, AckSendable, HeadTail DEF SentBy, SentTo
<1>9. ASSUME NEW mode \in Modes, WriteRemote(n, mode) PROVE outbox'[n] \in Seq(RequestsBy(L, n))
  <2>1. n \in DOMAIN outbox
    BY <1>5, Zenon DEF Carried
  <2> QED BY <1>1, <1>2, <1>4, <1>9, <2>1, WriteMakes, WriteRequestSent, Zenon DEF MetaInv
<1>10. L = Sendable(Made')
  BY <1>2, <1>4, Zenon
<1>11. Carried(Sendable(Made))'
  BY <1>6, <1>7, <1>8, <1>9, <1>10, CarriedKept, Zenon DEF Carried
<1> QED BY <1>2, <1>11, Zenon DEF MailInv

\* Every step keeps BoundInv.
LEMMA BoundKept ==
  ASSUME BoundInv, NEW n \in Nodes, Step(n)
  PROVE  BoundInv'
<1>1. UNCHANGED errors \/ (errors < MaxErrors /\ errors' = errors + 1)
  BY Zenon DEF Step, CallStep, BeginCall, Close, HandleAck, HandleRequest, TimeOut, AdvanceTimeouts, PostNext,
         FinishRead, WriteAtHome, FinishWrite, WriteRemote, DrainAgain, FlushFails, FinishFence, Restart,
         Post, PostFails
<1>2. UNCHANGED restarts \/ (restarts < MaxRestarts /\ restarts' = restarts + 1)
  BY Zenon DEF Step, CallStep, BeginCall, Close, HandleAck, HandleRequest, TimeOut, AdvanceTimeouts, PostNext,
         FinishRead, WriteAtHome, FinishWrite, WriteRemote, DrainAgain, FlushFails, FinishFence, Restart
<1>3. status' \in [Nodes -> {"kOk", "kTimedOut", "kInternalError"}]
  BY Zenon DEF BoundInv, Step, CallStep, BeginCall, Close, HandleAck, HandleRequest, TimeOut,
     AdvanceTimeouts, PostNext, FinishRead, WriteAtHome, FinishWrite, WriteRemote, DrainAgain, FlushFails,
     FinishFence, Restart, Post, PostFails, Return
<1>4. MaxErrors \in Nat /\ MaxRestarts \in Nat
  BY ControlAssumption, Zenon
<1> QED BY <1>1, <1>2, <1>3, <1>4 DEF BoundInv

-----------------------------------------------------------------------------
(* Types. *)

\* At the start nothing is under way.
LEMMA ControlInvInit == Init => ControlInv
<1> SUFFICES ASSUME Init PROVE ControlInv
  BY Zenon
<1>1. Made = 0
  <2>1. {n \in Nodes : BeforeRequest(n)} = {}
    BY Zenon DEF Init, BeforeRequest, Idle
  <2>2. Cardinality({n \in Nodes : BeforeRequest(n)}) = 0 /\ writes = 0
    BY <2>1, FS_EmptySet, Zenon DEF Init
  <2> QED BY <2>2 DEF Made
<1>2. MetaInv
  BY <1>1 DEF FreshMeta, MetaUpTo, Init, MetaInv
<1>3. BoundInv
  BY ControlAssumption DEF Init, BoundInv
<1>4. PhaseInv
  BY Zenon DEF Init, PhaseInv, Phase, Idle
<1>5. MailInv
  <2>1. PICK K : K = Sendable(Made)
    BY Zenon
  <2>2. FilesOK(files, K)
    BY FS_EmptySet, Zenon DEF Init, FilesOK
  <2>3. seq \in [Nodes -> Nat]
    BY ControlAssumption DEF Init
  <2>4. \A i : i \notin DOMAIN <<>>
    OBVIOUS
  <2>5. Carried(K)
    BY <2>2, <2>3, <2>4, NothingLeft, Zenon DEF Init, TableOK, Carried
  <2> QED BY <1>1, <2>1, <2>5 DEF MailInv
<1> QED BY <1>2, <1>3, <1>4, <1>5, ClocksInit, Zenon DEF ControlInv

\* Every step keeps ControlInv.
LEMMA ControlInvKept ==
  ASSUME ControlInv, NEW n \in Nodes, Step(n)
  PROVE  ControlInv'
<1>1. IdInv /\ ClockInv /\ PhaseInv /\ MailInv /\ MetaInv /\ BoundInv
  BY Zenon DEF ControlInv
<1>2. PhaseInv'
  BY <1>1, PhaseKept, Zenon DEF MailInv, Sendable
<1> QED BY <1>1, <1>2, BoundKept, ClockInvKept, IdInvKept, MailKept, MetaKept, Zenon DEF ControlInv, Next, Step

\* A step of the system is one of a node, or changes nothing.
LEMMA StepOrStutter ==
  ASSUME [Next]_vars
  PROVE  (\E n \in Nodes : Step(n)) \/ UNCHANGED vars
BY Zenon DEF Next, Step

\* A stutter keeps it.
LEMMA ControlStutter ==
  ASSUME UNCHANGED vars
  PROVE  ControlInv => ControlInv'
<1>1. /\ UNCHANGED <<files, nextId, seq, pending, meta, call, inbox, outbox, opened, status>>
      /\ UNCHANGED <<writes, errors, restarts, hist>>
  BY Zenon DEF vars, callVars
<1>2. Made' = Made
  BY <1>1, Zenon DEF Made, BeforeRequest
<1>3. ASSUME NEW K, Carried(K) PROVE Carried(K)'
  BY <1>1, <1>3, Zenon DEF Carried
<1>4. MailInv => MailInv'
  <2>1. PICK K : K = Sendable(Made)
    BY Zenon
  <2>2. K = Sendable(Made)'
    BY <1>2, <2>1, Zenon DEF Sendable
  <2>3. SUFFICES ASSUME MailInv PROVE Carried(K)' /\ Made' \in Nat
    BY <2>2, Zenon DEF MailInv, Carried
  <2> QED BY <1>2, <1>3, <2>1, <2>3, Zenon DEF MailInv
<1> QED
  BY <1>1, <1>2, <1>4, Zenon DEF ControlInv, MetaInv, BoundInv, IdInv, ClockInv, PhaseInv, BeforeRequest,
     TimeoutNotEarly

\* The invariant holds in every state.
LEMMA ControlInvAlways == Spec => []ControlInv
<1>1. ControlInv /\ [Next]_vars => ControlInv'
  BY ControlInvKept, ControlStutter, StepOrStutter, Zenon
<1> QED BY <1>1, ControlInvInit, PTL DEF Spec

\* The types of the control plane, with versions and request ids that never
\* pass the number of lm_write calls, whatever is lost, retried or restarted.
THEOREM ControlTypes ==
  Spec => []TypeOK
<1>1. ControlInv => TypeOK
  <2> SUFFICES ASSUME ControlInv PROVE TypeOK
    BY Zenon
  <2>1. IdInv /\ ClockInv /\ MailInv /\ MetaInv /\ BoundInv
    BY Zenon DEF ControlInv
  <2>2. PICK v \in Nat : v = Made
    BY <2>1, Zenon DEF MailInv
  <2>3. v <= MaxWrites
    BY <2>1, Constants, NodesFinite, FS_Subset, FS_CardinalityType, <2>2 DEF IdInv, Made
  <2>4. 0 .. v \subseteq 0 .. MaxWrites
    BY <2>3, Constants
  <2>5. PICK K : K = Sendable(v)
    BY Zenon
  <2>6. Carried(Message)
    BY <2>1, <2>2, <2>4, <2>5, CarriedMono, Zenon DEF Sendable, Message, MailInv
  <2>7. \A f \in files : /\ f.to \in Nodes /\ f.from \in Nodes /\ f.seq \in Nat
                         /\ f.body \in Message \cup {NoMessage}
    BY <2>6, Zenon DEF Carried, FilesOK, FileOK
  <2>8. /\ inbox \in [Nodes -> Seq(Message)] /\ outbox \in [Nodes -> Seq(Message)]
        /\ opened \in [Nodes -> Message \cup {NoMessage}]
    <3>1. ASSUME NEW n \in Nodes
          PROVE  /\ inbox[n] \in Seq(Message) /\ outbox[n] \in Seq(Message)
                 /\ opened[n] \in Message \cup {NoMessage}
      <4>1. /\ SentTo(Message, n) \subseteq Message /\ RequestsBy(Message, n) \subseteq Message
            /\ SentBy(Message, n) \subseteq Message
        BY Zenon DEF SentTo, RequestsBy, SentBy
      <4> QED BY <2>6, <4>1 DEF Carried
    <3> QED BY <2>6, <3>1, Zenon DEF Carried
  <2>9. meta \in [Nodes -> BlockMeta]
    BY <2>4, <2>1, <2>2, Zenon DEF MetaUpTo, BlockMeta, MetaInv
  <2>10. hist \in [Nodes -> [Ids -> [posts : Nat, handled : Nat, polls : Nat]]]
    BY <2>1 DEF ClockInv, HistType
  <2>11. seq \in [Nodes -> Nat] /\ \A n \in Nodes : DOMAIN pending[n] \subseteq Ids
    BY <2>1, <2>6, Zenon DEF ClockInv, Carried
  <2>12. nextId \in [Nodes -> Nat] /\ call \in [Nodes -> Calls] /\ writes \in 0 .. MaxWrites
    BY <2>1, Zenon DEF IdInv
  <2>13. status \in [Nodes -> {"kOk", "kTimedOut", "kInternalError"}] /\ errors \in 0 .. MaxErrors
         /\ restarts \in 0 .. MaxRestarts
    BY <2>1, Zenon DEF BoundInv
  <2> QED
    BY <2>6, <2>7, <2>8, <2>9, <2>10, <2>11, <2>12, <2>13, Zenon DEF TypeOK, Carried, TableOK, RequestsBy,
       Entry
<1> QED BY <1>1, ControlInvAlways, PTL

-----------------------------------------------------------------------------
(* Retries and acks. *)

\* A stutter keeps the budgets and what is known of acks.
LEMMA BudgetsStutter ==
  ASSUME UNCHANGED vars
  PROVE  (BudgetInv => BudgetInv') /\ (AckInv => AckInv')
<1>1. /\ UNCHANGED <<files, nextId, seq, pending, call, inbox, outbox, opened, hist>>
      /\ Made' = Made
  BY Zenon DEF vars, callVars, Made, BeforeRequest
<1>2. AckInv => AckInv'
  <2>1. PICK K : K = Truthful(Made, hist)
    BY Zenon
  <2>2. SUFFICES ASSUME AckInv PROVE Carried(K)'
    BY <1>1, <2>1, Zenon DEF AckInv, Carried, Truthful, Sendable
  <2>3. Carried(K)
    BY <2>1, <2>2, Zenon DEF AckInv
  <2> QED BY <1>1, <2>3, Zenon DEF Carried
<1> QED BY <1>1, <1>2, Zenon DEF BudgetInv

\* The budget is kept in every state.
LEMMA BudgetAlways == Spec => []BudgetInv
<1>1. Init => BudgetInv
  BY DEF BudgetInv, Init, Idle, FreshHist, Budget, Fresh
<1>2. ControlInv /\ ControlInv' /\ BudgetInv /\ [Next]_vars => BudgetInv'
  <2> SUFFICES ASSUME ControlInv, ControlInv', BudgetInv, [Next]_vars PROVE BudgetInv'
    BY Zenon
  <2>1. CASE \E n \in Nodes : Step(n)
    BY <2>1, BudgetKept, Zenon
  <2>2. CASE UNCHANGED vars
    BY <2>2, BudgetsStutter, Zenon
  <2> QED BY <2>1, <2>2, StepOrStutter, Zenon
<1> QED BY <1>1, <1>2, ControlInvAlways, PTL DEF Spec

\* No request is posted more often than control_ack_max_retries allows, across
\* timeouts, lost messages, file errors and restarts, and the retries left of a
\* pending request fit into what is left of its budget.
THEOREM RetriesBounded ==
  Spec => []PostsWithinBudget
<1>1. ControlInv /\ BudgetInv => PostsWithinBudget
  BY Constants DEF PostsWithinBudget, BudgetInv, Budget, ControlInv, ClockInv, HistType, EntryOK
<1> QED BY <1>1, ControlInvAlways, BudgetAlways, PTL

\* A request leaves the table of pending acks only if its target has handled
\* it, in any interleaving of drains, retries, lost and empty files; while no
\* node is restarted, for a restarted node draws its request ids again.
THEOREM AcksFollowHandling ==
  ASSUME MaxRestarts = 0
  PROVE  Spec => []AckedWasHandled
<1>1. Init => AckInv
  <2> SUFFICES ASSUME Init PROVE AckInv
    BY Zenon
  <2>1. PICK K : K = Sendable(Made)
    BY Zenon
  <2>2. PICK L : L = Truthful(Made, hist)
    BY Zenon
  <2>3. Carried(L)
    <3>1. ASSUME NEW n \in Nodes
          PROVE  inbox[n] = <<>> /\ outbox[n] = <<>> /\ opened[n] = NoMessage /\ DOMAIN pending[n] = {}
      BY DEF Init
    <3>2. ASSUME NEW n \in Nodes
          PROVE  /\ inbox[n] \in Seq(SentTo(L, n)) /\ outbox[n] \in Seq(RequestsBy(L, n))
                 /\ opened[n] \in SentBy(L, n) \cup {NoMessage} /\ TableOK(pending[n], RequestsBy(L, n))
      <4>1. <<>> \in Seq(SentTo(L, n)) /\ <<>> \in Seq(RequestsBy(L, n))
        OBVIOUS
      <4> QED BY <3>1, <4>1, Zenon DEF TableOK
    <3> QED BY <2>1, <3>2, ControlInvInit, FS_EmptySet, Zenon DEF Carried, ControlInv, MailInv, Init, FilesOK
  <2>4. ASSUME NEW n \in Nodes PROVE Awaited(call[n], opened[n], pending[n], nextId[n], hist[n])
    BY Zenon DEF Init, FreshHist, Awaited
  <2> QED BY <2>2, <2>3, <2>4, Zenon DEF AckInv
<1>2. ControlInv /\ ControlInv' /\ BudgetInv /\ AckInv /\ [Next]_vars => AckInv'
  BY AckKept, BudgetsStutter, StepOrStutter DEF Restart, ControlInv, BoundInv
<1>3. ControlInv /\ AckInv => AckedWasHandled
  <2> SUFFICES ASSUME ControlInv, AckInv, NEW n \in Nodes, NEW i \in 1 .. (nextId[n] - 1),
                      i \notin DOMAIN pending[n], hist[n][i].posts > 0,
                      ~(call[n].step = "request" /\ i = nextId[n] - 1)
               PROVE  hist[n][i].handled > 0
    BY Zenon DEF AckedWasHandled
  <2>1. i \in Ids
    BY Constants DEF ControlInv, IdInv, Ids
  <2> QED BY <2>1, Zenon DEF AckInv, Awaited
<1> QED BY <1>1, <1>2, <1>3, ControlInvAlways, BudgetAlways, PTL DEF Spec

-----------------------------------------------------------------------------
(* The copies of a post. *)

\* m is a post of request i of node n.
IsPost(m, n, i) == m # NoMessage /\ m.op \in Requests /\ m.source = n /\ m.id = i

FileCopies(fs, n, i) == {f \in fs : IsPost(f.body, n, i)}

BoxCopies(box, n, i) == {k \in DOMAIN box : IsPost(box[k], n, i)}

\* Every post is in at most one place: handled, in a file, drained by the home
\* or about to be written.
CopiesInv ==
  \A n \in Nodes : \A i \in Ids :
    hist[n][i].handled + Cardinality(FileCopies(files, n, i))
      + Cardinality(BoxCopies(inbox[Home], n, i))
      + (IF IsPost(opened[n], n, i) THEN 1 ELSE 0) <= hist[n][i].posts

\* The elements of disjoint sets are counted separately.
LEMMA CountApart ==
  ASSUME NEW S, IsFiniteSet(S), NEW T, IsFiniteSet(T), S \cap T = {}
  PROVE  /\ IsFiniteSet(S \cup T) /\ Cardinality(S) \in Nat /\ Cardinality(T) \in Nat
         /\ Cardinality(S \cup T) = Cardinality(S) + Cardinality(T)
BY FS_EmptySet, FS_CardinalityType, FS_Union

\* An injective function carries the number of elements over to its image.
LEMMA CountImage ==
  ASSUME NEW S, IsFiniteSet(S), NEW f, DOMAIN f = S, f = [x \in S |-> f[x]],
         \A x, y \in S : f[x] = f[y] => x = y
  PROVE  LET T == {f[x] : x \in S}
         IN IsFiniteSet(T) /\ Cardinality(T) = Cardinality(S)
<1>. DEFINE T == {f[x] : x \in S}
<1>1. f \in Bijection(S, T)
  BY Zenon DEF IsInjective, Bijection, Injection, Surjection
<1>. QED BY <1>1, FS_Bijection, Zenon DEF ExistsBijection

\* The posts among drained messages can be counted.
LEMMA BoxFinite ==
  ASSUME NEW S, NEW s \in Seq(S), NEW a, NEW i
  PROVE  IsFiniteSet(BoxCopies(s, a, i)) /\ Cardinality(BoxCopies(s, a, i)) \in Nat
BY CountUpTo DEF BoxCopies

\* Handling the first drained message takes its copy away.
LEMMA BoxTail ==
  ASSUME NEW S, NEW s \in Seq(S), s # <<>>, NEW a, NEW i
  PROVE  Cardinality(BoxCopies(Tail(s), a, i)) + (IF IsPost(Head(s), a, i) THEN 1 ELSE 0)
           <= Cardinality(BoxCopies(s, a, i))
<1>1. PICK t : t = Tail(s)
  BY Zenon
<1>2. PICK n \in Nat \ {0} : n = Len(s)
  BY HeadTail, Zenon
<1>3. /\ t \in Seq(S) /\ DOMAIN s = 1 .. n /\ DOMAIN t = 1 .. (n - 1) /\ Head(s) = s[1]
      /\ \A k \in 1 .. (n - 1) : t[k] = s[k + 1]
  BY <1>1, <1>2, HeadTail
<1>4. PICK T : T = BoxCopies(t, a, i)
  BY Zenon
<1>5. PICK V : V = BoxCopies(s, a, i)
  BY Zenon
<1>6. /\ IsFiniteSet(T) /\ Cardinality(T) \in Nat
      /\ IsFiniteSet(V) /\ Cardinality(V) \in Nat
  BY <1>3, <1>4, <1>5, BoxFinite, Zenon
<1>7. PICK f : f = [k \in T |-> k + 1]
  BY Zenon
<1>8. PICK U : U = {f[k] : k \in T}
  BY Zenon
<1>9. IsFiniteSet(U) /\ Cardinality(U) = Cardinality(T)
  <2>1. \A x, y \in T : f[x] = f[y] => x = y
    BY <1>3, <1>4, <1>7 DEF BoxCopies
  <2> QED BY <1>6, <1>7, <1>8, <2>1, CountImage
<1>10. U \subseteq V /\ 1 \notin U
  <2>1. ASSUME NEW k \in T PROVE f[k] \in V /\ f[k] # 1
    <3>1. k \in 1 .. (n - 1) /\ IsPost(t[k], a, i)
      BY <1>3, <1>4, Zenon DEF BoxCopies
    <3>2. f[k] = k + 1 /\ k + 1 \in 1 .. n /\ k + 1 # 1 /\ t[k] = s[k + 1]
      BY <1>2, <1>3, <1>7, <3>1
    <3> QED BY <1>3, <1>5, <3>1, <3>2, Zenon DEF BoxCopies
  <2> QED BY <1>8, <2>1, Zenon
<1>11. CASE IsPost(s[1], a, i)
  <2>1. Cardinality(U \cup {1}) = Cardinality(U) + 1
    BY <1>9, <1>10, CountOneMore, Zenon
  <2>2. Cardinality(U \cup {1}) <= Cardinality(V)
    BY <1>2, <1>3, <1>5, <1>6, <1>10, <1>11, FS_Subset DEF BoxCopies
  <2> QED BY <1>1, <1>3, <1>4, <1>5, <1>9, <1>11, <2>1, <2>2, Zenon
<1>12. CASE ~IsPost(s[1], a, i)
  BY <1>6, <1>10, FS_Subset, <1>1, <1>3, <1>4, <1>5, <1>9, <1>12
<1> QED BY <1>11, <1>12, Zenon

\* Draining moves the copies of the files it reads, or loses them.
LEMMA DrainCopies ==
  ASSUME NEW K, NEW fs, FilesOK(fs, K), NEW S, S \subseteq fs, \A f, g \in S : f.to = g.to, NEW a, NEW i
  PROVE  /\ Cardinality(BoxCopies(Parsed(S), a, i)) \in Nat
         /\ Cardinality(FileCopies(fs \ S, a, i)) \in Nat
         /\ Cardinality(BoxCopies(Parsed(S), a, i)) + Cardinality(FileCopies(fs \ S, a, i))
              <= Cardinality(FileCopies(fs, a, i))
<1>1. PICK s : s = Parsed(S)
  BY Zenon
<1>2. Returns(s, S)
  BY <1>1, ParsedFiles, Zenon
<1>3. PICK N \in Nat : N = Cardinality(Full(S))
  BY <1>2, Zenon DEF Returns
<1>4. PICK file \in [1 .. N -> Full(S)] :
        /\ \A j, k \in 1 .. N : file[j] = file[k] => j = k
        /\ \A k \in 1 .. N : s[k] = file[k].body
  BY <1>2, <1>3, Zenon DEF Returns
<1>5. PICK T : T = BoxCopies(s, a, i)
  BY Zenon
<1>6. T \in SUBSET (1 .. N) /\ \A k \in T : IsPost(s[k], a, i)
  BY <1>2, <1>3, <1>5, Zenon DEF BoxCopies, Returns
<1>7. IsFiniteSet(T) /\ Cardinality(T) \in Nat
  BY <1>6, CountUpTo, Zenon
<1>8. PICK f : f = [k \in T |-> file[k]]
  BY Zenon
<1>9. PICK U : U = {f[k] : k \in T}
  BY Zenon
<1>10. IsFiniteSet(U) /\ Cardinality(U) = Cardinality(T)
  BY <1>4, <1>6, <1>8, <1>7, <1>9, CountImage
<1>11. U \subseteq FileCopies(fs, a, i) /\ U \subseteq S
  BY <1>4, <1>6, <1>8, <1>9 DEF Full, FileCopies
<1>12. PICK V : V = FileCopies(fs \ S, a, i)
  BY Zenon
<1>13. V \subseteq FileCopies(fs, a, i) /\ U \cap V = {} /\ IsFiniteSet(FileCopies(fs, a, i))
  BY <1>11, <1>12, FS_Subset, Zenon DEF FileCopies, FilesOK
<1>14. IsFiniteSet(V) /\ Cardinality(V) \in Nat
  BY <1>13, FS_Subset, FS_CardinalityType, Zenon
<1>15. Cardinality(U \cup V) = Cardinality(U) + Cardinality(V)
  BY <1>10, <1>13, <1>14, CountApart, Zenon
<1>16. Cardinality(U \cup V) <= Cardinality(FileCopies(fs, a, i))
  BY <1>11, <1>13, FS_Subset, Zenon
<1> QED BY <1>1, <1>5, <1>7, <1>10, <1>12, <1>14, <1>15, <1>16, Zenon

\* A file that is created is empty, and may truncate one that was not drained.
LEMMA CreatedCopies ==
  ASSUME NEW K, NEW fs, FilesOK(fs, K), NEW m, NEW s, NEW a, NEW i
  PROVE  Cardinality(FileCopies(Created(fs, m, s), a, i)) <= Cardinality(FileCopies(fs, a, i))
BY FS_Subset DEF Created, IsPost, NoMessage, FileCopies, FilesOK

\* Filling a file adds the copy that was to be written, if the file is there.
LEMMA FilledCopies ==
  ASSUME NEW K, NEW fs, FilesOK(fs, K), NEW m \in K, NEW s, NEW a, NEW i
  PROVE  Cardinality(FileCopies(Filled(fs, m, s), a, i))
           <= Cardinality(FileCopies(fs, a, i)) + (IF IsPost(m, a, i) THEN 1 ELSE 0)
<1> DEFINE Named(f) == f.to = m.target /\ f.from = m.source /\ f.seq = s
           F(f) == IF Named(f) THEN [f EXCEPT !.body = m] ELSE f
<1>1. PICK V : V = FileCopies(fs, a, i)
  BY Zenon
<1>2. PICK W : W = FileCopies(Filled(fs, m, s), a, i)
  BY Zenon
<1>3. IsFiniteSet(V) /\ Cardinality(V) \in Nat
  BY <1>1, FS_Subset, FS_CardinalityType, Zenon DEF FileCopies, FilesOK
<1>4. W = {g \in {F(f) : f \in fs} : IsPost(g.body, a, i)}
  BY <1>2, Zenon DEF FileCopies, Filled
<1>5. \A f \in fs : ~Named(f) => F(f) = f
  BY Zenon
<1>6. \A f \in fs : Named(f) => F(f).body = m
  BY Zenon DEF FilesOK, FileOK
<1>7. \A f, g \in fs : Named(f) /\ Named(g) => f = g
  BY Zenon DEF FilesOK, SameName
<1> HIDE DEF Named, F
<1>8. CASE W \subseteq V
  BY <1>1, <1>2, <1>3, <1>8, FS_CardinalityType, FS_Subset
<1>9. CASE ~(W \subseteq V)
  <2>1. PICK f \in fs : F(f) \in W /\ F(f) \notin V
    BY <1>4, <1>9, Zenon
  <2>2. Named(f) /\ IsPost(m, a, i)
    BY <1>1, <1>4, <1>5, <1>6, <2>1, Zenon DEF FileCopies
  <2>3. W \subseteq V \cup {F(f)}
    <3> SUFFICES ASSUME NEW g \in fs, F(g) \in W PROVE F(g) \in V \cup {F(f)}
      BY <1>4, Zenon
    <3>1. CASE Named(g)
      BY <1>7, <2>2, <3>1, Zenon
    <3>2. CASE ~Named(g)
      BY <1>1, <1>4, <1>5, <3>2, Zenon DEF FileCopies
    <3> QED BY <3>1, <3>2, Zenon
  <2>4. IsFiniteSet(V \cup {F(f)}) /\ Cardinality(V \cup {F(f)}) = Cardinality(V) + 1
    BY <1>3, <2>1, CountOneMore, Zenon
  <2> QED BY <1>1, <1>2, <2>2, <2>3, <2>4, FS_Subset
<1> QED BY <1>8, <1>9, Zenon

\* A message being written holds one post of a request or none.
LEMMA PostFlag ==
  ASSUME NEW m, NEW n, NEW i
  PROVE  (IF IsPost(m, n, i) THEN 1 ELSE 0) \in 0 .. 1
OBVIOUS

\* Every step but a restart keeps the copies of a post within the posts.
LEMMA CopiesKept ==
  ASSUME ControlInv, ControlInv', CopiesInv, NEW n \in Nodes, Step(n), ~Restart(n)
  PROVE  CopiesInv'
<1> SUFFICES ASSUME NEW a \in Nodes, NEW i \in Ids
             PROVE  hist'[a][i].handled + Cardinality(FileCopies(files', a, i))
                      + Cardinality(BoxCopies(inbox'[Home], a, i))
                      + (IF IsPost(opened'[a], a, i) THEN 1 ELSE 0) <= hist'[a][i].posts
  BY Zenon DEF CopiesInv
<1>1. IdInv /\ ClockInv /\ PhaseInv /\ MailInv /\ MailInv' /\ Home \in Nodes
  BY ControlAssumption, Zenon DEF ControlInv
<1>2. PICK K : K = Sendable(Made)
  BY Zenon
<1>3. PICK L : L = Sendable(Made')
  BY Zenon
<1>4. Carried(K) /\ FilesOK(files', L) /\ inbox'[Home] \in Seq(SentTo(L, Home))
  BY <1>1, <1>2, <1>3, Zenon DEF MailInv, Carried
<1>5. /\ FilesOK(files, K) /\ inbox = [m \in Nodes |-> inbox[m]] /\ opened = [m \in Nodes |-> opened[m]]
      /\ \A m \in Nodes : inbox[m] \in Seq(SentTo(K, m)) /\ opened[m] \in SentBy(K, m) \cup {NoMessage}
      /\ outbox[n] \in Seq(RequestsBy(K, n))
      /\ Phase(call[n], inbox[n], outbox[n], opened[n], nextId[n])
  BY <1>1, <1>4, Zenon DEF Carried, PhaseInv
<1>6. \A m \in K : m # NoMessage /\ m.op \in Requests \cup Acks /\ (m.op \in Requests => m.target = Home)
  BY <1>2, SendableFields, Zenon DEF Sendable
<1>7. PICK h, h2, p, p2 \in Nat : /\ h = hist[a][i].handled /\ h2 = hist'[a][i].handled
                                  /\ p = hist[a][i].posts /\ p2 = hist'[a][i].posts
  BY HistSteps, Zenon
<1>8. PICK f, f2 \in Nat : /\ f = Cardinality(FileCopies(files, a, i))
                           /\ f2 = Cardinality(FileCopies(files', a, i))
  BY <1>4, <1>5, FS_Subset, FS_CardinalityType, Zenon DEF FileCopies, FilesOK
<1>9. PICK b, b2 \in Nat : /\ b = Cardinality(BoxCopies(inbox[Home], a, i))
                           /\ b2 = Cardinality(BoxCopies(inbox'[Home], a, i))
  BY <1>1, <1>4, <1>5, BoxFinite, Zenon
<1>10. PICK o, o2 \in 0 .. 1 : /\ o = (IF IsPost(opened[a], a, i) THEN 1 ELSE 0)
                               /\ o2 = (IF IsPost(opened'[a], a, i) THEN 1 ELSE 0)
  BY PostFlag, Zenon
<1>11. h + f + b + o <= p
  BY <1>7, <1>8, <1>9, <1>10, Zenon DEF CopiesInv
<1>12. SUFFICES h2 + f2 + b2 + o2 <= p2
  BY <1>7, <1>8, <1>9, <1>10, Zenon
<1>13. (~HandleRequest(n) => h2 = h) /\ (a # n \/ ~PostNext(n) => p2 = p)
  BY <1>7, HistSteps, Zenon
<1>14. UNCHANGED files => f2 = f
  BY <1>8, Zenon
<1>15. inbox'[Home] = inbox[Home] => b2 = b
  BY <1>9, Zenon
<1>16. opened'[a] = opened[a] => o2 = o
  BY <1>10, Zenon
<1>17. ASSUME NEW op, Drain(n, op), UNCHANGED opened, ~HandleRequest(n), ~PostNext(n), inbox[n] = <<>>
       PROVE  h2 + f2 + b2 + o2 <= p2
  <2>1. PICK S : S = Scanned({g \in files : g.to = n})
    BY Zenon
  <2>2. files' = files \ S /\ inbox' = [inbox EXCEPT ![n] = Parsed(S)]
    BY <1>17, <2>1, Zenon DEF Drain, Unread
  <2>3. /\ Cardinality(BoxCopies(Parsed(S), a, i)) \in Nat
        /\ Cardinality(BoxCopies(Parsed(S), a, i)) + f2 <= f
    BY <1>5, <1>8, <2>1, <2>2, DrainCopies, Zenon DEF Scanned
  <2>4. h2 = h /\ p2 = p /\ o2 = o
    BY <1>13, <1>16, <1>17, Zenon
  <2>5. CASE n = Home
    <3>1. b2 + f2 <= f
      BY <1>5, <1>9, <2>2, <2>3, <2>5, Zenon
    <3> QED BY <1>11, <2>4, <3>1
  <2>6. CASE n # Home
    <3>1. inbox'[Home] = inbox[Home]
      BY <1>1, <1>5, <2>2, <2>6, Zenon
    <3> QED BY <1>11, <1>15, <2>3, <2>4, <3>1
  <2> QED BY <2>5, <2>6, Zenon
<1>18. CASE BeginCall(n)
  <2>1. UNCHANGED opened /\ ~HandleRequest(n) /\ ~PostNext(n) /\ inbox[n] = <<>>
    BY <1>5, <1>18 DEF BeginCall, Idle, HandleRequest, PostNext, InStep, Phase
  <2> QED BY <1>17, <1>18, <2>1, Zenon DEF BeginCall
<1>19. CASE DrainAgain(n)
  <2>1. UNCHANGED opened /\ ~HandleRequest(n) /\ ~PostNext(n) /\ inbox[n] = <<>>
    BY <1>5, <1>19, Zenon DEF DrainAgain, ControlDone, HandleRequest, PostNext, InStep, Phase
  <2> QED BY <1>17, <1>19, <2>1, Zenon DEF DrainAgain
<1>20. CASE HandleAck(n)
  <2>1. /\ inbox[n] # <<>> /\ inbox' = [inbox EXCEPT ![n] = Tail(inbox[n])]
        /\ UNCHANGED <<files, opened>> /\ ~HandleRequest(n) /\ ~PostNext(n)
    BY <1>20, Zenon DEF HandleAck, HandleRequest, PostNext, InStep, Acks, Requests
  <2>2. b2 <= b
    <3>1. CASE n = Home
      <4>1. inbox'[Home] = Tail(inbox[Home]) /\ inbox[Home] \in Seq(SentTo(K, Home)) /\ inbox[Home] # <<>>
        BY <1>1, <1>5, <2>1, <3>1, Zenon
      <4>2. b2 + (IF IsPost(Head(inbox[Home]), a, i) THEN 1 ELSE 0) <= b
        BY <1>9, <4>1, BoxTail, Zenon
      <4> QED BY <4>2
    <3>2. CASE n # Home
      BY <1>1, <1>5, <1>15, <2>1, <3>2
    <3> QED BY <3>1, <3>2, Zenon
  <2> QED BY <1>11, <1>13, <1>14, <1>16, <2>1, <2>2
<1>21. CASE HandleRequest(n)
  <2>1. PICK m : m = Head(inbox[n])
    BY Zenon
  <2>2. /\ inbox[n] # <<>> /\ m.op \in Requests /\ opened[n] = NoMessage /\ ~PostNext(n)
        /\ hist' = [hist EXCEPT ![m.source][m.id].handled = @ + 1]
    BY <1>21, <2>1, Zenon DEF HandleRequest, InStep, PostNext
  <2>3. m \in SentTo(K, n)
    BY <1>5, <2>1, <2>2, HeadTail, Zenon
  <2>4. n = Home /\ m \in K
    BY <1>6, <2>2, <2>3, Zenon DEF SentTo
  <2>5. PICK q \in 0 .. 1 : q = (IF IsPost(m, a, i) THEN 1 ELSE 0)
    OBVIOUS
  <2>6. h2 = h + q
    <3>1. PICK x, y : x = m.source /\ y = m.id
      BY Zenon
    <3>2. hist' = [hist EXCEPT ![x][y].handled = @ + 1] /\ hist \in HistType
      BY <1>1, <2>2, <3>1, Zenon DEF ClockInv
    <3>3. HandledOnce(hist, hist', x, y)
      BY ONLY <3>2, HandledCounts, Zenon
    <3>4. h2 = h + (IF a = x /\ i = y THEN 1 ELSE 0)
      BY <1>7, <3>3, Zenon DEF HandledOnce
    <3> QED BY <1>6, <2>2, <2>4, <2>5, <3>1, <3>4, Zenon DEF IsPost
  <2>7. Cardinality(BoxCopies(Tail(inbox[Home]), a, i)) + q <= b
    BY <1>5, <1>9, <2>1, <2>2, <2>4, <2>5, BoxTail, Zenon
  <2>8. b2 + q <= b
    <3>1. CASE inbox' = [inbox EXCEPT ![n] = Tail(inbox[n])]
      BY <1>1, <1>5, <2>4, <3>1, <1>9, <2>7, Zenon
    <3>2. CASE inbox' = [inbox EXCEPT ![n] = <<>>]
      <4>1. BoxCopies(inbox'[Home], a, i) = {}
        BY <1>1, <1>5, <2>4, <3>2 DEF BoxCopies
      <4>2. Cardinality(BoxCopies(Tail(inbox[Home]), a, i)) \in Nat
        <5>1. Tail(inbox[Home]) \in Seq(SentTo(K, Home))
          BY <1>1, <1>5, <2>2, <2>4, HeadTail, Zenon
        <5> QED BY <5>1, BoxFinite, Zenon
      <4> QED BY <1>9, <2>7, <4>1, <4>2, FS_EmptySet
    <3> QED BY <1>21, <3>1, <3>2, Zenon DEF HandleRequest
  <2>9. f2 <= f /\ o2 = o
    <3>1. CASE Post(n, AckFor(n, m))
      <4>1. files' = Created(files, AckFor(n, m), seq[n] + 1) /\ opened' = [opened EXCEPT ![n] = AckFor(n, m)]
        BY <3>1, Zenon DEF Post
      <4>2. f2 <= f
        BY <1>5, <1>8, <4>1, CreatedCopies, Zenon
      <4>3. ~IsPost(AckFor(n, m), a, i)
        BY <1>2, <2>2, <2>4, AckSendable, Zenon DEF IsPost, Acks, Requests
      <4>4. CASE a = n
        BY <1>5, <1>10, <2>2, <4>1, <4>2, <4>3, <4>4, Zenon DEF IsPost
      <4>5. CASE a # n
        BY <1>5, <1>16, <4>1, <4>2, <4>5, Zenon
      <4> QED BY <4>4, <4>5, Zenon
    <3>2. CASE PostFails(n)
      BY <1>14, <1>16, <3>2 DEF PostFails
    <3> QED BY <1>21, <2>1, <3>1, <3>2, Zenon DEF HandleRequest
  <2>10. p2 = p
    BY <1>13, <2>2, Zenon
  <2> QED BY <1>11, <2>6, <2>8, <2>9, <2>10
<1>22. CASE PostNext(n)
  <2>1. opened[n] = NoMessage /\ outbox[n] # <<>> /\ UNCHANGED inbox /\ ~HandleRequest(n)
    BY <1>22, Zenon DEF PostNext, InStep, HandleRequest
  <2>2. CASE Post(n, Head(outbox[n])) /\ CountPost(n, Head(outbox[n]))
    <3>1. PICK m : m = Head(outbox[n])
      BY Zenon
    <3>2. /\ files' = Created(files, m, seq[n] + 1) /\ opened' = [opened EXCEPT ![n] = m]
          /\ hist' = [hist EXCEPT ![n][m.id].posts = @ + 1]
      BY <2>2, <3>1, Zenon DEF Post, CountPost
    <3>3. f2 <= f /\ b2 = b /\ h2 = h
      BY <1>5, <1>8, <1>13, <1>15, <2>1, <3>2, CreatedCopies, Zenon
    <3>4. m \in RequestsBy(K, n)
      BY <1>5, <2>1, <3>1, HeadTail, Zenon
    <3>5. CASE a = n
      <4>1. o = 0 /\ o2 = (IF m.id = i THEN 1 ELSE 0)
        BY <1>5, <1>6, <1>10, <2>1, <3>2, <3>4, <3>5, Zenon DEF IsPost, RequestsBy
      <4>2. p2 = p + (IF m.id = i THEN 1 ELSE 0)
        <5>1. PICK y : y = m.id
          BY Zenon
        <5>2. hist' = [hist EXCEPT ![n][y].posts = @ + 1] /\ hist \in HistType
          BY <1>1, <3>2, <5>1, Zenon DEF ClockInv
        <5>3. PostedOnce(hist, hist', n, y)
          BY ONLY <5>2, PostsCounts, Zenon
        <5>4. p2 = p + (IF a = n /\ i = y THEN 1 ELSE 0)
          BY <1>7, <5>3, Zenon DEF PostedOnce
        <5> QED BY <3>5, <5>1, <5>4, Zenon
      <4> QED BY <1>11, <3>3, <4>1, <4>2
    <3>6. CASE a # n
      BY <1>5, <3>2, <3>6, <1>11, <1>13, <1>16, <3>3
    <3> QED BY <3>5, <3>6, Zenon
  <2>3. CASE PostFails(n) /\ UNCHANGED hist
    BY <2>1, <2>3, <1>7, <1>11, <1>14, <1>15, <1>16, Zenon DEF PostFails
  <2> QED BY <1>22, <2>2, <2>3, Zenon DEF PostNext
<1>23. CASE Close(n)
  <2>1. PICK m : m = opened[n]
    BY Zenon
  <2>2. /\ m # NoMessage /\ files' = Filled(files, m, seq[n]) /\ opened' = [opened EXCEPT ![n] = NoMessage]
        /\ UNCHANGED <<inbox, hist>>
    BY <1>23, <2>1, Zenon DEF Close
  <2>3. m \in K /\ m.source = n
    BY <1>5, <2>1, <2>2, Zenon DEF SentBy
  <2>4. f2 <= f + (IF IsPost(m, a, i) THEN 1 ELSE 0)
    BY <1>5, <1>8, <2>2, <2>3, FilledCopies, Zenon
  <2>5. p2 = p /\ h2 = h /\ b2 = b
    BY <1>7, <1>15, <2>2, Zenon
  <2>6. CASE a = n
    <3>1. opened'[a] = NoMessage /\ opened[a] = m
      BY <1>5, <2>1, <2>2, <2>6, Zenon
    <3>2. ~IsPost(opened'[a], a, i)
      BY <3>1, Zenon DEF IsPost
    <3>3. o2 = 0 /\ o = (IF IsPost(m, a, i) THEN 1 ELSE 0)
      BY <1>10, <3>1, <3>2, Zenon
    <3> QED BY <1>11, <2>4, <2>5, <3>3
  <2>7. CASE a # n
    <3>1. opened'[a] = opened[a] /\ ~IsPost(m, a, i)
      BY <1>5, <2>2, <2>3, <2>7, Zenon DEF IsPost
    <3> QED BY <1>11, <1>16, <2>4, <2>5, <3>1
  <2> QED BY <2>6, <2>7, Zenon
<1>24. CASE \/ TimeOut(n) \/ AdvanceTimeouts(n) \/ FinishRead(n) \/ WriteAtHome(n) \/ FinishWrite(n)
            \/ FlushFails(n) \/ FinishFence(n) \/ \E mode \in Modes : WriteRemote(n, mode)
  <2>1. UNCHANGED <<files, opened, inbox>>
    BY <1>24, Zenon DEF TimeOut, AdvanceTimeouts, FinishRead, WriteAtHome, FinishWrite, FlushFails, FinishFence, WriteRemote
  <2>2. ~HandleRequest(n) /\ ~PostNext(n)
    BY <1>24, Zenon DEF TimeOut, AdvanceTimeouts, FinishRead, WriteAtHome, FinishWrite, FlushFails, FinishFence,
                 WriteRemote, ControlDone, InStep, HandleRequest, PostNext
  <2>3. h2 = h /\ p2 = p /\ f2 = f /\ b2 = b /\ o2 = o
    BY <1>13, <1>14, <1>15, <1>16, <2>1, <2>2, Zenon
  <2> QED BY <1>11, <2>3, Zenon
<1> QED BY <1>18, <1>19, <1>20, <1>21, <1>22, <1>23, <1>24, Zenon DEF Step, CallStep

\* No request is handled more often than it was posted: a file is drained once,
\* and neither a truncated nor a half-written file makes a message of its own;
\* while no node is restarted, for a restarted node counts its posts anew.
THEOREM PostsHandledOnce ==
  ASSUME MaxRestarts = 0
  PROVE  Spec => []HandledAtMostPosted
<1>1. Init => CopiesInv
  BY ControlAssumption, FS_EmptySet DEF CopiesInv, Init, FreshHist, FileCopies, BoxCopies, IsPost
<1>2. ControlInv /\ ControlInv' /\ CopiesInv /\ [Next]_vars => CopiesInv'
  <2> SUFFICES ASSUME ControlInv, ControlInv', CopiesInv, [Next]_vars PROVE CopiesInv'
    BY Zenon
  <2>1. ASSUME NEW n \in Nodes, Step(n) PROVE CopiesInv'
    BY <2>1, CopiesKept DEF Restart, ControlInv, BoundInv
  <2>2. CASE UNCHANGED vars
    BY <2>2, Zenon DEF vars, callVars, CopiesInv
  <2> QED BY <2>1, <2>2, StepOrStutter, Zenon
<1>3. ControlInv /\ CopiesInv => HandledAtMostPosted
  <2> SUFFICES ASSUME ControlInv, CopiesInv, NEW a \in Nodes, NEW i \in Ids
               PROVE  hist[a][i].handled <= hist[a][i].posts
    BY Zenon DEF HandledAtMostPosted
  <2>1. PICK h, p \in Nat : h = hist[a][i].handled /\ p = hist[a][i].posts
    BY Zenon DEF ControlInv, ClockInv, HistType
  <2>2. PICK K : K = Sendable(Made)
    BY Zenon
  <2>3. FilesOK(files, K) /\ inbox[Home] \in Seq(SentTo(K, Home))
    BY <2>2, ControlAssumption, Zenon DEF ControlInv, MailInv, Carried
  <2>4. PICK f \in Nat : f = Cardinality(FileCopies(files, a, i))
    BY <2>3, FS_Subset, FS_CardinalityType, Zenon DEF FileCopies, FilesOK
  <2>5. PICK b \in Nat : b = Cardinality(BoxCopies(inbox[Home], a, i))
    BY <2>3, BoxFinite, Zenon
  <2>6. PICK o \in 0 .. 1 : o = (IF IsPost(opened[a], a, i) THEN 1 ELSE 0)
    OBVIOUS
  <2> QED BY <2>1, <2>4, <2>5, <2>6 DEF CopiesInv
<1> QED BY <1>1, <1>2, <1>3, ControlInvAlways, PTL DEF Spec

=============================================================================
