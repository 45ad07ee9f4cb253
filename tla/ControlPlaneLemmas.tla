------------------------- MODULE ControlPlaneLemmas -------------------------
(***************************************************************************)
(* The invariants of requests, acks, timeouts and retries, for any number  *)
(* of nodes and writes, any limit of the drains, timeout and number of     *)
(* retries, with lost messages, file errors and restarts; and what a step  *)
(* does to the messages under way, to the posts of a request and to acks,  *)
(* from a state in which the invariants hold.                              *)
(***************************************************************************)
EXTENDS ControlPlane, FiniteSetTheorems, TLAPS

\* The arithmetic and set solver has half a minute for each leaf.
USE SMTT(30)

-----------------------------------------------------------------------------
(* Request ids and the polls charged to a request. *)

\* A node is in an lm_write that has not drawn its request id yet.
BeforeRequest(n) == call[n].op = "lm_write" /\ call[n].step \in {"handle", "retry"}

\* Request ids: a write draws at most one, so ids never pass the number of
\* writes, and what lm_write posts and tracks has an id that the tables know.
IdInv ==
  /\ writes \in 0 .. MaxWrites
  /\ nextId \in [Nodes -> Nat \ {0}]
  /\ call \in [Nodes -> Calls]
  /\ outbox = [n \in Nodes |-> outbox[n]] /\ opened = [n \in Nodes |-> opened[n]]
  /\ \A n \in Nodes : nextId[n] - 1 + (IF BeforeRequest(n) THEN 1 ELSE 0) <= writes
  /\ \A n \in Nodes : call[n].step = "request" =>
       /\ \/ outbox[n] = <<>>
          \/ outbox[n] = <<outbox[n][1]>> /\ outbox[n][1].id \in Ids
       /\ opened[n] # NoMessage => opened[n].id \in Ids

\* Polls that a pending entry has been charged with since it was tracked.
Charged(p) == (MaxRetries - p.retries) * (TimeoutPolls + 1) + (TimeoutPolls - p.polls)

EntryOK(p) ==
  /\ {"polls", "retries"} \subseteq DOMAIN p
  /\ p.polls \in 0 .. TimeoutPolls /\ p.retries \in 0 .. MaxRetries

HistType == [Nodes -> [Ids -> [posts : Nat, handled : Nat, polls : 0 .. PollBudget]]]

\* Every poll charged to a pending request was really made: the counters of an
\* entry never run ahead of its history.
ClockInv ==
  /\ pending = [n \in Nodes |-> pending[n]]
  /\ status = [n \in Nodes |-> status[n]]
  /\ hist \in HistType
  /\ \A n \in Nodes : DOMAIN pending[n] \subseteq Ids
  /\ \A n \in Nodes : \A i \in DOMAIN pending[n] :
       EntryOK(pending[n][i]) /\ hist[n][i].polls >= Charged(pending[n][i])
  /\ TimeoutNotEarly

-----------------------------------------------------------------------------
(* Messages under way. *)

\* lm_writes that have changed their metadata or given up.
Made == writes - Cardinality({n \in Nodes : BeforeRequest(n)})

\* A step of node n.
Step(n) == BeginCall(n) \/ CallStep(n) \/ Restart(n)

\* What a file may look like if the messages sent are those of K.
FileOK(f, K) ==
  /\ DOMAIN f = {"to", "from", "seq", "body"}
  /\ f.to \in Nodes /\ f.from \in Nodes /\ f.seq \in Nat
  /\ f.body \in K \cup {NoMessage}
  /\ f.body # NoMessage => f.body.target = f.to /\ f.body.source = f.from

\* The exchange directory: one file per name.
FilesOK(fs, K) ==
  /\ IsFiniteSet(fs)
  /\ \A f \in fs : FileOK(f, K)
  /\ \A f, g \in fs : SameName(f, g) => f = g

SentTo(K, n) == {m \in K : m.target = n}

SentBy(K, n) == {m \in K : m.source = n}

RequestsBy(K, n) == {m \in K : m.source = n /\ m.op \in Requests}

\* An entry of the table of pending acks.
Entry(R) == [message : R, polls : 0 .. TimeoutPolls, retries : 0 .. MaxRetries]

\* The table of pending acks is keyed by request ids.
TableOK(acks, R) == \A i \in DOMAIN acks : acks[i] \in Entry(R) /\ acks[i].message.id = i

\* Every message in a file, drained, opened or still to be posted is one of K,
\* and is where its source and target say.
Carried(K) ==
  /\ FilesOK(files, K)
  /\ inbox = [n \in Nodes |-> inbox[n]]
  /\ outbox = [n \in Nodes |-> outbox[n]]
  /\ opened = [n \in Nodes |-> opened[n]]
  /\ pending = [n \in Nodes |-> pending[n]]
  /\ seq \in [Nodes -> Nat]
  /\ \A n \in Nodes :
       /\ inbox[n] \in Seq(SentTo(K, n))
       /\ outbox[n] \in Seq(RequestsBy(K, n))
       /\ opened[n] \in SentBy(K, n) \cup {NoMessage}
       /\ TableOK(pending[n], RequestsBy(K, n))

\* The messages of versions up to v; requests go to the home.
Sendable(v) ==
  {m \in [op : Requests \cup Acks, source : Nodes, target : Nodes, id : Ids, version : 0 .. v] :
     m.op \in Requests => m.target = Home}

\* The messages there are carry versions made so far.
MailInv == Made \in Nat /\ Carried(Sendable(Made))

\* The metadata of a block carry versions made so far.
MetaUpTo(v) == [version : 0 .. v, validated : 0 .. v, epoch : 0 .. v,
                owner : Nodes \cup {NoNode}, state : {"Home", "Shared", "Owner", "Invalid"}]

MetaInv == meta \in [Nodes -> MetaUpTo(Made)]

-----------------------------------------------------------------------------
(* The phases of a call. *)

\* What a call holds in each of its phases: box are the messages it drained, out
\* those it has to post, open the one it posts, id the next request id.
Phase(c, box, out, open, id) ==
  /\ c.step \in {"idle", "handle"} => out = <<>>
  /\ c.step # "handle" => box = <<>>
  /\ c.step = "idle" => open = NoMessage
  /\ c.step = "handle" /\ open # NoMessage => open.op \in Acks
  /\ c.step \in {"retry", "request"} /\ open # NoMessage => open.op \in Requests
  /\ c.step = "request" /\ out # <<>> => open = NoMessage /\ out = <<out[1]>> /\ out[1].id = id - 1
  /\ c.step = "request" /\ open # NoMessage => open.id = id - 1

PhaseInv == \A n \in Nodes : Phase(call[n], inbox[n], outbox[n], opened[n], nextId[n])

-----------------------------------------------------------------------------
(* The invariant of the state. *)

\* What the calls report and what the bounds count.
BoundInv ==
  /\ status \in [Nodes -> {"kOk", "kTimedOut", "kInternalError"}]
  /\ errors \in 0 .. MaxErrors /\ restarts \in 0 .. MaxRestarts

ControlInv == IdInv /\ ClockInv /\ PhaseInv /\ MailInv /\ MetaInv /\ BoundInv

-----------------------------------------------------------------------------
(* The budget of posts. *)

\* Ids that have not been posted: those not drawn yet, and the one just drawn.
Fresh(c, out, id) ==
  {i \in Ids : i >= id \/ (i = id - 1 /\ c.step = "request" /\ out # <<>>)}

\* A retry of request i is still to be posted.
RetryDue(c, out, i) == c.step = "retry" /\ \E k \in DOMAIN out : out[k].id = i

\* A fresh id has not been used, a request is tracked after its first post, and
\* the posts of a pending request, the retry under way and the retries left keep
\* to its budget.  h is the history of the node's requests.
Budget(c, out, open, acks, id, h) ==
  /\ \A i \in Fresh(c, out, id) : h[i].posts = 0 /\ i \notin DOMAIN acks
  /\ c.step = "request" /\ open # NoMessage =>
       \A i \in Ids : i = id - 1 => h[i].posts <= 1 /\ i \notin DOMAIN acks
  /\ c.step = "retry" =>
       /\ \A k \in DOMAIN out : out[k].id \in DOMAIN acks
       /\ \A j, k \in DOMAIN out : out[j].id = out[k].id => j = k
  /\ \A i \in DOMAIN acks :
       h[i].posts + acks[i].retries + (IF RetryDue(c, out, i) THEN 1 ELSE 0) <= 1 + MaxRetries

BudgetInv ==
  \A n \in Nodes : Budget(call[n], outbox[n], opened[n], pending[n], nextId[n], hist[n])

-----------------------------------------------------------------------------
(* Requests and acks while no node is restarted. *)

\* The messages that tell the truth: an ack is for a request that was handled.
Truthful(v, h) == {m \in Sendable(v) : m.op \in Acks => h[m.target][m.id].handled > 0}

\* A request that was posted is awaited, about to be tracked, or handled.
Awaited(c, open, acks, id, h) ==
  \A i \in Ids :
    /\ h[i].posts > 0 /\ i \notin DOMAIN acks
    /\ ~(c.step = "request" /\ open # NoMessage /\ i = id - 1)
    => h[i].handled > 0

AckInv ==
  /\ Carried(Truthful(Made, hist))
  /\ \A n \in Nodes : Awaited(call[n], opened[n], pending[n], nextId[n], hist[n])

-----------------------------------------------------------------------------
(* Numbers, finite sets and sequences. *)

\* A set of numbers up to n is finite and has at most n elements.
LEMMA CountUpTo ==
  ASSUME NEW n \in Nat, NEW S \in SUBSET (1 .. n)
  PROVE  IsFiniteSet(S) /\ Cardinality(S) \in Nat /\ Cardinality(S) <= n
<1>1. IsFiniteSet(1 .. n) /\ Cardinality(1 .. n) = n
  BY FS_Interval
<1>. QED
  BY <1>1, FS_Subset, FS_CardinalityType, Zenon

\* One more element counts for one.
LEMMA CountOneMore ==
  ASSUME NEW S, IsFiniteSet(S), NEW x, x \notin S
  PROVE  /\ IsFiniteSet(S \cup {x}) /\ Cardinality(S) \in Nat
         /\ Cardinality(S \cup {x}) = Cardinality(S) + 1
BY FS_AddElement, FS_CardinalityType, Zenon

\* In a finite set with a strict total order R, every place from 0 to the last
\* one is taken: some element has exactly so many before it.
LEMMA EveryPlaceTaken ==
  ASSUME NEW S, IsFiniteSet(S), NEW R,
         \A x \in S : <<x, x>> \notin R,
         \A x, y, z \in S : <<x, y>> \in R /\ <<y, z>> \in R => <<x, z>> \in R,
         \A x, y \in S : x # y => <<x, y>> \in R \/ <<y, x>> \in R
  PROVE  /\ Cardinality(S) \in Nat
         /\ \A x \in S : Cardinality({y \in S : <<y, x>> \in R}) \in 0 .. (Cardinality(S) - 1)
         /\ \A x, z \in S : Cardinality({y \in S : <<y, x>> \in R}) < Cardinality({y \in S : <<y, z>> \in R})
                              <=> <<x, z>> \in R
         /\ \A j \in 0 .. (Cardinality(S) - 1) :
              \E x \in S : Cardinality({y \in S : <<y, x>> \in R}) = j
<1>. DEFINE Below(x) == {y \in S : <<y, x>> \in R}
            C(x) == Cardinality(Below(x))
            place == [x \in S |-> C(x)]
<1>1. PICK n : n = Cardinality(S)
  BY Zenon
<1>2. n \in Nat
  BY <1>1, FS_CardinalityType, Zenon
<1>3. \A x \in S : IsFiniteSet(Below(x)) /\ C(x) \in 0 .. (n - 1) /\ C(x) \in Nat
  <2>. TAKE x \in S
  <2>1. IsFiniteSet(Below(x)) /\ C(x) <= n /\ C(x) # n
    BY <1>1, FS_Subset, Zenon
  <2>. QED BY <1>2, <2>1, FS_CardinalityType
<1>4. \A x, z \in S : <<x, z>> \in R => C(x) < C(z)
  <2>. SUFFICES ASSUME NEW x \in S, NEW z \in S, <<x, z>> \in R PROVE C(x) < C(z)
    BY Zenon
  <2>1. Below(x) \in SUBSET Below(z) /\ x \in Below(z) /\ x \notin Below(x)
    BY Zenon
  <2>2. C(x) <= C(z) /\ C(x) # C(z)
    BY <1>3, <2>1, FS_Subset, Zenon
  <2>3. C(x) \in Nat /\ C(z) \in Nat
    BY <1>3, Zenon
  <2>. HIDE DEF C
  <2>. QED BY <2>2, <2>3
<1>5. \A x \in S : place[x] = C(x) /\ C(x) \in Nat /\ C(x) \in 0 .. (n - 1)
  BY <1>3, Zenon
<1>6. \A x, z \in S : C(x) < C(z) <=> <<x, z>> \in R
  <2>. SUFFICES ASSUME NEW x \in S, NEW z \in S PROVE C(x) < C(z) <=> <<x, z>> \in R
    BY Zenon
  <2>1. C(x) \in Nat /\ C(z) \in Nat
    BY <1>5, Zenon
  <2>2. (<<x, z>> \in R => C(x) < C(z)) /\ (<<z, x>> \in R => C(z) < C(x))
    BY <1>4, Zenon
  <2>3. x = z => C(x) = C(z)
    BY Zenon
  <2>. HIDE DEF C
  <2>. QED BY <2>1, <2>2, <2>3
<1>7. place \in [S -> 0 .. (n - 1)] /\ \A x, z \in S : place[x] = place[z] => x = z
  <2>1. ASSUME NEW x \in S, NEW z \in S, C(x) = C(z) PROVE x = z
    <3>1. C(x) \in Nat /\ C(z) \in Nat
      BY <1>5, Zenon
    <3>2. ~(<<x, z>> \in R) /\ ~(<<z, x>> \in R)
      <4>1. (<<x, z>> \in R => C(x) < C(z)) /\ (<<z, x>> \in R => C(z) < C(x))
        BY <1>4, Zenon
      <4>. HIDE DEF C
      <4>. QED BY <2>1, <3>1, <4>1
    <3>. QED BY <3>2, Zenon
  <2>. HIDE DEF C
  <2>. QED BY <1>5, <2>1, Zenon
<1>8. place \in Injection(S, 0 .. (n - 1))
  <2>. HIDE DEF place
  <2>. QED BY <1>7, Zenon DEF Injection, IsInjective
<1>9. place \in Surjection(S, 0 .. (n - 1))
  BY <1>1, <1>2, <1>8, FS_Injection, FS_Interval
<1>10. \A j \in 0 .. (n - 1) : \E x \in S : C(x) = j
  <2>. HIDE DEF C
  <2>. QED BY <1>9, Zenon DEF Surjection
<1>. QED
  BY <1>1, <1>2, <1>3, <1>6, <1>10, Zenon

\* A box or a list that is dropped is empty, whatever it held.
LEMMA NothingLeft ==
  ASSUME NEW S
  PROVE  <<>> \in Seq(S)
OBVIOUS

\* The first of a non-empty sequence is one of its members, and so are the others.
LEMMA HeadTail ==
  ASSUME NEW S, NEW s \in Seq(S), s # <<>>
  PROVE  /\ Head(s) \in S /\ Head(s) = s[1] /\ Tail(s) \in Seq(S)
         /\ Len(s) \in Nat \ {0} /\ Len(Tail(s)) = Len(s) - 1
         /\ \A k \in 1 .. (Len(s) - 1) : Tail(s)[k] = s[k + 1]
OBVIOUS

\* A sequence is the function of its places, and a non-empty one has a first.
LEMMA FirstPlace ==
  ASSUME NEW S, NEW s \in Seq(S), s # <<>>
  PROVE  s = [k \in DOMAIN s |-> s[k]] /\ 1 \in DOMAIN s
OBVIOUS

\* The constants the proofs speak of.
LEMMA Constants ==
  /\ TimeoutPolls \in Nat /\ MaxRetries \in Nat /\ MaxWrites \in Nat
  /\ PollBudget \in Nat
BY ControlAssumption DEF PollBudget

-----------------------------------------------------------------------------
(* The histories of requests and the pending entries. *)

\* The polls a node makes are counted, up to the budget.
LEMMA CountPollsCounts ==
  ASSUME hist \in HistType, NEW n \in Nodes, NEW ids \in SUBSET Ids
  PROVE  /\ CountPolls(n, ids) \in HistType
         /\ \A m \in Nodes \ {n} : CountPolls(n, ids)[m] = hist[m]
         /\ \A i \in Ids : /\ CountPolls(n, ids)[n][i].polls >= hist[n][i].polls
                           /\ i \in ids /\ hist[n][i].polls < PollBudget =>
                                CountPolls(n, ids)[n][i].polls = hist[n][i].polls + 1
                           /\ i \in ids /\ hist[n][i].polls = PollBudget =>
                                CountPolls(n, ids)[n][i].polls = PollBudget
                           /\ CountPolls(n, ids)[n][i].posts = hist[n][i].posts
                           /\ CountPolls(n, ids)[n][i].handled = hist[n][i].handled
<1> DEFINE row(i) == IF i \in ids /\ hist[n][i].polls < PollBudget
                     THEN [hist[n][i] EXCEPT !.polls = hist[n][i].polls + 1] ELSE hist[n][i]
           Row == [posts : Nat, handled : Nat, polls : 0 .. PollBudget]
<1>1. ASSUME NEW i \in Ids
      PROVE  /\ row(i) \in Row
             /\ row(i).polls >= hist[n][i].polls
             /\ i \in ids /\ hist[n][i].polls < PollBudget => row(i).polls = hist[n][i].polls + 1
             /\ i \in ids /\ hist[n][i].polls = PollBudget => row(i).polls = PollBudget
             /\ row(i).posts = hist[n][i].posts /\ row(i).handled = hist[n][i].handled
  <2>1. PICK r : r = hist[n][i]
    BY Zenon
  <2>2. r \in Row
    BY <1>1, <2>1, Zenon DEF HistType
  <2>3. r.polls \in 0 .. PollBudget /\ PollBudget \in Nat
    BY <2>2, Constants, Zenon
  <2>4. PICK q : q = [r EXCEPT !.polls = r.polls + 1]
    BY Zenon
  <2>5. r.polls < PollBudget =>
          q \in Row /\ q.polls = r.polls + 1 /\ q.posts = r.posts /\ q.handled = r.handled
    BY <2>2, <2>3, <2>4
  <2>6. row(i) = IF i \in ids /\ r.polls < PollBudget THEN q ELSE r
    BY <2>1, <2>4, Zenon
  <2> HIDE DEF row, Row
  <2> QED BY <2>1, <2>2, <2>3, <2>5, <2>6
<1>2. CountPolls(n, ids) = [hist EXCEPT ![n] = [i \in Ids |-> row(i)]]
  BY Zenon DEF CountPolls
<1>3. hist \in [Nodes -> [Ids -> Row]]
  BY Zenon DEF HistType
<1>4. HistType = [Nodes -> [Ids -> Row]]
  BY Zenon DEF HistType
<1> HIDE DEF row, Row
<1> QED BY <1>1, <1>2, <1>3, <1>4

\* From history h to g request b of node a is handled once more.
HandledOnce(h, g, a, b) ==
  \A m \in Nodes : \A i \in Ids :
    /\ g[m][i].polls = h[m][i].polls /\ g[m][i].posts = h[m][i].posts
    /\ g[m][i].handled = h[m][i].handled + (IF m = a /\ i = b THEN 1 ELSE 0)

\* Counting a request that is handled leaves the count of its polls alone.
LEMMA HandledCounts ==
  ASSUME hist \in HistType, NEW a, NEW b, hist' = [hist EXCEPT ![a][b].handled = @ + 1]
  PROVE  hist' \in HistType /\ HandledOnce(hist, hist', a, b)
<1> DEFINE Row == [posts : Nat, handled : Nat, polls : 0 .. PollBudget]
<1>1. PICK r : r = [hist[a][b] EXCEPT !.handled = @ + 1]
  BY Zenon
<1>2. PICK row : row = [hist[a] EXCEPT ![b] = r]
  BY Zenon
<1>3. hist' = [hist EXCEPT ![a] = row]
  BY <1>1, <1>2, Zenon
<1>4. hist \in [Nodes -> [Ids -> Row]] /\ HistType = [Nodes -> [Ids -> Row]]
  BY Zenon DEF HistType
<1>5. \A m \in Nodes : \A i \in Ids : hist[m][i].handled \in Nat
  BY <1>4, Zenon
<1>6. ASSUME a \in Nodes, b \in Ids
      PROVE  /\ r \in Row /\ r.polls = hist[a][b].polls /\ r.posts = hist[a][b].posts
             /\ r.handled = hist[a][b].handled + 1
  <2>1. PICK q : q = hist[a][b]
    BY Zenon
  <2>2. q \in Row
    BY <1>4, <1>6, <2>1, Zenon
  <2>3. PICK v \in Nat : v = q.handled + 1
    BY <2>2
  <2> QED BY <1>1, <2>1, <2>2, <2>3, Zenon
<1> HIDE DEF Row
<1>7. ASSUME a \in Nodes
      PROVE  /\ row \in [Ids -> Row]
             /\ \A i \in Ids \ {b} : row[i] = hist[a][i]
             /\ b \in Ids => row[b] = r
  BY <1>2, <1>4, <1>6, <1>7, Zenon
<1>8. ASSUME NEW m \in Nodes, NEW i \in Ids
      PROVE  /\ hist'[m][i].polls = hist[m][i].polls /\ hist'[m][i].posts = hist[m][i].posts
             /\ hist'[m][i].handled = hist[m][i].handled + (IF m = a /\ i = b THEN 1 ELSE 0)
  BY <1>3, <1>4, <1>7, <1>6, <1>5
<1> QED BY <1>3, <1>4, <1>7, <1>8, Zenon DEF HandledOnce

\* From history h to g request b of node a is posted once more.
PostedOnce(h, g, a, b) ==
  \A m \in Nodes : \A i \in Ids :
    /\ g[m][i].polls = h[m][i].polls /\ g[m][i].handled = h[m][i].handled
    /\ g[m][i].posts = h[m][i].posts + (IF m = a /\ i = b THEN 1 ELSE 0)

\* Counting a post leaves the count of the polls alone.
LEMMA PostsCounts ==
  ASSUME hist \in HistType, NEW a, NEW b, hist' = [hist EXCEPT ![a][b].posts = @ + 1]
  PROVE  hist' \in HistType /\ PostedOnce(hist, hist', a, b)
<1> DEFINE Row == [posts : Nat, handled : Nat, polls : 0 .. PollBudget]
<1>1. PICK r : r = [hist[a][b] EXCEPT !.posts = @ + 1]
  BY Zenon
<1>2. PICK row : row = [hist[a] EXCEPT ![b] = r]
  BY Zenon
<1>3. hist' = [hist EXCEPT ![a] = row]
  BY <1>1, <1>2, Zenon
<1>4. hist \in [Nodes -> [Ids -> Row]] /\ HistType = [Nodes -> [Ids -> Row]]
  BY Zenon DEF HistType
<1>5. \A m \in Nodes : \A i \in Ids : hist[m][i].posts \in Nat
  BY <1>4, Zenon
<1>6. ASSUME a \in Nodes, b \in Ids
      PROVE  /\ r \in Row /\ r.polls = hist[a][b].polls /\ r.handled = hist[a][b].handled
             /\ r.posts = hist[a][b].posts + 1
  <2>1. PICK q : q = hist[a][b]
    BY Zenon
  <2>2. q \in Row
    BY <1>4, <1>6, <2>1, Zenon
  <2>3. PICK v \in Nat : v = q.posts + 1
    BY <2>2
  <2> QED BY <1>1, <2>1, <2>2, <2>3, Zenon
<1> HIDE DEF Row
<1>7. ASSUME a \in Nodes
      PROVE  /\ row \in [Ids -> Row]
             /\ \A i \in Ids \ {b} : row[i] = hist[a][i]
             /\ b \in Ids => row[b] = r
  BY <1>2, <1>4, <1>6, <1>7, Zenon
<1>8. ASSUME NEW m \in Nodes, NEW i \in Ids
      PROVE  /\ hist'[m][i].polls = hist[m][i].polls /\ hist'[m][i].handled = hist[m][i].handled
             /\ hist'[m][i].posts = hist[m][i].posts + (IF m = a /\ i = b THEN 1 ELSE 0)
  <2>1. CASE m = a /\ i = b
    BY <1>3, <1>4, <1>7, <2>1, <1>6, Zenon
  <2>2. CASE ~(m = a /\ i = b)
    BY <1>3, <1>4, <1>7, <2>2, <1>5
  <2> QED BY <2>1, <2>2, Zenon
<1> QED BY <1>3, <1>4, <1>7, <1>8, Zenon DEF PostedOnce

\* A counter that counts once or not at all does not go down.
LEMMA CountedUp ==
  ASSUME NEW x \in Nat, NEW y, y = x + 1 \/ y = x + 0
  PROVE  y >= x
OBVIOUS

\* What a step of node n does to the history of the requests.
LEMMA HistSteps ==
  ASSUME ControlInv, ControlInv', NEW n \in Nodes, Step(n), ~Restart(n)
  PROVE  \A m \in Nodes : \A i \in Ids :
           /\ hist[m][i].handled \in Nat /\ hist'[m][i].handled \in Nat
           /\ hist[m][i].posts \in Nat /\ hist'[m][i].posts \in Nat
           /\ hist'[m][i].handled >= hist[m][i].handled
           /\ ~HandleRequest(n) => hist'[m][i].handled = hist[m][i].handled
           /\ m # n \/ ~PostNext(n) => hist'[m][i].posts = hist[m][i].posts
<1>1. hist \in HistType /\ hist' \in HistType
  BY Zenon DEF ControlInv, ClockInv
<1>2. \A m \in Nodes : \A i \in Ids :
        /\ hist[m][i].handled \in Nat /\ hist'[m][i].handled \in Nat
        /\ hist[m][i].posts \in Nat /\ hist'[m][i].posts \in Nat
  BY <1>1, Zenon DEF HistType
<1>3. CASE HandleRequest(n)
  <2>1. PICK a, b : hist' = [hist EXCEPT ![a][b].handled = @ + 1]
    BY <1>3, Zenon DEF HandleRequest
  <2>2. HandledOnce(hist, hist', a, b)
    BY ONLY <1>1, <2>1, HandledCounts, Zenon
  <2>3. ASSUME NEW m \in Nodes, NEW i \in Ids
        PROVE  hist'[m][i].handled >= hist[m][i].handled /\ hist'[m][i].posts = hist[m][i].posts
    <3>1. PICK x, y \in Nat : x = hist[m][i].handled /\ y = hist'[m][i].handled
      BY <1>2, <2>3, Zenon
    <3>2. /\ hist'[m][i].posts = hist[m][i].posts
          /\ y = x + (IF m = a /\ i = b THEN 1 ELSE 0)
      BY <2>2, <2>3, <3>1, Zenon DEF HandledOnce
    <3>3. y = x + 1 \/ y = x + 0
      BY <3>2, Zenon
    <3>4. y >= x
      BY <3>3, CountedUp, Zenon
    <3> QED BY <3>1, <3>2, <3>4, Zenon
  <2> QED BY <1>2, <1>3, <2>3, Zenon
<1>4. CASE PostNext(n)
  BY <1>4, <1>2, <1>1, PostsCounts DEF PostNext, CountPost, PostedOnce
<1>5. CASE TimeOut(n) \/ AdvanceTimeouts(n)
  <2>1. PICK ids \in SUBSET Ids : hist' = CountPolls(n, ids)
    BY <1>5, Zenon DEF TimeOut, AdvanceTimeouts, ControlInv, ClockInv
  <2>2. ASSUME NEW m \in Nodes, NEW i \in Ids
        PROVE  hist'[m][i].handled = hist[m][i].handled /\ hist'[m][i].posts = hist[m][i].posts
    BY <1>1, <2>1, <2>2, CountPollsCounts
  <2>3. ASSUME NEW m \in Nodes, NEW i \in Ids PROVE hist'[m][i].handled >= hist[m][i].handled
    BY <1>2, <2>2, <2>3
  <2> QED BY <1>2, <2>2, <2>3, Zenon
<1>6. CASE UNCHANGED hist
  BY <1>2, <1>6
<1> QED BY <1>3, <1>4, <1>5, <1>6, Zenon DEF Step, CallStep, BeginCall, Close, HandleAck, FinishRead, WriteAtHome,
             FinishWrite, WriteRemote, DrainAgain, FlushFails, FinishFence

\* A visit of AdvanceControlAckTimeouts keeps an entry and its message.
LEMMA AdvancedEntry ==
  ASSUME NEW R, NEW acks, NEW ids, NEW i \in DOMAIN acks, acks[i] \in Entry(R),
         i \in ids => ~Expired(acks[i])
  PROVE  /\ Advanced(acks, ids)[i] \in Entry(R)
         /\ Advanced(acks, ids)[i].message = acks[i].message
         /\ Advanced(acks, ids)[i].retries =
              IF i \in ids /\ acks[i].polls = 0 THEN acks[i].retries - 1 ELSE acks[i].retries
<1>1. PICK p : p = acks[i]
  BY Zenon
<1>2. /\ p \in Entry(R) /\ p.polls \in 0 .. TimeoutPolls /\ p.retries \in 0 .. MaxRetries
      /\ TimeoutPolls \in Nat /\ MaxRetries \in Nat
  BY <1>1, Constants, Zenon DEF Entry
<1>3. CASE i \notin ids
  BY <1>1, <1>2, <1>3, Zenon DEF Advanced
<1>4. CASE i \in ids /\ p.polls > 0
  BY <1>2, <1>4, <1>1 DEF Advanced, Entry
<1>5. CASE i \in ids /\ p.polls = 0
  <2>1. PICK v \in 0 .. MaxRetries : v = p.retries - 1
    BY <1>1, <1>2, <1>5 DEF Expired
  <2>2. PICK q : q = [p EXCEPT !.retries = v, !.polls = TimeoutPolls]
    BY Zenon
  <2>3. q = [message |-> p.message, polls |-> TimeoutPolls, retries |-> v]
    BY <1>2, <2>2, Zenon DEF Entry
  <2> QED BY <1>1, <1>2, <1>5, <2>1, <2>2, <2>3 DEF Advanced, Entry
<1> QED BY <1>2, <1>3, <1>4, <1>5

-----------------------------------------------------------------------------
(* What a step does to the budget of posts. *)

\* A call that neither posts retries nor a request keeps to the budget, if no
\* entry gains retries.
LEMMA QuietBudget ==
  ASSUME NEW c, NEW out, NEW open, NEW acks, NEW id, NEW h, Budget(c, out, open, acks, id, h),
         NEW c2, NEW out2, NEW open2, NEW acks2, NEW h2, c2.step \in {"idle", "handle"},
         DOMAIN acks2 \subseteq DOMAIN acks, DOMAIN acks \subseteq Ids,
         \A i \in Ids : h[i].posts \in Nat /\ h2[i].posts = h[i].posts,
         \A i \in DOMAIN acks2 : /\ acks[i].retries \in Nat /\ acks2[i].retries \in Nat
                                 /\ acks2[i].retries <= acks[i].retries
  PROVE  Budget(c2, out2, open2, acks2, id, h2)
BY Constants DEF Fresh, Budget, RetryDue

\* The budget depends on the posts alone.
LEMMA BudgetPosts ==
  ASSUME NEW c, NEW out, NEW open, NEW acks, NEW id, NEW h, Budget(c, out, open, acks, id, h), NEW h2,
         DOMAIN acks \subseteq Ids, \A i \in Ids : h2[i].posts = h[i].posts
  PROVE  Budget(c, out, open, acks, id, h2)
BY Zenon DEF Fresh, Budget

\* A retry that is posted is charged already.
LEMMA RetryBudget ==
  ASSUME NEW c, NEW S, NEW out \in Seq(S), NEW open, NEW acks, NEW id \in Nat, NEW h,
         Budget(c, out, open, acks, id, h), DOMAIN acks \subseteq Ids, c.step = "retry", out # <<>>, NEW open2, NEW h2,
         \A i \in DOMAIN acks : acks[i].retries \in Nat,
         \A i \in Ids : /\ h[i].posts \in Nat
                        /\ h2[i].posts = h[i].posts + (IF i = Head(out).id THEN 1 ELSE 0)
  PROVE  Budget(c, Tail(out), open2, acks, id, h2)
<1>1. PICK t : t = Tail(out)
  BY Zenon
<1>2. PICK n \in Nat \ {0} : n = Len(out)
  BY HeadTail, Zenon
<1>3. /\ DOMAIN out = 1 .. n /\ DOMAIN t = 1 .. (n - 1) /\ Head(out) = out[1]
      /\ \A k \in 1 .. (n - 1) : t[k] = out[k + 1]
  BY <1>1, <1>2, HeadTail
<1>4. PICK r : r = out[1].id
  BY Zenon
<1>5. r \in DOMAIN acks /\ r \in Ids
  BY <1>2, <1>3, <1>4 DEF Budget
<1>6. \A j, k \in 1 .. n : out[j].id = out[k].id => j = k
  BY <1>3, Zenon DEF Budget
<1>7. \A k \in 1 .. (n - 1) : t[k].id \in DOMAIN acks /\ t[k].id # r
  <2>1. TAKE k \in 1 .. (n - 1)
  <2> QED BY <1>2, <1>3, <1>4, <1>6 DEF Budget
<1>8. \A j, k \in DOMAIN t : t[j].id = t[k].id => j = k
  <2>1. TAKE j, k \in DOMAIN t
  <2>2. t[j] = out[j + 1] /\ t[k] = out[k + 1] /\ j + 1 \in 1 .. n /\ k + 1 \in 1 .. n /\ j \in Nat /\ k \in Nat
    BY <1>2, <1>3
  <2> QED BY <1>6, <2>2
<1>9. ASSUME NEW i \in Fresh(c, t, id) PROVE h2[i].posts = 0 /\ i \notin DOMAIN acks
  <2>1. i \in Fresh(c, out, id) /\ i \in Ids
    BY Zenon DEF Fresh
  <2>2. h[i].posts = 0 /\ i \notin DOMAIN acks
    BY <2>1, Zenon DEF Budget
  <2>3. i # r
    BY <1>5, <2>2, Zenon
  <2>4. h2[i].posts = h[i].posts + 0
    BY <1>3, <1>4, <2>1, <2>3, Zenon
  <2> QED BY <2>2, <2>4
<1>10. ASSUME NEW i \in DOMAIN acks
       PROVE  h2[i].posts + acks[i].retries + (IF RetryDue(c, t, i) THEN 1 ELSE 0) <= 1 + MaxRetries
  <2>1. h[i].posts + acks[i].retries + (IF RetryDue(c, out, i) THEN 1 ELSE 0) <= 1 + MaxRetries
    BY <1>10, Zenon DEF Budget
  <2>2. h[i].posts \in Nat /\ acks[i].retries \in Nat /\ MaxRetries \in Nat
    BY <1>10, Constants, Zenon
  <2>3. CASE i = r
    <3>1. RetryDue(c, out, i) /\ ~RetryDue(c, t, i)
      BY <1>2, <1>3, <1>4, <1>7, <2>3 DEF RetryDue
    <3>2. h2[i].posts = h[i].posts + 1
      BY <1>3, <1>4, <1>5, <2>3, Zenon
    <3> QED BY <2>1, <2>2, <3>1, <3>2
  <2>4. CASE i # r
    <3>1. RetryDue(c, t, i) => RetryDue(c, out, i)
      <4>1. ASSUME NEW k \in 1 .. (n - 1) PROVE k + 1 \in DOMAIN out /\ out[k + 1] = t[k]
        BY <1>2, <1>3
      <4> QED BY <1>3, <4>1, Zenon DEF RetryDue
    <3> QED BY <1>3, <1>4, <1>10, <2>1, <2>2, <2>4, <3>1
  <2> QED BY <2>3, <2>4, Zenon
<1> QED BY <1>1, <1>3, <1>7, <1>8, <1>9, <1>10, Zenon DEF Budget

\* The first post of a request.
LEMMA RequestBudget ==
  ASSUME NEW c, NEW out, NEW open, NEW acks, NEW id \in Nat, NEW h, NEW m,
         Budget(c, out, open, acks, id, h), DOMAIN acks \subseteq Ids, c.step = "request",
         out = <<m>>, m.id = id - 1, m.id \in Ids, NEW out2, out2 = <<>>, NEW h2,
         \A i \in Ids : /\ h[i].posts \in Nat
                        /\ h2[i].posts = h[i].posts + (IF i = m.id THEN 1 ELSE 0)
  PROVE  Budget(c, out2, m, acks, id, h2)
<1>1. h[m.id].posts = 0 /\ m.id \notin DOMAIN acks
  BY Zenon DEF Budget, Fresh
<1>2. ASSUME NEW i \in Fresh(c, out2, id) PROVE h2[i].posts = 0 /\ i \notin DOMAIN acks
  <2>1. i \in Ids /\ i >= id
    BY Zenon DEF Fresh
  <2>2. i \in Fresh(c, out, id) /\ i # m.id
    BY <2>1 DEF Fresh, Ids
  <2>3. h2[i].posts = h[i].posts + 0
    BY <2>1, <2>2, Zenon
  <2> QED BY <2>2, <2>3 DEF Budget
<1>3. ASSUME NEW i \in DOMAIN acks
      PROVE  h2[i].posts + acks[i].retries + (IF RetryDue(c, out2, i) THEN 1 ELSE 0) <= 1 + MaxRetries
  BY <1>1, <1>3 DEF RetryDue, Budget
<1> QED BY <1>1, <1>2, <1>3 DEF Budget

\* A request is tracked with all its retries, after one post.
LEMMA TrackedBudget ==
  ASSUME NEW c, NEW out, NEW open, NEW acks, NEW id \in Nat, NEW h,
         Budget(c, out, open, acks, id, h), DOMAIN acks \subseteq Ids, c.step = "request",
         open # NoMessage, out = <<>>, open.id = id - 1, open.id \in Ids,
         \A i \in Ids : h[i].posts \in Nat
  PROVE  Budget(c, out, NoMessage, Tracked(acks, open), id, h)
BY Constants DEF Tracked, Budget, Fresh, Ids, RetryDue

\* A round of timeouts charges the retries it hands out.
LEMMA RoundBudget ==
  ASSUME NEW c, NEW out, NEW open, NEW R, NEW acks, NEW id \in Nat, NEW h,
         Budget(c, out, open, acks, id, h), DOMAIN acks \subseteq Ids, c.step = "handle",
         TableOK(acks, R), \A i \in DOMAIN acks : ~Expired(acks[i]),
         \A i \in Ids : h[i].posts \in Nat,
         NEW h2, \A i \in Ids : h2[i].posts = h[i].posts,
         NEW c2, c2.step = "retry", NEW k \in Nat,
         NEW retries \in Injection(1 .. k, {i \in DOMAIN acks : acks[i].polls = 0}),
         NEW out2, out2 = [j \in DOMAIN retries |-> acks[retries[j]].message]
  PROVE  Budget(c2, out2, open, Advanced(acks, DOMAIN acks), id, h2)
<1>1. PICK t : t = Advanced(acks, DOMAIN acks)
  BY Zenon
<1>2. PICK due : due = {i \in DOMAIN acks : acks[i].polls = 0}
  BY Zenon
<1>3. /\ retries \in [1 .. k -> due]
      /\ \A i, j \in 1 .. k : retries[i] = retries[j] => i = j
  BY <1>2, Zenon DEF Injection, IsInjective
<1>4. DOMAIN out2 = 1 .. k
  BY <1>3, Zenon
<1>5. \A j \in 1 .. k : out2[j].id = retries[j] /\ retries[j] \in DOMAIN acks /\ acks[retries[j]].polls = 0
  <2>1. TAKE j \in 1 .. k
  <2> QED BY <1>2, <1>3, Zenon DEF TableOK
<1>6. DOMAIN t = DOMAIN acks
  BY <1>1, Zenon DEF Advanced
<1>7. ASSUME NEW i \in Fresh(c2, out2, id) PROVE h2[i].posts = 0 /\ i \notin DOMAIN t
  BY <1>6, Zenon DEF Fresh, Budget
<1>8. ASSUME NEW i \in DOMAIN t
      PROVE  h2[i].posts + t[i].retries + (IF RetryDue(c2, out2, i) THEN 1 ELSE 0) <= 1 + MaxRetries
  <2>1. i \in DOMAIN acks /\ i \in Ids
    BY <1>6, <1>8, Zenon
  <2>2. h[i].posts + acks[i].retries <= 1 + MaxRetries /\ h2[i].posts = h[i].posts /\ h[i].posts \in Nat
    BY <2>1 DEF Budget, TableOK, Entry, RetryDue
  <2>3. /\ acks[i].retries \in Nat /\ acks[i] \in Entry(R)
        /\ t[i].retries = IF acks[i].polls = 0 THEN acks[i].retries - 1 ELSE acks[i].retries
    <3>1. acks[i] \in Entry(R) /\ ~Expired(acks[i])
      BY <2>1, Zenon DEF TableOK
    <3>2. t[i].retries = IF i \in DOMAIN acks /\ acks[i].polls = 0 THEN acks[i].retries - 1 ELSE acks[i].retries
      BY <1>1, <2>1, <3>1, AdvancedEntry
    <3> QED BY <2>1, <3>1, <3>2 DEF Entry
  <2>4. RetryDue(c2, out2, i) => acks[i].polls = 0
    BY <1>4, <1>5 DEF RetryDue
  <2>5. MaxRetries \in Nat
    BY Constants, Zenon
  <2>6. CASE acks[i].polls = 0
    BY <2>2, <2>3, <2>5, <2>6
  <2>7. CASE acks[i].polls # 0
    BY <2>2, <2>3, <2>4, <2>5, <2>7
  <2> QED BY <2>6, <2>7, Zenon
<1>9. \A i, j \in DOMAIN out2 : out2[i].id = out2[j].id => i = j
  BY <1>3, <1>4, <1>5
<1>10. Budget(c2, out2, open, t, id, h2)
  BY <1>4, <1>5, <1>6, <1>7, <1>8, <1>9, Zenon DEF Budget
<1> QED BY <1>1, <1>10, Zenon

\* lm_write draws its request id.
LEMMA DrawnBudget ==
  ASSUME NEW c, NEW out, NEW open, NEW acks, NEW id \in Nat, NEW h,
         Budget(c, out, open, acks, id, h), DOMAIN acks \subseteq Ids, out = <<>>,
         \A i \in DOMAIN acks : acks[i].retries \in Nat,
         \A i \in Ids : h[i].posts \in Nat,
         NEW c2, c2.step = "request", NEW out2, NEW id2,
         (out2 = <<>> /\ id2 = id) \/ id2 = id + 1
  PROVE  Budget(c2, out2, NoMessage, acks, id2, h)
BY DEF Fresh, Ids, RetryDue, Budget

\* Every step keeps BudgetInv.
LEMMA BudgetKept ==
  ASSUME ControlInv, ControlInv', BudgetInv, NEW n \in Nodes, Step(n)
  PROVE  BudgetInv'
<1> DEFINE h == hist[n]
<1>1. IdInv /\ ClockInv /\ PhaseInv /\ MailInv /\ ClockInv'
  BY Zenon DEF ControlInv
<1>2. PICK K : K = Sendable(Made)
  BY Zenon
<1>3. PICK R : R = RequestsBy(K, n)
  BY Zenon
<1>4. /\ call = [m \in Nodes |-> call[m]] /\ outbox = [m \in Nodes |-> outbox[m]]
      /\ opened = [m \in Nodes |-> opened[m]] /\ pending = [m \in Nodes |-> pending[m]]
      /\ nextId = [m \in Nodes |-> nextId[m]] /\ nextId[n] \in Nat
      /\ call[n] \in Calls /\ outbox[n] \in Seq(R)
      /\ TableOK(pending[n], R)
      /\ \A m \in Nodes : DOMAIN pending[m] \subseteq Ids
      /\ Phase(call[n], inbox[n], outbox[n], opened[n], nextId[n])
      /\ Budget(call[n], outbox[n], opened[n], pending[n], nextId[n], h)
  BY <1>1, <1>2, <1>3, Zenon DEF IdInv, ClockInv, PhaseInv, BudgetInv, Carried, MailInv
<1>5. \A m \in Nodes : \A i \in Ids : hist[m][i].posts \in Nat /\ hist'[m][i].posts \in Nat
  BY <1>1, Zenon DEF ClockInv, HistType
<1>6. \A i \in DOMAIN pending[n] : pending[n][i].retries \in Nat
  BY <1>4 DEF TableOK, Entry
<1> HIDE DEF h
<1>7. ASSUME NEW c, NEW out, NEW open, NEW acks, NEW id, NEW g, Budget(c, out, open, acks, id, g),
             call' = [call EXCEPT ![n] = c], outbox' = [outbox EXCEPT ![n] = out],
             opened' = [opened EXCEPT ![n] = open], pending' = [pending EXCEPT ![n] = acks],
             nextId' = [nextId EXCEPT ![n] = id], hist'[n] = g,
             \A m \in Nodes \ {n} : \A i \in Ids : hist'[m][i].posts = hist[m][i].posts
      PROVE  BudgetInv'
  <2>1. ASSUME NEW m \in Nodes \ {n}
        PROVE  Budget(call[m], outbox[m], opened[m], pending[m], nextId[m], hist'[m])
    <3>1. DOMAIN pending[m] \subseteq Ids /\ \A i \in Ids : hist'[m][i].posts = hist[m][i].posts
      BY <1>4, <1>7, Zenon
    <3> QED BY <3>1, BudgetPosts, Zenon DEF BudgetInv
  <2> QED BY <1>4, <1>7, <2>1, Zenon DEF BudgetInv
<1>8. /\ call = [call EXCEPT ![n] = call[n]] /\ outbox = [outbox EXCEPT ![n] = outbox[n]]
      /\ opened = [opened EXCEPT ![n] = opened[n]] /\ pending = [pending EXCEPT ![n] = pending[n]]
      /\ nextId = [nextId EXCEPT ![n] = nextId[n]]
  BY <1>4, Zenon
<1> DEFINE Becomes(c, out, open, acks) ==
             /\ c.step \in {"idle", "handle"}
             /\ call' = [call EXCEPT ![n] = c] /\ outbox' = [outbox EXCEPT ![n] = out]
             /\ opened' = [opened EXCEPT ![n] = open] /\ pending' = [pending EXCEPT ![n] = acks]
             /\ nextId' = nextId
             /\ \A m \in Nodes : \A i \in Ids : hist'[m][i].posts = hist[m][i].posts
           Lowered(acks) ==
             /\ DOMAIN acks \subseteq DOMAIN pending[n]
             /\ \A i \in DOMAIN acks : acks[i].retries \in Nat /\ acks[i].retries <= pending[n][i].retries
<1>9. ASSUME NEW c, NEW out, NEW open, NEW acks, Becomes(c, out, open, acks), Lowered(acks)
      PROVE  BudgetInv'
  <2>1. PICK g : g = hist'[n]
    BY Zenon
  <2>2. Budget(c, out, open, acks, nextId[n], g)
    BY <1>4, <1>5, <1>6, <1>9, <2>1, QuietBudget DEF h
  <2>3. nextId' = [nextId EXCEPT ![n] = nextId[n]] /\ hist'[n] = g
    BY <1>8, <1>9, <2>1, Zenon
  <2> QED BY <1>7, <1>9, <2>2, <2>3, Zenon
<1>10. Lowered(pending[n])
  BY <1>6
<1> HIDE DEF Becomes, Lowered
<1>11. CASE BeginCall(n) \/ DrainAgain(n)
  <2>1. PICK op : call' = [call EXCEPT ![n] = [op |-> op, step |-> "handle"]]
    BY <1>11, Zenon DEF BeginCall, DrainAgain, Drain
  <2>2. PICK c : c = [op |-> op, step |-> "handle"]
    BY Zenon
  <2>3. Becomes(c, outbox[n], opened[n], pending[n])
    BY <1>8, <1>11, <2>1, <2>2, Zenon DEF Becomes, BeginCall, DrainAgain
  <2> QED BY <1>9, <1>10, <2>3, Zenon
<1>12. CASE FinishRead(n) \/ WriteAtHome(n) \/ FinishWrite(n) \/ FlushFails(n) \/ FinishFence(n)
  <2>1. Becomes(Idle, outbox[n], opened[n], pending[n])
    BY <1>8, <1>12, Zenon DEF Becomes, Idle, FinishRead, WriteAtHome, FinishWrite, FlushFails, FinishFence,
       Return
  <2> QED BY <1>9, <1>10, <2>1, Zenon
<1>13. CASE HandleRequest(n)
  <2>1. PICK a, b : hist' = [hist EXCEPT ![a][b].handled = @ + 1]
    BY <1>13, Zenon DEF HandleRequest
  <2>2. \A m \in Nodes : \A i \in Ids : hist'[m][i].posts = hist[m][i].posts
    BY <1>1, <2>1, HandledCounts DEF ClockInv, HandledOnce
  <2>3. UNCHANGED <<nextId, pending, outbox>> /\ call[n].step = "handle" /\ Idle.step = "idle"
    BY <1>13, Zenon DEF HandleRequest, InStep, Idle
  <2>4. ASSUME NEW open, opened' = [opened EXCEPT ![n] = open], UNCHANGED call PROVE BudgetInv'
    BY <1>8, <2>2, <2>3, <2>4, <1>9, <1>10, Zenon DEF Becomes
  <2>5. CASE UNCHANGED opened /\ call' = [call EXCEPT ![n] = Idle]
    BY <1>8, <2>2, <2>3, <2>5, <1>9, <1>10, Zenon DEF Becomes
  <2> QED BY <1>13, <2>4, <2>5, Zenon DEF HandleRequest, Post, PostFails, Return
<1>14. CASE HandleAck(n)
  <2>1. PICK b : pending' = [pending EXCEPT ![n] = Completed(pending[n], b)]
    BY <1>14, Zenon DEF HandleAck
  <2>2. PICK acks : acks = Completed(pending[n], b)
    BY Zenon
  <2>3. DOMAIN acks \subseteq DOMAIN pending[n] /\ \A i \in DOMAIN acks : acks[i] = pending[n][i]
    BY <2>2, Zenon DEF Completed
  <2>4. \A i \in DOMAIN acks : acks[i].retries \in Nat /\ acks[i].retries <= pending[n][i].retries
    BY <1>6, <2>3
  <2>5. Becomes(call[n], outbox[n], opened[n], acks) /\ Lowered(acks)
    BY <1>8, <1>14, <2>1, <2>2, <2>3, <2>4, Zenon DEF Becomes, Lowered, HandleAck, InStep
  <2> QED BY <1>9, <2>5, Zenon
<1>15. CASE TimeOut(n)
  <2>1. PICK expired \in DOMAIN pending[n], visited \in SUBSET DOMAIN pending[n] :
          /\ \A i \in visited : ~Expired(pending[n][i])
          /\ pending' = [pending EXCEPT ![n] = Advanced(pending[n], visited)]
          /\ hist' = CountPolls(n, visited \cup {expired})
    BY <1>15, Zenon DEF TimeOut
  <2>2. \A m \in Nodes : \A i \in Ids : hist'[m][i].posts = hist[m][i].posts
    <3>1. hist \in HistType /\ visited \cup {expired} \in SUBSET Ids
      BY <1>1, <1>4, Zenon DEF ClockInv
    <3> QED BY <2>1, <3>1, CountPollsCounts
  <2>3. PICK acks : acks = Advanced(pending[n], visited)
    BY Zenon
  <2>4. DOMAIN acks = DOMAIN pending[n]
    BY <2>3, Zenon DEF Advanced
  <2>5. ASSUME NEW i \in DOMAIN acks PROVE acks[i].retries \in Nat /\ acks[i].retries <= pending[n][i].retries
    <3>1. i \in DOMAIN pending[n] /\ pending[n][i] \in Entry(R) /\ (i \in visited => ~Expired(pending[n][i]))
      BY <1>4, <2>1, <2>4, Zenon DEF TableOK
    <3>2. /\ acks[i] \in Entry(R)
          /\ acks[i].retries = IF i \in visited /\ pending[n][i].polls = 0
                               THEN pending[n][i].retries - 1 ELSE pending[n][i].retries
      BY <2>3, <3>1, AdvancedEntry
    <3>3. acks[i].retries \in Nat /\ pending[n][i].retries \in Nat
      BY <3>1, <3>2 DEF Entry
    <3> QED BY <3>2, <3>3
  <2>6. Becomes(Idle, outbox[n], opened[n], acks) /\ Lowered(acks)
    BY <1>8, <1>15, <2>1, <2>2, <2>3, <2>4, <2>5, Zenon DEF Becomes, Lowered, TimeOut, Return, Idle
  <2> QED BY <1>9, <2>6, Zenon
<1>16. CASE AdvanceTimeouts(n)
  <2>1. /\ call[n].step = "handle"
        /\ \A i \in DOMAIN pending[n] : ~Expired(pending[n][i])
        /\ pending' = [pending EXCEPT ![n] = Advanced(pending[n], DOMAIN pending[n])]
        /\ hist' = CountPolls(n, DOMAIN pending[n])
        /\ call' = [call EXCEPT ![n].step = "retry"] /\ UNCHANGED <<nextId, opened>>
    BY <1>16, Zenon DEF AdvanceTimeouts, InStep
  <2>2. PICK k \in Nat : k = Cardinality({i \in DOMAIN pending[n] : pending[n][i].polls = 0})
    <3>1. IsFiniteSet(Ids)
      BY FS_Interval, Constants DEF Ids
    <3> QED BY <1>4, <3>1, FS_Subset, FS_CardinalityType, Zenon
  <2>3. PICK retries \in Injection(1 .. k, {i \in DOMAIN pending[n] : pending[n][i].polls = 0}) :
          outbox' = [outbox EXCEPT ![n] = [j \in DOMAIN retries |-> pending[n][retries[j]].message]]
    BY <1>16, <2>2, Zenon DEF AdvanceTimeouts
  <2>4. PICK out : out = [j \in DOMAIN retries |-> pending[n][retries[j]].message]
    BY Zenon
  <2>5. PICK c : c = [call[n] EXCEPT !.step = "retry"]
    BY Zenon
  <2>6. c.step = "retry" /\ call' = [call EXCEPT ![n] = c]
    BY <1>4, <2>1, <2>5, Zenon DEF Calls, Idle
  <2>7. \A m \in Nodes : \A i \in Ids : hist'[m][i].posts = hist[m][i].posts
    <3>1. hist \in HistType /\ DOMAIN pending[n] \in SUBSET Ids
      BY <1>1, <1>4, Zenon DEF ClockInv
    <3> QED BY <2>1, <3>1, CountPollsCounts
  <2>8. PICK g : g = hist'[n]
    BY Zenon
  <2>9. \A i \in Ids : h[i].posts \in Nat /\ g[i].posts = h[i].posts
    BY <1>5, <2>7, <2>8, Zenon DEF h
  <2>10. PICK acks : acks = Advanced(pending[n], DOMAIN pending[n])
    BY Zenon
  <2>11. Budget(c, out, opened[n], acks, nextId[n], g)
    BY <1>4, <2>1, <2>4, <2>6, <2>9, <2>10, RoundBudget
  <2>12. /\ outbox' = [outbox EXCEPT ![n] = out] /\ pending' = [pending EXCEPT ![n] = acks]
         /\ opened' = [opened EXCEPT ![n] = opened[n]] /\ nextId' = [nextId EXCEPT ![n] = nextId[n]]
         /\ hist'[n] = g
    BY <1>8, <2>1, <2>3, <2>4, <2>8, <2>10, Zenon
  <2> QED BY <1>7, <2>6, <2>7, <2>11, <2>12, Zenon
<1>17. CASE Close(n)
  <2>1. /\ opened[n] # NoMessage /\ opened' = [opened EXCEPT ![n] = NoMessage]
        /\ UNCHANGED <<nextId, call, outbox, hist>>
        /\ pending' = IF call[n].step = "request" THEN [pending EXCEPT ![n] = Tracked(pending[n], opened[n])]
                      ELSE pending
    BY <1>17, Zenon DEF Close
  <2>2. CASE call[n].step = "request"
    <3>1. PICK acks : acks = Tracked(pending[n], opened[n])
      BY Zenon
    <3>2. Budget(call[n], outbox[n], NoMessage, acks, nextId[n], h)
      BY <1>1, <1>4, <1>5, <2>1, <2>2, <3>1, TrackedBudget, Zenon DEF h, Phase, IdInv
    <3> QED BY <1>7, <1>8, <2>1, <2>2, <3>1, <3>2, Zenon DEF h
  <2>3. CASE call[n].step # "request"
    <3>1. Budget(call[n], outbox[n], NoMessage, pending[n], nextId[n], h)
      BY <1>4, Zenon DEF Budget
    <3> QED BY <1>7, <1>8, <2>1, <2>3, <3>1, Zenon DEF h
  <2> QED BY <2>2, <2>3, Zenon
<1>18. CASE PostNext(n)
  <2>1. /\ call[n].step \in {"retry", "request"} /\ opened[n] = NoMessage /\ outbox[n] # <<>>
        /\ UNCHANGED <<nextId, pending>>
    BY <1>18, Zenon DEF PostNext, InStep
  <2>2. CASE /\ Post(n, Head(outbox[n])) /\ CountPost(n, Head(outbox[n]))
             /\ outbox' = [outbox EXCEPT ![n] = Tail(outbox[n])]
    <3>1. PICK m : m = Head(outbox[n])
      BY Zenon
    <3>2. opened' = [opened EXCEPT ![n] = m] /\ UNCHANGED call
          /\ hist' = [hist EXCEPT ![n][m.id].posts = @ + 1]
      BY <2>2, <3>1, Zenon DEF Post, CountPost
    <3>3. PostedOnce(hist, hist', n, m.id)
      BY <1>1, <3>2, PostsCounts, Zenon DEF ClockInv
    <3>4. PICK g : g = hist'[n]
      BY Zenon
    <3>5. \A i \in Ids : h[i].posts \in Nat /\ g[i].posts = h[i].posts + (IF i = m.id THEN 1 ELSE 0)
      BY <1>5, <3>3, <3>4, Zenon DEF h, PostedOnce
    <3>6. \A k \in Nodes \ {n} : \A i \in Ids : hist'[k][i].posts = hist[k][i].posts
      <4>1. TAKE k \in Nodes \ {n}
      <4>2. TAKE i \in Ids
      <4> QED BY <1>5, <3>3 DEF PostedOnce
    <3>7. PICK out : out = Tail(outbox[n])
      BY Zenon
    <3>8. CASE call[n].step = "retry"
      <4>1. Budget(call[n], out, m, pending[n], nextId[n], g)
        <5>1. DOMAIN pending[n] \subseteq Ids
          BY <1>4, Zenon
        <5>2. Budget(call[n], Tail(outbox[n]), m, pending[n], nextId[n], g)
          BY <1>4, <1>6, <2>1, <3>1, <3>5, <3>8, <5>1, RetryBudget
        <5> QED BY <3>7, <5>2, Zenon
      <4> QED BY <1>7, <1>8, <2>1, <2>2, <3>2, <3>4, <3>6, <3>7, <4>1, Zenon
    <3>9. CASE call[n].step = "request"
      <4>1. outbox[n] = <<m>> /\ m.id = nextId[n] - 1 /\ m.id \in Ids
        BY <1>1, <1>4, <2>1, <3>9, <3>1, HeadTail DEF Phase, IdInv
      <4>2. out = <<>>
        BY <3>7, <4>1
      <4>3. Budget(call[n], out, m, pending[n], nextId[n], g)
        <5>1. DOMAIN pending[n] \subseteq Ids
          BY <1>4, Zenon
        <5>2. Budget(call[n], outbox[n], opened[n], pending[n], nextId[n], h) /\ nextId[n] \in Nat
          BY <1>4, Zenon
        <5> QED BY ONLY <3>5, <3>9, <4>1, <4>2, <5>1, <5>2, RequestBudget
      <4> QED BY <1>7, <1>8, <2>1, <2>2, <3>2, <3>4, <3>6, <3>7, <4>3, Zenon
    <3> QED BY <2>1, <3>8, <3>9, Zenon
  <2>3. CASE PostFails(n) /\ outbox' = [outbox EXCEPT ![n] = <<>>] /\ UNCHANGED hist
    BY <2>3, <1>8, <2>1, <1>9, <1>10, Zenon DEF PostFails, Return, Idle, Becomes
  <2> QED BY <1>18, <2>2, <2>3, Zenon DEF PostNext
<1>19. ASSUME NEW mode \in Modes, WriteRemote(n, mode) PROVE BudgetInv'
  <2>1. PICK before, after :
          /\ outbox' = [outbox EXCEPT ![n] = WriteRequest(n, before, after, mode)]
          /\ nextId' = [nextId EXCEPT ![n] = nextId[n] + Len(WriteRequest(n, before, after, mode))]
    BY <1>19, Zenon DEF WriteRemote
  <2>2. /\ outbox[n] = <<>> /\ opened[n] = NoMessage
        /\ call' = [call EXCEPT ![n].step = "request"] /\ UNCHANGED <<pending, opened, hist>>
    BY <1>19, Zenon DEF WriteRemote, ControlDone, InStep
  <2>3. PICK c : c = [call[n] EXCEPT !.step = "request"]
    BY Zenon
  <2>4. c.step = "request" /\ call' = [call EXCEPT ![n] = c]
    BY <1>4, <2>2, <2>3, Zenon DEF Calls, Idle
  <2>5. PICK out : out = WriteRequest(n, before, after, mode)
    BY Zenon
  <2>6. PICK id : id = nextId[n] + Len(out)
    BY Zenon
  <2>7. (out = <<>> /\ id = nextId[n]) \/ id = nextId[n] + 1
    <3>1. CASE out = <<>>
      BY <3>1, <1>4, <2>6
    <3>2. ASSUME NEW m, out = <<m>> PROVE id = nextId[n] + 1
      BY <3>2, <2>6, Zenon
    <3> QED BY <2>5, <3>1, <3>2, Zenon DEF WriteRequest, Requests, Modes
  <2>8. Budget(c, out, NoMessage, pending[n], id, h)
    BY <1>4, <1>5, <1>6, <2>2, <2>4, <2>7, DrawnBudget DEF h
  <2>9. /\ outbox' = [outbox EXCEPT ![n] = out] /\ nextId' = [nextId EXCEPT ![n] = id]
        /\ opened' = [opened EXCEPT ![n] = NoMessage] /\ pending' = [pending EXCEPT ![n] = pending[n]]
        /\ hist'[n] = h /\ \A m \in Nodes \ {n} : \A i \in Ids : hist'[m][i].posts = hist[m][i].posts
    BY <1>8, <2>1, <2>2, <2>5, <2>6, Zenon DEF h
  <2> QED BY <1>7, <2>4, <2>8, <2>9, Zenon
<1>20. CASE Restart(n)
  <2>1. /\ call[n] = Idle /\ nextId' = [nextId EXCEPT ![n] = 1] /\ pending' = [pending EXCEPT ![n] = <<>>]
        /\ hist' = [hist EXCEPT ![n] = FreshHist] /\ UNCHANGED <<call, outbox, opened>>
    BY <1>20, Zenon DEF Restart
  <2>2. hist'[n] = FreshHist /\ \A m \in Nodes \ {n} : hist'[m] = hist[m]
    BY <1>1, <2>1, Zenon DEF ClockInv, HistType
  <2>3. PICK acks : acks = <<>>
    BY Zenon
  <2>4. Budget(call[n], outbox[n], opened[n], acks, 1, FreshHist)
    BY <2>1, <2>3 DEF Budget, Fresh, Idle, FreshHist
  <2> QED BY <1>7, <1>8, <2>1, <2>2, <2>3, <2>4, Zenon
<1> QED BY <1>11, <1>12, <1>13, <1>14, <1>15, <1>16, <1>17, <1>18, <1>19, <1>20, Zenon DEF Step, CallStep

-----------------------------------------------------------------------------
(* The file operations. *)

\* Opening a stream leaves one empty file of its name.
LEMMA CreatedOK ==
  ASSUME NEW K, NEW fs, FilesOK(fs, K), NEW m, m.target \in Nodes, m.source \in Nodes, NEW s \in Nat
  PROVE  FilesOK(Created(fs, m, s), K)
<1>1. PICK f : f = [to |-> m.target, from |-> m.source, seq |-> s, body |-> Empty]
  BY Zenon
<1>2. Created(fs, m, s) = {g \in fs : ~SameName(f, g)} \cup {f}
  BY <1>1, Zenon DEF Created
<1>3. IsFiniteSet(Created(fs, m, s))
  BY FS_Subset, <1>2, FS_AddElement, Zenon DEF FilesOK
<1>4. ASSUME NEW g \in Created(fs, m, s), NEW h \in Created(fs, m, s), SameName(g, h) PROVE g = h
  BY <1>4, <1>2, Zenon DEF SameName, FilesOK
<1> QED BY <1>1, <1>2, <1>3, <1>4 DEF FilesOK, FileOK, NoMessage

\* Filling a file changes its content only.
LEMMA FilledFile ==
  ASSUME NEW K, NEW f, FileOK(f, K), NEW m \in K, NEW s, NEW g,
         g = IF f.to = m.target /\ f.from = m.source /\ f.seq = s THEN [f EXCEPT !.body = m] ELSE f
  PROVE  FileOK(g, K) /\ SameName(f, g)
BY Zenon DEF FileOK, SameName

\* Closing a stream fills the file of its name, if it is still there.
LEMMA FilledOK ==
  ASSUME NEW K, NEW fs, FilesOK(fs, K), NEW m \in K, NEW s
  PROVE  FilesOK(Filled(fs, m, s), K)
<1> DEFINE F(f) == IF f.to = m.target /\ f.from = m.source /\ f.seq = s THEN [f EXCEPT !.body = m] ELSE f
<1>1. Filled(fs, m, s) = {F(f) : f \in fs}
  BY Zenon DEF Filled
<1>2. \A f \in fs : FileOK(F(f), K) /\ SameName(f, F(f))
  <2>1. TAKE f \in fs
  <2>2. PICK g : g = F(f)
    BY Zenon
  <2> QED BY <2>2, FilledFile, Zenon DEF FilesOK
<1> HIDE DEF F
<1>3. IsFiniteSet({F(f) : f \in fs})
  <2>1. PICK t : t = [f \in fs |-> F(f)]
    BY Zenon
  <2>2. {F(f) : f \in fs} = {t[f] : f \in fs}
    BY <2>1, Zenon
  <2> QED BY <2>1, FS_Surjection DEF FilesOK, Surjection
<1>4. ASSUME NEW f \in fs, NEW g \in fs, SameName(F(f), F(g)) PROVE F(f) = F(g)
  BY <1>2, <1>4 DEF SameName, FilesOK
<1> QED BY <1>1, <1>2, <1>3, <1>4 DEF FilesOK

\* Removing files.
LEMMA UnreadOK ==
  ASSUME NEW K, NEW fs, FilesOK(fs, K), NEW S
  PROVE  FilesOK(Unread(fs, S), K)
BY FS_Subset, Zenon DEF FilesOK, Unread

\* The names of the files for one receiver are totally ordered.
LEMMA NameOrder ==
  ASSUME NEW K, NEW fs, FilesOK(fs, K), NEW S, S \subseteq fs, \A f, g \in S : f.to = g.to
  PROVE  /\ \A f \in S : ~NameBefore(f, f)
         /\ \A f, g, h \in S : NameBefore(f, g) /\ NameBefore(g, h) => NameBefore(f, h)
         /\ \A f, g \in S : f # g => NameBefore(f, g) \/ NameBefore(g, f)
<1>1. \A f \in S : f.from \in Int /\ f.seq \in Nat /\ LeadingDigit(f.seq) \in Nat
  <2>1. TAKE f \in S
  <2>2. Nodes \subseteq Int
    BY ControlAssumption
  <2>3. ASSUME NEW s \in Nat PROVE LeadingDigit(s) \in Nat
    BY DEF LeadingDigit
  <2> QED BY <2>3, <2>2, Zenon DEF FilesOK, FileOK
<1> QED BY <1>1 DEF NameBefore, FilesOK, SameName

\* The files that parse to a message.
Full(S) == {f \in S : f.body # Empty}

\* The messages msgs are the contents of the full files of S, each once.
Returns(msgs, S) ==
  /\ IsFiniteSet(Full(S)) /\ Cardinality(Full(S)) \in Nat
  /\ DOMAIN msgs = 1 .. Cardinality(Full(S))
  /\ msgs = [i \in DOMAIN msgs |-> msgs[i]]
  /\ \E file \in [1 .. Cardinality(Full(S)) -> Full(S)] :
       /\ \A i, j \in 1 .. Cardinality(Full(S)) : file[i] = file[j] => i = j
       /\ \A i \in 1 .. Cardinality(Full(S)) : msgs[i] = file[i].body

\* DrainControlMessages returns the content of every full file it read, once.
LEMMA ParsedFiles ==
  ASSUME NEW K, NEW fs, FilesOK(fs, K), NEW S, S \subseteq fs, \A f, g \in S : f.to = g.to
  PROVE  Returns(Parsed(S), S)
<1>1. PICK full : full = Full(S)
  BY Zenon
<1>2. IsFiniteSet(full) /\ full \subseteq fs /\ \A f, g \in full : f.to = g.to
  BY <1>1, FS_Subset, Zenon DEF FilesOK, Full
<1>3. PICK R : R = {r \in full \X full : NameBefore(r[1], r[2])}
  BY Zenon
<1>4. \A f, g \in full : <<f, g>> \in R <=> NameBefore(f, g)
  BY <1>3, Zenon
<1>5. /\ \A f \in full : ~NameBefore(f, f)
      /\ \A f, g, h \in full : NameBefore(f, g) /\ NameBefore(g, h) => NameBefore(f, h)
      /\ \A f, g \in full : f # g => NameBefore(f, g) \/ NameBefore(g, f)
  BY <1>2, NameOrder, Zenon
<1>6. /\ \A x \in full : <<x, x>> \notin R
      /\ \A x, y, z \in full : <<x, y>> \in R /\ <<y, z>> \in R => <<x, z>> \in R
      /\ \A x, y \in full : x # y => <<x, y>> \in R \/ <<y, x>> \in R
  BY ONLY <1>4, <1>5, Zenon
<1> DEFINE Rank(f) == Cardinality({y \in full : <<y, f>> \in R})
<1>7. \A f \in full : Place(f, full) = 1 + Rank(f)
  <2>1. TAKE f \in full
  <2> QED BY <1>4, Zenon DEF Place
<1>8. Cardinality(full) \in Nat
  BY <1>2, FS_CardinalityType, Zenon
<1>9. \A k \in 0 .. (Cardinality(full) - 1) : \E f \in full : Rank(f) = k
  <2>1. /\ Cardinality(full) \in Nat
        /\ \A x \in full : Cardinality({y \in full : <<y, x>> \in R}) \in 0 .. (Cardinality(full) - 1)
        /\ \A x, z \in full : Cardinality({y \in full : <<y, x>> \in R}) < Cardinality({y \in full : <<y, z>> \in R})
                              <=> <<x, z>> \in R
        /\ \A j \in 0 .. (Cardinality(full) - 1) :
             \E x \in full : Cardinality({y \in full : <<y, x>> \in R}) = j
    BY ONLY <1>2, <1>6, EveryPlaceTaken, Zenon
  <2> QED BY <2>1, Zenon
<1> HIDE DEF Rank
<1>10. PICK file : file = [i \in 1 .. Cardinality(full) |-> CHOOSE f \in full : Place(f, full) = i]
  BY Zenon
<1>11. \A i \in 1 .. Cardinality(full) : file[i] \in full /\ Place(file[i], full) = i
  <2>1. TAKE i \in 1 .. Cardinality(full)
  <2>2. i - 1 \in 0 .. (Cardinality(full) - 1) /\ i \in Nat
    BY <1>8
  <2>3. PICK f \in full : Rank(f) = i - 1
    BY <1>9, <2>2, Zenon
  <2> QED BY <1>7, <1>10, <2>2, <2>3
<1>12. Parsed(S) = [i \in 1 .. Cardinality(full) |-> (CHOOSE f \in full : Place(f, full) = i).body]
  BY <1>1 DEF Parsed, Full
<1>13. \A i, j \in 1 .. Cardinality(full) : file[i] = file[j] => i = j
  BY <1>11, Zenon
<1> QED BY <1>2, <1>8, <1>10, <1>11, <1>12, <1>13, <1>1 DEF Returns

\* What it returns was sent to the reader.
LEMMA ParsedOK ==
  ASSUME NEW K, NEW fs, FilesOK(fs, K), NEW n, NEW S, S \subseteq fs, \A f \in S : f.to = n
  PROVE  Parsed(S) \in Seq(SentTo(K, n))
<1>1. PICK full : full = Full(S)
  BY Zenon
<1>2. PICK c : c = Cardinality(full)
  BY Zenon
<1>3. Returns(Parsed(S), S)
  BY ParsedFiles, Zenon
<1>4. /\ c \in Nat /\ DOMAIN Parsed(S) = 1 .. c
      /\ Parsed(S) = [i \in DOMAIN Parsed(S) |-> Parsed(S)[i]]
      /\ \A i \in 1 .. c : \E f \in full : Parsed(S)[i] = f.body
  BY ONLY <1>1, <1>2, <1>3, Zenon DEF Returns
<1> QED BY <1>1, <1>4 DEF Full, FilesOK, FileOK, SentTo, NoMessage

-----------------------------------------------------------------------------
(* Messages stay where they belong. *)

\* More messages may be sent: nothing else changes.
LEMMA CarriedMono ==
  ASSUME NEW K, NEW L, K \subseteq L, Carried(K)
  PROVE  Carried(L)
<1>1. ASSUME NEW n \in Nodes
      PROVE  /\ SentTo(K, n) \subseteq SentTo(L, n) /\ SentBy(K, n) \subseteq SentBy(L, n)
             /\ RequestsBy(K, n) \subseteq RequestsBy(L, n)
  BY Zenon DEF SentTo, SentBy, RequestsBy
<1>2. ASSUME NEW n \in Nodes
      PROVE  /\ inbox[n] \in Seq(SentTo(L, n)) /\ outbox[n] \in Seq(RequestsBy(L, n))
             /\ opened[n] \in SentBy(L, n) \cup {NoMessage}
  BY <1>1 DEF Carried
<1>3. ASSUME NEW n \in Nodes, NEW i \in DOMAIN pending[n]
      PROVE  pending[n][i] \in Entry(RequestsBy(L, n)) /\ pending[n][i].message.id = i
  BY <1>1, Zenon DEF Carried, TableOK, Entry
<1> QED BY <1>2, <1>3, Zenon DEF Carried, TableOK, FilesOK, FileOK

\* A step whose new messages are in L keeps every message in L.
LEMMA CarriedKept ==
  ASSUME NEW L, Carried(L), \A m \in L : m # NoMessage /\ m.source \in Nodes /\ m.target \in Nodes,
         IdInv, ClockInv, PhaseInv, NEW n \in Nodes, Step(n),
         HandleRequest(n) => AckFor(n, Head(inbox[n])) \in SentBy(L, n),
         \A mode \in Modes : WriteRemote(n, mode) => outbox'[n] \in Seq(RequestsBy(L, n))
  PROVE  Carried(L)'
<1> DEFINE R == RequestsBy(L, n)
           OthersSame == \A m \in Nodes \ {n} :
             /\ inbox'[m] = inbox[m] /\ outbox'[m] = outbox[m] /\ opened'[m] = opened[m]
             /\ pending'[m] = pending[m]
           Functions == /\ inbox' = [m \in Nodes |-> inbox'[m]] /\ outbox' = [m \in Nodes |-> outbox'[m]]
                        /\ opened' = [m \in Nodes |-> opened'[m]] /\ pending' = [m \in Nodes |-> pending'[m]]
           Own == /\ inbox'[n] \in Seq(SentTo(L, n)) /\ outbox'[n] \in Seq(R)
                  /\ opened'[n] \in SentBy(L, n) \cup {NoMessage}
           Table == TableOK(pending'[n], R)
<1>1. /\ FilesOK(files, L) /\ seq \in [Nodes -> Nat]
      /\ inbox = [m \in Nodes |-> inbox[m]] /\ outbox = [m \in Nodes |-> outbox[m]]
      /\ opened = [m \in Nodes |-> opened[m]] /\ pending = [m \in Nodes |-> pending[m]]
      /\ inbox[n] \in Seq(SentTo(L, n)) /\ outbox[n] \in Seq(R)
      /\ opened[n] \in SentBy(L, n) \cup {NoMessage}
      /\ TableOK(pending[n], R)
  BY Zenon DEF Carried
<1>2. ASSUME OthersSame, Functions, Own, Table, FilesOK(files', L), seq' \in [Nodes -> Nat]
      PROVE  Carried(L)'
  <2>1. \A m \in Nodes \ {n} :
          /\ inbox[m] \in Seq(SentTo(L, m)) /\ outbox[m] \in Seq(RequestsBy(L, m))
          /\ opened[m] \in SentBy(L, m) \cup {NoMessage}
          /\ TableOK(pending[m], RequestsBy(L, m))
    BY Zenon DEF Carried
  <2>2. /\ inbox'[n] \in Seq(SentTo(L, n)) /\ outbox'[n] \in Seq(RequestsBy(L, n))
        /\ opened'[n] \in SentBy(L, n) \cup {NoMessage}
        /\ TableOK(pending'[n], RequestsBy(L, n))
    BY <1>2, Zenon
  <2>3. \A m \in Nodes : inbox'[m] \in Seq(SentTo(L, m))
    BY <1>2, <2>1, <2>2, Zenon
  <2>4. \A m \in Nodes : outbox'[m] \in Seq(RequestsBy(L, m))
    BY <1>2, <2>1, <2>2, Zenon
  <2>5. \A m \in Nodes : opened'[m] \in SentBy(L, m) \cup {NoMessage}
    BY <1>2, <2>1, <2>2, Zenon
  <2>6. \A m \in Nodes : TableOK(pending'[m], RequestsBy(L, m))
    BY <1>2, <2>1, <2>2, Zenon
  <2>7. Functions /\ FilesOK(files', L) /\ seq' \in [Nodes -> Nat]
    BY <1>2, Zenon
  <2> HIDE DEF OthersSame, Own, Table, R
  <2> QED BY <2>7, <2>3, <2>4, <2>5, <2>6, Zenon DEF Carried
<1>3. ASSUME NEW op, Drain(n, op), UNCHANGED <<seq, pending, outbox, opened>>
      PROVE  Carried(L)'
  BY <1>3, <1>1, UnreadOK, ParsedOK, <1>2, Zenon DEF Scanned, Drain
<1>4. CASE BeginCall(n) \/ DrainAgain(n)
  BY <1>3, <1>4, Zenon DEF BeginCall, DrainAgain
<1>5. CASE Close(n)
  <2>1. PICK m : m = opened[n]
    BY Zenon
  <2>2. m \in SentBy(L, n) /\ m \in L
    BY <1>1, <1>5, <2>1, Zenon DEF Close, SentBy
  <2>3. files' = Filled(files, m, seq[n]) /\ UNCHANGED <<inbox, outbox, seq>>
          /\ opened' = [opened EXCEPT ![n] = NoMessage]
    BY <1>5, <2>1, Zenon DEF Close
  <2>4. FilesOK(files', L)
    BY <1>1, <2>2, <2>3, FilledOK, Zenon
  <2>5. CASE call[n].step # "request"
    BY <1>1, <1>2, <1>5, <2>3, <2>4, <2>5, Zenon DEF Close
  <2>6. CASE call[n].step = "request"
    <3>1. pending' = [pending EXCEPT ![n] = Tracked(pending[n], m)]
      BY <1>5, <2>1, <2>6, Zenon DEF Close
    <3>2. pending'[n] = Tracked(pending[n], m) /\ pending' = [k \in Nodes |-> pending'[k]]
            /\ \A k \in Nodes \ {n} : pending'[k] = pending[k]
      BY <1>1, <3>1, Zenon
    <3>3. PICK p : p = [message |-> m, polls |-> TimeoutPolls, retries |-> MaxRetries]
      BY Zenon
    <3>4. p \in Entry(R) /\ p.message = m
      <4>1. m \in R
        BY <1>5, <2>1, <2>2, <2>6, Zenon DEF PhaseInv, Phase, Close, SentBy, RequestsBy
      <4> HIDE DEF R
      <4> QED BY <3>3, <4>1, Constants DEF Entry
    <3>5. Table
      <4>1. \A i \in DOMAIN pending'[n] : \/ i = m.id /\ pending'[n][i] = p
                                          \/ i \in DOMAIN pending[n] /\ pending'[n][i] = pending[n][i]
        BY <3>2, <3>3, Zenon DEF Tracked
      <4> HIDE DEF R
      <4> QED BY <1>1, <3>4, <4>1, Zenon DEF TableOK
    <3> QED BY <1>1, <1>2, <2>3, <2>4, <3>2, <3>5, Zenon
  <2> QED BY <2>5, <2>6, Zenon
<1>6. CASE HandleAck(n)
  BY <1>6, <1>1, HeadTail, <1>2, Zenon DEF HandleAck, Completed, TableOK
<1>7. ASSUME NEW m \in SentBy(L, n), Post(n, m), UNCHANGED pending,
             OthersSame, inbox' = [k \in Nodes |-> inbox'[k]], outbox' = [k \in Nodes |-> outbox'[k]],
             inbox'[n] \in Seq(SentTo(L, n)), outbox'[n] \in Seq(R)
      PROVE  Carried(L)'
  <2>1. /\ files' = Created(files, m, seq[n] + 1) /\ opened' = [opened EXCEPT ![n] = m]
        /\ seq' = [seq EXCEPT ![n] = seq[n] + 1]
    BY <1>7, Zenon DEF Post
  <2>2. m \in L /\ seq[n] + 1 \in Nat
    BY <1>1 DEF SentBy
  <2>3. opened' = [k \in Nodes |-> opened'[k]] /\ opened'[n] = m
    BY <1>1, <2>1, Zenon
  <2> QED BY <1>1, <1>2, <1>7, <2>1, <2>2, <2>3, CreatedOK
<1>8. ASSUME PostFails(n), UNCHANGED pending,
             OthersSame, inbox' = [k \in Nodes |-> inbox'[k]], outbox' = [k \in Nodes |-> outbox'[k]],
             inbox'[n] \in Seq(SentTo(L, n)), outbox'[n] \in Seq(R)
      PROVE  Carried(L)'
  <2>1. UNCHANGED <<files, opened>> /\ seq' \in [Nodes -> Nat]
    BY <1>1, <1>8 DEF PostFails
  <2> QED BY <1>1, <1>2, <1>8, <2>1, Zenon
<1>9. CASE HandleRequest(n)
  <2>1. UNCHANGED <<pending, outbox>> /\ inbox[n] # <<>>
    BY <1>9, Zenon DEF HandleRequest
  <2>2. CASE Post(n, AckFor(n, Head(inbox[n]))) /\ inbox' = [inbox EXCEPT ![n] = Tail(inbox[n])]
    <3>1. PICK m \in SentBy(L, n) : Post(n, m)
      BY <1>9, <2>2, Zenon
    <3>2. /\ OthersSame /\ inbox' = [k \in Nodes |-> inbox'[k]] /\ outbox' = [k \in Nodes |-> outbox'[k]]
          /\ inbox'[n] \in Seq(SentTo(L, n)) /\ outbox'[n] \in Seq(R)
      BY <1>1, <2>1, <2>2, <3>1, HeadTail, Zenon DEF Post
    <3> HIDE DEF OthersSame, R
    <3> QED BY <1>7, <2>1, <3>1, <3>2, Zenon
  <2>3. CASE PostFails(n) /\ inbox' = [inbox EXCEPT ![n] = <<>>]
    <3>1. /\ OthersSame /\ inbox' = [k \in Nodes |-> inbox'[k]] /\ outbox' = [k \in Nodes |-> outbox'[k]]
          /\ inbox'[n] \in Seq(SentTo(L, n)) /\ outbox'[n] \in Seq(R)
      <4>1. <<>> \in Seq(SentTo(L, n)) /\ <<>> \in Seq(R) /\ UNCHANGED opened
        BY <2>3, NothingLeft, Zenon DEF PostFails
      <4> QED BY <1>1, <2>1, <2>3, <4>1, Zenon
    <3> HIDE DEF OthersSame, R
    <3> QED BY <1>8, <2>1, <2>3, <3>1, Zenon
  <2> QED BY <1>9, <2>2, <2>3, Zenon DEF HandleRequest
<1>10. CASE PostNext(n)
  <2>1. UNCHANGED <<pending, inbox>> /\ outbox[n] # <<>>
    BY <1>10, Zenon DEF PostNext
  <2>2. CASE Post(n, Head(outbox[n])) /\ outbox' = [outbox EXCEPT ![n] = Tail(outbox[n])]
    <3>1. Tail(outbox[n]) \in Seq(R) /\ Head(outbox[n]) \in R
      BY <1>1, <2>1, HeadTail, Zenon
    <3>2. PICK m \in SentBy(L, n) : Post(n, m)
      BY <2>2, <3>1, Zenon DEF RequestsBy, SentBy
    <3>3. /\ OthersSame /\ inbox' = [k \in Nodes |-> inbox'[k]] /\ outbox' = [k \in Nodes |-> outbox'[k]]
          /\ inbox'[n] \in Seq(SentTo(L, n)) /\ outbox'[n] \in Seq(R)
      BY <1>1, <2>1, <2>2, <3>1, <3>2, Zenon DEF Post
    <3> HIDE DEF OthersSame, R
    <3> QED BY <1>7, <2>1, <3>2, <3>3, Zenon
  <2>3. CASE PostFails(n) /\ outbox' = [outbox EXCEPT ![n] = <<>>]
    <3>1. /\ OthersSame /\ inbox' = [k \in Nodes |-> inbox'[k]] /\ outbox' = [k \in Nodes |-> outbox'[k]]
          /\ inbox'[n] \in Seq(SentTo(L, n)) /\ outbox'[n] \in Seq(R)
      <4>1. <<>> \in Seq(SentTo(L, n)) /\ <<>> \in Seq(R) /\ UNCHANGED opened
        BY <2>3, NothingLeft, Zenon DEF PostFails
      <4> QED BY <1>1, <2>1, <2>3, <4>1, Zenon
    <3> HIDE DEF OthersSame, R
    <3> QED BY <1>8, <2>1, <2>3, <3>1, Zenon
  <2> QED BY <1>10, <2>2, <2>3, Zenon DEF PostNext
<1>11. ASSUME NEW ids \in SUBSET DOMAIN pending[n], \A i \in ids : ~Expired(pending[n][i]),
              pending' = [pending EXCEPT ![n] = Advanced(pending[n], ids)]
       PROVE  /\ pending' = [k \in Nodes |-> pending'[k]] /\ Table
              /\ \A m \in Nodes \ {n} : pending'[m] = pending[m]
  <2>1. pending'[n] = Advanced(pending[n], ids)
    BY <1>1, <1>11, Zenon
  <2>2. ASSUME NEW i \in DOMAIN pending'[n]
        PROVE  pending'[n][i] \in Entry(R) /\ pending'[n][i].message.id = i
    <3>1. pending[n][i] \in Entry(R) /\ pending[n][i].message.id = i /\ i \in DOMAIN pending[n]
      BY <1>1, <2>1, Zenon DEF TableOK, Advanced
    <3>2. i \in ids => ~Expired(pending[n][i])
      BY <1>11, Zenon
    <3>3. PICK acks : acks = pending[n]
      BY Zenon
    <3> HIDE DEF R
    <3>4. i \in DOMAIN acks /\ acks[i] \in Entry(R) /\ (i \in ids => ~Expired(acks[i]))
      BY ONLY <3>1, <3>2, <3>3, Zenon
    <3>5. Advanced(acks, ids)[i] \in Entry(R) /\ Advanced(acks, ids)[i].message = acks[i].message
      BY ONLY <3>4, AdvancedEntry
    <3> QED BY ONLY <2>1, <3>1, <3>3, <3>5, Zenon
  <2> QED BY <1>1, <1>11, <2>2, Zenon DEF TableOK
<1>12. CASE TimeOut(n)
  <2>1. PICK visited \in SUBSET DOMAIN pending[n] :
          /\ \A i \in visited : ~Expired(pending[n][i])
          /\ pending' = [pending EXCEPT ![n] = Advanced(pending[n], visited)]
    BY <1>12, Zenon DEF TimeOut
  <2>2. UNCHANGED <<files, seq, inbox, outbox, opened>>
    BY <1>12, Zenon DEF TimeOut
  <2> QED BY <1>1, <1>2, <1>11, <2>1, <2>2, Zenon
<1>13. CASE AdvanceTimeouts(n)
  <2>1. PICK ids : ids = DOMAIN pending[n]
    BY Zenon
  <2>2. /\ pending' = [pending EXCEPT ![n] = Advanced(pending[n], ids)]
        /\ \A i \in ids : ~Expired(pending[n][i])
        /\ UNCHANGED <<files, seq, inbox, opened>>
    BY <1>13, <2>1, Zenon DEF AdvanceTimeouts
  <2>3. PICK due : due = {i \in DOMAIN pending[n] : pending[n][i].polls = 0}
    BY Zenon
  <2>4. PICK retries \in Injection(1 .. Cardinality(due), due) :
          outbox' = [outbox EXCEPT ![n] = [k \in DOMAIN retries |-> pending[n][retries[k]].message]]
    BY <1>13, <2>3, Zenon DEF AdvanceTimeouts
  <2>5. [k \in DOMAIN retries |-> pending[n][retries[k]].message] \in Seq(R)
    <3>1. retries \in [1 .. Cardinality(due) -> due]
      BY <2>4, Zenon DEF Injection
    <3>2. \A k \in DOMAIN retries : pending[n][retries[k]].message \in R
      BY <1>1, <2>3, <3>1, Zenon DEF Entry, TableOK
    <3>3. Cardinality(due) \in Nat
      BY <2>3, Constants, CountUpTo, FS_CardinalityType, Zenon DEF ClockInv, Ids
    <3> HIDE DEF R
    <3>4. PICK c \in Nat : c = Cardinality(due)
      BY <3>3, Zenon
    <3> QED BY <3>1, <3>2, <3>4
  <2> QED BY <1>1, <1>2, <1>11, <2>1, <2>2, <2>4, <2>5, Zenon
<1>14. ASSUME NEW mode \in Modes, WriteRemote(n, mode) PROVE Carried(L)'
  BY <1>14, <1>1, <1>2, Zenon DEF WriteRemote
<1>15. CASE Restart(n)
  <2>1. /\ UNCHANGED <<files, inbox, outbox, opened>> /\ pending' = [pending EXCEPT ![n] = <<>>]
        /\ seq' = [seq EXCEPT ![n] = 0]
    BY <1>15, Zenon DEF Restart
  <2>2. Table
    BY <1>1, <2>1 DEF TableOK
  <2> QED BY <1>1, <1>2, <2>1, <2>2, Zenon
<1>16. CASE FinishRead(n) \/ WriteAtHome(n) \/ FinishWrite(n) \/ FlushFails(n) \/ FinishFence(n)
  BY <1>16, <1>1, <1>2, Zenon DEF FinishRead, WriteAtHome, FinishWrite, FlushFails, FinishFence
<1> QED BY <1>4, <1>5, <1>6, <1>9, <1>10, <1>12, <1>13, <1>14, <1>15, <1>16, Zenon DEF Step, CallStep

-----------------------------------------------------------------------------
(* The number of versions made. *)

\* A step of one node leaves the calls of the others alone; it counts a write
\* when it begins one.
LEMMA CallsOfOthers ==
  ASSUME IdInv, NEW n \in Nodes, Step(n)
  PROVE  /\ \A m \in Nodes \ {n} : call'[m] = call[m]
         /\ \/ writes' = writes /\ (BeforeRequest(n)' => BeforeRequest(n))
            \/ writes' = writes + 1 /\ ~BeforeRequest(n) /\ BeforeRequest(n)'
<1>1. call \in [Nodes -> Calls]
  BY Zenon DEF IdInv
<1>2. CASE BeginCall(n)
  BY <1>2, <1>1 DEF BeginCall, Drain, BeforeRequest, Idle
<1>3. ASSUME call' = [call EXCEPT ![n] = Idle], writes' = writes
      PROVE  (\A m \in Nodes \ {n} : call'[m] = call[m]) /\ ~BeforeRequest(n)'
  BY <1>1, <1>3, Zenon DEF BeforeRequest, Idle
<1>4. CASE TimeOut(n) \/ FinishRead(n) \/ WriteAtHome(n) \/ FinishWrite(n) \/ FlushFails(n) \/ FinishFence(n)
  BY <1>3, <1>4, Zenon DEF TimeOut, FinishRead, WriteAtHome, FinishWrite, FlushFails, FinishFence, Return
<1>5. CASE Close(n) \/ HandleAck(n) \/ Restart(n)
  BY <1>5, Zenon DEF Close, HandleAck, Restart, BeforeRequest
<1>6. CASE HandleRequest(n) \/ PostNext(n)
  BY <1>3, <1>6, Zenon DEF BeforeRequest, HandleRequest, PostNext, Post, PostFails, Return
<1>7. CASE AdvanceTimeouts(n)
  BY <1>7, <1>1 DEF AdvanceTimeouts, InStep, BeforeRequest, Calls, Idle
<1>8. ASSUME NEW mode \in Modes, WriteRemote(n, mode)
      PROVE  /\ writes' = writes /\ call' = [call EXCEPT ![n].step = "request"]
             /\ call[n].op = "lm_write" /\ call[n].step = "retry"
  BY <1>8, Zenon DEF WriteRemote, ControlDone, InStep
<1>9. ASSUME NEW mode \in Modes, WriteRemote(n, mode)
      PROVE  writes' = writes /\ (\A m \in Nodes \ {n} : call'[m] = call[m]) /\ BeforeRequest(n)
  BY <1>1, <1>8, <1>9, Zenon DEF BeforeRequest
<1>10. CASE DrainAgain(n)
  BY <1>1, <1>10, Zenon DEF BeforeRequest, DrainAgain, Drain
<1> QED BY <1>2, <1>4, <1>5, <1>6, <1>7, <1>9, <1>10, Zenon DEF Step, CallStep

\* There are finitely many node ids.
LEMMA NodesFinite == IsFiniteSet(Nodes)
<1>1. PICK b \in Int : b = NoNode - 1
  BY DEF NoNode
<1>2. IsFiniteSet(0 .. b)
  BY FS_Interval
<1> QED BY <1>1, <1>2, ControlAssumption, FS_Subset, Zenon

\* A write makes at most one version: the versions made only grow, and they grow
\* when a write gets past the point where it changes its metadata.
LEMMA MadeGrows ==
  ASSUME IdInv, IdInv', Made \in Nat, NEW n \in Nodes, Step(n)
  PROVE  /\ Made' \in Nat /\ Made <= Made' /\ Made' <= MaxWrites
         /\ BeforeRequest(n) /\ ~BeforeRequest(n)' => Made' = Made + 1
<1>1. PICK U : U = {m \in Nodes : BeforeRequest(m)}
  BY Zenon
<1>2. PICK V : V = {m \in Nodes : BeforeRequest(m)'}
  BY Zenon
<1>3. /\ \A m \in Nodes \ {n} : BeforeRequest(m)' <=> BeforeRequest(m)
      /\ \/ writes' = writes /\ (BeforeRequest(n)' => BeforeRequest(n))
         \/ writes' = writes + 1 /\ ~BeforeRequest(n) /\ BeforeRequest(n)'
  BY CallsOfOthers, Zenon DEF BeforeRequest
<1>4. IsFiniteSet(U) /\ IsFiniteSet(V)
  BY <1>1, <1>2, NodesFinite, FS_Subset, Zenon
<1>5. PICK u \in Nat : u = Cardinality(U)
  BY <1>4, FS_CardinalityType, Zenon
<1>6. PICK v \in Nat : v = Cardinality(V)
  BY <1>4, FS_CardinalityType, Zenon
<1>7. Made = writes - u /\ Made' = writes' - v
  BY <1>1, <1>2, <1>5, <1>6, Zenon DEF Made
<1>8. writes \in Nat /\ writes' \in Nat /\ writes' <= MaxWrites /\ MaxWrites \in Nat
  BY Constants DEF IdInv
<1>9. CASE BeforeRequest(n)' /\ ~BeforeRequest(n)
  <2>1. writes' = writes + 1
    BY <1>3, <1>9, Zenon
  <2> QED BY <1>1, <1>2, <1>3, <1>4, <1>5, <1>6, <1>7, <1>8, <1>9, <2>1, CountOneMore
<1>10. CASE BeforeRequest(n) /\ ~BeforeRequest(n)'
  <2>1. U = V \cup {n} /\ n \notin V
    BY <1>1, <1>2, <1>3, <1>10, Zenon
  <2>2. writes' = writes
    BY <1>3, <1>10, Zenon
  <2> QED BY <1>4, <1>5, <1>6, <1>7, <1>8, <2>1, <2>2, CountOneMore
<1>11. CASE BeforeRequest(n)' <=> BeforeRequest(n)
  <2>1. U = V
    BY <1>1, <1>2, <1>3, <1>11, Zenon
  <2> QED BY <1>3, <1>5, <1>6, <1>7, <1>8, <1>11, <2>1
<1> QED BY <1>9, <1>10, <1>11, Zenon

\* More versions, more messages and metadata.
LEMMA UpTo ==
  ASSUME NEW v \in Nat, NEW w \in Nat, v <= w
  PROVE  Sendable(v) \subseteq Sendable(w) /\ MetaUpTo(v) \subseteq MetaUpTo(w)
BY DEF Sendable, MetaUpTo

\* A write that changes its metadata makes a version.
LEMMA WriteMakes ==
  ASSUME IdInv, IdInv', Made \in Nat, NEW n \in Nodes,
         WriteAtHome(n) \/ \E mode \in Modes : WriteRemote(n, mode)
  PROVE  Made' = Made + 1
<1>1. call' = [call EXCEPT ![n] = Idle] \/ call' = [call EXCEPT ![n].step = "request"]
  BY Zenon DEF WriteAtHome, WriteRemote, Return
<1>2. ~BeforeRequest(n)'
  BY <1>1 DEF IdInv, BeforeRequest, Idle, Calls
<1> QED
  BY <1>2, MadeGrows, Zenon DEF WriteAtHome, WriteRemote, ControlDone, InStep, BeforeRequest, Step, CallStep

-----------------------------------------------------------------------------
(* Messages that can be sent. *)

\* What a message of Sendable is.
LEMMA SendableFields ==
  ASSUME NEW v, NEW m \in Sendable(v)
  PROVE  /\ DOMAIN m = {"op", "source", "target", "id", "version"}
         /\ m.op \in Requests \cup Acks /\ m.source \in Nodes /\ m.target \in Nodes /\ m.id \in Ids
         /\ m.version \in 0 .. v
         /\ m.op \in Requests => m.target = Home
         /\ m # NoMessage
BY DEF Sendable, Requests, Acks, NoMessage, Empty

\* How to establish it.
LEMMA SendableIntro ==
  ASSUME NEW v, NEW op \in Requests \cup Acks, NEW s \in Nodes, NEW t \in Nodes, NEW i \in Ids,
         NEW w \in 0 .. v, op \in Requests => t = Home
  PROVE  [op |-> op, source |-> s, target |-> t, id |-> i, version |-> w] \in Sendable(v)
BY Zenon DEF Sendable

\* An ack for a request carries its id and version back to its source.
LEMMA AckSendable ==
  ASSUME NEW v, NEW m \in Sendable(v), NEW n \in Nodes, m.op \in Requests
  PROVE  /\ AckFor(n, m) \in Sendable(v)
         /\ AckFor(n, m).op \in Acks /\ AckFor(n, m).source = n
         /\ AckFor(n, m).target = m.source /\ AckFor(n, m).id = m.id
<1>1. PICK op : op = IF m.op = "InvalidateRange" THEN "InvalidateAck" ELSE "OwnerTransferAck"
  BY Zenon
<1>2. /\ m.source \in Nodes /\ m.id \in Ids /\ m.version \in 0 .. v
      /\ m = [op |-> m.op, source |-> m.source, target |-> m.target, id |-> m.id, version |-> m.version]
  BY Zenon DEF Sendable
<1>3. AckFor(n, m) = [op |-> op, source |-> n, target |-> m.source, id |-> m.id, version |-> m.version]
  <2>1. AckFor(n, m) = [m EXCEPT !.op = op, !.source = n, !.target = m.source]
    BY <1>1, Zenon DEF AckFor
  <2> QED BY <1>2, <2>1, Zenon
<1> QED BY <1>1, <1>2, <1>3, SendableIntro DEF Acks, Requests

\* What PrepareMetadata leaves: a version more only for a write at the home.
LEMMA PreparedMeta ==
  ASSUME NEW v \in Nat, NEW m \in MetaUpTo(v), NEW n \in Nodes, NEW isWrite \in BOOLEAN
  PROVE  /\ Prepared(n, m, isWrite) \in MetaUpTo(v + 1)
         /\ ~isWrite \/ n # Home => Prepared(n, m, isWrite) \in MetaUpTo(v)
<1>1. /\ m.version \in 0 .. v /\ m.validated \in 0 .. v /\ m.epoch \in 0 .. v
      /\ m.owner \in Nodes \cup {NoNode} /\ m.state \in {"Home", "Shared", "Owner", "Invalid"}
      /\ m = [version |-> m.version, validated |-> m.validated, epoch |-> m.epoch,
              owner |-> m.owner, state |-> m.state]
  BY Zenon DEF MetaUpTo
<1>2. PICK w : w = IF isWrite THEN m.version + 1 ELSE m.version
  BY Zenon
<1>3. w \in 0 .. (v + 1) /\ (~isWrite => w \in 0 .. v) /\ 0 .. v \subseteq 0 .. (v + 1)
  BY <1>1, <1>2
<1>4. CASE n = Home
  BY <1>1, <1>2, <1>4, <1>3, Zenon DEF Prepared, MetaUpTo
<1>5. CASE n # Home
  BY <1>1, ControlAssumption, <1>5, <1>3, Zenon DEF Prepared, MetaUpTo
<1> QED BY <1>4, <1>5, Zenon

\* ApplyWriteMetadata makes one version.
LEMMA AppliedMeta ==
  ASSUME NEW v \in Nat, NEW m \in MetaUpTo(v), NEW n \in Nodes, NEW mode \in Modes
  PROVE  /\ ApplyWriteMetadata(n, m, mode) \in MetaUpTo(v + 1)
         /\ ApplyWriteMetadata(n, m, mode).version = m.version + 1
<1>1. /\ m.version \in 0 .. v /\ m.validated \in 0 .. v /\ m.epoch \in 0 .. v
      /\ m.owner \in Nodes \cup {NoNode} /\ m.state \in {"Home", "Shared", "Owner", "Invalid"}
      /\ m = [version |-> m.version, validated |-> m.validated, epoch |-> m.epoch,
              owner |-> m.owner, state |-> m.state]
  BY Zenon DEF MetaUpTo
<1>2. PICK w \in 0 .. (v + 1) : w = m.version + 1
  BY <1>1
<1>3. PICK e \in 0 .. (v + 1) : e = m.epoch + 1
  BY <1>1
<1>4. 0 .. v \subseteq 0 .. (v + 1) /\ Home \in Nodes
  BY ControlAssumption
<1>5. CASE mode = "WI"
  BY <1>1, <1>2, <1>5, <1>4, Zenon DEF ApplyWriteMetadata, MetaUpTo
<1>6. CASE mode = "Adaptive"
  BY <1>1, <1>2, <1>3, <1>6, <1>4, Zenon DEF ApplyWriteMetadata, MetaUpTo
<1>7. CASE mode = "SI"
  BY <1>1, <1>2, <1>7, <1>4, Zenon DEF ApplyWriteMetadata, MetaUpTo
<1> QED BY <1>5, <1>6, <1>7, Zenon DEF Modes

\* What lm_write posts carries the version it made.
LEMMA WriteRequestSent ==
  ASSUME IdInv, NEW v \in Nat, meta \in [Nodes -> MetaUpTo(v)], NEW n \in Nodes, NEW mode \in Modes,
         WriteRemote(n, mode)
  PROVE  outbox'[n] \in Seq(RequestsBy(Sendable(v + 1), n)) \/ n \notin DOMAIN outbox
<1>1. PICK b : b = Prepared(n, meta[n], TRUE)
  BY Zenon
<1>2. PICK a : a = ApplyWriteMetadata(n, b, mode)
  BY Zenon
<1>3. PICK out : out = WriteRequest(n, b, a, mode)
  BY Zenon
<1>4. outbox' = [outbox EXCEPT ![n] = out] /\ n # Home /\ BeforeRequest(n)
  BY <1>1, <1>2, <1>3, Zenon DEF WriteRemote, ControlDone, InStep, BeforeRequest
<1>5. nextId[n] \in Ids
  BY Constants, <1>4 DEF IdInv, Ids
<1>6. \/ out = <<>>
      \/ \E op \in Requests :
           out = <<[op |-> op, source |-> n, target |-> Home, id |-> nextId[n], version |-> a.version]>>
  BY <1>3, Zenon DEF WriteRequest, Requests, Modes
<1>7. ASSUME NEW op \in Requests
      PROVE  [op |-> op, source |-> n, target |-> Home, id |-> nextId[n], version |-> a.version]
               \in RequestsBy(Sendable(v + 1), n)
  BY <1>1, <1>2, <1>4, <1>5, AppliedMeta, ControlAssumption, PreparedMeta, SendableIntro, Zenon DEF
     RequestsBy, MetaUpTo
<1>8. out \in Seq(RequestsBy(Sendable(v + 1), n))
  <2>1. CASE out = <<>>
    BY <2>1
  <2>2. ASSUME NEW m \in RequestsBy(Sendable(v + 1), n), out = <<m>>
        PROVE  out \in Seq(RequestsBy(Sendable(v + 1), n))
    BY <2>2
  <2> QED BY <1>6, <1>7, <2>1, <2>2, Zenon
<1> QED BY <1>4, <1>8, Zenon

-----------------------------------------------------------------------------
(* What a step does to acks. *)

\* Every step but a restart keeps the acks under way truthful.
LEMMA TruthKept ==
  ASSUME ControlInv, ControlInv', Carried(Truthful(Made, hist)), NEW n \in Nodes, Step(n), ~Restart(n)
  PROVE  Carried(Truthful(Made, hist))'
<1>1. IdInv /\ IdInv' /\ ClockInv /\ PhaseInv /\ MailInv /\ MetaInv
  BY Zenon DEF ControlInv
<1>2. PICK v \in Nat : v = Made
  BY <1>1, Zenon DEF MailInv
<1>3. PICK w \in Nat : w = Made' /\ v <= w
  BY <1>1, <1>2, MadeGrows, Zenon DEF MailInv
<1>4. PICK K : K = Truthful(v, hist)
  BY Zenon
<1>5. PICK L : L = Truthful(w, hist')
  BY Zenon
<1>6. Carried(K)
  BY <1>2, <1>4, Zenon
<1>7. K \subseteq L
  BY <1>2, <1>3, <1>4, UpTo, SendableFields, HistSteps, <1>5 DEF Truthful
<1>8. Carried(L)
  BY <1>6, <1>7, CarriedMono, Zenon
<1>9. L \subseteq Sendable(w)
  BY <1>5, Zenon DEF Truthful
<1>10. \A m \in L : m # NoMessage /\ m.source \in Nodes /\ m.target \in Nodes
  BY <1>9, SendableFields, Zenon
<1>11. HandleRequest(n) => AckFor(n, Head(inbox[n])) \in SentBy(L, n)
  <2>1. SUFFICES ASSUME HandleRequest(n) PROVE AckFor(n, Head(inbox[n])) \in SentBy(L, n)
    BY Zenon
  <2>2. PICK m : m = Head(inbox[n])
    BY Zenon
  <2>3. /\ inbox[n] \in Seq(SentTo(L, n)) /\ inbox[n] # <<>> /\ m.op \in Requests
        /\ hist' = [hist EXCEPT ![m.source][m.id].handled = @ + 1]
    BY <1>8, <2>1, <2>2, Zenon DEF Carried, HandleRequest
  <2>4. m \in Sendable(w)
    BY <1>9, <2>2, <2>3, HeadTail, Zenon DEF SentTo
  <2>5. PICK a : a = AckFor(n, m)
    BY Zenon
  <2>6. a \in Sendable(w) /\ a.source = n /\ a.target = m.source /\ a.id = m.id
    BY <2>3, <2>4, <2>5, AckSendable, Zenon
  <2>7. hist'[m.source][m.id].handled > 0
    <3>1. PICK s, i : s = m.source /\ i = m.id
      BY Zenon
    <3>2. hist' = [hist EXCEPT ![s][i].handled = @ + 1]
      BY <2>3, <3>1, Zenon
    <3>3. hist \in HistType
      BY <1>1, Zenon DEF ClockInv
    <3>4. HandledOnce(hist, hist', s, i)
      BY ONLY <3>2, <3>3, HandledCounts, Zenon
    <3>5. s \in Nodes /\ i \in Ids
      BY <2>4, <3>1, SendableFields, Zenon
    <3>6. hist'[s][i].handled = hist[s][i].handled + (IF s = s /\ i = i THEN 1 ELSE 0)
      BY ONLY <3>4, <3>5, Zenon DEF HandledOnce
    <3>7. hist[s][i].handled \in Nat
      BY ONLY <3>3, <3>5, Zenon DEF HistType
    <3> QED BY ONLY <3>1, <3>6, <3>7
  <2> QED BY <1>5, <2>2, <2>5, <2>6, <2>7, Zenon DEF SentBy, Truthful
<1>12. ASSUME NEW mode \in Modes, WriteRemote(n, mode) PROVE outbox'[n] \in Seq(RequestsBy(L, n))
  <2>1. meta \in [Nodes -> MetaUpTo(v)]
    BY <1>1, <1>2, Zenon DEF MetaInv
  <2>2. outbox'[n] \in Seq(RequestsBy(Sendable(w), n))
    BY <1>1, <1>2, <1>3, <1>6, <1>12, <2>1, WriteMakes, WriteRequestSent, Zenon DEF Carried
  <2> QED BY <1>5, <2>2, Zenon DEF RequestsBy, Truthful, Requests, Acks
<1>13. Carried(L)'
  BY <1>1, <1>8, <1>10, <1>11, <1>12, CarriedKept, Zenon
<1>14. L = Truthful(Made', hist')
  BY <1>3, <1>5, Zenon
<1> QED BY <1>13, <1>14, Zenon DEF Carried

\* Every step but a restart keeps every request that was posted awaited,
\* about to be tracked, or handled.
LEMMA AckKept ==
  ASSUME ControlInv, ControlInv', BudgetInv, AckInv, NEW n \in Nodes, Step(n), ~Restart(n)
  PROVE  AckInv'
<1>1. IdInv /\ ClockInv /\ PhaseInv
  BY Zenon DEF ControlInv
<1>2. PICK K : K = Truthful(Made, hist)
  BY Zenon
<1>3. Carried(K)
  BY <1>2, Zenon DEF AckInv
<1>4. /\ call = [m \in Nodes |-> call[m]] /\ opened = [m \in Nodes |-> opened[m]]
      /\ pending = [m \in Nodes |-> pending[m]] /\ nextId = [m \in Nodes |-> nextId[m]]
      /\ call[n] \in Calls
      /\ inbox[n] \in Seq(SentTo(K, n))
      /\ Phase(call[n], inbox[n], outbox[n], opened[n], nextId[n])
      /\ Budget(call[n], outbox[n], opened[n], pending[n], nextId[n], hist[n])
      /\ Awaited(call[n], opened[n], pending[n], nextId[n], hist[n])
  BY <1>1, <1>3, Zenon DEF IdInv, ClockInv, PhaseInv, BudgetInv, AckInv, Carried
<1>5. ASSUME NEW m \in Nodes \ {n}, call'[m] = call[m], opened'[m] = opened[m], pending'[m] = pending[m],
             nextId'[m] = nextId[m]
      PROVE  Awaited(call'[m], opened'[m], pending'[m], nextId'[m], hist'[m])
  <2>1. Awaited(call[m], opened[m], pending[m], nextId[m], hist[m])
    BY Zenon DEF AckInv
  <2>2. \A i \in Ids : /\ hist'[m][i].posts = hist[m][i].posts
                      /\ hist[m][i].handled \in Nat /\ hist'[m][i].handled \in Nat
                      /\ hist'[m][i].handled >= hist[m][i].handled
    BY HistSteps, Zenon
  <2> QED BY ONLY <1>5, <2>1, <2>2 DEF Awaited
<1>6. ASSUME NEW c, NEW open, NEW acks, NEW id, Awaited(c, open, acks, id, hist'[n]),
             call' = [call EXCEPT ![n] = c], opened' = [opened EXCEPT ![n] = open],
             pending' = [pending EXCEPT ![n] = acks], nextId' = [nextId EXCEPT ![n] = id]
      PROVE  AckInv'
  <2>1. \A m \in Nodes : Awaited(call'[m], opened'[m], pending'[m], nextId'[m], hist'[m])
    BY <1>4, <1>5, <1>6, Zenon
  <2> QED BY <2>1, TruthKept, Zenon DEF AckInv
<1>7. /\ call = [call EXCEPT ![n] = call[n]] /\ opened = [opened EXCEPT ![n] = opened[n]]
      /\ pending = [pending EXCEPT ![n] = pending[n]] /\ nextId = [nextId EXCEPT ![n] = nextId[n]]
  BY <1>4, Zenon
<1>8. ASSUME ~PostNext(n), NEW i \in Ids
      PROVE  hist'[n][i].posts = hist[n][i].posts /\ (hist[n][i].handled > 0 => hist'[n][i].handled > 0)
  BY <1>8, HistSteps
<1>9. ASSUME NEW c, NEW open, NEW acks, NEW id, ~PostNext(n),
             opened[n] = NoMessage \/ call[n].step # "request",
             DOMAIN acks = DOMAIN pending[n]
      PROVE  Awaited(c, open, acks, id, hist'[n])
  BY <1>4, <1>8, <1>9, Zenon DEF Awaited
<1>10. CASE BeginCall(n) \/ DrainAgain(n)
  <2>1. PICK op : call' = [call EXCEPT ![n] = [op |-> op, step |-> "handle"]]
    BY <1>10, Zenon DEF BeginCall, DrainAgain, Drain
  <2>2. UNCHANGED <<nextId, pending, opened>> /\ call[n].step # "request" /\ ~PostNext(n)
    <3>1. UNCHANGED <<nextId, pending, opened, outbox>>
      BY <1>10, Zenon DEF BeginCall, DrainAgain
    <3>2. call[n] = Idle \/ (call[n].step = "retry" /\ outbox[n] = <<>>)
      BY <1>10, Zenon DEF BeginCall, DrainAgain, ControlDone, InStep
    <3>3. Idle.step = "idle"
      BY Zenon DEF Idle
    <3> QED BY <3>1, <3>2, <3>3, Zenon DEF PostNext, InStep
  <2>3. PICK c : c = [op |-> op, step |-> "handle"]
    BY Zenon
  <2>4. Awaited(c, opened[n], pending[n], nextId[n], hist'[n])
    BY <1>9, <2>2, Zenon
  <2>5. /\ call' = [call EXCEPT ![n] = c] /\ opened' = [opened EXCEPT ![n] = opened[n]]
        /\ pending' = [pending EXCEPT ![n] = pending[n]] /\ nextId' = [nextId EXCEPT ![n] = nextId[n]]
    BY <1>7, <2>1, <2>2, <2>3, Zenon
  <2> QED BY ONLY <1>6, <2>4, <2>5, Zenon
<1>11. CASE FinishRead(n) \/ WriteAtHome(n) \/ FinishWrite(n) \/ FlushFails(n) \/ FinishFence(n)
  <2>1. /\ call' = [call EXCEPT ![n] = Idle] /\ UNCHANGED <<nextId, pending, opened>>
        /\ opened[n] = NoMessage /\ ~PostNext(n)
    BY <1>11, Zenon DEF FinishRead, WriteAtHome, FinishWrite, FlushFails, FinishFence, Return, ControlDone, InStep, PostNext
  <2> QED BY <1>6, <1>7, <1>9, <2>1, Zenon
<1>12. CASE HandleRequest(n)
  <2>1. UNCHANGED <<nextId, pending>> /\ opened[n] = NoMessage /\ ~PostNext(n)
    BY <1>12, Zenon DEF HandleRequest, InStep, PostNext
  <2>2. PICK c, open : call' = [call EXCEPT ![n] = c] /\ opened' = [opened EXCEPT ![n] = open]
    <3>1. CASE Post(n, AckFor(n, Head(inbox[n])))
      BY <1>7, <3>1, Zenon DEF Post
    <3>2. CASE PostFails(n)
      BY <1>7, <3>2, Zenon DEF PostFails, Return
    <3> QED BY <1>12, <3>1, <3>2, Zenon DEF HandleRequest
  <2>3. Awaited(c, open, pending[n], nextId[n], hist'[n])
    BY <1>9, <2>1, Zenon
  <2> QED BY <1>6, <1>7, <2>1, <2>2, <2>3, Zenon
<1>13. CASE HandleAck(n)
  <2>1. PICK m : m = Head(inbox[n])
    BY Zenon
  <2>2. /\ inbox[n] # <<>> /\ m.op \in Acks
        /\ pending' = [pending EXCEPT ![n] = Completed(pending[n], m.id)]
        /\ UNCHANGED <<nextId, call, opened, hist>> /\ call[n].step = "handle"
    BY <1>13, <2>1, Zenon DEF HandleAck, InStep
  <2>3. PICK acks : acks = Completed(pending[n], m.id)
    BY Zenon
  <2>4. DOMAIN acks = DOMAIN pending[n] \ {m.id}
    BY <2>3, Zenon DEF Completed
  <2>5. Awaited(call[n], opened[n], acks, nextId[n], hist'[n])
    BY <1>2, <1>4, <2>1, <2>2, <2>4, HeadTail DEF Awaited, SentTo, Truthful
  <2> QED BY <1>6, <1>7, <2>2, <2>3, <2>5, Zenon
<1>14. CASE TimeOut(n) \/ AdvanceTimeouts(n)
  <2>1. PICK acks, ids : pending' = [pending EXCEPT ![n] = acks] /\ acks = Advanced(pending[n], ids)
    BY <1>14, Zenon DEF TimeOut, AdvanceTimeouts
  <2>2. UNCHANGED <<nextId, opened>> /\ opened[n] = NoMessage /\ ~PostNext(n)
    BY <1>14, Zenon DEF TimeOut, AdvanceTimeouts, InStep, PostNext
  <2>3. PICK c : call' = [call EXCEPT ![n] = c]
    BY <1>14, Zenon DEF TimeOut, AdvanceTimeouts, Return
  <2>4. DOMAIN acks = DOMAIN pending[n]
    BY <2>1, Zenon DEF Advanced
  <2> QED BY <1>6, <1>7, <1>9, <2>1, <2>2, <2>3, <2>4, Zenon
<1>15. CASE Close(n)
  <2>1. /\ opened[n] # NoMessage /\ opened' = [opened EXCEPT ![n] = NoMessage]
        /\ UNCHANGED <<nextId, call, hist>>
        /\ pending' = IF call[n].step = "request" THEN [pending EXCEPT ![n] = Tracked(pending[n], opened[n])]
                      ELSE pending
    BY <1>15, Zenon DEF Close
  <2>2. CASE call[n].step = "request"
    <3>1. PICK acks : acks = Tracked(pending[n], opened[n])
      BY Zenon
    <3>2. Awaited(call[n], NoMessage, acks, nextId[n], hist'[n])
      BY <1>4, <2>1, <2>2, <3>1, Zenon DEF Awaited, Tracked, Phase
    <3> QED BY <1>6, <1>7, <2>1, <2>2, <3>1, <3>2, Zenon
  <2>3. CASE call[n].step # "request"
    BY <1>4, <2>1, <2>3, <1>6, <1>7, Zenon DEF Awaited
  <2> QED BY <2>2, <2>3, Zenon
<1>16. CASE PostNext(n)
  <2>1. /\ call[n].step \in {"retry", "request"} /\ opened[n] = NoMessage /\ outbox[n] # <<>>
        /\ UNCHANGED <<nextId, pending>>
    BY <1>16, Zenon DEF PostNext, InStep
  <2>2. CASE Post(n, Head(outbox[n])) /\ CountPost(n, Head(outbox[n]))
    <3>1. PICK m : m = Head(outbox[n])
      BY Zenon
    <3>2. opened' = [opened EXCEPT ![n] = m] /\ UNCHANGED call
          /\ hist' = [hist EXCEPT ![n][m.id].posts = @ + 1]
      BY <2>2, <3>1, Zenon DEF Post, CountPost
    <3>3. PICK b : b = m.id
      BY Zenon
    <3>4. ASSUME NEW i \in Ids
          PROVE  /\ hist'[n][i].handled = hist[n][i].handled
                 /\ i # b => hist'[n][i].posts = hist[n][i].posts
      <4>1. hist \in HistType /\ hist' = [hist EXCEPT ![n][b].posts = @ + 1]
        BY <1>1, <3>2, <3>3, Zenon DEF ClockInv
      <4>2. PostedOnce(hist, hist', n, b)
        BY ONLY <4>1, PostsCounts, Zenon
      <4>3. hist[n][i].posts \in Nat
        BY <3>4, HistSteps, Zenon
      <4> QED BY ONLY <3>4, <4>2, <4>3, SMTT(30) DEF PostedOnce
    <3>5. /\ outbox[n] = [k \in DOMAIN outbox[n] |-> outbox[n][k]]
          /\ 1 \in DOMAIN outbox[n] /\ m = outbox[n][1] /\ m # NoMessage
      <4>1. outbox[n] \in Seq(RequestsBy(K, n))
        BY <1>3, Zenon DEF Carried
      <4>2. m \in K
        BY <2>1, <3>1, <4>1, HeadTail, Zenon DEF RequestsBy
      <4>3. m # NoMessage
        BY <1>2, <4>2, SendableFields, Zenon DEF Truthful
      <4> QED BY <2>1, <3>1, <4>1, <4>3, FirstPlace, HeadTail, Zenon
    <3>6. CASE call[n].step = "retry"
      <4>1. b \in DOMAIN pending[n]
        BY <1>4, <3>3, <3>5, <3>6, Zenon DEF Budget
      <4>2. Awaited(call[n], m, pending[n], nextId[n], hist'[n])
        BY <1>4, <3>4, <3>6, <4>1, Zenon DEF Awaited
      <4> QED BY <1>6, <1>7, <2>1, <3>2, <4>2, Zenon
    <3>7. CASE call[n].step = "request"
      <4>1. b = nextId[n] - 1
        BY <1>4, <2>1, <3>3, <3>5, <3>7, Zenon DEF Phase
      <4>2. Awaited(call[n], m, pending[n], nextId[n], hist'[n])
        BY <1>4, <2>1, <3>4, <3>5, <3>7, <4>1, Zenon DEF Awaited
      <4> QED BY <1>6, <1>7, <2>1, <3>2, <4>2, Zenon
    <3> QED BY <2>1, <3>6, <3>7, Zenon
  <2>3. CASE PostFails(n) /\ UNCHANGED hist
    <3>1. Awaited(Idle, opened[n], pending[n], nextId[n], hist'[n])
      BY <1>4, <2>1, <2>3, Zenon DEF Awaited
    <3> QED BY <1>6, <1>7, <2>1, <2>3, <3>1, Zenon DEF PostFails, Return
  <2> QED BY <1>16, <2>2, <2>3, Zenon DEF PostNext
<1>17. ASSUME NEW mode \in Modes, WriteRemote(n, mode) PROVE AckInv'
  BY <1>17, <1>9, <1>6, <1>7, Zenon DEF WriteRemote, ControlDone, InStep, PostNext
<1> QED BY <1>10, <1>11, <1>12, <1>13, <1>14, <1>15, <1>16, <1>17, Zenon DEF Step, CallStep

=============================================================================
