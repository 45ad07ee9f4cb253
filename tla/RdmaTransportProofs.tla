------------------------ MODULE RdmaTransportProofs ------------------------
(***************************************************************************)
(* Proofs about the RDMA transport: the counter of outstanding requests    *)
(* covers what the card still has, so a call that succeeds leaves nothing  *)
(* behind.                                                                 *)
(***************************************************************************)
EXTENDS RdmaTransport, FiniteSetTheorems, WellFoundedInduction, TLAPS

\* The arithmetic and set solver has half a minute for each leaf.
USE SMTT(30)

\* The places of a node in Init and RegisterMemoryRegion.
Places(n) ==
  {Done, Failed, [step |-> "down", peer |-> 0], [step |-> "open", peer |-> 0]}
    \cup [step : {"write", "fill", "wait", "read"}, peer : Peers(n)]

\* The invariant of bring-up: a node never waits for itself, and its life counts
\* its own restarts only.
BootInv ==
  /\ files \subseteq [from : Nodes, to : Nodes, life : 0 .. Empty]
  /\ boot = [n \in Nodes |-> boot[n]] /\ \A n \in Nodes : boot[n] \in Places(n)
  /\ life \in [Nodes -> 0 .. MaxRestarts]
  /\ remote = [n \in Nodes |-> remote[n]]
  /\ \A n \in Nodes : /\ DOMAIN remote[n] \subseteq Peers(n)
                      /\ \A p \in DOMAIN remote[n] : remote[n][p] \in 0 .. MaxRestarts
  /\ restarts \in 0 .. MaxRestarts
  /\ \A n \in Nodes : life[n] <= restarts

\* The types of the requests.
DataType ==
  /\ flight \in [Nodes -> [Nodes -> Nat]]
  /\ broken \in [Nodes -> SUBSET Nodes]
  /\ cq \in [Nodes -> Seq(BOOLEAN)]
  /\ outstanding \in [Nodes -> Nat]
  /\ call \in [Nodes -> {Idle} \cup [op : {"Read", "Write", "BatchWrite", "Fence"}, left : Nat \ {0}]]
  /\ posts \in [Nodes -> 0 .. MaxPosts]
  /\ leftover \in [Nodes -> BOOLEAN] /\ lost \in [Nodes -> BOOLEAN]

\* The counter covers the requests of the node; a Fence, and every call of a node
\* without leftovers, waits for as many completions as the counter says.
Counted(n) ==
  /\ IsFiniteSet(Requests(n))
  /\ outstanding[n] >= InFlight(n) + Len(cq[n])
  /\ call[n] = Idle /\ ~leftover[n] => outstanding[n] = 0
  /\ call[n] # Idle /\ (call[n].op = "Fence" \/ ~leftover[n]) => call[n].left = outstanding[n]

\* The inductive invariant.
RdmaInv == BootInv /\ DataType /\ \A n \in Nodes : Counted(n)

-----------------------------------------------------------------------------
(* The requests in flight. *)

\* The requests of a row of the table of requests in flight.
RowRequests(row) == UNION {{p} \X (1 .. row[p]) : p \in Nodes}

-----------------------------------------------------------------------------
(* Numbers and finite sets. *)

\* A non-empty set of naturals has a least element.
LEMMA LeastNat ==
  ASSUME NEW S \in SUBSET Nat, S # {}
  PROVE  \E m \in S : \A n \in S : m <= n
<1>1. IsWellFoundedOn(OpToRel(<, Nat), Nat)
  BY NatLessThanWellFounded, Zenon
<1>2. PICK m \in S : \A n \in S : ~(<<n, m>> \in OpToRel(<, Nat))
  BY <1>1, WFMin, Zenon
<1>3. \A n \in S : ~(n < m)
  BY <1>2, Zenon DEF OpToRel
<1>. QED
  BY <1>3

\* The k numbers after a.
LEMMA CountInterval ==
  ASSUME NEW a \in Nat, NEW k \in Nat
  PROVE  IsFiniteSet((a + 1) .. (a + k)) /\ Cardinality((a + 1) .. (a + k)) = k
<1>1. PICK x \in Int : x = a + 1
  OBVIOUS
<1>2. PICK y \in Int : y = a + k
  OBVIOUS
<1>3. IsFiniteSet(x .. y) /\ Cardinality(x .. y) = IF x > y THEN 0 ELSE y - x + 1
  BY FS_Interval
<1>4. (IF x > y THEN 0 ELSE y - x + 1) = k
  BY <1>1, <1>2
<1>. QED BY <1>1, <1>2, <1>3, <1>4

\* The elements of disjoint sets are counted separately.
LEMMA CountApart ==
  ASSUME NEW S, IsFiniteSet(S), NEW T, IsFiniteSet(T), S \cap T = {}
  PROVE  /\ IsFiniteSet(S \cup T) /\ Cardinality(S) \in Nat /\ Cardinality(T) \in Nat
         /\ Cardinality(S \cup T) = Cardinality(S) + Cardinality(T)
<1>1. Cardinality(S \cap T) = 0
  BY FS_EmptySet
<1>2. Cardinality(S) \in Nat /\ Cardinality(T) \in Nat
  BY FS_CardinalityType
<1>3. /\ IsFiniteSet(S \cup T)
      /\ Cardinality(S \cup T) = Cardinality(S) + Cardinality(T) - Cardinality(S \cap T)
  BY FS_Union
<1>. QED
  BY <1>1, <1>2, <1>3

-----------------------------------------------------------------------------
\* k requests more in flight to p.
LEMMA RowGrows ==
  ASSUME NEW row \in [Nodes -> Nat], NEW new \in [Nodes -> Nat], NEW p \in Nodes, NEW k \in Nat,
         new[p] = row[p] + k, \A q \in Nodes \ {p} : new[q] = row[q], IsFiniteSet(RowRequests(row))
  PROVE  /\ IsFiniteSet(RowRequests(new)) /\ Cardinality(RowRequests(row)) \in Nat
         /\ Cardinality(RowRequests(new)) = Cardinality(RowRequests(row)) + k
<1>1. PICK f \in Nat : f = row[p]
  OBVIOUS
<1>2. PICK I : I = (f + 1) .. (f + k)
  OBVIOUS
<1>3. PICK T : T = {p} \X I
  BY Zenon
<1>4. 1 .. (f + k) = (1 .. f) \cup I /\ (1 .. f) \cap I = {}
  BY <1>1, <1>2
<1>5. \A q \in Nodes : {q} \X (1 .. new[q]) = ({q} \X (1 .. row[q])) \cup (IF q = p THEN T ELSE {})
  BY <1>1, <1>3, <1>4
<1>6. RowRequests(new) = RowRequests(row) \cup T
  BY <1>5 DEF RowRequests
<1>7. RowRequests(row) \cap T = {}
  <2>1. ASSUME NEW q \in Nodes PROVE ({q} \X (1 .. row[q])) \cap T = {}
    BY <1>1, <1>3, <1>4
  <2>. QED BY <2>1 DEF RowRequests
<1>8. IsFiniteSet(T) /\ Cardinality(T) = k
  <2>1. IsFiniteSet({p}) /\ Cardinality({p}) = 1
    BY FS_Singleton, Zenon
  <2>2. IsFiniteSet(I) /\ Cardinality(I) = k
    BY <1>2, CountInterval
  <2>3. IsFiniteSet({p} \X I) /\ Cardinality({p} \X I) = Cardinality({p}) * Cardinality(I)
    BY <2>1, <2>2, FS_Product
  <2>. QED BY <1>3, <2>1, <2>2, <2>3
<1>9. /\ IsFiniteSet(RowRequests(row) \cup T) /\ Cardinality(RowRequests(row)) \in Nat
      /\ Cardinality(RowRequests(row) \cup T) = Cardinality(RowRequests(row)) + Cardinality(T)
  BY <1>7, <1>8, CountApart
<1>. QED
  BY <1>6, <1>8, <1>9

\* One request to p less in flight.
LEMMA RowShrinks ==
  ASSUME NEW row \in [Nodes -> Nat], NEW new \in [Nodes -> Nat], NEW p \in Nodes,
         row[p] = new[p] + 1, \A q \in Nodes \ {p} : new[q] = row[q], IsFiniteSet(RowRequests(row))
  PROVE  /\ IsFiniteSet(RowRequests(new)) /\ Cardinality(RowRequests(new)) \in Nat
         /\ Cardinality(RowRequests(row)) = Cardinality(RowRequests(new)) + 1
<1>1. IsFiniteSet(RowRequests(new))
  <2>1. \A q \in Nodes : 1 .. new[q] \subseteq 1 .. row[q]
    OBVIOUS
  <2>2. RowRequests(new) \subseteq RowRequests(row)
    BY <2>1 DEF RowRequests
  <2>. QED BY <2>2, FS_Subset
<1>. QED
  BY <1>1, RowGrows

\* Nothing is in flight in an empty row.
LEMMA RowEmpty == IsFiniteSet(RowRequests(NoFlight)) /\ Cardinality(RowRequests(NoFlight)) = 0
<1>1. RowRequests(NoFlight) = {}
  <2>1. 1 .. 0 = {}
    OBVIOUS
  <2>. QED BY <2>1 DEF RowRequests, NoFlight
<1>. QED BY <1>1, FS_EmptySet

\* A node's requests are those of its row.
LEMMA RequestsOfRow ==
  ASSUME NEW n \in Nodes
  PROVE  /\ Requests(n) = RowRequests(flight[n]) /\ InFlight(n) = Cardinality(RowRequests(flight[n]))
         /\ Requests(n)' = RowRequests(flight'[n]) /\ InFlight(n)' = Cardinality(RowRequests(flight'[n]))
BY DEF Requests, InFlight, RowRequests

-----------------------------------------------------------------------------
(* Bring-up. *)

\* The loop goes on at a peer or is over.
LEMMA LoopOverPlace ==
  ASSUME NEW n \in Nodes, NEW S \in SUBSET Peers(n)
  PROVE  LoopOver(S) \in Places(n)
<1>1. CASE S = {}
  BY <1>1 DEF LoopOver, Places
<1>2. CASE S # {}
  <2>1. S \in SUBSET Nat
    BY RdmaAssumption DEF Peers
  <2>2. \E m \in S : \A k \in S : m <= k
    BY <1>2, <2>1, LeastNat
  <2>3. Min(S) \in S
    BY <2>2 DEF Min
  <2>. QED BY <1>2, <2>3 DEF LoopOver, Places
<1>. QED BY <1>1, <1>2

\* A node moves to another place.
LEMMA MoveTyped ==
  ASSUME BootInv, NEW n \in Nodes, NEW b \in Places(n), Go(n, b)
  PROVE  boot' = [m \in Nodes |-> boot'[m]] /\ \A m \in Nodes : boot'[m] \in Places(m)
BY DEF BootInv, Go

\* A step that only moves the node keeps the invariant of bring-up.
LEMMA MoveKeeps ==
  ASSUME BootInv, NEW n \in Nodes, NEW b \in Places(n), Go(n, b), UNCHANGED <<files, life, remote, restarts>>
  PROVE  BootInv'
BY MoveTyped DEF BootInv

\* A step that also writes a file for a peer does.
LEMMA WriteKeeps ==
  ASSUME BootInv, NEW n \in Nodes, NEW b \in Places(n), Go(n, b), UNCHANGED <<life, remote, restarts>>,
         NEW p \in Nodes, NEW l \in 0 .. Empty,
         files' = (files \ FileOf(n, p)) \cup {[from |-> n, to |-> p, life |-> l]}
  PROVE  BootInv'
<1>1. files' \subseteq [from : Nodes, to : Nodes, life : 0 .. Empty]
  BY DEF BootInv
<1>. QED BY <1>1, MoveTyped DEF BootInv

\* The place of a node that is in the loop.
LEMMA InLoop ==
  ASSUME BootInv, NEW n \in Nodes, NEW step \in {"write", "fill", "wait", "read"}, InBoot(n, step)
  PROVE  /\ boot[n].peer \in Peers(n) /\ boot[n].peer \in Nodes
         /\ \A next \in {"write", "fill", "wait", "read"} : [boot[n] EXCEPT !.step = next] \in Places(n)
<1>1. boot[n] \in Places(n)
  BY DEF BootInv
<1>2. boot[n] \in [step : {"write", "fill", "wait", "read"}, peer : Peers(n)]
  BY <1>1 DEF Places, InBoot, Done, Failed
<1>. QED BY <1>2 DEF Places, Peers

\* Every step of bring-up keeps its invariant.
LEMMA BringUpStep ==
  ASSUME BootInv, NEW n \in Nodes, BringUp(n) \/ CreateFails(n) \/ TimeOut(n)
  PROVE  BootInv' /\ UNCHANGED dataVars
<1>1. Failed \in Places(n) /\ [step |-> "open", peer |-> 0] \in Places(n)
  BY DEF Places
<1>2. Empty \in Nat /\ MaxRestarts \in Nat /\ Empty = MaxRestarts + 1
  BY RdmaAssumption DEF Empty
<1>3. CASE OpenDevice(n)
  BY <1>1, <1>3, MoveKeeps DEF OpenDevice
<1>4. CASE RegisterMemoryRegion(n)
  <2>1. LoopOver(Peers(n)) \in Places(n)
    BY LoopOverPlace
  <2>. QED BY <1>1, <1>4, <2>1, MoveKeeps DEF RegisterMemoryRegion
<1>5. CASE CreateFile(n)
  <2>1. boot[n].peer \in Nodes /\ [boot[n] EXCEPT !.step = "fill"] \in Places(n)
    BY <1>5, InLoop, Zenon DEF CreateFile
  <2>2. Empty \in 0 .. Empty
    BY <1>2
  <2>. QED BY <1>5, <2>1, <2>2, WriteKeeps DEF CreateFile
<1>6. CASE FillFile(n)
  <2>1. boot[n].peer \in Nodes /\ [boot[n] EXCEPT !.step = "wait"] \in Places(n)
    BY <1>6, InLoop, Zenon DEF FillFile
  <2>2. life[n] \in 0 .. Empty
    <3>1. life[n] \in 0 .. MaxRestarts
      BY DEF BootInv
    <3>. QED BY <1>2, <3>1
  <2>. QED BY <1>6, <2>1, <2>2, WriteKeeps DEF FillFile
<1>7. CASE SeeFile(n)
  <2>1. [boot[n] EXCEPT !.step = "read"] \in Places(n)
    BY <1>7, InLoop, Zenon DEF SeeFile
  <2>. QED BY <1>7, <2>1, MoveKeeps DEF SeeFile
<1>8. CASE Connect(n)
  <2>1. PICK p \in Peers(n) : p = boot[n].peer
    BY <1>8, InLoop, Zenon DEF Connect
  <2>2. PICK f \in FileOf(p, n) :
          /\ f.life # Empty
          /\ remote' = [remote EXCEPT ![n] = [q \in DOMAIN remote[n] \cup {p} |->
                                                IF q = p THEN f.life ELSE remote[n][q]]]
    BY <1>8, <2>1, Zenon DEF Connect
  <2>3. f.life \in 0 .. MaxRestarts
    <3>1. f.life \in 0 .. Empty
      BY DEF FileOf, BootInv
    <3>. QED BY <1>2, <2>2, <3>1
  <2>4. LoopOver({q \in Peers(n) : q > p}) \in Places(n) /\ Go(n, LoopOver({q \in Peers(n) : q > p}))
    BY <1>8, <2>1, LoopOverPlace DEF Connect
  <2>5. PICK row : row = [q \in DOMAIN remote[n] \cup {p} |-> IF q = p THEN f.life ELSE remote[n][q]]
    BY Zenon
  <2>6. DOMAIN row \subseteq Peers(n) /\ \A q \in DOMAIN row : row[q] \in 0 .. MaxRestarts
    BY <2>3, <2>5 DEF BootInv
  <2>7. remote' = [remote EXCEPT ![n] = row]
    BY <2>2, <2>5
  <2>8. /\ remote' = [m \in Nodes |-> remote'[m]]
        /\ \A m \in Nodes : /\ DOMAIN remote'[m] \subseteq Peers(m)
                             /\ \A q \in DOMAIN remote'[m] : remote'[m][q] \in 0 .. MaxRestarts
    <3>1. remote'[n] = row /\ \A m \in Nodes \ {n} : remote'[m] = remote[m]
      BY <2>7 DEF BootInv
    <3>2. remote' = [m \in Nodes |-> remote'[m]]
      BY <2>7, Zenon DEF BootInv
    <3>. QED BY <2>6, <3>1, <3>2 DEF BootInv
  <2>9. UNCHANGED <<files, life, restarts, dataVars>>
    BY <1>8 DEF Connect
  <2>. QED BY <2>4, <2>8, <2>9, MoveTyped DEF BootInv
<1>9. CASE ConnectFails(n)
  BY <1>1, <1>9, MoveKeeps DEF ConnectFails
<1>10. CASE CreateFails(n)
  BY <1>1, <1>10, MoveKeeps DEF CreateFails
<1>11. CASE TimeOut(n)
  BY <1>1, <1>11, MoveKeeps DEF TimeOut
<1>. QED
  BY <1>3, <1>4, <1>5, <1>6, <1>7, <1>8, <1>9, <1>10, <1>11 DEF BringUp

-----------------------------------------------------------------------------
(* Requests and completions. *)

Calls == {Idle} \cup [op : {"Read", "Write", "BatchWrite", "Fence"}, left : Nat \ {0}]

\* What a node counts is about its own requests only.
LEMMA OthersUndisturbed ==
  ASSUME NEW m \in Nodes, Counted(m), flight'[m] = flight[m], cq'[m] = cq[m],
         outstanding'[m] = outstanding[m], call'[m] = call[m], leftover'[m] = leftover[m]
  PROVE  Counted(m)'
<1>1. Requests(m)' = Requests(m) /\ InFlight(m)' = InFlight(m)
  BY RequestsOfRow
<1>. QED BY <1>1 DEF Counted

\* ibv_post_send of k requests counts them.
LEMMA Posted ==
  ASSUME DataType, NEW n \in Nodes, Counted(n), NEW p \in Nodes, NEW k \in Nat, Post(n, p, k)
  PROVE  /\ flight' \in [Nodes -> [Nodes -> Nat]] /\ \A m \in Nodes \ {n} : flight'[m] = flight[m]
         /\ posts' \in [Nodes -> 0 .. MaxPosts]
         /\ outstanding' \in [Nodes -> Nat] /\ outstanding'[n] = outstanding[n] + k
         /\ \A m \in Nodes \ {n} : outstanding'[m] = outstanding[m]
         /\ IsFiniteSet(Requests(n)') /\ InFlight(n) \in Nat /\ InFlight(n)' = InFlight(n) + k
<1>1. posts' \in [Nodes -> 0 .. MaxPosts]
  <2>0. MaxPosts \in Nat
    BY RdmaAssumption
  <2>1. posts[n] \in Nat /\ posts[n] + k \in 0 .. MaxPosts
    BY <2>0 DEF DataType, Post
  <2>. QED BY <2>1 DEF DataType, Post
<1>2. /\ outstanding' \in [Nodes -> Nat] /\ outstanding'[n] = outstanding[n] + k
      /\ \A m \in Nodes \ {n} : outstanding'[m] = outstanding[m]
  BY DEF DataType, Post
<1>3. PICK row \in [Nodes -> Nat] : row = flight[n]
  BY DEF DataType
<1>4. PICK new : new = [row EXCEPT ![p] = row[p] + k]
  BY Zenon
<1>5. new \in [Nodes -> Nat] /\ new[p] = row[p] + k /\ \A q \in Nodes \ {p} : new[q] = row[q]
  BY <1>4
<1>6. flight' = [flight EXCEPT ![n] = new]
  BY <1>3, <1>4 DEF Post
<1>7. /\ flight' \in [Nodes -> [Nodes -> Nat]] /\ flight'[n] = new
      /\ \A m \in Nodes \ {n} : flight'[m] = flight[m]
  BY <1>5, <1>6, Zenon DEF DataType
<1>8. IsFiniteSet(RowRequests(row))
  BY <1>3, RequestsOfRow DEF Counted
<1>9. /\ IsFiniteSet(RowRequests(new)) /\ Cardinality(RowRequests(row)) \in Nat
      /\ Cardinality(RowRequests(new)) = Cardinality(RowRequests(row)) + k
  BY <1>5, <1>8, RowGrows
<1>. QED
  BY <1>1, <1>2, <1>3, <1>7, <1>9, RequestsOfRow

\* A call that waits, or is over.
LEMMA Waiting ==
  ASSUME DataType, NEW n \in Nodes, NEW op \in {"Read", "Write", "BatchWrite", "Fence"},
         NEW left \in Nat, Wait(n, op, left)
  PROVE  /\ call' \in [Nodes -> Calls] /\ \A m \in Nodes \ {n} : call'[m] = call[m]
         /\ left = 0 => call'[n] = Idle
         /\ left # 0 => call'[n] # Idle /\ call'[n].op = op /\ call'[n].left = left
<1>1. PICK c : c = IF left = 0 THEN Idle ELSE [op |-> op, left |-> left]
  BY Zenon
<1>2. c \in Calls
  BY <1>1 DEF Calls
<1>3. call' = [call EXCEPT ![n] = c]
  BY <1>1 DEF Wait
<1>4. call \in [Nodes -> Calls]
  BY DEF DataType, Calls
<1>5. call' \in [Nodes -> Calls] /\ call'[n] = c /\ \A m \in Nodes \ {n} : call'[m] = call[m]
  BY <1>2, <1>3, <1>4
<1>6. left # 0 => c # Idle /\ c.op = op /\ c.left = left
  BY <1>1 DEF Idle
<1>. QED
  BY <1>1, <1>5, <1>6

\* A call that posts k requests and waits for them.
LEMMA PostAndWait ==
  ASSUME DataType, \A m \in Nodes : Counted(m), NEW n \in Nodes, NEW p \in Nodes, NEW k \in Nat \ {0},
         NEW op \in {"Read", "Write", "BatchWrite"}, Usable(n), Post(n, p, k), Wait(n, op, k),
         UNCHANGED <<broken, cq, leftover, lost>>
  PROVE  DataType' /\ \A m \in Nodes : Counted(m)'
<1>1. /\ flight' \in [Nodes -> [Nodes -> Nat]] /\ \A m \in Nodes \ {n} : flight'[m] = flight[m]
      /\ posts' \in [Nodes -> 0 .. MaxPosts]
      /\ outstanding' \in [Nodes -> Nat] /\ outstanding'[n] = outstanding[n] + k
      /\ \A m \in Nodes \ {n} : outstanding'[m] = outstanding[m]
      /\ IsFiniteSet(Requests(n)') /\ InFlight(n) \in Nat /\ InFlight(n)' = InFlight(n) + k
  BY Posted
<1>2. /\ call' \in [Nodes -> Calls] /\ \A m \in Nodes \ {n} : call'[m] = call[m]
      /\ call'[n] # Idle /\ call'[n].op = op /\ call'[n].left = k
  BY Waiting
<1>3. DataType'
  BY <1>1, <1>2, Zenon DEF DataType, Calls
<1>4. \A m \in Nodes \ {n} : Counted(m)'
  BY <1>1, <1>2, OthersUndisturbed
<1>5. Counted(n)'
  <2>1. /\ outstanding[n] \in Nat /\ Len(cq[n]) \in Nat /\ outstanding[n] >= InFlight(n) + Len(cq[n])
        /\ ~leftover[n] => outstanding[n] = 0
    BY DEF DataType, Counted, Usable
  <2>2. outstanding'[n] >= InFlight(n)' + Len(cq'[n])
    <3>1. /\ outstanding'[n] = outstanding[n] + k /\ InFlight(n) \in Nat
          /\ InFlight(n)' = InFlight(n) + k /\ Len(cq'[n]) = Len(cq[n])
      BY <1>1, Zenon
    <3>. QED BY ONLY <2>1, <3>1, k \in Nat
  <2>3. ~leftover'[n] => call'[n].left = outstanding'[n]
    BY <1>1, <1>2, <2>1
  <2>. QED BY <1>1, <1>2, <2>2, <2>3, Zenon DEF Counted
<1>. QED BY <1>3, <1>4, <1>5

\* A batch that stops early.
LEMMA BatchFailsStep ==
  ASSUME DataType, \A m \in Nodes : Counted(m), NEW n \in Nodes, NEW p \in Nodes, NEW k \in Nat \ {0},
         BatchWriteFails(n, p, k)
  PROVE  DataType' /\ \A m \in Nodes : Counted(m)'
<1>0. Post(n, p, k) /\ Usable(n) /\ UNCHANGED <<broken, cq, call, lost>>
  BY DEF BatchWriteFails
<1>1. /\ flight' \in [Nodes -> [Nodes -> Nat]] /\ \A m \in Nodes \ {n} : flight'[m] = flight[m]
      /\ posts' \in [Nodes -> 0 .. MaxPosts]
      /\ outstanding' \in [Nodes -> Nat] /\ outstanding'[n] = outstanding[n] + k
      /\ \A m \in Nodes \ {n} : outstanding'[m] = outstanding[m]
      /\ IsFiniteSet(Requests(n)') /\ InFlight(n) \in Nat /\ InFlight(n)' = InFlight(n) + k
  BY <1>0, Posted
<1>2. /\ leftover' \in [Nodes -> BOOLEAN] /\ leftover'[n] = TRUE
      /\ \A m \in Nodes \ {n} : leftover'[m] = leftover[m]
  BY DEF BatchWriteFails, DataType
<1>3. DataType'
  BY <1>0, <1>1, <1>2, Zenon DEF DataType
<1>4. \A m \in Nodes \ {n} : Counted(m)'
  BY <1>0, <1>1, <1>2, OthersUndisturbed
<1>5. Counted(n)'
  <2>1. outstanding[n] \in Nat /\ Len(cq[n]) \in Nat /\ outstanding[n] >= InFlight(n) + Len(cq[n])
    BY DEF DataType, Counted
  <2>2. outstanding'[n] >= InFlight(n)' + Len(cq'[n])
    <3>1. /\ outstanding'[n] = outstanding[n] + k /\ InFlight(n) \in Nat
          /\ InFlight(n)' = InFlight(n) + k /\ Len(cq'[n]) = Len(cq[n])
      BY <1>0, <1>1, Zenon
    <3>. QED BY ONLY <2>1, <3>1, k \in Nat
  <2>3. call'[n] = Idle
    BY <1>0 DEF Usable
  <2>. QED BY <1>1, <1>2, <2>2, <2>3 DEF Counted
<1>. QED BY <1>3, <1>4, <1>5

\* Fence waits for what the counter says.
LEMMA FenceStep ==
  ASSUME DataType, \A m \in Nodes : Counted(m), NEW n \in Nodes, Fence(n)
  PROVE  DataType' /\ \A m \in Nodes : Counted(m)'
<1>1. PICK left \in Nat : left = outstanding[n]
  BY DEF DataType
<1>2. Wait(n, "Fence", left) /\ UNCHANGED <<flight, broken, cq, outstanding, posts, lost>> /\ Usable(n)
  BY <1>1 DEF Fence
<1>3. /\ call' \in [Nodes -> Calls] /\ \A m \in Nodes \ {n} : call'[m] = call[m]
      /\ left = 0 => call'[n] = Idle
      /\ left # 0 => call'[n] # Idle /\ call'[n].op = "Fence" /\ call'[n].left = left
  BY <1>2, Waiting
<1>4. /\ leftover' \in [Nodes -> BOOLEAN] /\ leftover'[n] = (leftover[n] /\ left # 0)
      /\ \A m \in Nodes \ {n} : leftover'[m] = leftover[m]
  BY <1>1 DEF Fence, DataType
<1>5. DataType'
  BY <1>2, <1>3, <1>4 DEF DataType, Calls
<1>6. \A m \in Nodes \ {n} : Counted(m)'
  BY <1>2, <1>3, <1>4, OthersUndisturbed
<1>7. Counted(n)'
  <2>1. Requests(n)' = Requests(n) /\ InFlight(n)' = InFlight(n)
    BY <1>2, RequestsOfRow
  <2>. QED BY <1>1, <1>2, <1>3, <1>4, <2>1 DEF Counted
<1>. QED BY <1>5, <1>6, <1>7

\* The card completes a request: one less in flight, one more in the queue.
LEMMA CompleteStep ==
  ASSUME DataType, \A m \in Nodes : Counted(m), NEW n \in Nodes, NEW p \in Nodes, Complete(n, p)
  PROVE  DataType' /\ \A m \in Nodes : Counted(m)'
<1>1. PICK row \in [Nodes -> Nat] : row = flight[n]
  BY DEF DataType
<1>2. PICK new : new = [row EXCEPT ![p] = row[p] - 1]
  BY Zenon
<1>3. row[p] > 0 /\ flight' = [flight EXCEPT ![n] = new]
  BY <1>1, <1>2 DEF Complete
<1>4. new \in [Nodes -> Nat] /\ row[p] = new[p] + 1 /\ \A q \in Nodes \ {p} : new[q] = row[q]
  BY <1>2, <1>3
<1>5. /\ flight' \in [Nodes -> [Nodes -> Nat]] /\ flight'[n] = new
      /\ \A m \in Nodes \ {n} : flight'[m] = flight[m]
  BY <1>3, <1>4, Zenon DEF DataType
<1>6. PICK ok \in BOOLEAN : /\ cq' = [cq EXCEPT ![n] = Append(cq[n], ok)]
                            /\ broken' = [broken EXCEPT ![n] = IF ok THEN @ ELSE @ \cup {p}]
  <2>1. PICK ok : ok = (Connected(n, p) /\ p \notin broken[n])
    OBVIOUS
  <2>2. ok \in BOOLEAN
    BY <2>1
  <2>. QED BY <2>1, <2>2, Zenon DEF Complete
<1>7. /\ cq' \in [Nodes -> Seq(BOOLEAN)] /\ Len(cq[n]) \in Nat /\ Len(cq'[n]) = Len(cq[n]) + 1
      /\ \A m \in Nodes \ {n} : cq'[m] = cq[m]
  <2>1. PICK c \in Seq(BOOLEAN) : c = cq[n]
    BY DEF DataType
  <2>2. PICK d : d = Append(c, ok)
    BY Zenon
  <2>3. d \in Seq(BOOLEAN) /\ Len(d) = Len(c) + 1 /\ Len(c) \in Nat
    BY <2>2
  <2>4. cq' = [cq EXCEPT ![n] = d]
    BY <1>6, <2>1, <2>2
  <2>. QED BY <2>1, <2>3, <2>4 DEF DataType
<1>8. broken' \in [Nodes -> SUBSET Nodes]
  BY <1>6 DEF DataType
<1>9. UNCHANGED <<outstanding, call, posts, leftover, lost>>
  BY DEF Complete
<1>10. DataType'
  BY <1>5, <1>7, <1>8, <1>9, Zenon DEF DataType
<1>11. \A m \in Nodes \ {n} : Counted(m)'
  BY <1>5, <1>7, <1>9, OthersUndisturbed
<1>12. Counted(n)'
  <2>1. IsFiniteSet(RowRequests(row))
    BY <1>1, RequestsOfRow DEF Counted
  <2>2. /\ IsFiniteSet(RowRequests(new)) /\ Cardinality(RowRequests(new)) \in Nat
        /\ Cardinality(RowRequests(row)) = Cardinality(RowRequests(new)) + 1
    BY <1>4, <2>1, RowShrinks
  <2>3. IsFiniteSet(Requests(n)') /\ InFlight(n)' \in Nat /\ InFlight(n) = InFlight(n)' + 1
    BY <1>1, <1>5, <2>2, RequestsOfRow
  <2>4. outstanding[n] >= InFlight(n) + Len(cq[n]) /\ outstanding[n] \in Nat
    BY DEF Counted, DataType
  <2>5. outstanding'[n] >= InFlight(n)' + Len(cq'[n])
    BY <1>7, <1>9, <2>3, <2>4
  <2>. QED BY <1>9, <2>3, <2>5 DEF Counted
<1>. QED BY <1>10, <1>11, <1>12

\* A poll that fails: the call is over, and has left its requests behind.
LEMMA PollFailsStep ==
  ASSUME DataType, \A m \in Nodes : Counted(m), NEW n \in Nodes, PollFails(n)
  PROVE  DataType' /\ \A m \in Nodes : Counted(m)'
<1>1. UNCHANGED <<flight, broken, cq, outstanding, posts, lost>>
  BY Zenon DEF PollFails
<1>2. call' = [call EXCEPT ![n] = Idle] /\ leftover' = [leftover EXCEPT ![n] = TRUE]
  BY Zenon DEF PollFails
<1>3. /\ call' \in [Nodes -> {Idle} \cup [op : {"Read", "Write", "BatchWrite", "Fence"}, left : Nat \ {0}]]
      /\ call'[n] = Idle /\ \A m \in Nodes \ {n} : call'[m] = call[m]
  BY <1>2, Zenon DEF DataType
<1>4. leftover' \in [Nodes -> BOOLEAN] /\ leftover'[n] /\ \A m \in Nodes \ {n} : leftover'[m] = leftover[m]
  BY <1>2, Zenon DEF DataType
<1>5. DataType'
  BY <1>1, <1>3, <1>4, Zenon DEF DataType
<1>6. \A m \in Nodes \ {n} : Counted(m)'
  BY <1>1, <1>3, <1>4, OthersUndisturbed
<1>7. Counted(n)'
  <2>1. Requests(n)' = Requests(n) /\ InFlight(n)' = InFlight(n)
    BY <1>1, RequestsOfRow
  <2>. QED BY <1>1, <1>3, <1>4, <2>1, Zenon DEF Counted
<1>. QED
  BY <1>5, <1>6, <1>7, Zenon

\* A round of WaitForCompletions.
LEMMA PollStep ==
  ASSUME DataType, \A m \in Nodes : Counted(m), NEW n \in Nodes, PollCompletions(n)
  PROVE  DataType' /\ \A m \in Nodes : Counted(m)'
<1>1. PICK c \in Seq(BOOLEAN) : c = cq[n]
  BY DEF DataType
<1>2. PICK len \in Nat : len = Len(c)
  BY <1>1
<1>3. PICK out \in Nat : out = outstanding[n]
  BY DEF DataType
<1>4. /\ call[n] # Idle /\ call[n].op \in {"Read", "Write", "BatchWrite", "Fence"}
      /\ call[n].left \in Nat \ {0}
  BY DEF PollCompletions, DataType
<1>5. PICK left \in Nat \ {0} : left = call[n].left
  BY <1>4
<1>6. PICK k : k = Polled(n)
  OBVIOUS
<1>7. k \in Nat /\ k <= len /\ k <= left
  BY <1>1, <1>2, <1>5, <1>6 DEF Polled
<1>8. PICK d : d = SubSeq(c, k + 1, len)
  BY Zenon
<1>9. d \in Seq(BOOLEAN) /\ Len(d) = len - k
  BY <1>1, <1>2, <1>7, <1>8
<1>10. cq' = [cq EXCEPT ![n] = d] /\ UNCHANGED <<flight, broken, posts>>
  BY <1>1, <1>2, <1>6, <1>8 DEF PollCompletions
<1>11. /\ cq' \in [Nodes -> Seq(BOOLEAN)] /\ cq'[n] = d
       /\ \A m \in Nodes \ {n} : cq'[m] = cq[m]
  BY <1>9, <1>10 DEF DataType
<1>12. PICK fly \in Nat : fly = InFlight(n) /\ out >= fly + len
  <2>1. InFlight(n) \in Nat
    BY FS_CardinalityType DEF Counted, InFlight
  <2>. QED BY <1>1, <1>2, <1>3, <2>1 DEF Counted
<1>13. /\ Requests(n)' = Requests(n) /\ InFlight(n)' = fly /\ IsFiniteSet(Requests(n))
  BY <1>10, <1>12, RequestsOfRow DEF Counted
<1>14. CASE /\ outstanding' = [outstanding EXCEPT ![n] = IF @ >= k THEN @ - k ELSE 0]
            /\ Wait(n, call[n].op, call[n].left - k)
            /\ leftover' = [leftover EXCEPT ![n] = @ /\ ~(call[n].op = "Fence" /\ call[n].left = k)]
            /\ UNCHANGED lost
  <2>1. out - k \in Nat /\ left - k \in Nat /\ out >= k
    BY <1>2, <1>3, <1>5, <1>7, <1>12
  <2>2. /\ outstanding' \in [Nodes -> Nat] /\ outstanding'[n] = out - k
        /\ \A m \in Nodes \ {n} : outstanding'[m] = outstanding[m]
    <3>1. outstanding' = [outstanding EXCEPT ![n] = out - k]
      BY <1>3, <1>14, <2>1, Zenon
    <3>. QED BY <2>1, <3>1 DEF DataType
  <2>3. /\ call' \in [Nodes -> Calls] /\ \A m \in Nodes \ {n} : call'[m] = call[m]
        /\ left - k = 0 => call'[n] = Idle
        /\ left - k # 0 => call'[n] # Idle /\ call'[n].op = call[n].op /\ call'[n].left = left - k
    <3>1. Wait(n, call[n].op, left - k)
      BY <1>5, <1>14
    <3>. QED BY <1>4, <2>1, <3>1, Waiting
  <2>4. /\ leftover' \in [Nodes -> BOOLEAN]
        /\ leftover'[n] = (leftover[n] /\ ~(call[n].op = "Fence" /\ left = k))
        /\ \A m \in Nodes \ {n} : leftover'[m] = leftover[m]
    BY <1>5, <1>14 DEF DataType
  <2>5. DataType'
    BY <1>10, <1>11, <1>14, <2>2, <2>3, <2>4, Zenon DEF DataType, Calls
  <2>6. \A m \in Nodes \ {n} : Counted(m)'
    BY <1>10, <1>11, <2>2, <2>3, <2>4, OthersUndisturbed
  <2>7. call[n].op = "Fence" \/ ~leftover[n] => left = out
    BY <1>3, <1>4, <1>5 DEF Counted
  <2>8. Counted(n)'
    <3>1. outstanding'[n] >= InFlight(n)' + Len(cq'[n])
      <4>1. out - k >= fly + (len - k)
        BY <1>2, <1>3, <1>7, <1>12
      <4>. QED BY <1>9, <1>11, <1>13, <2>2, <4>1
    <3>2. call'[n] = Idle /\ ~leftover'[n] => outstanding'[n] = 0
      <4>1. ASSUME call'[n] = Idle, ~leftover'[n] PROVE out - k = 0
        <5>1. left = k
          BY <1>5, <1>7, <2>1, <2>3, <4>1
        <5>2. call[n].op = "Fence" \/ ~leftover[n]
          BY <2>4, <4>1
        <5>. QED BY <1>3, <2>7, <5>1, <5>2
      <4>. QED BY <2>2, <4>1
    <3>3. call'[n] # Idle /\ (call'[n].op = "Fence" \/ ~leftover'[n]) => call'[n].left = outstanding'[n]
      <4>1. ASSUME call'[n] # Idle, call'[n].op = "Fence" \/ ~leftover'[n] PROVE left - k = out - k
        <5>1. left # k /\ call'[n].op = call[n].op
          BY <1>5, <1>7, <2>1, <2>3, <4>1
        <5>2. call[n].op = "Fence" \/ ~leftover[n]
          BY <2>4, <4>1, <5>1
        <5>. QED BY <2>7, <5>2
      <4>2. call'[n] # Idle => call'[n].left = left - k
        BY <2>3
      <4>. QED BY <2>2, <4>1, <4>2
    <3>. QED BY <1>13, <3>1, <3>2, <3>3 DEF Counted
  <2>. QED BY <2>5, <2>6, <2>8
<1>15. CASE /\ call' = [call EXCEPT ![n] = Idle]
            /\ leftover' = [leftover EXCEPT ![n] = TRUE]
            /\ lost' = [lost EXCEPT ![n] = TRUE]
            /\ UNCHANGED outstanding
  <2>1. /\ call' \in [Nodes -> Calls] /\ call'[n] = Idle /\ \A m \in Nodes \ {n} : call'[m] = call[m]
        /\ leftover' \in [Nodes -> BOOLEAN] /\ leftover'[n] = TRUE
        /\ \A m \in Nodes \ {n} : leftover'[m] = leftover[m]
        /\ lost' \in [Nodes -> BOOLEAN]
    BY <1>15 DEF DataType, Calls
  <2>2. DataType'
    BY <1>10, <1>11, <1>15, <2>1 DEF DataType, Calls
  <2>3. \A m \in Nodes \ {n} : Counted(m)'
    BY <1>10, <1>11, <1>15, <2>1, OthersUndisturbed, Zenon
  <2>4. outstanding'[n] >= InFlight(n)' + Len(cq'[n])
    BY <1>2, <1>3, <1>7, <1>9, <1>11, <1>12, <1>13, <1>15
  <2>5. Counted(n)'
    BY <1>13, <2>1, <2>4, Zenon DEF Counted
  <2>. QED BY <2>2, <2>3, <2>5
<1>. QED
  BY <1>6, <1>14, <1>15 DEF PollCompletions

\* A restarted node has nothing in flight and is brought up again.
LEMMA RestartStep ==
  ASSUME RdmaInv, NEW n \in Nodes, Restart(n)
  PROVE  RdmaInv'
<1>0. MaxRestarts \in Nat
  BY RdmaAssumption
<1>1. BootInv'
  <2>1. [step |-> "down", peer |-> 0] \in Places(n) /\ BootInv /\ Go(n, [step |-> "down", peer |-> 0])
    BY DEF Places, Restart, RdmaInv
  <2>2. boot' = [m \in Nodes |-> boot'[m]] /\ \A m \in Nodes : boot'[m] \in Places(m)
    BY <2>1, MoveTyped
  <2>3. restarts' = restarts + 1 /\ restarts' \in 0 .. MaxRestarts /\ restarts \in Nat
    BY <1>0, <2>1 DEF Restart, BootInv
  <2>4. life' \in [Nodes -> 0 .. MaxRestarts] /\ \A m \in Nodes : life'[m] <= restarts'
    <3>1. PICK v \in Nat : v = life[n] + 1 /\ v <= restarts' /\ v <= MaxRestarts
      BY <1>0, <2>1, <2>3 DEF BootInv
    <3>2. life' = [life EXCEPT ![n] = v]
      BY <3>1 DEF Restart
    <3>3. \A m \in Nodes : life[m] \in Nat /\ life[m] <= restarts
      BY <1>0, <2>1 DEF BootInv
    <3>4. \A m \in Nodes : life'[m] = IF m = n THEN v ELSE life[m]
      BY <2>1, <3>2 DEF BootInv
    <3>5. \A m \in Nodes : life'[m] <= restarts'
      BY <2>3, <3>1, <3>3, <3>4
    <3>. QED BY <1>0, <2>1, <3>1, <3>2, <3>5 DEF BootInv
  <2>5. remote'[n] = <<>> /\ \A m \in Nodes \ {n} : remote'[m] = remote[m]
    BY <2>1 DEF Restart, BootInv
  <2>6. remote' = [m \in Nodes |-> remote'[m]]
    BY <2>1, Zenon DEF Restart, BootInv
  <2>7. DOMAIN <<>> = {}
    OBVIOUS
  <2>8. files' = files
    BY DEF Restart
  <2>. QED BY <2>1, <2>2, <2>3, <2>4, <2>5, <2>6, <2>7, <2>8, Zenon DEF BootInv
<1>2. NoFlight \in [Nodes -> Nat]
  BY DEF NoFlight
<1>3. DataType'
  <2>1. DataType
    BY DEF RdmaInv
  <2>2. flight' \in [Nodes -> [Nodes -> Nat]]
    BY <1>2, <2>1 DEF DataType, Restart
  <2>3. <<>> \in Seq(BOOLEAN)
    OBVIOUS
  <2>4. cq' \in [Nodes -> Seq(BOOLEAN)]
    BY <2>1, <2>3 DEF DataType, Restart
  <2>5. outstanding' \in [Nodes -> Nat] /\ broken' \in [Nodes -> SUBSET Nodes]
    BY <2>1, Zenon DEF DataType, Restart
  <2>6. leftover' \in [Nodes -> BOOLEAN] /\ lost' \in [Nodes -> BOOLEAN]
    BY <2>1 DEF DataType, Restart
  <2>7. call' = call /\ posts' = posts
    BY DEF Restart
  <2>. QED BY <2>1, <2>2, <2>4, <2>5, <2>6, <2>7 DEF DataType
<1>4. /\ flight'[n] = NoFlight /\ cq'[n] = <<>> /\ outstanding'[n] = 0 /\ call'[n] = Idle
      /\ \A m \in Nodes \ {n} : /\ flight'[m] = flight[m] /\ cq'[m] = cq[m]
                                /\ outstanding'[m] = outstanding[m] /\ call'[m] = call[m]
                                /\ leftover'[m] = leftover[m]
  BY DEF RdmaInv, DataType, Restart
<1>5. \A m \in Nodes \ {n} : Counted(m)'
  BY <1>4, OthersUndisturbed, Zenon DEF RdmaInv
<1>6. Counted(n)'
  <2>1. IsFiniteSet(Requests(n)') /\ InFlight(n)' = 0
    BY <1>4, RequestsOfRow, RowEmpty
  <2>2. Len(cq'[n]) = 0
    BY <1>4
  <2>. QED BY <1>4, <2>1, <2>2 DEF Counted
<1>. QED BY <1>1, <1>3, <1>5, <1>6 DEF RdmaInv

-----------------------------------------------------------------------------
(* The theorems. *)

\* The invariant holds when nothing is running yet.
LEMMA RdmaInit == Init => RdmaInv
<1>. SUFFICES ASSUME Init PROVE RdmaInv
  OBVIOUS
<1>0. MaxRestarts \in Nat /\ MaxPosts \in Nat
  BY RdmaAssumption
<1>1. BootInv
  <2>1. \A n \in Nodes : remote[n] = <<>> /\ DOMAIN <<>> = {}
    BY DEF Init
  <2>. QED BY <1>0, <2>1 DEF Init, BootInv, Places
<1>2. DataType
  BY <1>0 DEF Init, DataType, NoFlight
<1>3. ASSUME NEW n \in Nodes PROVE Counted(n)
  <2>1. flight[n] = NoFlight /\ cq[n] = <<>> /\ outstanding[n] = 0 /\ call[n] = Idle
    BY DEF Init
  <2>2. IsFiniteSet(Requests(n)) /\ InFlight(n) = 0
    BY <2>1, RequestsOfRow, RowEmpty
  <2>3. Len(cq[n]) = 0
    BY <2>1
  <2>. QED BY <2>1, <2>2, <2>3 DEF Counted
<1>. QED BY <1>1, <1>2, <1>3 DEF RdmaInv

\* A step of the requests leaves bring-up alone.
LEMMA BootKept ==
  ASSUME BootInv, UNCHANGED <<files, boot, life, remote, restarts>>
  PROVE  BootInv'
BY DEF BootInv

\* Every step keeps the invariant.
LEMMA RdmaStep == RdmaInv /\ [Next]_vars => RdmaInv'
<1>. SUFFICES ASSUME RdmaInv, [Next]_vars PROVE RdmaInv'
  OBVIOUS
<1>0. BootInv /\ DataType /\ \A m \in Nodes : Counted(m)
  BY DEF RdmaInv
<1>1. ASSUME UNCHANGED dataVars PROVE DataType' /\ \A m \in Nodes : Counted(m)'
  BY <1>0, <1>1, OthersUndisturbed DEF dataVars, DataType
<1>2. ASSUME NEW n \in Nodes, BringUp(n) \/ CreateFails(n) \/ TimeOut(n) PROVE RdmaInv'
  BY <1>0, <1>1, <1>2, BringUpStep DEF RdmaInv
<1>3. ASSUME NEW n \in Nodes, Restart(n) PROVE RdmaInv'
  BY <1>3, RestartStep
<1>4. ASSUME NEW n \in Nodes, NEW p \in Peers(n), Read(n, p) \/ Write(n, p) PROVE RdmaInv'
  <2>1. p \in Nodes /\ 1 \in Nat \ {0}
    BY DEF Peers
  <2>2. PICK op \in {"Read", "Write"} : OneSided(n, p, op)
    BY <1>4 DEF Read, Write
  <2>3. DataType' /\ \A m \in Nodes : Counted(m)'
    BY <1>0, <2>1, <2>2, PostAndWait DEF OneSided
  <2>. QED BY <1>0, <2>2, <2>3, BootKept DEF OneSided, RdmaInv
<1>5. ASSUME NEW n \in Nodes, NEW p \in Peers(n), NEW k \in 1 .. MaxBatch, BatchWrite(n, p, k)
      PROVE  RdmaInv'
  <2>1. p \in Nodes /\ k \in Nat \ {0}
    BY DEF Peers
  <2>2. DataType' /\ \A m \in Nodes : Counted(m)'
    BY <1>0, <1>5, <2>1, PostAndWait DEF BatchWrite
  <2>. QED BY <1>0, <1>5, <2>2, BootKept DEF BatchWrite, RdmaInv
<1>6. ASSUME NEW n \in Nodes, NEW p \in Peers(n), NEW k \in 1 .. (MaxBatch - 1), BatchWriteFails(n, p, k)
      PROVE  RdmaInv'
  <2>1. p \in Nodes /\ k \in Nat \ {0}
    BY DEF Peers
  <2>2. DataType' /\ \A m \in Nodes : Counted(m)'
    BY <1>0, <1>6, <2>1, BatchFailsStep
  <2>. QED BY <1>0, <1>6, <2>2, BootKept DEF BatchWriteFails, RdmaInv
<1>7. ASSUME NEW n \in Nodes, NEW p \in Peers(n), Complete(n, p) PROVE RdmaInv'
  <2>1. p \in Nodes
    BY DEF Peers
  <2>2. DataType' /\ \A m \in Nodes : Counted(m)'
    BY <1>0, <1>7, <2>1, CompleteStep
  <2>. QED BY <1>0, <1>7, <2>2, BootKept DEF Complete, RdmaInv
<1>8. ASSUME NEW n \in Nodes, Fence(n) PROVE RdmaInv'
  <2>1. DataType' /\ \A m \in Nodes : Counted(m)'
    BY <1>0, <1>8, FenceStep, Zenon
  <2>. QED BY <1>0, <1>8, <2>1, BootKept DEF Fence, RdmaInv
<1>9. ASSUME NEW n \in Nodes, PollCompletions(n) PROVE RdmaInv'
  <2>1. DataType' /\ \A m \in Nodes : Counted(m)'
    BY <1>0, <1>9, PollStep
  <2>. QED BY <1>0, <1>9, <2>1, BootKept DEF PollCompletions, RdmaInv
<1>10. ASSUME NEW n \in Nodes, PollFails(n) PROVE RdmaInv'
  <2>1. DataType' /\ \A m \in Nodes : Counted(m)'
    BY <1>0, <1>10, PollFailsStep
  <2>. QED BY <1>0, <1>10, <2>1, BootKept DEF PollFails, RdmaInv
<1>11. CASE UNCHANGED vars
  <2>1. UNCHANGED dataVars /\ UNCHANGED <<files, boot, life, remote, restarts>>
    BY <1>11 DEF vars
  <2>. QED BY <1>0, <1>1, <2>1, BootKept DEF RdmaInv
<1>. QED
  BY <1>2, <1>3, <1>4, <1>5, <1>6, <1>7, <1>8, <1>9, <1>10, <1>11 DEF Next

\* The invariant holds in every reachable state.
LEMMA RdmaAlways == Spec => []RdmaInv
BY RdmaInit, RdmaStep, PTL DEF Spec

\* Bring-up and the requests stay within their types: no node connects to
\* itself, and none has a life it was not restarted for.
THEOREM TransportTypes == Spec => []TypeOK
<1>1. ASSUME RdmaInv PROVE TypeOK
  <2>1. BootInv /\ DataType
    BY <1>1 DEF RdmaInv
  <2>2. boot \in [Nodes -> {Done, Failed, [step |-> "down", peer |-> 0], [step |-> "open", peer |-> 0]}
                        \cup [step : {"write", "fill", "wait", "read"}, peer : Nodes]]
    <3>1. \A n \in Nodes : boot[n] \in {Done, Failed, [step |-> "down", peer |-> 0], [step |-> "open", peer |-> 0]}
                        \cup [step : {"write", "fill", "wait", "read"}, peer : Nodes]
      BY <2>1 DEF BootInv, Places, Peers
    <3>. QED BY <2>1, <3>1 DEF BootInv
  <2>. QED BY <2>1, <2>2 DEF TypeOK, BootInv, DataType
<1>. QED BY <1>1, RdmaAlways, PTL

\* For any number of nodes and any batch size, after any failures and restarts:
\* outstanding_sends_ is at least the number of requests whose completion is
\* still to be polled (PostOneSided, BatchWrite, PollCompletions).
THEOREM CountAlwaysCovers == Spec => []CountCovers
<1>1. RdmaInv => CountCovers
  BY DEF RdmaInv, Counted, CountCovers
<1>. QED BY <1>1, RdmaAlways, PTL

\* A node between calls, none of which has failed since its last kOk Fence, has
\* nothing in flight and an empty completion queue (WaitForCompletions, Fence).
THEOREM OkAlwaysMeansDone == Spec => []OkMeansDone
<1>1. ASSUME RdmaInv PROVE OkMeansDone
  <2>. SUFFICES ASSUME NEW n \in Nodes, call[n] = Idle, ~leftover[n]
                PROVE  InFlight(n) = 0 /\ cq[n] = <<>> /\ outstanding[n] = 0
    BY DEF OkMeansDone
  <2>1. PICK c \in Seq(BOOLEAN) : c = cq[n]
    BY <1>1 DEF RdmaInv, DataType
  <2>2. PICK len \in Nat : len = Len(c)
    BY <2>1
  <2>3. InFlight(n) \in Nat
    BY <1>1, FS_CardinalityType DEF RdmaInv, Counted, InFlight
  <2>4. outstanding[n] = 0 /\ 0 >= InFlight(n) + len
    BY <1>1, <2>1, <2>2 DEF RdmaInv, Counted
  <2>5. InFlight(n) = 0 /\ len = 0
    BY <2>2, <2>3, <2>4
  <2>6. c = <<>>
    <3>1. Len(c) = 0
      BY <2>2, <2>5
    <3>. QED BY <2>1, <3>1
  <2>. QED BY <2>1, <2>4, <2>5, <2>6
<1>. QED BY <1>1, RdmaAlways, PTL
=============================================================================
