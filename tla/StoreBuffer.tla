---------------------------- MODULE StoreBuffer ----------------------------
(***************************************************************************)
(* What the remote write path promises an application, without queues,     *)
(* merging or thresholds.  A write that returns kOk is accepted.  What is  *)
(* accepted for a destination becomes visible there as a whole: its region *)
(* moves from one accepted content to the latest one, never to a part of   *)
(* it or to another order of the writes.  A kOk fence makes everything     *)
(* visible.  A destination for which writes were lost is marked failed and *)
(* nothing is promised for it; no other destination is affected.           *)
(***************************************************************************)
EXTENDS Naturals

CONSTANTS Destinations, Cells, Bytes

VARIABLES memory,    \* the region of each destination
          accepted,  \* its content if every accepted write had been applied
          failed,    \* destinations that have lost accepted writes
          last       \* the last call and whether it returned kOk

vars == <<memory, accepted, failed, last>>

Contents == [Destinations -> [Cells -> Bytes \cup {0}]]
Blank == [d \in Destinations |-> [x \in Cells |-> 0]]

Init ==
  /\ memory = Blank /\ accepted = Blank
  /\ failed = {}
  /\ last = [op |-> "lm_init", ok |-> TRUE]

\* The region of d stays as it is or catches up with content c.
KeepsOrCatchesUp(d, c) == memory'[d] = memory[d] \/ memory'[d] = c

Write(d) ==
  /\ memory' \in Contents /\ accepted' \in Contents
  /\ \A e \in Destinations \ {d} : memory'[e] = memory[e] /\ accepted'[e] = accepted[e]
  /\ \A x \in Cells : accepted'[d][x] = accepted[d][x] \/ accepted'[d][x] \in Bytes
  /\ failed' = failed \/ failed' = failed \cup {d}
  /\ d \notin failed' => KeepsOrCatchesUp(d, accepted'[d])
  /\ \/ last' = [op |-> "lm_write", ok |-> TRUE] /\ failed' = failed
     \/ last' = [op |-> "lm_write", ok |-> FALSE] /\ accepted' = accepted

Fence ==
  /\ memory' \in Contents
  /\ failed \subseteq failed' /\ failed' \subseteq Destinations
  /\ \A d \in Destinations \ failed' : KeepsOrCatchesUp(d, accepted[d])
  /\ \/ /\ last' = [op |-> "lm_fence", ok |-> TRUE] /\ failed' = failed
        /\ \A d \in Destinations \ failed : memory'[d] = accepted[d]
     \/ last' = [op |-> "lm_fence", ok |-> FALSE]
  /\ UNCHANGED accepted

\* What is not visible yet is lost.
Shutdown ==
  /\ failed \subseteq failed' /\ failed' \subseteq Destinations
  /\ \A d \in Destinations \ failed' : memory[d] = accepted[d]
  /\ last' = [op |-> "lm_shutdown", ok |-> TRUE]
  /\ UNCHANGED <<memory, accepted>>

\* The regions are as they were or, with a new transport, blank.
Restart ==
  /\ last.op = "lm_shutdown"
  /\ last' = [op |-> "lm_init", ok |-> TRUE]
  /\ \/ UNCHANGED <<memory, accepted, failed>>
     \/ memory' = Blank /\ accepted' = Blank /\ failed' = {}

Next == (\E d \in Destinations : Write(d)) \/ Fence \/ Shutdown \/ Restart

Spec == Init /\ [][Next]_vars
=============================================================================
