---------------------------- MODULE BlockProfile ----------------------------
(***************************************************************************)
(* The per-block profile of one node and what is decided by it:            *)
(* ObserveAccess, DecideCoherenceMode and ShouldCache                      *)
(* (src/src/memory/cache/cache_manager.cc).  The window advances with the  *)
(* node's accesses to all blocks.  Blocks of different homes at the same   *)
(* index share one profile, so an access is local or remote independently  *)
(* of the block.  Ratios are compared by cross-multiplication; a threshold *)
(* is a fraction <<numerator, denominator>>.                               *)
(***************************************************************************)
EXTENDS Integers, FiniteSets, Sequences

CONSTANTS Blocks,
          WindowSize,           \* profiling_window_size
          Override,             \* coherence_mode_override: a mode or "none"
          WriteDominantRatio, PhaseChangeRatio,          \* mode decision
          SharerThreshold, InvalidationThreshold,
          Policy,               \* cache_admission_policy
          MinReads, MaxBlockWrites, MaxSharers, MaxReuse,   \* admission
          MinReadRatio, MaxPhaseChangeRatio,
          MaxAccesses           \* bound: number of accesses in a behaviour

Fractions == Nat \X (Nat \ {0})

ASSUME ProfileAssumption ==
  /\ {WindowSize, SharerThreshold, InvalidationThreshold, MinReads, MaxBlockWrites,
      MaxSharers, MaxReuse, MaxAccesses} \subseteq Nat
  /\ {WriteDominantRatio, PhaseChangeRatio, MinReadRatio, MaxPhaseChangeRatio} \subseteq Fractions
  /\ Override \in {"none", "WI", "SI", "Adaptive"} /\ Policy \in 0 .. 2

VARIABLES epoch,   \* access_epoch_
          meta,    \* the profile fields of each BlockMeta
          log      \* history: every access so far, in order

vars == <<epoch, meta, log>>

Access == [block : Blocks, type : {"Read", "Write"}, local : BOOLEAN]

Profile == [last : Nat, window : Nat, windowReads : Nat, windowWrites : Nat, phaseChanges : Nat,
            reuse : Nat, lastType : {"Read", "Write"}, reads : Nat, writes : Nat, sharers : Nat,
            invalidations : Nat, mode : {"WI", "SI", "Adaptive"}, switches : Nat]

TypeOK ==
  /\ epoch \in 0 .. MaxAccesses
  /\ meta \in [Blocks -> Profile]
  /\ log \in Seq(Access)

Init ==
  /\ epoch = 0
  /\ meta = [b \in Blocks |->
       [last |-> 0, window |-> 0, windowReads |-> 0, windowWrites |-> 0, phaseChanges |-> 0,
        reuse |-> 0, lastType |-> "Read", reads |-> 0, writes |-> 0, sharers |-> 0,
        invalidations |-> 0, mode |-> "WI", switches |-> 0]]
  /\ log = <<>>

SafeWindowSize == IF WindowSize = 0 THEN 1 ELSE WindowSize

\* a / b >= the fraction f, and a / b <= f.
RatioAtLeast(a, b, f) == a * f[2] >= f[1] * b
RatioAtMost(a, b, f) == a * f[2] <= f[1] * b

-----------------------------------------------------------------------------
(* Mutants. *)

\* A new window keeps the phase changes of the last.
EnterWindowKeepingPhases(m, w) ==
  IF m.window = w THEN m
  ELSE [m EXCEPT !.window = w, !.windowReads = 0, !.windowWrites = 0]

\* A block that is Adaptive stays so while its window is stable.
DecideCoherenceModeSticky(m) ==
  LET total == m.windowReads + m.windowWrites
  IN IF \/ RatioAtLeast(m.windowWrites, total, WriteDominantRatio)
        \/ RatioAtLeast(m.phaseChanges, total, PhaseChangeRatio) THEN "WI"
     ELSE IF \/ m.mode = "Adaptive"
             \/ m.sharers >= SharerThreshold \/ m.invalidations >= InvalidationThreshold
          THEN "Adaptive" ELSE "SI"

\* The distance counts both ends.
ReuseDistanceInclusive(m, e) == IF m.last = 0 THEN m ELSE [m EXCEPT !.reuse = e - m.last + 1]

\* The reuse distance is not looked at.
ShouldCacheAnyDistance(m) ==
  \/ Policy = 1
  \/ /\ Policy = 0 /\ m.mode # "WI"
     /\ m.reads >= MinReads /\ m.writes <= MaxBlockWrites /\ m.sharers <= MaxSharers

\* An access that keeps the mode takes a switch back.
SwitchedBack(m, mode) ==
  [m EXCEPT !.mode = mode, !.switches = IF m.mode = mode THEN @ - 1 ELSE @ + 1]

-----------------------------------------------------------------------------
WindowOf(e) == (e - 1) \div SafeWindowSize

EnterWindow(m, w) ==
  IF m.window = w THEN m
  ELSE [m EXCEPT !.window = w, !.windowReads = 0, !.windowWrites = 0, !.phaseChanges = 0]

ReuseDistance(m, e) == IF m.last = 0 THEN m ELSE [m EXCEPT !.reuse = e - m.last]

PhaseChange(m, type) ==
  [m EXCEPT !.lastType = type,
            !.phaseChanges = IF m.last # 0 /\ m.lastType # type THEN @ + 1 ELSE @]

CountAccess(m, type, local) ==
  IF type = "Read"
  THEN [m EXCEPT !.reads = @ + 1, !.windowReads = @ + 1, !.sharers = IF local THEN @ ELSE @ + 1]
  ELSE [m EXCEPT !.writes = @ + 1, !.windowWrites = @ + 1,
                 !.invalidations = IF local THEN @ ELSE @ + 1]

DecideCoherenceMode(m) ==
  LET total == m.windowReads + m.windowWrites
  IN CASE Override # "none" -> Override
       [] Override = "none" /\ \/ total = 0
                               \/ RatioAtLeast(m.windowWrites, total, WriteDominantRatio)
                               \/ RatioAtLeast(m.phaseChanges, total, PhaseChangeRatio) -> "WI"
       [] OTHER -> IF m.sharers >= SharerThreshold \/ m.invalidations >= InvalidationThreshold
                   THEN "Adaptive" ELSE "SI"

Switched(m, mode) == [m EXCEPT !.mode = mode, !.switches = IF m.mode = mode THEN @ ELSE @ + 1]

\* ShouldCache, with the cache enabled.
ShouldCache(m) ==
  LET total == m.windowReads + m.windowWrites
  IN \/ Policy = 1
     \/ /\ Policy = 0
        /\ total # 0
        /\ m.reads >= MinReads /\ m.writes <= MaxBlockWrites
        /\ m.sharers <= MaxSharers /\ m.reuse <= MaxReuse
        /\ RatioAtLeast(m.windowReads, total, MinReadRatio)
        /\ RatioAtMost(m.phaseChanges, total, MaxPhaseChangeRatio)
        /\ m.mode # "WI"
        /\ m.invalidations <= m.writes + 1

ObserveAccess(b, type, local) ==
  LET e == epoch + 1
      timed == ReuseDistance(EnterWindow(meta[b], WindowOf(e)), e)
      counted == [CountAccess(PhaseChange(timed, type), type, local) EXCEPT !.last = e]
  IN /\ epoch < MaxAccesses
     /\ epoch' = e
     /\ meta' = [meta EXCEPT ![b] = Switched(counted, DecideCoherenceMode(counted))]
     /\ log' = Append(log, [block |-> b, type |-> type, local |-> local])

\* ProcessPendingControlMessages and DrainControl store the mode of a message.
StoreMode(b, mode) ==
  /\ meta' = [meta EXCEPT ![b].mode = mode]
  /\ UNCHANGED <<epoch, log>>

Next ==
  \E b \in Blocks :
    \/ \E type \in {"Read", "Write"}, local \in BOOLEAN : ObserveAccess(b, type, local)
    \/ \E mode \in {"WI", "Adaptive"} : StoreMode(b, mode)

Spec == Init /\ [][Next]_vars

-----------------------------------------------------------------------------
\* The accesses of the log to block b, as positions.
At(b) == {i \in 1 .. Len(log) : log[i].block = b}

\* Those in the window of the last one.
InWindow(b) ==
  {i \in At(b) : \A j \in At(b) : (j - 1) \div SafeWindowSize <= (i - 1) \div SafeWindowSize}

OfType(P, type) == {i \in P : log[i].type = type}
Remote(b, type) == {i \in OfType(At(b), type) : ~log[i].local}

\* The position of the access to b before position i, 0 if there is none.
Before(b, i) ==
  CHOOSE p \in {0} \cup At(b) : p < i /\ \A j \in At(b) : j < i => j <= p

\* The accesses of the window that changed type.
Changes(b) == {i \in InWindow(b) : Before(b, i) # 0 /\ log[Before(b, i)].type # log[i].type}

\* The counters of the window, kept up by resets and increments, are what a
\* scan of the node's accesses finds: the reads and writes of the block in its
\* current window and the accesses there that changed type.
WindowProfileExact ==
  \A b \in Blocks :
    /\ meta[b].windowReads = Cardinality(OfType(InWindow(b), "Read"))
    /\ meta[b].windowWrites = Cardinality(OfType(InWindow(b), "Write"))
    /\ meta[b].phaseChanges = Cardinality(Changes(b))
    /\ meta[b].windowReads + meta[b].windowWrites <= SafeWindowSize

\* The reuse distance is the number of accesses of the node from the block's
\* last access but one to its last, across windows.
ReuseDistanceExact ==
  \A b \in Blocks : \A i \in At(b) :
    (\A j \in At(b) : j <= i) /\ Before(b, i) # 0 => meta[b].reuse = i - Before(b, i)

\* The mode that the accesses of the log call for: WI in a window of mostly writes
\* or of many changes, else Adaptive for a block with many remote accesses.
ModeByLog(b) ==
  LET total == Cardinality(InWindow(b))
      unstable == \/ RatioAtLeast(Cardinality(OfType(InWindow(b), "Write")), total, WriteDominantRatio)
                  \/ RatioAtLeast(Cardinality(Changes(b)), total, PhaseChangeRatio)
      shared == \/ Cardinality(Remote(b, "Read")) >= SharerThreshold
                \/ Cardinality(Remote(b, "Write")) >= InvalidationThreshold
  IN IF Override # "none" THEN Override
     ELSE IF unstable THEN "WI" ELSE IF shared THEN "Adaptive" ELSE "SI"

\* Whether they call for caching b, whose last access is at position e.
CachedByLog(b, e) ==
  LET total == Cardinality(InWindow(b))
  IN \/ Policy = 1
     \/ /\ Policy = 0
        /\ ModeByLog(b) # "WI"
        /\ Cardinality(OfType(At(b), "Read")) >= MinReads
        /\ Cardinality(OfType(At(b), "Write")) <= MaxBlockWrites
        /\ Cardinality(Remote(b, "Read")) <= MaxSharers
        /\ Before(b, e) # 0 => e - Before(b, e) <= MaxReuse
        /\ RatioAtLeast(Cardinality(OfType(InWindow(b), "Read")), total, MinReadRatio)
        /\ RatioAtMost(Cardinality(Changes(b)), total, MaxPhaseChangeRatio)

\* What an access leaves as the mode of its block, and whether ShouldCache then
\* admits the block, follow from the node's own accesses alone: neither a mode
\* that a message has stored in between nor the counts of an earlier window or
\* of another block have a part in it.
DecidedByAccesses ==
  [][\A b \in Blocks : At(b)' # At(b) =>
       /\ meta'[b].mode = ModeByLog(b)'
       /\ ShouldCache(meta'[b]) <=> CachedByLog(b, Len(log))']_vars
=============================================================================
