---------------------------- MODULE ShadowCache ----------------------------
(***************************************************************************)
(* The shadow cache of CacheManager (src/src/memory/cache/cache_manager.cc)*)
(* as a data structure: cached_reads_, the lru_ list and the cached_bytes_ *)
(* counter, which every operation updates separately.  Each operation runs *)
(* under mu_ and is one step.  Payloads are left out: no operation decides *)
(* anything by them.                                                       *)
(***************************************************************************)
EXTENDS Integers, FiniteSets, Sequences

CONSTANTS Keys,      \* CacheKeys: records home, lo, hi (bytes lo .. hi - 1)
          Capacity   \* Config::cache_capacity_bytes, 0 for no limit

ASSUME KeysAssumption ==
  \A k \in Keys : /\ k = [home |-> k.home, lo |-> k.lo, hi |-> k.hi]
                  /\ k.lo \in Nat /\ k.hi \in Nat /\ k.lo < k.hi
ASSUME CapacityAssumption == Capacity \in Nat

VARIABLES cached,       \* the keys of cached_reads_
          lru,          \* lru_, most recently used first
          cachedBytes,  \* cached_bytes_
          last,         \* the last operation and the key it was called with
          newer         \* history: the pairs of keys of which the first was
                        \* inserted or hit after any insertion or hit of the other

vars == <<cached, lru, cachedBytes, last, newer>>

Size(k) == k.hi - k.lo

\* The number of bytes of a set of keys, one element per key and offset.
Bytes(S) == UNION {{k} \X (k.lo .. (k.hi - 1)) : k \in S}
BytesOf(S) == Cardinality(Bytes(S))

Operations == {"Init", "TryReadCached", "InsertCached", "Invalidate", "InvalidateRange"}

TypeOK ==
  /\ cached \subseteq Keys
  /\ lru \in Seq(Keys)
  /\ cachedBytes \in Nat
  /\ last \in [op : Operations, key : Keys]
  /\ newer \subseteq Keys \X Keys

Init ==
  /\ cached = {}
  /\ lru = <<>>
  /\ cachedBytes = 0
  /\ last \in [op : {"Init"}, key : Keys]
  /\ newer = {}

\* A use of k is newer than the last use of any other key.
Use(k) == newer' = {r \in newer : r[2] # k} \cup ({k} \X (Keys \ {k}))

\* The list without the keys of V: erasing entries keeps the order of the others.
Without(list, V) ==
  LET kept == {i \in 1 .. Len(list) : list[i] \notin V}
      Nth(j) == CHOOSE i \in kept : Cardinality({h \in kept : h < i}) = j - 1
  IN [j \in 1 .. Cardinality(kept) |-> list[Nth(j)]]

-----------------------------------------------------------------------------
(* Mutants. *)

\* A touched entry keeps its place in the list.
TouchedInPlace(list, k) == list

\* The resident bytes are left out of the comparison.
VictimsIgnoringResident(list, incoming) ==
  IF Capacity = 0 \/ incoming <= Capacity THEN {} ELSE cached

\* The most recently used entries go first.
VictimsFromFront(list, incoming) ==
  IF Capacity = 0 \/ cachedBytes + incoming <= Capacity THEN {}
  ELSE {list[i] : i \in 1 .. ((Len(list) + 1) \div 2)}

\* Everything goes as soon as the incoming bytes do not fit.
VictimsAll(list, incoming) ==
  IF Capacity = 0 \/ cachedBytes + incoming <= Capacity THEN {} ELSE cached

\* Erased entries stay counted.
ErasedUncounted(S, bytes) == bytes

\* Erased entries are counted off twice.
ErasedTwice(S, bytes) == bytes - 2 * BytesOf(S)

-----------------------------------------------------------------------------
RangesOverlap(k, l) == k.home = l.home /\ ~(k.hi <= l.lo \/ l.hi <= k.lo)

ContainsRange(k, l) == k.home = l.home /\ k.lo <= l.lo /\ l.hi <= k.hi

\* TouchLocked: splice the entry to the front of the list.
Touched(list, k) == <<k>> \o Without(list, {k})

\* cached_bytes_ after the entries S are erased one by one.
Erased(S, bytes) == bytes - BytesOf(S)

\* The last n keys of the list.
Oldest(list, n) == {list[i] : i \in (Len(list) - n + 1) .. Len(list)}

\* The loop of EvictIfNeededLocked: pop the back of the list until the incoming
\* bytes fit by the counter, or the list is empty.
Victims(list, incoming) ==
  LET BytesWithout(n) == Erased(Oldest(list, n) \cap cached, cachedBytes)
  IN IF Capacity = 0 THEN {}
     ELSE Oldest(list, CHOOSE n \in 0 .. Len(list) :
            /\ n = Len(list) \/ BytesWithout(n) + incoming <= Capacity
            /\ \A m \in 0 .. (n - 1) : BytesWithout(m) + incoming > Capacity)

-----------------------------------------------------------------------------
Record(op, k) == last' = [op |-> op, key |-> k]

\* TryReadCached: the exact key, else some entry that contains the request in
\* the hash map's order, else a miss.
HitEntry(k) ==
  /\ lru' = Touched(lru, k)
  /\ Use(k)
  /\ UNCHANGED <<cached, cachedBytes>>

TryReadCached(req) ==
  /\ Record("TryReadCached", req)
  /\ \/ req \in cached /\ HitEntry(req)
     \/ req \notin cached /\ \E k \in cached : ContainsRange(k, req) /\ HitEntry(k)
     \/ /\ ~\E k \in cached : ContainsRange(k, req)
        /\ UNCHANGED <<cached, lru, cachedBytes, newer>>

\* InsertCached of a key that is resident: overwrite, touch, evict for 0 bytes.
Overwrite(k) ==
  /\ k \in cached
  /\ LET list == Touched(lru, k)
         V == Victims(list, 0)
     IN /\ cached' = cached \ V
        /\ lru' = Without(list, V)
        /\ cachedBytes' = Erased(V \cap cached, cachedBytes)
  /\ Use(k)

\* InsertCached of a new key: evict first, then list and count it.
InsertNew(k) ==
  /\ k \notin cached
  /\ LET V == Victims(lru, Size(k))
     IN /\ cached' = (cached \ V) \cup {k}
        /\ lru' = <<k>> \o Without(lru, V)
        /\ cachedBytes' = Erased(V \cap cached, cachedBytes) + Size(k)
  /\ Use(k)

\* A payload larger than the whole cache is refused.
TooLarge(k) == Capacity # 0 /\ Size(k) > Capacity

InsertCached(k) ==
  /\ Record("InsertCached", k)
  /\ \/ TooLarge(k) /\ UNCHANGED <<cached, lru, cachedBytes, newer>>
     \/ ~TooLarge(k) /\ (Overwrite(k) \/ InsertNew(k))

\* Remove the entries S from the map and the list, and their bytes.
EraseEntries(S) ==
  /\ cached' = cached \ S
  /\ lru' = Without(lru, S)
  /\ cachedBytes' = Erased(S, cachedBytes)
  /\ UNCHANGED newer

\* Invalidate removes the entry of exactly this key, if there is one.
Invalidate(k) ==
  /\ Record("Invalidate", k)
  /\ EraseEntries({k} \cap cached)

\* InvalidateRange removes every entry that overlaps the range.
InvalidateRange(r) ==
  /\ Record("InvalidateRange", r)
  /\ EraseEntries({k \in cached : RangesOverlap(k, r)})

\* Shutdown followed by the next Init.
Restart ==
  /\ cached' = {}
  /\ lru' = <<>>
  /\ cachedBytes' = 0
  /\ newer' = {}
  /\ \E k \in Keys : Record("Init", k)

Next ==
  \/ \E k \in Keys : TryReadCached(k) \/ InsertCached(k) \/ Invalidate(k) \/ InvalidateRange(k)
  \/ Restart

Spec == Init /\ [][Next]_vars

-----------------------------------------------------------------------------
\* The list holds exactly the resident keys, once each, in the order of their
\* last use: a hit through a containing entry refreshes that entry, and erasing
\* or overwriting entries disturbs no other (TouchLocked, lru_.erase).
LruIsRecency ==
  /\ cached = {lru[i] : i \in 1 .. Len(lru)}
  /\ \A i, j \in 1 .. Len(lru) : i < j => lru[i] # lru[j] /\ <<lru[i], lru[j]>> \in newer

\* cached_bytes_ is the total size of the resident entries after any sequence
\* of inserts, overwrites, evictions and invalidations.
BytesAccounted == cachedBytes = BytesOf(cached)

\* With a capacity set, no operation leaves more bytes resident than it allows.
CapacityRespected == Capacity # 0 => BytesOf(cached) <= Capacity

\* An entry is evicted only if every entry that stays was used more recently.
EvictsLeastRecent ==
  [][last'.op = "InsertCached" =>
       \A v \in cached \ cached', s \in (cached \cap cached') \ {last'.key} : <<s, v>> \in newer]_vars

\* No entry is evicted that could have stayed: with the most recently used
\* victim back the resident entries exceed the capacity.
EvictsNoMoreThanNeeded ==
  [][last'.op = "InsertCached" =>
       \A v \in cached \ cached' :
         (\A u \in (cached \ cached') \ {v} : <<v, u>> \in newer) => BytesOf(cached' \cup {v}) > Capacity]_vars
=============================================================================
