--------------------------- MODULE MCShadowCache ---------------------------
(* Instances of ShadowCache for TLC. *)
EXTENDS ShadowCache, SequencesExt

Key(home, lo, hi) == [home |-> home, lo |-> lo, hi |-> hi]

\* Keys of one, two, three and five bytes that overlap, contain and touch each
\* other, and a key at the same offsets of another home node.
MCKeys == {Key(1, 0, 1), Key(1, 0, 2), Key(1, 1, 4), Key(1, 3, 4), Key(2, 0, 1), Key(1, 0, 5)}

\* Without is the usual filter of a sequence, on all lists of up to four entries.
ASSUME WithoutFilters ==
  \A list \in BoundedSeq(1 .. 4, 4), V \in SUBSET (1 .. 4) :
    Without(list, V) = SelectSeq(list, LAMBDA k : k \notin V)
=============================================================================
