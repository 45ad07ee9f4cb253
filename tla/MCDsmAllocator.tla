--------------------------- MODULE MCDsmAllocator ---------------------------
(* Instances of DsmAllocator for TLC. *)
EXTENDS DsmAllocator

\* Zero, sizes around one and two blocks, one larger than the region, two that
\* carry next_offset_ past the word, from 12 and from 4 on, and two whose rounding
\* wraps to nothing.
MCSizes == {0, 1, 3, 4, 5, 8, 17, 50, 60, 61, 63}

\* Once the sum has wrapped only the type of the history matters, and no action
\* ever looks at it, so TLC leaves it out.
MCView == <<next, allocs, table, IF wrapped THEN {} ELSE granted, wrapped, status>>
=============================================================================
