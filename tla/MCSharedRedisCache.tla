------------------------- MODULE MCSharedRedisCache -------------------------
(* SharedRedisCache with two concurrent operations. *)
EXTENDS SharedRedisCache, TLC

CONSTANTS o1, o2

MCOps == {o1, o2}

\* One of them sends its command without a timeout.
MCUntimed == {o2}

Symmetry == Permutations(MCOps)
=============================================================================
