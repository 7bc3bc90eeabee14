--------------------------- MODULE MCWriteThrough ---------------------------
(* WriteThrough on small instances: two record handles, listed one after the *)
(* other.  Request slots and field values are interchangeable.               *)
EXTENDS WriteThrough, TLC

CONSTANTS r1, r2

ByHandle == {<<r1, r2>>}

Symmetry == Permutations(Vals) \cup Permutations(Writers)
ZoneSymmetry == Symmetry \cup Permutations(Zones) \cup Permutations(Syncs)
=============================================================================
