-------------------------- MODULE MCProviderAccounts --------------------------
(* ProviderAccounts on small instances.  Fits gives a remote type one complete *)
(* credential more than the empty one; the local type asks for nothing.        *)
EXTENDS ProviderAccounts, TLC

CONSTANTS remote, c1, c2, direct, ftp

FitsSome == [t \in Types |-> IF t = remote THEN {c1, c2} ELSE {}]
Symmetry == Permutations(Ids) \cup Permutations(Requests) \cup Permutations(Names)
=============================================================================
