------------------------------ MODULE MCCacheTx ------------------------------
(* CacheTx on small instances. *)
EXTENDS CacheTx, TLC

CONSTANTS z1, z2, r1, r2, r3, a, b

Rec(z, r, v) == [zone |-> z, rid |-> r, val |-> v]
Write(op, x) == [op |-> op, rec |-> x]
Sync(S)      == [op |-> "sync", zones |-> {x.zone : x \in S} , recs |-> S]
Refresh(z, S) == [op |-> "refresh", zones |-> {z}, recs |-> S]

\* Two zones with a record each.
TwoZones == {{Rec(z1, r1, a), Rec(z2, r2, a)}}
MixedJobs ==
  {Write("insert", Rec(z1, r3, b)), Write("update", Rec(z1, r1, b)),
   Write("delete", Rec(z1, r1, a)),
   Sync({Rec(z1, r1, b), Rec(z2, r2, b)}), Refresh(z1, {Rec(z1, r3, b)})}
=============================================================================
