---------------------------- MODULE ProviderApply ----------------------------
(***************************************************************************)
(* Apply at Cloudflare and at Name.com: ZoneApply, with records read back  *)
(* the way the adapters' mappings make them.                               *)
(***************************************************************************)
EXTENDS ZoneApply, RecordMapping

CONSTANTS
  Types,    \* record types
  Inputs    \* the records that requests ask for

\* Requests go through toRecord and are turned away as a whole if the provider
\* cannot proxy what they want proxied.
ASSUME ProviderAssumption ==
  /\ Groups \subseteq [name : Hosts \ {<<At>>}, type : Types]
  /\ Attrs \subseteq Fields
  /\ Reads = [d \in Data |-> ListedAs(d)]
  /\ \A want \in Wants : \A i \in DOMAIN want :
       Allowed(want[i]) /\ \E d \in Inputs : want[i] = ToRecord(d)
  /\ Inputs \subseteq [group : [name : Hosts, type : Types], content : Contents, attr : Fields]

\* Once an apply whose calls were all accepted is over, with nobody else at work,
\* a second one would change nothing (dev-plan.md:223: idempotent upsert),
\* provided that the provider can say what is desired.  With a priority 0, a TTL
\* or a priority that is no uint32, Name.com lists something else, and every
\* apply updates the record again.
ApplyConverges ==
  \A p \in Applies :
    LET want == ap[p].want IN
    Calm(p) /\ ~ap[p].refused /\ Consistent(want) /\ Distinct(ap[p].cur)
      /\ (\A i \in DOMAIN want : Representable(want[i])) =>
        \A pick \in Picks(remote, want) : Plan(remote, want, ap[p].prune, pick) = {}
=============================================================================
