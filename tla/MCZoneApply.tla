----------------------------- MODULE MCZoneApply -----------------------------
(* Apply on small instances: one zone, two names in it, records that the      *)
(* providers list as they were written and records that they do not.          *)
EXTENDS ProviderApply, TLC

CONSTANTS www, example, at, addr, ns, a, b, nil

Symmetry == Permutations(Rids) \cup Permutations(Applies) \cup Permutations(Contents)

Example   == <<example>>
Www       == [name |-> <<www>>, type |-> addr]
Servers   == [name |-> <<>>, type |-> ns]
TwoGroups == {Www, Servers}
OnlyNs    == {Servers}
OnlyWww   == {Www}

Field(ttl, priority) == [ttl |-> ttl, priority |-> priority, proxied |-> FALSE]
Plain    == {Field(1, nil)}
\* Numbers too large or negative for the word of 4, and a priority of 0.
Wide     == Plain \cup {Field(1, 3), Field(1, 0), Field(5, -1)}

MappedReads == [d \in Data |-> ListedAs(d)]

\* The zone is asked for by @, a TTL may be missing.
Asked(groups, attrs) ==
  [group : {[g EXCEPT !.name = IF @ = <<>> THEN <<at>> ELSE @] : g \in groups},
   content : Contents, attr : attrs]
AnyInput == Asked(TwoGroups, {Field(0, 3), Field(1, 0), Field(5, -1)})
FewInput == Asked(OnlyWww, {Field(0, nil)})

\* All desired sets of up to two records, in any order, repeated or not; none or
\* one; one.
Desired(n) == [1..n -> {ToRecord(d) : d \in Inputs}]
AnyWants == UNION {Desired(n) : n \in 0..2}
FewWants == Desired(0) \cup Desired(1)
OneWant  == Desired(1)
=============================================================================
