------------------------- MODULE ProviderApply_proofs -------------------------
(***************************************************************************)
(* The mappings keep what apply relies on, for any word length, names and  *)
(* numbers; so apply converges at both providers.                          *)
(***************************************************************************)
EXTENDS ProviderApply, ZoneApply_proofs, SequenceTheorems

-----------------------------------------------------------------------------
\* Names.

\* A host that goes to Cloudflare comes back as it is written normally.
LEMMA HostReturns ==
  ASSUME NEW h \in Hosts
  PROVE  CfToRelative(CfToFull(h)) = NormalizeHost(h)
<1> DEFINE n == NormalizeHost(h)
           f == n \o ZoneName
<1>1. n \in Seq(Labels) /\ ZoneName \in Seq(Labels) /\ ZoneName # <<>>
  BY NameAssumption DEF NormalizeHost, Hosts
<1> HIDE DEF n
<1>2. /\ f \in Seq(Labels) /\ Len(f) = Len(n) + Len(ZoneName)
      /\ Len(n) \in Nat /\ Len(ZoneName) \in Nat \ {0}
  BY <1>1
<1>3. CASE n = <<>>
  <2>1. f = ZoneName
    BY <1>1, <1>3
  <2> QED BY <1>3, <2>1 DEF CfToRelative, CfToFull, n
<1>4. CASE n # <<>>
  <2>1. Len(n) > 0
    BY <1>1, <1>4
  <2>2. f # ZoneName /\ f # <<>>
    BY <1>2, <2>1
  <2>3. SubSeq(f, Len(f) - Len(ZoneName) + 1, Len(f)) = ZoneName
    BY <1>1, <1>2, <2>1
  <2>4. SubSeq(f, 1, Len(f) - Len(ZoneName)) = n
    BY <1>1, <1>2, <2>1
  <2>5. InZone(f)
    BY <1>2, <2>1, <2>3 DEF InZone
  <2> HIDE DEF f
  <2>6. CfToRelative(f) = n
    BY <2>2, <2>4, <2>5 DEF CfToRelative
  <2> QED BY <2>6 DEF CfToFull, f, n
<1> QED BY <1>3, <1>4

\* A record that is written back under the host it was listed with keeps its name.
\* (A host called @ would become the zone itself.)
THEOREM NameReturns ==
  ASSUME NEW f \in Seq(Labels), f = ZoneName \/ InZone(f), CfToRelative(f) # <<At>>
  PROVE  CfToFull(CfToRelative(f)) = f
<1>1. ZoneName \in Seq(Labels) /\ ZoneName # <<>>
  BY NameAssumption
<1>2. CASE f = ZoneName
  BY <1>1, <1>2 DEF CfToRelative, CfToFull, NormalizeHost
<1>3. CASE f # ZoneName
  <2> DEFINE k == Len(f) - Len(ZoneName)
             n == SubSeq(f, 1, k)
  <2>1. k \in Nat \ {0} /\ Len(f) = k + Len(ZoneName) /\ Len(ZoneName) \in Nat \ {0}
    BY <1>1, <1>3 DEF InZone
  <2>2. SubSeq(f, k + 1, Len(f)) = ZoneName /\ f # <<>> /\ InZone(f)
    BY <1>1, <1>3 DEF InZone
  <2>3. CfToRelative(f) = n
    BY <1>3, <2>2 DEF CfToRelative
  <2>4. n \in Seq(Labels) /\ Len(n) = k
    BY <2>1
  <2>5. n \o ZoneName = f
    <3>1. n \o ZoneName \in Seq(Labels) /\ Len(n \o ZoneName) = Len(f)
      BY <1>1, <2>1, <2>4
    <3>2. ASSUME NEW i \in 1..Len(f) PROVE (n \o ZoneName)[i] = f[i]
      <4>1. CASE i <= k
        BY <1>1, <2>1, <2>4, <4>1
      <4>2. CASE i > k
        <5>1. ZoneName[i - k] = SubSeq(f, k + 1, Len(f))[i - k]
          BY <2>2
        <5>2. SubSeq(f, k + 1, Len(f))[i - k] = f[i]
          BY <2>1, <4>2
        <5> HIDE DEF n, k
        <5>3. (n \o ZoneName)[i] = ZoneName[i - k]
          BY <1>1, <2>1, <2>4, <4>2
        <5> QED BY <5>1, <5>2, <5>3
      <4> QED BY <2>1, <4>1, <4>2
    <3> HIDE DEF n
    <3> QED BY <3>1, <3>2, SeqEqual
  <2> QED BY <2>3, <2>5 DEF CfToFull, NormalizeHost
<1> QED BY <1>2, <1>3

-----------------------------------------------------------------------------
\* Records.

\* Records with their names as apply writes them, numbers of any size.
MappedData ==
  [group : [name : Hosts \ {<<At>>}, type : Types], content : Contents, attr : Fields]

LEMMA WordNumbers ==
  /\ \A n \in Int : Uint32(n) \in 0..(Word - 1)
  /\ \A n \in 0..(Word - 1) : Uint32(n) = n
<1>1. Word \in Nat /\ Word > 0
  BY NumberAssumption
<1> QED BY <1>1 DEF Uint32

LEMMA CloudflareMaps ==
  ASSUME NEW d \in MappedData
  PROVE  LET e == FromCloudflare(ToCloudflare(d)) IN
         /\ e \in MappedData /\ e.group = d.group /\ e.content = d.content
         /\ e.attr.ttl = IF d.attr.ttl <= 0 THEN 1 ELSE d.attr.ttl
         /\ e.attr.priority = d.attr.priority /\ e.attr.proxied = d.attr.proxied
<1> DEFINE g == [name |-> CfToRelative(CfToFull(d.group.name)), type |-> d.group.type]
           t == IF d.attr.ttl <= 0 THEN 1 ELSE d.attr.ttl
           a == [ttl |-> t, priority |-> d.attr.priority, proxied |-> d.attr.proxied]
<1>1. d.group \in [name : Hosts \ {<<At>>}, type : Types] /\ d.attr \in Fields
      /\ d.content \in Contents
  BY DEF MappedData
<1>2. g = d.group
  <2>1. CfToRelative(CfToFull(d.group.name)) = d.group.name
    BY <1>1, HostReturns DEF NormalizeHost
  <2> QED BY <1>1, <2>1
<1>3. a \in Fields
  BY <1>1 DEF Fields
<1>4. FromCloudflare(ToCloudflare(d)) = [group |-> g, content |-> d.content, attr |-> a]
  BY DEF FromCloudflare, ToCloudflare
<1>5. a.ttl = t /\ a.priority = d.attr.priority /\ a.proxied = d.attr.proxied
  OBVIOUS
<1> HIDE DEF g, a
<1> QED BY <1>1, <1>2, <1>3, <1>4, <1>5 DEF MappedData

LEMMA NamecomMaps ==
  ASSUME NEW d \in MappedData
  PROVE  LET e == FromNamecom(NamecomStores(ToNamecom(d)))
             ttl == Uint32(d.attr.ttl)
             priority == IF d.attr.priority = Nil THEN 0 ELSE Uint32(d.attr.priority)
         IN
         /\ e \in MappedData /\ e.group = d.group /\ e.content = d.content
         /\ e.attr.ttl = IF ttl = 0 THEN DefaultTTL ELSE ttl
         /\ e.attr.priority = IF priority = 0 THEN Nil ELSE priority
         /\ e.attr.proxied = FALSE
<1> DEFINE ttl == Uint32(d.attr.ttl)
           priority == IF d.attr.priority = Nil THEN 0 ELSE Uint32(d.attr.priority)
           w == [host |-> d.group.name, type |-> d.group.type, answer |-> d.content,
                 ttl |-> ttl, priority |-> priority]
           t == IF ttl = 0 THEN DefaultTTL ELSE ttl
           a == [ttl |-> t, priority |-> IF priority = 0 THEN Nil ELSE priority,
                 proxied |-> FALSE]
<1>1. d.group \in [name : Hosts \ {<<At>>}, type : Types] /\ d.attr \in Fields
      /\ d.content \in Contents
  BY DEF MappedData
<1>2. ToNamecom(d) = w
  BY <1>1 DEF ToNamecom, NormalizeHost
<1>3. NamecomStores(w) = [host |-> d.group.name, type |-> d.group.type, answer |-> d.content,
                          ttl |-> t, priority |-> priority]
  <2> HIDE DEF ttl, priority
  <2> QED BY DEF NamecomStores
<1>4. ttl \in Int /\ priority \in Int
  BY <1>1, WordNumbers DEF Fields
<1>5. a \in Fields
  <2> HIDE DEF ttl, priority
  <2> QED BY <1>4, NumberAssumption DEF Fields
<1>6. [name |-> d.group.name, type |-> d.group.type] = d.group
  BY <1>1
<1>7. FromNamecom(NamecomStores(ToNamecom(d)))
        = [group |-> d.group, content |-> d.content, attr |-> a]
  <2> DEFINE x == [host |-> d.group.name, type |-> d.group.type, answer |-> d.content,
                   ttl |-> t, priority |-> priority]
  <2>1. NamecomStores(ToNamecom(d)) = x
    BY <1>2, <1>3
  <2>2. FromNamecom(x) = [group |-> [name |-> d.group.name, type |-> d.group.type],
                          content |-> d.content, attr |-> a]
    <3> HIDE DEF ttl, priority, t
    <3> QED BY DEF FromNamecom
  <2> HIDE DEF x, a
  <2> QED BY <1>6, <2>1, <2>2
<1>8. a.ttl = t /\ a.priority = (IF priority = 0 THEN Nil ELSE priority) /\ a.proxied = FALSE
  OBVIOUS
<1> HIDE DEF a
<1> QED BY <1>1, <1>5, <1>7, <1>8 DEF MappedData

\* What ZoneApply assumes of a provider holds of both: a listing has the name, the
\* type and the content that were written, and what has been listed is listed
\* again as it is.
THEOREM MappingStable ==
  ASSUME NEW d \in MappedData
  PROVE  /\ ListedAs(d) \in MappedData
         /\ ListedAs(d).group = d.group /\ ListedAs(d).content = d.content
         /\ ListedAs(ListedAs(d)) = ListedAs(d)
<1> DEFINE e == ListedAs(d)
           f == ListedAs(e)
\* Equal parts make equal records.
<1>1. ASSUME NEW x \in MappedData, NEW y \in MappedData, x.group = y.group,
             x.content = y.content, x.attr.ttl = y.attr.ttl,
             x.attr.priority = y.attr.priority, x.attr.proxied = y.attr.proxied
      PROVE  x = y
  <2>1. x.attr = y.attr
    BY <1>1 DEF MappedData, Fields
  <2> QED BY <1>1, <2>1 DEF MappedData
<1>2. CASE Provider = "cloudflare"
  <2>1. /\ e \in MappedData /\ e.group = d.group /\ e.content = d.content
        /\ e.attr.ttl = IF d.attr.ttl <= 0 THEN 1 ELSE d.attr.ttl
    BY <1>2, CloudflareMaps DEF ListedAs
  <2>2. e.attr.ttl > 0
    BY <2>1 DEF MappedData, Fields
  <2> HIDE DEF e
  <2>3. /\ f \in MappedData /\ f.group = e.group /\ f.content = e.content
        /\ f.attr.ttl = IF e.attr.ttl <= 0 THEN 1 ELSE e.attr.ttl
        /\ f.attr.priority = e.attr.priority /\ f.attr.proxied = e.attr.proxied
    BY <1>2, <2>1, CloudflareMaps DEF ListedAs
  <2>4. e.attr.ttl \in Int
    BY <2>1 DEF MappedData, Fields
  <2>5. f.attr.ttl = e.attr.ttl
    BY <2>2, <2>3, <2>4
  <2> HIDE DEF f
  <2>6. f = e
    BY <1>1, <2>1, <2>3, <2>5
  <2> QED BY <2>1, <2>6 DEF e, f
<1>3. CASE Provider # "cloudflare"
  <2> DEFINE ttl == Uint32(d.attr.ttl)
             priority == IF d.attr.priority = Nil THEN 0 ELSE Uint32(d.attr.priority)
  <2>1. /\ e \in MappedData /\ e.group = d.group /\ e.content = d.content
        /\ e.attr.ttl = IF ttl = 0 THEN DefaultTTL ELSE ttl
        /\ e.attr.priority = IF priority = 0 THEN Nil ELSE priority
        /\ e.attr.proxied = FALSE
    BY <1>3, NamecomMaps DEF ListedAs
  <2>2. ttl \in 0..(Word - 1) /\ priority \in 0..(Word - 1)
    BY WordNumbers, NumberAssumption DEF MappedData, Fields
  <2> HIDE DEF e, ttl, priority
  <2>3. e.attr.ttl \in 1..(Word - 1) /\ e.attr.priority \in {Nil} \cup 1..(Word - 1)
    BY <2>1, <2>2, NumberAssumption
  <2>4. /\ Uint32(e.attr.ttl) = e.attr.ttl
        /\ e.attr.priority # Nil => Uint32(e.attr.priority) = e.attr.priority
    BY <2>3, WordNumbers, NumberAssumption
  <2>5. /\ f \in MappedData /\ f.group = e.group /\ f.content = e.content
        /\ f.attr.ttl = e.attr.ttl /\ f.attr.priority = e.attr.priority
        /\ f.attr.proxied = FALSE
    <3> DEFINE ft == Uint32(e.attr.ttl)
               fp == IF e.attr.priority = Nil THEN 0 ELSE Uint32(e.attr.priority)
    <3>1. /\ f \in MappedData /\ f.group = e.group /\ f.content = e.content
          /\ f.attr.ttl = IF ft = 0 THEN DefaultTTL ELSE ft
          /\ f.attr.priority = IF fp = 0 THEN Nil ELSE fp
          /\ f.attr.proxied = FALSE
      BY <1>3, <2>1, NamecomMaps DEF ListedAs
    <3>2. ft = e.attr.ttl /\ ft # 0
      BY <2>3, <2>4
    <3>3. (IF fp = 0 THEN Nil ELSE fp) = e.attr.priority
      BY <2>3, <2>4, NumberAssumption
    <3> HIDE DEF f, ft, fp
    <3> QED BY <3>1, <3>2, <3>3
  <2> HIDE DEF f
  <2>6. f = e
    BY <1>1, <2>1, <2>5
  <2> QED BY <2>1, <2>6 DEF e, f
<1> QED BY <1>2, <1>3

\* What requests want and the provider can say is listed as it was written.
LEMMA Keeps ==
  ASSUME NEW want \in Wants, NEW i \in DOMAIN want, Representable(want[i])
  PROVE  Written(want[i]) = want[i]
<1> DEFINE d == want[i]
<1>1. want \in Seq(Data)
  BY DataAssumption
<1>2. d \in Data /\ d \in MappedData
  <2>1. d \in Data
    BY <1>1
  <2>2. Groups \subseteq [name : Hosts \ {<<At>>}, type : Types] /\ Attrs \subseteq Fields
    BY ProviderAssumption
  <2> HIDE DEF d
  <2>3. d \in [group : [name : Hosts \ {<<At>>}, type : Types], content : Contents, attr : Fields]
    BY <2>1, <2>2 DEF Data
  <2> QED BY <2>1, <2>3 DEF MappedData
<1>3. (d.attr.proxied => Provider = "cloudflare") /\ \E in \in Inputs : d = ToRecord(in)
  BY ProviderAssumption DEF Allowed
<1>4. d.attr.ttl > 0
  <2>1. PICK in \in Inputs : d = ToRecord(in)
    BY <1>3
  <2>2. in \in [group : [name : Hosts, type : Types], content : Contents, attr : Fields]
    BY ProviderAssumption
  <2>3. d.attr.ttl = IF in.attr.ttl <= 0 THEN ApplyTTL ELSE in.attr.ttl
    <3> HIDE DEF d
    <3> QED BY <2>1, <2>2 DEF ToRecord, Fields
  <2>4. in.attr.ttl \in Int
    BY <2>2 DEF Fields
  <2> QED BY <2>3, <2>4, NumberAssumption
<1>5. Written(d) = ListedAs(d)
  BY <1>2, ProviderAssumption DEF Written
<1> DEFINE e == ListedAs(d)
<1>6. ASSUME e.attr.ttl = d.attr.ttl, e.attr.priority = d.attr.priority,
             e.attr.proxied = d.attr.proxied
      PROVE  e = d
  <2>1. e \in MappedData /\ e.group = d.group /\ e.content = d.content
    BY <1>2, MappingStable
  <2> HIDE DEF d, e
  <2>2. e.attr = d.attr
    BY <1>2, <1>6, <2>1 DEF MappedData, Fields
  <2> QED BY <1>2, <2>1, <2>2 DEF MappedData
<1>7. CASE Provider = "cloudflare"
  <2>1. /\ e.attr.ttl = IF d.attr.ttl <= 0 THEN 1 ELSE d.attr.ttl
        /\ e.attr.priority = d.attr.priority /\ e.attr.proxied = d.attr.proxied
    BY <1>2, <1>7, CloudflareMaps DEF ListedAs
  <2>2. d.attr.ttl \in Int
    BY <1>2 DEF MappedData, Fields
  <2>3. e.attr.ttl = d.attr.ttl
    BY <1>4, <2>1, <2>2
  <2> QED BY <1>5, <1>6, <2>1, <2>3
<1>8. CASE Provider = "namecom"
  <2> DEFINE ttl == Uint32(d.attr.ttl)
             priority == IF d.attr.priority = Nil THEN 0 ELSE Uint32(d.attr.priority)
  <2>1. /\ e.attr.ttl = IF ttl = 0 THEN DefaultTTL ELSE ttl
        /\ e.attr.priority = IF priority = 0 THEN Nil ELSE priority
        /\ e.attr.proxied = FALSE
    BY <1>2, <1>8, NamecomMaps DEF ListedAs
  <2>2. d.attr.ttl \in 1..(Word - 1) /\ d.attr.priority \in {Nil} \cup 1..(Word - 1)
    BY <1>8 DEF Representable
  <2>3. d.attr.proxied = FALSE
    BY <1>2, <1>3, <1>8 DEF MappedData, Fields
  <2>4. ttl = d.attr.ttl /\ ttl # 0
    BY <2>2, WordNumbers, NumberAssumption
  <2>5. (IF priority = 0 THEN Nil ELSE priority) = d.attr.priority
    BY <2>2, WordNumbers, NumberAssumption
  <2> HIDE DEF d, e, ttl, priority
  <2>6. e.attr.ttl = d.attr.ttl /\ e.attr.priority = d.attr.priority
        /\ e.attr.proxied = d.attr.proxied
    BY <2>1, <2>3, <2>4, <2>5
  <2>7. e = d
    <3> USE DEF e
    <3> QED BY <1>6, <2>6
  <2> QED BY <1>5, <2>7 DEF e, d
<1> QED BY <1>7, <1>8, ProviderKind
-----------------------------------------------------------------------------
\* Apply.

LEMMA AskedStep == TypeOK /\ AskedFor /\ [Next]_vars => AskedFor'
<1> SUFFICES ASSUME TypeOK, AskedFor, [Next]_vars, NEW q \in Applies
             PROVE  ap'[q].want \in Wants \cup {<<>>}
  BY DEF AskedFor
<1> USE DEF counters
<1>1. ap[q].want \in Wants \cup {<<>>}
  BY DEF AskedFor
\* A change that others notice.
<1>2. ASSUME NEW p, NEW job \in [Applies -> Job], NEW r \in Rids, NEW d, Store(p, job, r, d),
             job[q].want = ap[q].want
      PROVE  ap'[q].want \in Wants \cup {<<>>}
  <2>1. Goes(job[q], Noticed(job, p, r, d)[q])
    BY NoticedFields, Zenon
  <2>2. ap'[q] = Noticed(job, p, r, d)[q]
    BY <1>2 DEF Store
  <2> QED BY <1>1, <1>2, <2>1, <2>2 DEF Goes
<1>3. ASSUME NEW p \in Applies, NEW j, ap' = [ap EXCEPT ![p] = j], j.want \in Wants \cup {<<>>}
      PROVE  ap'[q].want \in Wants \cup {<<>>}
  BY <1>1, <1>3 DEF TypeOK
<1>4. CASE UNCHANGED vars
  BY <1>1, <1>4 DEF vars
<1>5. ASSUME NEW r \in Rids, NEW d \in Listed \cup {None}, RemoteChange(r, d)
      PROVE  ap'[q].want \in Wants \cup {<<>>}
  BY <1>2, <1>5 DEF RemoteChange, TypeOK
<1>6. ASSUME NEW cur \in Listings, NEW p \in Applies, NEW want \in Wants,
             NEW prune \in BOOLEAN, StartApply(p, want, prune, cur)
      PROVE  ap'[q].want \in Wants \cup {<<>>}
  <2>1. PICK pick \in Picks(cur, want) :
          ap' = [ap EXCEPT ![p] = Begun(want, prune, cur, pick)]
    BY <1>6, StartBegins
  <2>2. Begun(want, prune, cur, pick).want = want
    BY BegunFields
  <2> QED BY <1>3, <2>1, <2>2
<1>7. ASSUME NEW p \in Applies, Execute(p) PROVE ap'[q].want \in Wants \cup {<<>>}
  <2>1. PICK c \in ap[p].todo :
          \/ \E r \in Rids : Create(p, c, r)
          \/ Update(p, c) \/ Delete(p, c) \/ Refused(p, c) \/ CallFails(p, c)
    BY <1>7 DEF Execute
  <2>2. Without(p, c) \in [Applies -> Job] /\ Without(p, c)[q].want = ap[q].want
    <3>1. Advanced(Without(p, c), p, c)
      BY WithoutFields
    <3> QED BY <3>1, WithoutType DEF Advanced
  <2>3. CASE \E r \in Rids : Create(p, c, r)
    BY <1>2, <2>2, <2>3 DEF Create
  <2>4. CASE Update(p, c) \/ Delete(p, c)
    <3>1. c.rid \in Rids
      BY <2>4, WantType DEF Update, Delete
    <3> QED BY <1>2, <2>2, <2>4, <3>1 DEF Update, Delete
  <2>5. CASE Refused(p, c) \/ CallFails(p, c)
    <3>1. Advanced(ap', p, c)
      BY <2>5, WithoutFields DEF Refused, CallFails
    <3> QED BY <1>1, <3>1 DEF Advanced
  <2> QED BY <2>1, <2>3, <2>4, <2>5
<1>8. ASSUME NEW p \in Applies, Finish(p) \/ Abandon(p)
      PROVE  ap'[q].want \in Wants \cup {<<>>}
  <2>1. NoApply.want = <<>> /\ ap' = [ap EXCEPT ![p] = NoApply]
    BY <1>8 DEF Finish, Abandon, NoApply
  <2> QED BY <1>3, <2>1
<1> QED BY <1>4, <1>5, <1>6, <1>7, <1>8 DEF Next, Work

THEOREM AskedCorrect == Spec => []AskedFor
<1>1. Init => AskedFor
  BY DEF Init, NoApply, AskedFor
<1> QED BY <1>1, AskedStep, TypeCorrect, PTL DEF Spec

\* Apply converges at Cloudflare and at Name.com, for all names and numbers, as long
\* as the provider can say what is desired.
THEOREM ConvergesCorrect == Spec => []ApplyConverges
<1>1. TypeOK /\ AskedFor /\ ApplyIdempotent => ApplyConverges
  <2> SUFFICES ASSUME TypeOK, AskedFor, ApplyIdempotent, NEW p \in Applies,
                      Calm(p), ~ap[p].refused, Consistent(ap[p].want), Distinct(ap[p].cur),
                      \A i \in DOMAIN ap[p].want : Representable(ap[p].want[i])
               PROVE  \A pick \in Picks(remote, ap[p].want) :
                        Plan(remote, ap[p].want, ap[p].prune, pick) = {}
    BY DEF ApplyConverges
  <2>1. Lasting(ap[p].want)
    BY Keeps DEF Lasting, AskedFor
  <2> QED BY <2>1 DEF ApplyIdempotent
<1> QED BY <1>1, AskedCorrect, IdempotentCorrect, TypeCorrect, PTL
=============================================================================
