-------------------------- MODULE LocalExport_proofs --------------------------
(***************************************************************************)
(* What the export promises its agents, for any number of zones, records,  *)
(* writers and agents: types, the label of an answer on its way, and the   *)
(* soundness of a 304.                                                     *)
(***************************************************************************)
EXTENDS LocalExport, FiniteSetTheorems, TLAPS

-----------------------------------------------------------------------------
\* The inductive invariants.

\* Nobody has seen a version that is still to come; a zone without a row has
\* no records.
VersionsKnown ==
  /\ \A z \in Zones : serial[z] = 0 <=> z \in unborn
  /\ \A z \in Zones \ zones : recs[z] = Empty
  /\ \A a \in Agents, z \in Zones : saw[a][z] <= serial[z] /\ poll[a].saw[z] <= serial[z]

\* An agent that has seen a zone's current version holds its records.
DocFits ==
  \A a \in Agents : \A z \in zones \ blind[a] : saw[a][z] = serial[z] => UpToDate(a, z)

Fits == VersionsKnown /\ DocFits /\ AnswerNotOlder

\* The tag that goes with a document is made of the versions it was read at.
Seen(ser) == {z \in Zones : ser[z] # 0}
TagsKnown ==
  \A a \in Agents :
    /\ etag[a] \subseteq Tags(Seen(saw[a]), saw[a])
    /\ poll[a].on => poll[a].tag \in Tags(Seen(poll[a].saw), poll[a].saw)

\* The answer on its way to an agent is no older than what the agent has.
PollsAdvance ==
  \A a \in Agents : poll[a].on =>
    /\ \A z \in zones : saw[a][z] <= poll[a].saw[z]
    /\ poll[a].blind \subseteq blind[a]
-----------------------------------------------------------------------------
\* Tags.

\* What an element of a listing is, name by name.
LEMMA ListingOfName ==
  ASSUME NEW Z \in SUBSET Zones, NEW f \in Listing(Z), NEW n \in Names
  PROVE  /\ DOMAIN f[n] = 1..Cardinality({z \in Z : NameOf[z] = n})
         /\ Cardinality({z \in Z : NameOf[z] = n}) \in Nat
         /\ \A i \in DOMAIN f[n] : f[n][i] \in Z /\ NameOf[f[n][i]] = n
<1> DEFINE S == {z \in Z : NameOf[z] = n}
<1>1. f[n] \in Orders(S)
  BY DEF Listing
<1>2. f[n] \in [1..Cardinality(S) -> S]
  BY <1>1 DEF Orders
<1>3. IsFiniteSet(S)
  BY ZoneAssumption, FS_Subset
<1>4. Cardinality(S) \in Nat
  BY <1>3, FS_CardinalityType
<1> QED BY <1>2, <1>4

\* A tag is a tag.
LEMMA TagsType ==
  ASSUME NEW Z \in SUBSET Zones, NEW ser \in Serials
  PROVE  Tags(Z, ser) \subseteq ETags
<1> SUFFICES ASSUME NEW f \in Listing(Z) PROVE Tag(f, ser) \in ETags
  BY DEF Tags
<1>1. ASSUME NEW n \in Names
      PROVE  [i \in DOMAIN f[n] |-> ser[f[n][i]]] \in Seq(Nat)
  <2> DEFINE k == Cardinality({z \in Z : NameOf[z] = n})
  <2>1. k \in Nat /\ DOMAIN f[n] = 1..k /\ \A i \in DOMAIN f[n] : f[n][i] \in Zones
    BY ListingOfName
  <2>2. [i \in DOMAIN f[n] |-> ser[f[n][i]]] \in [1..k -> Nat]
    BY <2>1 DEF Serials
  <2>3. \A m \in Nat : [1..m -> Nat] \subseteq Seq(Nat)
    OBVIOUS
  <2> HIDE DEF k
  <2> QED BY <2>1, <2>2, <2>3
<1> QED BY <1>1 DEF Tag, ETags

\* Tags depend on the listed zones' serials only.
LEMMA TagsAgree ==
  ASSUME NEW Z \in SUBSET Zones, NEW s, NEW t, \A z \in Z : s[z] = t[z]
  PROVE  Tags(Z, s) = Tags(Z, t)
<1>1. ASSUME NEW f \in Listing(Z) PROVE Tag(f, s) = Tag(f, t)
  <2>1. \A n \in Names : \A i \in DOMAIN f[n] : s[f[n][i]] = t[f[n][i]]
    BY ListingOfName
  <2>2. \A n \in Names : [i \in DOMAIN f[n] |-> s[f[n][i]]] = [i \in DOMAIN f[n] |-> t[f[n][i]]]
    BY <2>1
  <2> QED BY <2>2 DEF Tag
<1> QED BY <1>1 DEF Tags

\* Two orders of one finite set in which the values read the same, the first
\* ones nowhere above the second: they are the same values.  If they differed at
\* x, fewer elements would reach t[x] in the first reading than in the second.
LEMMA OrdersAgree ==
  ASSUME NEW S, IsFiniteSet(S), NEW s, NEW t,
         \A x \in S : s[x] \in Nat /\ t[x] \in Nat /\ s[x] <= t[x],
         NEW f \in Orders(S), NEW g \in Orders(S),
         \A i \in 1..Cardinality(S) : s[f[i]] = t[g[i]],
         NEW x \in S
  PROVE  s[x] = t[x]
<1> DEFINE k == Cardinality(S)
           A == {y \in S : t[y] >= t[x]}
           B == {y \in S : s[y] >= t[x]}
           I == {i \in 1..k : s[f[i]] >= t[x]}
           fI == [i \in I |-> f[i]]
           gI == [i \in I |-> g[i]]
<1> SUFFICES ASSUME s[x] # t[x] PROVE FALSE
  OBVIOUS
<1>1. /\ k \in Nat /\ IsFiniteSet(1..k) /\ Cardinality(1..k) = k
      /\ IsFiniteSet(A) /\ IsFiniteSet(B) /\ IsFiniteSet(I)
      /\ Cardinality(A) \in Nat /\ Cardinality(B) \in Nat /\ Cardinality(I) \in Nat
  <2>1. k \in Nat
    BY FS_CardinalityType
  <2>2. IsFiniteSet(1..k) /\ Cardinality(1..k) = k
    BY <2>1, FS_Interval
  <2>3. IsFiniteSet(A) /\ IsFiniteSet(B)
    BY FS_Subset
  <2>4. IsFiniteSet(I)
    BY <2>2, FS_Subset
  <2> QED BY <2>1, <2>2, <2>3, <2>4, FS_CardinalityType
<1>2. /\ \A i \in 1..k : f[i] \in S /\ g[i] \in S
      /\ \A i, j \in 1..k : (f[i] = f[j] => i = j) /\ (g[i] = g[j] => i = j)
      /\ g \in [1..k -> S]
  BY DEF Orders
<1>3. Cardinality(B) < Cardinality(A)
  <2>1. B \subseteq A \ {x} /\ x \in A
    <3>1. \A y \in S : s[y] \in Nat /\ t[y] \in Nat /\ s[y] <= t[y]
      OBVIOUS
    <3> QED BY <3>1
  <2>2. IsFiniteSet(A \ {x}) /\ Cardinality(A \ {x}) = Cardinality(A) - 1
    BY <1>1, <2>1, FS_RemoveElement
  <2>3. Cardinality(B) <= Cardinality(A \ {x})
    BY <2>1, <2>2, FS_Subset
  <2> QED BY <1>1, <2>2, <2>3
<1>4. Cardinality(I) <= Cardinality(B)
  <2>1. fI \in Injection(I, B)
    BY <1>2 DEF Injection, IsInjective
  <2> QED BY <1>1, <2>1, FS_Injection
<1>5. Cardinality(A) <= Cardinality(I)
  <2>1. g \in Injection(1..k, S)
    BY <1>2 DEF Injection, IsInjective
  <2>2. g \in Surjection(1..k, S)
    BY <1>1, <2>1, FS_Injection
  <2>3. \A y \in A : \E i \in 1..k : g[i] = y
    BY <2>2 DEF Surjection
  <2>4. \A i \in 1..k : s[f[i]] = t[g[i]]
    OBVIOUS
  <2>5. \A y \in A : \E i \in I : gI[i] = y
    BY <2>3, <2>4
  <2>6. gI \in [I -> A]
    BY <1>2, <2>4
  <2>7. gI \in Surjection(I, A)
    BY <2>5, <2>6 DEF Surjection
  <2> QED BY <1>1, <2>7, FS_Surjection
<1> QED BY <1>1, <1>3, <1>4, <1>5

\* Two equal tags, of the zones Y at the serials s and of Z at t: if the rows of
\* z's name in Y are all in Z, and none was ahead, they are the same rows at the
\* same serials.
LEMMA TagsEqual ==
  ASSUME NEW Y \in SUBSET Zones, NEW Z \in SUBSET Zones, NEW s, NEW t,
         NEW tag \in Tags(Y, s), tag \in Tags(Z, t), NEW z \in Z,
         \A y \in Y : NameOf[y] = NameOf[z] => y \in Z,
         \A y \in Z : s[y] \in Nat /\ t[y] \in Nat /\ s[y] <= t[y]
  PROVE  s[z] = t[z]
<1> DEFINE n == NameOf[z]
           R == {y \in Y : NameOf[y] = n}
           S == {y \in Z : NameOf[y] = n}
<1>1. n \in Names
  BY ZoneAssumption
<1>2. PICK f \in Listing(Y) : tag = Tag(f, s)
  BY DEF Tags
<1>3. PICK g \in Listing(Z) : tag = Tag(g, t)
  BY DEF Tags
<1>4. [i \in DOMAIN f[n] |-> s[f[n][i]]] = [i \in DOMAIN g[n] |-> t[g[n][i]]]
  BY <1>1, <1>2, <1>3 DEF Tag
<1>5. f[n] \in Orders(R) /\ g[n] \in Orders(S)
  BY <1>1 DEF Listing
<1>6. /\ DOMAIN f[n] = 1..Cardinality(R) /\ Cardinality(R) \in Nat
      /\ DOMAIN g[n] = 1..Cardinality(S) /\ Cardinality(S) \in Nat
  BY <1>1, ListingOfName
<1>7. IsFiniteSet(S) /\ R \in SUBSET S
  BY ZoneAssumption, FS_Subset
<1>8. R = S
  <2> HIDE DEF R, S
  <2>1. 1..Cardinality(R) = 1..Cardinality(S)
    BY <1>4, <1>6
  <2>2. Cardinality(R) = Cardinality(S)
    BY <1>6, <2>1
  <2> QED BY <1>7, <2>2, FS_Subset
<1>9. \A i \in 1..Cardinality(S) : s[f[n][i]] = t[g[n][i]]
  BY <1>4, <1>6
<1>10. z \in S /\ \A y \in S : s[y] \in Nat /\ t[y] \in Nat /\ s[y] <= t[y]
  OBVIOUS
<1> HIDE DEF R, S, n
<1> QED BY <1>5, <1>7, <1>8, <1>9, <1>10, OrdersAgree
-----------------------------------------------------------------------------
\* Types.

LEMMA NoDocTypes == NoDoc \in Docs /\ NoSerials \in Serials /\ NoPoll \in Poll
BY DEF NoDoc, Docs, NoSerials, Serials, NoPoll, Poll

LEMMA VisibleType == \A z : Visible(z) \in SUBSET Shown
BY DEF Visible

LEMMA BumpedType ==
  ASSUME serial \in Serials, NEW z \in Zones
  PROVE  Bumped(z) \in Serials
BY DEF Bumped, Serials

\* Every variable keeps its type.
THEOREM TypeCorrect == Spec => []TypeOK
<1>1. Init => TypeOK
  BY NoDocTypes DEF Init, TypeOK, Empty
<1>2. TypeOK /\ [Next]_vars => TypeOK'
  <2> SUFFICES ASSUME TypeOK, [Next]_vars PROVE TypeOK'
    OBVIOUS
  <2> USE DEF TypeOK
  <2>1. CASE UNCHANGED vars
    BY <2>1 DEF vars, zoneVars, agentVars
  <2>2. ASSUME NEW z \in Zones, CreateZone(z) PROVE TypeOK'
    BY <2>2 DEF CreateZone, agentVars, Serials
  <2>3. ASSUME NEW z \in Zones, Apply(z) PROVE TypeOK'
    <3>1. [a \in Agents |-> IF z \in poll[a].todo THEN poll[a]
                            ELSE [poll[a] EXCEPT !.blind = @ \cup {z}]] \in [Agents -> Poll]
      BY SMTT(30) DEF Poll
    <3>2. [recs EXCEPT ![z] = Empty] \in [Zones -> [Rids -> Data \cup {None}]]
      BY DEF Empty
    <3> QED BY <2>3, <3>1, <3>2 DEF Apply, agentVars, Counted
  <2>4. ASSUME NEW o \in Owners, DeleteProvider(o) PROVE TypeOK'
    BY <2>4 DEF DeleteProvider, agentVars, Empty
  <2>5. ASSUME NEW z \in Zones, NEW r \in Rids, NEW d \in Data, CreateRecord(z, r, d) PROVE TypeOK'
    BY <2>5, BumpedType DEF CreateRecord, agentVars, Counted
  <2>6. ASSUME NEW w \in Writers, Write(w) PROVE TypeOK'
    <3>1. ASSUME NEW z \in Zones, NEW r \in Rids, NEW d \in Data \cup {None}, StartWrite(w, z, r, d)
          PROVE  TypeOK'
      BY <3>1 DEF StartWrite, agentVars, Counted, Job
    <3>2. CASE CommitWrite(w)
      <4>1. job[w] \in Job
        BY <3>2 DEF CommitWrite
      <4>2. Bumped(job[w].zone) \in Serials
        BY <4>1, BumpedType DEF Job
      <4> QED BY <3>2, <4>1, <4>2 DEF CommitWrite, agentVars, Job
    <3>3. CASE AbandonWrite(w)
      BY <3>3 DEF AbandonWrite, agentVars
    <3> QED BY <2>6, <3>1, <3>2, <3>3 DEF Write
  <2>7. ASSUME NEW a \in Agents, Export(a) PROVE TypeOK'
    <3>1. CASE BeginPoll(a)
      <4>1. PICK tag \in Tags(zones, serial) : poll' = [poll EXCEPT ![a] =
              [on |-> TRUE, tag |-> tag, todo |-> zones,
               saw |-> [z \in Zones |-> IF z \in zones THEN serial[z] ELSE 0],
               doc |-> NoDoc, blind |-> {}]]
        BY <3>1 DEF BeginPoll
      <4>2. tag \in ETags
        BY TagsType
      <4>3. [z \in Zones |-> IF z \in zones THEN serial[z] ELSE 0] \in Serials
        BY DEF Serials
      <4>4. poll' \in [Agents -> Poll]
        BY <4>1, <4>2, <4>3, NoDocTypes DEF Poll
      <4> QED BY <3>1, <4>4 DEF BeginPoll, agentVars, zoneVars
    <3>2. ASSUME NEW z \in Zones, ReadZone(a, z) PROVE TypeOK'
      <4> DEFINE newDoc == [poll[a].doc EXCEPT ![z] = Visible(z)]
                 read == [poll[a] EXCEPT !.todo = poll[a].todo \ {z}, !.doc = newDoc]
      <4>1. newDoc \in Docs
        <5>1. poll[a].doc \in Docs
          BY DEF Poll
        <5> QED BY <5>1, VisibleType DEF Docs
      <4>2. read \in Poll
        <5> HIDE DEF newDoc
        <5>1. poll[a] \in Poll
          OBVIOUS
        <5> QED BY <5>1, <4>1 DEF Poll
      <4>3. poll' \in [Agents -> Poll]
        <5>1. poll' = [poll EXCEPT ![a] = read]
          BY <3>2 DEF ReadZone
        <5> HIDE DEF read
        <5> QED BY <5>1, <4>2
      <4> QED BY <3>2, <4>3 DEF ReadZone, agentVars, zoneVars
    <3>3. CASE FinishPoll(a)
      <4>1. poll[a].tag \in ETags
        BY <3>3 DEF FinishPoll, Poll
      <4> QED BY <3>3, <4>1, NoDocTypes DEF FinishPoll, zoneVars, Poll
    <3>4. CASE FailPoll(a)
      BY <3>4, NoDocTypes DEF FailPoll, zoneVars, agentVars
    <3>5. CASE NotModified(a)
      BY <3>5, <2>1 DEF NotModified
    <3> QED BY <2>7, <3>1, <3>2, <3>3, <3>4, <3>5 DEF Export
  <2> QED BY <2>1, <2>2, <2>3, <2>4, <2>5, <2>6, <2>7 DEF Next, Admin
<1> QED BY <1>1, <1>2, PTL DEF Spec
-----------------------------------------------------------------------------
\* The label of an answer, and what an agent holds.

\* The fields of poll[a] after a step of the export.
LEMMA ReadFields ==
  ASSUME TypeOK, NEW a \in Agents, NEW z \in Zones, ReadZone(a, z)
  PROVE  /\ poll'[a].on /\ poll'[a].tag = poll[a].tag /\ poll'[a].saw = poll[a].saw
         /\ poll'[a].todo = poll[a].todo \ {z} /\ poll'[a].blind = poll[a].blind
         /\ poll'[a].doc[z] = Visible(z)
         /\ \A y \in Zones \ {z} : poll'[a].doc[y] = poll[a].doc[y]
         /\ \A b \in Agents \ {a} : poll'[b] = poll[b]
<1> DEFINE newDoc == [poll[a].doc EXCEPT ![z] = Visible(z)]
           read == [poll[a] EXCEPT !.todo = poll[a].todo \ {z}, !.doc = newDoc]
<1>1. poll' = [poll EXCEPT ![a] = read]
  BY DEF ReadZone
<1>2. poll \in [Agents -> Poll] /\ poll[a].doc \in Docs
  BY DEF TypeOK, Poll
<1>3. newDoc[z] = Visible(z) /\ \A y \in Zones \ {z} : newDoc[y] = poll[a].doc[y]
  BY <1>2 DEF Docs
<1>4. /\ read.on = poll[a].on /\ read.tag = poll[a].tag /\ read.saw = poll[a].saw
      /\ read.todo = poll[a].todo \ {z} /\ read.blind = poll[a].blind /\ read.doc = newDoc
  <2> HIDE DEF newDoc
  <2> QED BY <1>2 DEF Poll
<1>5. poll'[a] = read /\ \A b \in Agents \ {a} : poll'[b] = poll[b]
  <2> HIDE DEF read
  <2> QED BY <1>1, <1>2
<1>6. poll[a].on
  BY DEF ReadZone
<1> HIDE DEF read
<1> QED BY <1>3, <1>4, <1>5, <1>6

LEMMA BeginFields ==
  ASSUME TypeOK, NEW a \in Agents, BeginPoll(a)
  PROVE  /\ poll'[a].on /\ poll'[a].todo = zones
         /\ poll'[a].tag \in Tags(zones, serial) /\ poll'[a].blind = {}
         /\ poll'[a].saw = [z \in Zones |-> IF z \in zones THEN serial[z] ELSE 0]
         /\ \A b \in Agents \ {a} : poll'[b] = poll[b]
BY DEF BeginPoll, TypeOK

LEMMA ApplyFields ==
  ASSUME TypeOK, NEW z \in Zones, Apply(z), NEW a \in Agents
  PROVE  /\ poll'[a].on = poll[a].on /\ poll'[a].tag = poll[a].tag
         /\ poll'[a].saw = poll[a].saw /\ poll'[a].todo = poll[a].todo
         /\ poll'[a].doc = poll[a].doc
         /\ poll'[a].blind = IF z \in poll[a].todo THEN poll[a].blind ELSE poll[a].blind \cup {z}
<1>1. poll \in [Agents -> Poll]
  BY DEF TypeOK
<1>2. poll'[a] = IF z \in poll[a].todo THEN poll[a] ELSE [poll[a] EXCEPT !.blind = @ \cup {z}]
  BY DEF Apply
<1> QED BY <1>1, <1>2 DEF Poll

\* Nobody has seen a zone that is still to come.
LEMMA NewUnseen ==
  ASSUME TypeOK, VersionsKnown, NEW z \in unborn, NEW a \in Agents
  PROVE  serial[z] = 0 /\ saw[a][z] = 0 /\ poll[a].saw[z] = 0
<1>1. z \in Zones /\ saw[a][z] \in Nat /\ poll[a].saw[z] \in Nat
  BY DEF TypeOK, Serials, Poll
<1> QED BY <1>1 DEF VersionsKnown

\* A write leaves every zone as it was, or moves its serial past all versions
\* anybody has seen.
LEMMA WriteFits ==
  ASSUME TypeOK, Fits, UNCHANGED <<unborn, zones, poll, agentVars, blind>>,
         NEW z \in Zones,
         serial' = Bumped(z),
         z \notin zones => recs' = recs,
         \A y \in Zones \ {z} : recs'[y] = recs[y]
  PROVE  Fits'
<1> USE DEF agentVars
<1>1. \A y \in Zones : serial'[y] = IF y = z /\ y \in zones THEN serial[y] + 1 ELSE serial[y]
  BY DEF Bumped, TypeOK, Serials
<1>2. \A y \in Zones : serial[y] \in Nat
        /\ \A a \in Agents : saw[a][y] \in Nat /\ poll[a].saw[y] \in Nat
  BY DEF TypeOK, Serials, Poll
<1>3. VersionsKnown'
  <2>1. \A y \in Zones \ zones : recs'[y] = Empty
    BY DEF Fits, VersionsKnown
  <2>2. \A y \in Zones : serial'[y] >= serial[y] /\ serial'[y] \in Nat /\ (serial'[y] = 0 <=> serial[y] = 0)
    <3>1. \A y \in zones : y \in Zones /\ serial[y] # 0
      BY DEF Fits, VersionsKnown, TypeOK
    <3> QED BY <1>1, <1>2, <3>1
  <2>3. \A a \in Agents, y \in Zones : saw[a][y] <= serial'[y] /\ poll[a].saw[y] <= serial'[y]
    BY <1>2, <2>2 DEF Fits, VersionsKnown
  <2> QED BY <2>1, <2>2, <2>3 DEF Fits, VersionsKnown
<1>4. \A y \in zones, a \in Agents :
        (saw[a][y] = serial'[y] \/ poll[a].saw[y] = serial'[y]) => y # z
  <2>1. zones \subseteq Zones
    BY DEF TypeOK
  <2> QED BY <1>1, <1>2, <2>1 DEF Fits, VersionsKnown
<1>5. \A y \in zones \ {z} : Visible(y)' = Visible(y) /\ serial'[y] = serial[y]
  BY <1>1 DEF Visible, TypeOK
<1>6. DocFits'
  BY <1>4, <1>5 DEF Fits, DocFits, UpToDate, TypeOK
<1>7. AnswerNotOlder'
  BY <1>4, <1>5 DEF Fits, AnswerNotOlder, TypeOK
<1> QED BY <1>3, <1>6, <1>7 DEF Fits

\* A commit changes one zone at most, and none if its zone is gone.
LEMMA CommitTouches ==
  ASSUME TypeOK, Fits, NEW w \in Writers, CommitWrite(w)
  PROVE  /\ job[w].zone \in Zones /\ serial' = Bumped(job[w].zone)
         /\ UNCHANGED <<unborn, zones, poll, agentVars, blind>>
         /\ job[w].zone \notin zones => recs' = recs
         /\ \A y \in Zones \ {job[w].zone} : recs'[y] = recs[y]
<1> DEFINE z == job[w].zone
<1>1. z \in Zones /\ job[w].rid \in Rids
  BY DEF CommitWrite, TypeOK, Job
<1>2. ASSUME z \notin zones PROVE recs' = recs
  <2>1. recs[z] = Empty
    BY <1>1, <1>2 DEF Fits, VersionsKnown
  <2>2. recs[z][job[w].rid] = None
    BY <1>1, <2>1 DEF Empty
  <2>3. [recs EXCEPT ![z][job[w].rid] = None] = recs
    BY <1>1, <2>2 DEF TypeOK
  <2> QED BY <2>2, <2>3 DEF CommitWrite
<1>3. \A y \in Zones \ {z} : recs'[y] = recs[y]
  BY DEF CommitWrite, TypeOK
<1>4. serial' = Bumped(z) /\ UNCHANGED <<unborn, zones, poll, agentVars, blind>>
  BY DEF CommitWrite
<1> QED BY <1>1, <1>2, <1>3, <1>4

LEMMA FitsStep == TypeOK /\ TypeOK' /\ Fits /\ [Next]_vars => Fits'
<1> SUFFICES ASSUME TypeOK, TypeOK', Fits, [Next]_vars PROVE Fits'
  OBVIOUS
<1>1. CASE UNCHANGED vars
  BY <1>1 DEF vars, zoneVars, agentVars, Fits, VersionsKnown, DocFits, AnswerNotOlder, UpToDate, Visible
<1>2. ASSUME NEW z \in Zones, CreateZone(z) PROVE Fits'
  <2> USE DEF agentVars
  <2>1. /\ z \in unborn /\ z \notin zones /\ zones' = zones \cup {z} /\ unborn' = unborn \ {z}
        /\ serial'[z] = 1 /\ \A y \in Zones \ {z} : serial'[y] = serial[y]
        /\ zones \subseteq Zones \ {z}
        /\ UNCHANGED <<recs, poll, doc, saw, blind>>
    BY <1>2 DEF CreateZone, TypeOK, Serials
  <2>2. \A a \in Agents : saw[a][z] = 0 /\ poll[a].saw[z] = 0
    BY <2>1, NewUnseen DEF Fits
  <2>3. VersionsKnown'
    BY <2>1, <2>2 DEF Fits, VersionsKnown
  <2>4. \A y : Visible(y)' = Visible(y)
    BY <2>1 DEF Visible
  <2>5. DocFits'
    BY <2>1, <2>2, <2>4 DEF Fits, DocFits, UpToDate
  <2>6. AnswerNotOlder'
    BY <2>1, <2>2, <2>4 DEF Fits, AnswerNotOlder
  <2> QED BY <2>3, <2>5, <2>6 DEF Fits
<1>3. ASSUME NEW z \in Zones, Apply(z) PROVE Fits'
  <2> USE DEF agentVars
  <2>1. /\ z \in zones /\ recs'[z] = Empty /\ \A y \in Zones \ {z} : recs'[y] = recs[y]
        /\ \A a \in Agents : blind'[a] = blind[a] \cup {z}
        /\ UNCHANGED <<unborn, zones, serial, doc, saw>>
    BY <1>3 DEF Apply, TypeOK
  <2>2. \A a \in Agents : poll'[a].saw = poll[a].saw
    BY <1>3, ApplyFields
  <2>3. VersionsKnown'
    BY <2>1, <2>2 DEF Fits, VersionsKnown
  <2>4. \A y \in zones \ {z} : Visible(y)' = Visible(y)
    BY <2>1 DEF Visible, TypeOK
  <2>5. DocFits'
    BY <2>1, <2>4 DEF Fits, DocFits, UpToDate
  <2>6. \A a \in Agents : z \in poll'[a].todo \cup poll'[a].blind
    <3> TAKE a \in Agents
    <3>1. /\ poll'[a].todo = poll[a].todo
          /\ poll'[a].blind = IF z \in poll[a].todo THEN poll[a].blind ELSE poll[a].blind \cup {z}
      BY <1>3, ApplyFields
    <3> QED BY <3>1
  <2>7. \A a \in Agents : poll'[a].on = poll[a].on /\ poll'[a].doc = poll[a].doc
          /\ poll'[a].todo = poll[a].todo /\ poll[a].blind \subseteq poll'[a].blind
    BY <1>3, ApplyFields
  <2>8. AnswerNotOlder'
    BY <2>1, <2>2, <2>4, <2>6, <2>7 DEF Fits, AnswerNotOlder
  <2> QED BY <2>3, <2>5, <2>8 DEF Fits
<1>4. ASSUME NEW o \in Owners, DeleteProvider(o) PROVE Fits'
  <2> USE DEF agentVars
  <2>1. /\ zones' \subseteq zones /\ UNCHANGED <<unborn, serial, poll, doc, saw, blind>>
        /\ \A y \in zones' : recs'[y] = recs[y]
        /\ \A y \in Zones \ zones' : recs'[y] = Empty
    BY <1>4 DEF DeleteProvider, TypeOK, Fits, VersionsKnown
  <2>2. VersionsKnown'
    BY <2>1 DEF Fits, VersionsKnown
  <2>3. \A y \in zones' : Visible(y)' = Visible(y)
    BY <2>1 DEF Visible
  <2>4. DocFits' /\ AnswerNotOlder'
    BY <2>1, <2>3 DEF Fits, DocFits, AnswerNotOlder, UpToDate
  <2> QED BY <2>2, <2>4 DEF Fits
<1>5. ASSUME NEW z \in Zones, NEW r \in Rids, NEW d \in Data, CreateRecord(z, r, d) PROVE Fits'
  BY <1>5, WriteFits DEF CreateRecord, TypeOK
<1>6. ASSUME NEW w \in Writers, Write(w) PROVE Fits'
  <2>1. CASE CommitWrite(w)
    <3> DEFINE z == job[w].zone
    <3>1. /\ z \in Zones /\ serial' = Bumped(z)
          /\ UNCHANGED <<unborn, zones, poll, agentVars, blind>>
          /\ z \notin zones => recs' = recs
          /\ \A y \in Zones \ {z} : recs'[y] = recs[y]
      BY <2>1, CommitTouches
    <3> QED BY <3>1, WriteFits
  <2>2. CASE UNCHANGED <<unborn, zones, serial, recs, poll, agentVars, blind>>
    BY <2>2 DEF agentVars, Fits, VersionsKnown, DocFits, AnswerNotOlder, UpToDate, Visible
  <2> QED BY <1>6, <2>1, <2>2 DEF Write, StartWrite, AbandonWrite
<1>7. ASSUME NEW a \in Agents, Export(a) PROVE Fits'
  <2> USE DEF agentVars, zoneVars
  <2>1. CASE BeginPoll(a)
    <3>1. UNCHANGED <<unborn, zones, serial, recs, doc, saw, blind>>
      BY <2>1 DEF BeginPoll
    <3>2. \A y \in Zones : poll'[a].saw[y] = IF y \in zones THEN serial[y] ELSE 0
      <4>1. poll'[a].saw = [y \in Zones |-> IF y \in zones THEN serial[y] ELSE 0]
        BY <2>1, BeginFields
      <4> QED BY <4>1, Zenon
    <3>3. poll'[a].todo = zones /\ \A b \in Agents \ {a} : poll'[b] = poll[b]
      BY <2>1, BeginFields
    <3>4. VersionsKnown'
      <4>1. \A y \in Zones : serial[y] \in Nat /\ 0 <= serial[y]
        BY DEF TypeOK, Serials
      <4>2. \A b \in Agents, y \in Zones : poll'[b].saw[y] <= serial[y]
        BY <3>2, <3>3, <4>1 DEF Fits, VersionsKnown
      <4> QED BY <3>1, <4>2 DEF Fits, VersionsKnown
    <3>5. DocFits'
      BY <3>1 DEF Fits, DocFits, UpToDate, Visible
    <3>6. AnswerNotOlder'
      BY <3>1, <3>3 DEF Fits, AnswerNotOlder, Visible
    <3> QED BY <3>4, <3>5, <3>6 DEF Fits
  <2>2. ASSUME NEW z \in Zones, ReadZone(a, z) PROVE Fits'
    <3>1. UNCHANGED <<unborn, zones, serial, recs, doc, saw, blind>>
      BY <2>2 DEF ReadZone
    <3>2. \A b \in Agents : poll'[b].saw = poll[b].saw
      BY <2>2, ReadFields
    <3>3. VersionsKnown' /\ DocFits'
      BY <3>1, <3>2 DEF Fits, VersionsKnown, DocFits, UpToDate, Visible
    <3>4. \A y : Visible(y)' = Visible(y)
      BY <3>1 DEF Visible
    <3>5. /\ poll[a].on /\ poll'[a].todo = poll[a].todo \ {z} /\ poll'[a].blind = poll[a].blind
          /\ poll'[a].doc[z] = Visible(z)
          /\ \A y \in Zones \ {z} : poll'[a].doc[y] = poll[a].doc[y]
          /\ \A b \in Agents \ {a} : poll'[b] = poll[b]
      BY <2>2, ReadFields DEF ReadZone
    <3>6. AnswerNotOlder'
      <4> SUFFICES ASSUME NEW b \in Agents, NEW y \in zones, poll'[b].on,
                          y \notin poll'[b].todo \cup poll'[b].blind, poll'[b].saw[y] = serial[y]
                   PROVE  poll'[b].doc[y] = Visible(y)
        BY <3>1, <3>4 DEF AnswerNotOlder
      <4>1. CASE b = a /\ y = z
        BY <3>5, <4>1
      <4>2. CASE ~(b = a /\ y = z)
        <5>1. y \in Zones
          BY DEF TypeOK
        <5>2. poll[b].on /\ y \notin poll[b].todo \cup poll[b].blind /\ poll[b].saw[y] = serial[y]
                /\ poll'[b].doc[y] = poll[b].doc[y]
          BY <3>2, <3>5, <4>2, <5>1
        <5> QED BY <5>2 DEF Fits, AnswerNotOlder
      <4> QED BY <4>1, <4>2
    <3> QED BY <3>3, <3>6 DEF Fits
  <2>3. CASE FinishPoll(a)
    <3>1. UNCHANGED <<unborn, zones, serial, recs>> /\ poll[a].on /\ poll[a].todo = {}
      BY <2>3 DEF FinishPoll
    <3>2. /\ doc'[a] = poll[a].doc /\ saw'[a] = poll[a].saw /\ blind'[a] = poll[a].blind
          /\ poll'[a] = NoPoll
          /\ \A b \in Agents \ {a} : doc'[b] = doc[b] /\ saw'[b] = saw[b]
                                       /\ blind'[b] = blind[b] /\ poll'[b] = poll[b]
      BY <2>3 DEF FinishPoll, TypeOK
    <3>3. ~NoPoll.on /\ \A y \in Zones : NoPoll.saw[y] = 0
      BY DEF NoPoll, NoSerials
    <3>4. VersionsKnown'
      <4>1. \A y \in Zones : 0 <= serial[y]
        BY DEF TypeOK, Serials
      <4>2. \A b \in Agents, y \in Zones : saw'[b][y] <= serial[y]
        BY <3>2 DEF Fits, VersionsKnown
      <4>3. \A b \in Agents, y \in Zones : poll'[b].saw[y] <= serial[y]
        BY <3>2, <3>3, <4>1 DEF Fits, VersionsKnown
      <4> QED BY <3>1, <4>2, <4>3 DEF Fits, VersionsKnown
    <3>5. \A y : Visible(y)' = Visible(y)
      BY <3>1 DEF Visible
    <3>6. DocFits'
      BY <3>1, <3>2, <3>5 DEF Fits, DocFits, AnswerNotOlder, UpToDate
    <3>7. AnswerNotOlder'
      BY <3>1, <3>2, <3>3, <3>5 DEF Fits, AnswerNotOlder
    <3> QED BY <3>4, <3>6, <3>7 DEF Fits
  <2>4. CASE FailPoll(a)
    <3>1. UNCHANGED <<unborn, zones, serial, recs, doc, saw, blind>>
      BY <2>4 DEF FailPoll
    <3>2. poll'[a] = NoPoll /\ \A b \in Agents \ {a} : poll'[b] = poll[b]
      BY <2>4 DEF FailPoll, TypeOK
    <3>3. ~NoPoll.on /\ \A y \in Zones : NoPoll.saw[y] = 0
      BY DEF NoPoll, NoSerials
    <3>4. VersionsKnown'
      <4>1. \A y \in Zones : 0 <= serial[y]
        BY DEF TypeOK, Serials
      <4>2. \A b \in Agents, y \in Zones : poll'[b].saw[y] <= serial[y]
        BY <3>2, <3>3, <4>1 DEF Fits, VersionsKnown
      <4> QED BY <3>1, <4>2 DEF Fits, VersionsKnown
    <3>5. DocFits'
      BY <3>1 DEF Fits, DocFits, UpToDate, Visible
    <3>6. AnswerNotOlder'
      BY <3>1, <3>2, <3>3 DEF Fits, AnswerNotOlder, Visible
    <3> QED BY <3>4, <3>5, <3>6 DEF Fits
  <2>5. CASE NotModified(a)
    BY <1>1, <2>5 DEF NotModified
  <2> QED BY <1>7, <2>1, <2>2, <2>3, <2>4, <2>5 DEF Export
<1> QED BY <1>1, <1>2, <1>3, <1>4, <1>5, <1>6, <1>7 DEF Next, Admin

\* An answer is never labelled newer than its records, and an agent that holds
\* a zone at its current version holds its records.
THEOREM FitsCorrect == Spec => []Fits
<1>1. Init => Fits
  <2> SUFFICES ASSUME Init PROVE Fits
    OBVIOUS
  <2>1. VersionsKnown
    BY DEF Init, VersionsKnown, NoSerials, NoPoll
  <2>2. DocFits /\ AnswerNotOlder
    BY DEF Init, DocFits, AnswerNotOlder
  <2> QED BY <2>1, <2>2 DEF Fits
<1> QED BY <1>1, FitsStep, TypeCorrect, PTL DEF Spec

\* An answer on its way is never labelled newer than the records in it.
THEOREM AnswerCorrect == Spec => []AnswerNotOlder
<1>1. Fits => AnswerNotOlder
  BY DEF Fits
<1> QED BY <1>1, FitsCorrect, PTL
-----------------------------------------------------------------------------
\* A 304 is right.

LEMMA TagsStep == TypeOK /\ TypeOK' /\ Fits /\ TagsKnown /\ [Next]_vars => TagsKnown'
<1> SUFFICES ASSUME TypeOK, TypeOK', Fits, TagsKnown, [Next]_vars PROVE TagsKnown'
  OBVIOUS
<1> USE DEF agentVars, zoneVars
<1>1. CASE UNCHANGED <<poll, etag, saw>>
  BY <1>1 DEF TagsKnown, Seen, Tags, Listing
<1>2. ASSUME NEW z \in Zones, Apply(z) PROVE TagsKnown'
  <2>1. UNCHANGED <<etag, saw>>
    BY <1>2 DEF Apply
  <2>2. \A a \in Agents : poll'[a].on = poll[a].on /\ poll'[a].tag = poll[a].tag
                         /\ poll'[a].saw = poll[a].saw
    BY <1>2, ApplyFields
  <2> QED BY <2>1, <2>2 DEF TagsKnown
<1>3. ASSUME NEW a \in Agents, Export(a) PROVE TagsKnown'
  <2>1. CASE BeginPoll(a)
    <3> DEFINE cut == [z \in Zones |-> IF z \in zones THEN serial[z] ELSE 0]
    <3>1. UNCHANGED <<etag, saw>>
      BY <2>1 DEF BeginPoll
    <3>2. /\ poll'[a].tag \in Tags(zones, serial) /\ poll'[a].saw = cut
          /\ \A b \in Agents \ {a} : poll'[b] = poll[b]
      BY <2>1, BeginFields
    <3>3. Seen(cut) = zones
      <4>1. \A z \in zones : serial[z] # 0 /\ z \in Zones
        BY DEF Fits, VersionsKnown, TypeOK, Serials
      <4>2. \A z \in zones : cut[z] # 0
        BY <4>1
      <4> QED BY <4>1, <4>2 DEF Seen
    <3>4. Tags(zones, serial) = Tags(zones, cut)
      <4>1. zones \in SUBSET Zones /\ \A z \in zones : serial[z] = cut[z]
        BY DEF TypeOK
      <4> HIDE DEF cut
      <4> QED BY <4>1, TagsAgree
    <3>5. poll'[a].tag \in Tags(Seen(poll'[a].saw), poll'[a].saw)
      BY <3>2, <3>3, <3>4
    <3> QED BY <3>1, <3>2, <3>5 DEF TagsKnown
  <2>2. ASSUME NEW z \in Zones, ReadZone(a, z) PROVE TagsKnown'
    <3>1. UNCHANGED <<etag, saw>> /\ poll[a].on
      BY <2>2 DEF ReadZone
    <3>2. /\ poll'[a].tag = poll[a].tag /\ poll'[a].saw = poll[a].saw
          /\ \A b \in Agents \ {a} : poll'[b] = poll[b]
      BY <2>2, ReadFields
    <3> QED BY <3>1, <3>2 DEF TagsKnown
  <2>3. CASE FinishPoll(a)
    <3>1. poll[a].on /\ etag'[a] = {poll[a].tag} /\ saw'[a] = poll[a].saw /\ poll'[a] = NoPoll
      BY <2>3 DEF FinishPoll, TypeOK
    <3>2. \A b \in Agents \ {a} : etag'[b] = etag[b] /\ saw'[b] = saw[b] /\ poll'[b] = poll[b]
      BY <2>3 DEF FinishPoll, TypeOK
    <3>3. ~NoPoll.on
      BY DEF NoPoll
    <3> QED BY <3>1, <3>2, <3>3 DEF TagsKnown
  <2>4. CASE FailPoll(a)
    <3>1. UNCHANGED <<etag, saw>> /\ poll'[a] = NoPoll /\ \A b \in Agents \ {a} : poll'[b] = poll[b]
      BY <2>4 DEF FailPoll, TypeOK
    <3>2. ~NoPoll.on
      BY DEF NoPoll
    <3> QED BY <3>1, <3>2 DEF TagsKnown
  <2>5. CASE NotModified(a)
    BY <1>1, <2>5 DEF NotModified, vars
  <2> QED BY <1>3, <2>1, <2>2, <2>3, <2>4, <2>5 DEF Export
<1>4. CASE UNCHANGED vars
  BY <1>1, <1>4 DEF vars
<1>5. ASSUME NEW z \in Zones, CreateZone(z) PROVE TagsKnown'
  BY <1>1, <1>5 DEF CreateZone
<1>6. ASSUME NEW o \in Owners, DeleteProvider(o) PROVE TagsKnown'
  BY <1>1, <1>6 DEF DeleteProvider
<1>7. ASSUME NEW z \in Zones, NEW r \in Rids, NEW d \in Data, CreateRecord(z, r, d) PROVE TagsKnown'
  BY <1>1, <1>7 DEF CreateRecord
<1>8. ASSUME NEW w \in Writers, Write(w) PROVE TagsKnown'
  BY <1>1, <1>8 DEF Write, StartWrite, CommitWrite, AbandonWrite
<1> QED BY <1>2, <1>3, <1>4, <1>5, <1>6, <1>7, <1>8 DEF Next, Admin

\* A 304 is right: an agent whose tag matches holds the records every zone has
\* now, but for zones that an apply emptied without a new serial and for names
\* a row of which is gone: LocalExport!NotModifiedSound.
THEOREM NotModifiedCorrect == Spec => []NotModifiedSound
<1>1. Init => TagsKnown
  BY DEF Init, TagsKnown, NoPoll
<1>2. TypeOK /\ Fits /\ TagsKnown => NotModifiedSound
  <2> SUFFICES ASSUME TypeOK, Fits, TagsKnown,
                      NEW a \in Agents, Matches(a), NEW z \in zones \ blind[a], Kept(a, z)
               PROVE  UpToDate(a, z)
    BY DEF NotModifiedSound
  <2>1. PICK tag \in etag[a] : tag \in Tags(zones, serial)
    BY DEF Matches
  <2>2. tag \in Tags(Seen(saw[a]), saw[a])
    BY <2>1 DEF TagsKnown
  <2>3. zones \in SUBSET Zones /\ Seen(saw[a]) \in SUBSET Zones
    BY DEF TypeOK, Seen
  <2>4. \A y \in Seen(saw[a]) : NameOf[y] = NameOf[z] => y \in zones
    BY DEF Kept, Seen
  <2>5. \A y \in zones : saw[a][y] \in Nat /\ serial[y] \in Nat /\ saw[a][y] <= serial[y]
    BY <2>3 DEF Fits, VersionsKnown, TypeOK, Serials
  <2>6. saw[a][z] = serial[z]
    <3> DEFINE Y == Seen(saw[a])
               s == saw[a]
    <3>1. Y \in SUBSET Zones /\ tag \in Tags(Y, s) /\ z \in zones
      BY <2>2, <2>3
    <3>2. /\ \A y \in Y : NameOf[y] = NameOf[z] => y \in zones
          /\ \A y \in zones : s[y] \in Nat /\ serial[y] \in Nat /\ s[y] <= serial[y]
      BY <2>4, <2>5
    <3> HIDE DEF Y, s
    <3>3. s[z] = serial[z]
      BY <2>1, <2>3, <3>1, <3>2, TagsEqual
    <3> QED BY <3>3 DEF s
  <2> QED BY <2>6 DEF Fits, DocFits
<1> QED BY <1>1, <1>2, TagsStep, TypeCorrect, FitsCorrect, PTL DEF Spec
-----------------------------------------------------------------------------
\* Versions go forward.

LEMMA AdvanceStep ==
  TypeOK /\ TypeOK' /\ Fits /\ PollsAdvance /\ [Next]_vars => PollsAdvance'
<1> SUFFICES ASSUME TypeOK, TypeOK', Fits, PollsAdvance, [Next]_vars PROVE PollsAdvance'
  OBVIOUS
<1> USE DEF agentVars, zoneVars
<1>0. zones \subseteq Zones /\ unborn \subseteq Zones
  BY DEF TypeOK
<1>1. CASE zones' \subseteq zones /\ UNCHANGED <<poll, saw, blind>>
  BY <1>1 DEF PollsAdvance
<1>2. ASSUME NEW z \in Zones, Apply(z) PROVE PollsAdvance'
  <2>1. /\ UNCHANGED <<zones, saw>>
        /\ \A a \in Agents : blind'[a] = blind[a] \cup {z}
    BY <1>2 DEF Apply
  <2>2. \A a \in Agents : /\ poll'[a].on = poll[a].on /\ poll'[a].saw = poll[a].saw
                          /\ poll'[a].blind \subseteq poll[a].blind \cup {z}
    BY <1>2, ApplyFields
  <2> QED BY <2>1, <2>2 DEF PollsAdvance
<1>3. ASSUME NEW z \in Zones, CreateZone(z) PROVE PollsAdvance'
  <2>1. z \in unborn /\ zones' = zones \cup {z} /\ UNCHANGED <<poll, saw>>
    BY <1>3 DEF CreateZone
  <2>2. \A a \in Agents : saw[a][z] = 0 /\ poll[a].saw[z] = 0
    BY <2>1, NewUnseen DEF Fits
  <2>3. blind' = blind
    BY <1>3 DEF CreateZone
  <2>4. \A a \in Agents : saw'[a][z] <= poll'[a].saw[z]
    BY <2>1, <2>2
  <2>5. \A a \in Agents, y \in zones : poll'[a].on => saw'[a][y] <= poll'[a].saw[y]
    BY <2>1 DEF PollsAdvance
  <2>6. \A a \in Agents : poll'[a].on => poll'[a].blind \subseteq blind'[a]
    BY <2>1, <2>3 DEF PollsAdvance
  <2> QED BY <2>1, <2>4, <2>5, <2>6 DEF PollsAdvance
<1>4. ASSUME NEW a \in Agents, Export(a) PROVE PollsAdvance'
  <2>0. UNCHANGED <<zones, serial>>
    BY <1>4 DEF Export, BeginPoll, ReadZone, FinishPoll, FailPoll, NotModified, vars
  <2>1. CASE BeginPoll(a)
    <3>1. /\ saw' = saw /\ blind' = blind /\ poll'[a].blind = {}
          /\ \A z \in zones : poll'[a].saw[z] = serial[z]
      BY <2>1, <1>0, BeginFields DEF BeginPoll
    <3>2. \A b \in Agents \ {a} : poll'[b] = poll[b]
      BY <2>1, BeginFields
    <3>3. \A z \in zones : saw[a][z] <= serial[z]
      BY <1>0 DEF Fits, VersionsKnown
    <3> QED BY <2>0, <3>1, <3>2, <3>3 DEF PollsAdvance
  <2>2. ASSUME NEW z \in Zones, ReadZone(a, z) PROVE PollsAdvance'
    <3>1. saw' = saw /\ blind' = blind /\ poll[a].on
      BY <2>2 DEF ReadZone
    <3>2. \A b \in Agents : (poll'[b].on <=> poll[b].on) /\ poll'[b].saw = poll[b].saw
                           /\ poll'[b].blind = poll[b].blind
      BY <2>2, <3>1, ReadFields
    <3> QED BY <2>0, <3>1, <3>2 DEF PollsAdvance
  <2>3. CASE FinishPoll(a) \/ FailPoll(a)
    <3>1. /\ poll'[a] = NoPoll /\ ~NoPoll.on
          /\ \A b \in Agents \ {a} : poll'[b] = poll[b] /\ saw'[b] = saw[b] /\ blind'[b] = blind[b]
      BY <2>3 DEF FinishPoll, FailPoll, NoPoll, TypeOK
    <3> QED BY <2>0, <3>1 DEF PollsAdvance
  <2>4. CASE NotModified(a)
    BY <1>1, <2>4 DEF NotModified, vars
  <2> QED BY <1>4, <2>1, <2>2, <2>3, <2>4 DEF Export
<1>5. CASE UNCHANGED vars
  BY <1>1, <1>5 DEF vars
<1>6. ASSUME NEW o \in Owners, DeleteProvider(o) PROVE PollsAdvance'
  BY <1>1, <1>6 DEF DeleteProvider
<1>7. ASSUME NEW z \in Zones, NEW r \in Rids, NEW d \in Data, CreateRecord(z, r, d) PROVE PollsAdvance'
  BY <1>1, <1>7 DEF CreateRecord
<1>8. ASSUME NEW w \in Writers, Write(w) PROVE PollsAdvance'
  BY <1>1, <1>8 DEF Write, StartWrite, CommitWrite, AbandonWrite
<1> QED BY <1>2, <1>3, <1>4, <1>5, <1>6, <1>7, <1>8 DEF Next, Admin

\* No answer on its way is older than what its agent has.
LEMMA AdvanceCorrect == Spec => []PollsAdvance
<1>1. Init => PollsAdvance
  BY DEF Init, PollsAdvance, NoPoll
<1> QED BY <1>1, AdvanceStep, TypeCorrect, FitsCorrect, PTL DEF Spec

\* A write changes the records of one zone at most, whose serial grows.
LEMMA BumpGrows ==
  ASSUME TypeOK, NEW y \in Zones, serial' = Bumped(y), zones' = zones,
         \A z \in Zones \ {y} : recs'[z] = recs[z], NEW z \in zones
  PROVE  serial'[z] >= serial[z] /\ (recs'[z] # recs[z] => serial'[z] > serial[z])
<1>1. z \in Zones /\ serial[z] \in Nat
  BY DEF TypeOK, Serials
<1>2. serial'[z] = IF z = y THEN serial[z] + 1 ELSE serial[z]
  BY <1>1 DEF Bumped, TypeOK, Serials
<1> QED BY <1>1, <1>2

\* Versions move forward, those of the zones and those that agents hold:
\* LocalExport!VersionsAdvance.
THEOREM VersionsCorrect == Spec => VersionsAdvance
<1> DEFINE Forward ==
      \A z \in zones \cap zones' :
        /\ serial'[z] >= serial[z]
        /\ recs'[z] # recs[z] => serial'[z] > serial[z] \/ Apply(z)
        /\ \A a \in Agents : saw'[a][z] >= saw[a][z]
<1>1. TypeOK /\ TypeOK' /\ Fits /\ PollsAdvance /\ [Next]_vars => [Forward]_vars
  <2> SUFFICES ASSUME TypeOK, TypeOK', Fits, PollsAdvance, Next, NEW z \in zones, z \in zones'
               PROVE  /\ serial'[z] >= serial[z]
                      /\ recs'[z] # recs[z] => serial'[z] > serial[z] \/ Apply(z)
                      /\ \A a \in Agents : saw'[a][z] >= saw[a][z]
    OBVIOUS
  <2> USE DEF agentVars, zoneVars
  <2>0. z \in Zones /\ serial[z] \in Nat /\ \A a \in Agents : saw[a][z] \in Nat
    BY DEF TypeOK, Serials
  <2>1. ASSUME UNCHANGED <<serial, recs, saw>> PROVE Forward
    <3>1. \A y \in zones : y \in Zones /\ serial[y] \in Nat /\ \A a \in Agents : saw[a][y] \in Nat
      BY DEF TypeOK, Serials
    <3> QED BY <2>1, <3>1
  <2>2. ASSUME NEW y \in Zones, serial' = Bumped(y), zones' = zones, saw' = saw,
               \A x \in Zones \ {y} : recs'[x] = recs[x]
        PROVE  /\ serial'[z] >= serial[z] /\ (recs'[z] # recs[z] => serial'[z] > serial[z])
               /\ \A a \in Agents : saw'[a][z] >= saw[a][z]
    BY <2>0, <2>2, BumpGrows
  <2>3. ASSUME NEW y \in Zones, CreateZone(y) PROVE Forward
    <3>1. y \notin zones /\ serial' = [serial EXCEPT ![y] = 1] /\ UNCHANGED <<recs, saw>>
      BY <2>3 DEF CreateZone, TypeOK
    <3>2. \A x \in zones : serial'[x] = serial[x] /\ serial[x] \in Nat /\ \A a \in Agents : saw[a][x] \in Nat
      BY <3>1 DEF TypeOK, Serials
    <3> QED BY <3>1, <3>2
  <2>4. ASSUME NEW y \in Zones, Apply(y)
        PROVE  /\ serial'[z] = serial[z] /\ saw' = saw
               /\ recs'[z] # recs[z] => z = y
    BY <2>4, <2>0 DEF Apply, TypeOK
  <2>5. ASSUME NEW o \in Owners, DeleteProvider(o)
        PROVE  serial' = serial /\ saw' = saw /\ recs'[z] = recs[z]
    BY <2>5, <2>0 DEF DeleteProvider
  <2>6. ASSUME NEW a \in Agents, Export(a)
        PROVE  serial' = serial /\ recs' = recs /\ \A b \in Agents : saw'[b][z] >= saw[b][z]
    <3>1. serial' = serial /\ recs' = recs
      BY <2>6 DEF Export, BeginPoll, ReadZone, FinishPoll, FailPoll, NotModified, vars
    <3>2. CASE FinishPoll(a)
      <4>1. poll[a].on /\ saw'[a] = poll[a].saw /\ \A b \in Agents \ {a} : saw'[b] = saw[b]
        BY <3>2 DEF FinishPoll, TypeOK
      <4>2. saw[a][z] <= poll[a].saw[z] /\ poll[a].saw[z] \in Nat
        BY <4>1, <2>0 DEF PollsAdvance, TypeOK, Poll, Serials
      <4> QED BY <3>1, <4>1, <4>2, <2>0
    <3>3. CASE ~FinishPoll(a)
      <4>1. saw' = saw
        BY <2>6, <3>3 DEF Export, BeginPoll, ReadZone, FailPoll, NotModified, vars
      <4> QED BY <3>1, <4>1, <2>0
    <3> QED BY <3>2, <3>3
  <2>7. ASSUME NEW y \in Zones, NEW r \in Rids, NEW d \in Data, CreateRecord(y, r, d)
        PROVE  serial' = Bumped(y) /\ zones' = zones /\ saw' = saw
               /\ \A x \in Zones \ {y} : recs'[x] = recs[x]
    BY <2>7 DEF CreateRecord, TypeOK
  <2>8. ASSUME NEW w \in Writers, CommitWrite(w)
        PROVE  /\ job[w].zone \in Zones /\ serial' = Bumped(job[w].zone) /\ zones' = zones /\ saw' = saw
               /\ \A x \in Zones \ {job[w].zone} : recs'[x] = recs[x]
    BY <2>8, CommitTouches
  <2>9. ASSUME NEW w \in Writers, Write(w), ~CommitWrite(w) PROVE UNCHANGED <<serial, recs, saw>>
    BY <2>9 DEF Write, StartWrite, AbandonWrite
  <2>10. CASE Admin
    <3>1. CASE \E y \in Zones : CreateZone(y)
      BY <2>3, <3>1
    <3>2. CASE \E y \in Zones : Apply(y)
      <4>1. PICK y \in Zones : Apply(y)
        BY <3>2
      <4> QED BY <4>1, <2>4, <2>0
    <3>3. CASE \E o \in Owners : DeleteProvider(o)
      BY <3>3, <2>5, <2>0
    <3> QED BY <2>10, <3>1, <3>2, <3>3 DEF Admin
  <2>11. CASE \E y \in Zones, r \in Rids, d \in Data : CreateRecord(y, r, d)
    BY <2>11, <2>7, <2>2
  <2>12. CASE \E w \in Writers : Write(w)
    <3>1. PICK w \in Writers : Write(w)
      BY <2>12
    <3>2. CASE CommitWrite(w)
      BY <3>2, <2>8, <2>2
    <3>3. CASE ~CommitWrite(w)
      BY <3>1, <3>3, <2>9, <2>1
    <3> QED BY <3>2, <3>3
  <2>13. CASE \E a \in Agents : Export(a)
    BY <2>13, <2>6, <2>0
  <2> QED BY <2>10, <2>11, <2>12, <2>13 DEF Next
<1> QED BY <1>1, AdvanceCorrect, TypeCorrect, FitsCorrect, PTL DEF Spec, VersionsAdvance
-----------------------------------------------------------------------------
\* The refinement.  A poll is a fetch when its answer reaches the agent; what the
\* service does before is seen by nobody.

\* A write of z, or one that finds z gone.
LEMMA WriteMaps ==
  ASSUME TypeOK, NEW z \in Zones,
         serial' = Bumped(z), UNCHANGED <<zones, agentVars, blind>>,
         z \notin zones => recs' = recs,
         \A y \in Zones \ {z} : recs'[y] = recs[y]
  PROVE  Versioned!Write(z) \/ UNCHANGED Versioned!vars
<1>1. UNCHANGED <<zones, saw, doc, blind>>
  BY DEF agentVars
<1>2. CASE z \in zones
  <2>1. serial' = [serial EXCEPT ![z] = @ + 1]
    BY <1>2 DEF Bumped
  <2>2. \A y \in Zones \ {z} : Visible(y)' = Visible(y)
    BY DEF Visible
  <2>3. Content' = [Content EXCEPT ![z] = Visible(z)']
    BY <2>2 DEF Content
  <2>4. Visible(z)' \in SUBSET Shown
    BY DEF Visible
  <2> QED BY <1>1, <1>2, <2>1, <2>3, <2>4 DEF Versioned!Write
<1>3. CASE z \notin zones
  <2>1. serial' = serial
    BY <1>3 DEF Bumped, TypeOK, Serials
  <2>2. Content' = Content
    BY <1>3 DEF Content, Visible
  <2> QED BY <1>1, <2>1, <2>2 DEF Versioned!vars
<1> QED BY <1>2, <1>3

LEMMA EmptySaysNothing == ASSUME NEW z, recs'[z] = Empty PROVE Visible(z)' = {}
<1>1. \A r \in Rids : Empty[r] = None
  BY DEF Empty
<1> QED BY <1>1, NoneAssumption, BoundAssumption DEF Visible

\* What reaches the agent is a fetch.
LEMMA FinishMaps ==
  ASSUME TypeOK, TypeOK', Fits, PollsAdvance, NEW a \in Agents, FinishPoll(a)
  PROVE  Versioned!Fetch(a)
<1>1. /\ poll[a].on /\ poll[a].todo = {} /\ poll[a] \in Poll
      /\ saw'[a] = poll[a].saw /\ doc'[a] = poll[a].doc /\ blind'[a] = poll[a].blind
      /\ \A b \in Agents \ {a} : saw'[b] = saw[b] /\ doc'[b] = doc[b] /\ blind'[b] = blind[b]
      /\ UNCHANGED <<zones, serial, recs>>
  BY DEF FinishPoll, TypeOK, zoneVars
<1>2. saw' \in [Agents -> [Zones -> Nat]] /\ doc' \in [Agents -> [Zones -> SUBSET Shown]]
      /\ blind' \in [Agents -> SUBSET Zones]
  BY DEF TypeOK, Serials, Docs
<1>3. \A z \in Zones : saw'[a][z] <= serial[z]
  BY <1>1 DEF Fits, VersionsKnown
<1>4. (\A z \in zones : saw[a][z] <= saw'[a][z]) /\ blind'[a] \subseteq blind[a]
  BY <1>1 DEF PollsAdvance
<1>5. \A z \in zones \ blind'[a] : saw'[a][z] = serial[z] => doc'[a][z] = Content[z]
  <2>1. \A z \in zones : z \in Zones /\ Content[z] = Visible(z)
    BY DEF TypeOK, Content
  <2> QED BY <1>1, <2>1 DEF Fits, AnswerNotOlder
<1>6. UNCHANGED <<zones, serial, Content>>
  BY <1>1 DEF Content, Visible
<1> QED BY <1>1, <1>2, <1>3, <1>4, <1>5, <1>6 DEF Versioned!Fetch

LEMMA StepMaps ==
  TypeOK /\ TypeOK' /\ Fits /\ PollsAdvance /\ [Next]_vars => [Versioned!Next]_(Versioned!vars)
<1> SUFFICES ASSUME TypeOK, TypeOK', Fits, PollsAdvance, [Next]_vars
             PROVE  Versioned!Next \/ UNCHANGED Versioned!vars
  OBVIOUS
<1> USE DEF agentVars, zoneVars
<1>1. ASSUME UNCHANGED <<zones, serial, recs, saw, doc, blind>> PROVE UNCHANGED Versioned!vars
  BY <1>1 DEF Versioned!vars, Content, Visible
<1>2. ASSUME NEW z \in Zones, CreateZone(z) PROVE Versioned!Next
  <2>1. z \in unborn /\ z \notin zones /\ Content' = Content
    BY <1>2 DEF CreateZone, TypeOK, Content, Visible
  <2>2. serial[z] = 0
    BY <2>1 DEF Fits, VersionsKnown
  <2>3. Versioned!Create(z)
    BY <1>2, <2>1, <2>2 DEF CreateZone, Versioned!Create
  <2> QED BY <2>3 DEF Versioned!Next
<1>3. ASSUME NEW z \in Zones, Apply(z) PROVE Versioned!Next
  <2>1. recs'[z] = Empty /\ \A y \in Zones \ {z} : recs'[y] = recs[y]
    BY <1>3 DEF Apply, TypeOK
  <2>2. Visible(z)' = {} /\ \A y \in Zones \ {z} : Visible(y)' = Visible(y)
    BY <2>1, EmptySaysNothing DEF Visible
  <2>3. Content' = [Content EXCEPT ![z] = {}]
    BY <2>2 DEF Content
  <2>4. Versioned!Clear(z)
    BY <1>3, <2>3 DEF Apply, Versioned!Clear
  <2> QED BY <2>4 DEF Versioned!Next
<1>4. ASSUME NEW o \in Owners, DeleteProvider(o) PROVE Versioned!Next
  <2> DEFINE gone == {z \in zones : OwnerOf[z] = o}
  <2>1. \A z \in Zones : recs'[z] = IF z \in gone THEN Empty ELSE recs[z]
    BY <1>4 DEF DeleteProvider
  <2>2. zones' = zones \ gone /\ UNCHANGED <<serial, saw, doc, blind>>
    BY <1>4 DEF DeleteProvider
  <2>3. gone \in SUBSET zones
    OBVIOUS
  <2> HIDE DEF gone
  <2>4. \A z \in Zones : Visible(z)' = IF z \in gone THEN {} ELSE Visible(z)
    BY <2>1, EmptySaysNothing DEF Visible
  <2>5. Content' = [z \in Zones |-> IF z \in gone THEN {} ELSE Content[z]]
    BY <2>4 DEF Content
  <2>6. Versioned!Drop(gone)
    BY <2>2, <2>5 DEF Versioned!Drop
  <2> QED BY <2>3, <2>6 DEF Versioned!Next
<1>5. ASSUME NEW z \in Zones, NEW r \in Rids, NEW d \in Data, CreateRecord(z, r, d)
      PROVE  Versioned!Next \/ UNCHANGED Versioned!vars
  <2>1. \A y \in Zones \ {z} : recs'[y] = recs[y]
    BY <1>5 DEF CreateRecord, TypeOK
  <2>2. Versioned!Write(z) \/ UNCHANGED Versioned!vars
    BY <1>5, <2>1, WriteMaps DEF CreateRecord
  <2> QED BY <2>2 DEF Versioned!Next
<1>6. ASSUME NEW w \in Writers, CommitWrite(w) PROVE Versioned!Next \/ UNCHANGED Versioned!vars
  <2>1. /\ job[w].zone \in Zones /\ serial' = Bumped(job[w].zone)
        /\ UNCHANGED <<zones, agentVars, blind>>
        /\ job[w].zone \notin zones => recs' = recs
        /\ \A y \in Zones \ {job[w].zone} : recs'[y] = recs[y]
    BY <1>6, CommitTouches
  <2>2. Versioned!Write(job[w].zone) \/ UNCHANGED Versioned!vars
    BY <2>1, WriteMaps
  <2> QED BY <2>1, <2>2 DEF Versioned!Next
<1>7. ASSUME NEW a \in Agents, Export(a) PROVE Versioned!Next \/ UNCHANGED Versioned!vars
  <2>1. FinishPoll(a) => Versioned!Next
    BY FinishMaps DEF Versioned!Next
  <2>2. ~FinishPoll(a) => UNCHANGED <<zones, serial, recs, saw, doc, blind>>
    BY <1>7 DEF Export, BeginPoll, ReadZone, FailPoll, NotModified, vars
  <2> QED BY <1>1, <2>1, <2>2
<1>8. ASSUME NEW w \in Writers, Write(w) PROVE Versioned!Next \/ UNCHANGED Versioned!vars
  BY <1>1, <1>6, <1>8 DEF Write, StartWrite, AbandonWrite
<1>9. CASE UNCHANGED vars
  BY <1>1, <1>9 DEF vars
<1> QED BY <1>2, <1>3, <1>4, <1>5, <1>7, <1>8, <1>9 DEF Next, Admin

\* Query by query, whatever is written, applied and deleted meanwhile, a poll is
\* one fetch of VersionedZones: LocalExport!IsVersioned.
THEOREM Implements == Spec => IsVersioned
<1>1. Init => Versioned!Init
  <2> SUFFICES ASSUME Init PROVE Versioned!Init
    OBVIOUS
  <2>1. \A z \in Zones : Visible(z) = {}
    BY NoneAssumption, BoundAssumption DEF Init, Visible, Empty
  <2>2. Content = [z \in Zones |-> {}]
    BY <2>1 DEF Content
  <2> QED BY <2>2 DEF Init, Versioned!Init, NoDoc, NoSerials
<1> QED BY <1>1, StepMaps, TypeCorrect, FitsCorrect, AdvanceCorrect, PTL DEF Spec, IsVersioned, Versioned!Spec
=============================================================================
