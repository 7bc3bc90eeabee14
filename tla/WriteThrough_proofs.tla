------------------------ MODULE WriteThrough_proofs ------------------------
(***************************************************************************)
(* Proofs about WriteThrough, for every set of zones, handles, fields,     *)
(* values and requests and every bound.                                    *)
(***************************************************************************)
EXTENDS WriteThrough, FiniteSetTheorems, TLAPS

-----------------------------------------------------------------------------
\* The inductive invariants.

Gone(z, r) == r \in minted /\ remote[z][r] = None

\* Every handle the history knows was minted; what the provider holds is held.
HeldKnown ==
  /\ \A x \in held : x[2] \in minted
  /\ \A z \in Zones, r \in Rids : remote[z][r] # None => <<z, r, remote[z][r]>> \in held

\* What a request is about to write or to log was held by the provider, and a
\* record it has deleted does not come back.
JobsKnown ==
  \A w \in Writers : wr[w].at \in {"write", "audit"} =>
    IF wr[w].op = "delete" THEN Gone(wr[w].zone, wr[w].rid)
    ELSE <<wr[w].zone, wr[w].rid, wr[w].data>> \in held

\* So was what a sync has collected.
ListingsKnown ==
  \A s \in Syncs, z \in Zones, r \in Rids :
    sy[s].snap[z][r] # None => <<z, r, sy[s].snap[z][r]>> \in held

AuditKnown ==
  \A e \in audit :
    /\ e.op \in {"create", "update"} => <<e.zone, e.rid, e.data>> \in held
    /\ e.op = "delete" => e.zone \in Zones /\ Gone(e.zone, e.rid)

Known == HeldKnown /\ JobsKnown /\ ListingsKnown /\ CacheFromProvider /\ AuditKnown

\* A listing holds records of the zones it is done with and of the one under way
\* only, and its offset is that of the zone under way.
ListingShape ==
  \A s \in Syncs :
    /\ sy[s].at # "list" => sy[s].done = {} /\ sy[s].zone = None
    /\ sy[s].zone = None => sy[s].offset = 0
    /\ sy[s].zone \notin sy[s].done
    /\ sy[s].todo \cap sy[s].done = {}
    /\ \A z \in Zones \ (sy[s].done \cup {sy[s].zone}) : sy[s].snap[z] = Empty

\* A record that the pages of a listing are past is as the listing has it, listed
\* or left out, unless it changed since or was missed.
ListingFresh ==
  \A s \in Syncs, z \in Zones, r \in Rids :
    Passed(s, z, r) /\ <<z, r>> \notin stale[s] => sy[s].snap[z][r] = remote[z][r]

ListingRight == ListingShape /\ ListingFresh

\* Two requests wait to commit the same record only if it is dirty.
PendingAlone ==
  \A v, w \in Writers :
    v # w /\ wr[v].at = "write" /\ wr[w].at = "write"
      /\ wr[v].zone = wr[w].zone /\ wr[v].rid = wr[w].rid =>
        <<wr[w].zone, wr[w].rid>> \in dirty

\* A request that waits to commit a clean record holds what the provider
\* holds; its commit puts that into the row, unless a sync already has.
PendingFits ==
  \A w \in Writers :
    LET z == wr[w].zone  r == wr[w].rid IN
    wr[w].at = "write" /\ <<z, r>> \notin dirty =>
      /\ remote[z][r] = wr[w].data
      /\ \/ z \notin zones
         \/ Mirrors(z, r)
         \/ wr[w].op = "create" /\ rows[z][r] = None
         \/ wr[w].op # "create" /\ SameRow(w)

\* A zone's serial also counts the requests that have committed and have yet to
\* log; a zone that comes into the cache has none of either, for while the
\* account exists requests are made, and entries written, of cached zones only.
Logging(z) == {w \in Writers : wr[w].at = "audit" /\ wr[w].zone = z}
Counted ==
  \A z \in zones :
    /\ IsFiniteSet(LogOf(z)) /\ IsFiniteSet(Logging(z))
    /\ Cardinality(LogOf(z)) + Cardinality(Logging(z)) < serial[z]
OfCachedZones ==
  account => /\ \A w \in Writers : wr[w].at # "idle" => wr[w].zone \in zones
             /\ \A e \in audit : e.op \in Op => e.zone \in zones
CountInv == Counted /\ OfCachedZones

\* What listings and requests bring to the cache is right, and so is what they find.
MirrorInv == ListingRight /\ PendingAlone /\ PendingFits /\ MirrorUnlessDisturbed
-----------------------------------------------------------------------------
LEMMA PatchedType ==
  ASSUME NEW cur \in Data, NEW patch \in [Fields -> Vals \cup {None}]
  PROVE  Patched(cur, patch) \in Data
BY DEF Patched, Data

LEMMA NoWriteIdle == NoWrite.at = "idle"
BY DEF NoWrite

\* A sync that has listed nothing.
Blank(j) == j.done = {} /\ j.zone = None /\ j.offset = 0 /\ j.snap = [z \in Zones |-> Empty]

LEMMA NoSyncType == NoSync \in SyncJob /\ NoSync.at = "idle" /\ Blank(NoSync)
BY DEF NoSync, SyncJob, Empty, Blank

\* What a sync turns into when it is done with its listing.
LEMMA AfterType ==
  ASSUME NEW at \in {"idle", "audit"}, NEW op \in {"sync", "apply"}
  PROVE  LET j == [NoSync EXCEPT !.at = at, !.op = op]
         IN  j \in SyncJob /\ j.at = at /\ j.op = op /\ Blank(j)
BY DEF NoSync, SyncJob, Empty, Blank

\* Two syncs that have listed the same.
SameListing(j, k) ==
  /\ j.at = k.at /\ j.todo = k.todo /\ j.zone = k.zone
  /\ j.offset = k.offset /\ j.done = k.done /\ j.snap = k.snap

\* Noted leaves all of a sync but beside.
LEMMA NotedType ==
  ASSUME NEW op, NEW new \in SUBSET (Zones \X Rids), sy \in [Syncs -> SyncJob]
  PROVE  /\ Noted(op, new) \in [Syncs -> SyncJob]
         /\ \A t \in Syncs : SameListing(Noted(op, new)[t], sy[t])
<1>1. ASSUME NEW t \in Syncs
      PROVE  [sy[t] EXCEPT !.beside = @ \cup {x \in new : x[1] \in sy[t].done}] \in SyncJob
  <2>1. sy[t] \in SyncJob
    OBVIOUS
  <2> QED
    BY <2>1 DEF SyncJob
<1>2. Noted(op, new) \in [Syncs -> SyncJob]
  BY <1>1 DEF Noted
<1>3. ASSUME NEW t \in Syncs PROVE SameListing(Noted(op, new)[t], sy[t])
  <2>1. sy[t] \in SyncJob
    OBVIOUS
  <2> QED
    BY <2>1 DEF Noted, SameListing, SyncJob
<1> QED
  BY <1>2, <1>3

\* What Replace leaves behind.
LEMMA ReplaceType ==
  ASSUME TypeOK, NEW s \in Syncs, Replace(s)
  PROVE  /\ rows' \in [Zones -> [Rids -> Row \cup {None}]]
         /\ sy' \in [Syncs -> SyncJob]
         /\ stale' \in [Syncs -> SUBSET (Zones \X Rids)] /\ dirty' \in SUBSET (Zones \X Rids)
         /\ nextId' \in Nat
<1> DEFINE done == sy[s].done
           listed == {x \in done \X Rids : sy[s].snap[x[1]][x[2]] # None}
<1>1. /\ sy[s] \in SyncJob /\ done \in SUBSET Zones /\ sy[s].op \in {"sync", "apply"}
      /\ sy[s].snap \in [Zones -> [Rids -> Data \cup {None}]]
  BY DEF TypeOK, SyncJob
<1>2. PICK kept \in SUBSET (sy[s].beside \ listed) :
        /\ rows' = ReplacedRows(s, kept)
        /\ dirty' = {x \in dirty : x[1] \notin done \/ x \in kept \/ Pending(x[1], x[2])} \cup stale[s]
  BY DEF Replace
<1>3. rows' \in [Zones -> [Rids -> Row \cup {None}]]
  <2> SUFFICES ASSUME NEW z \in Zones, NEW r \in Rids
               PROVE  (IF z \notin done \/ <<z, r>> \in kept THEN rows[z][r]
                       ELSE IF sy[s].snap[z][r] = None THEN None
                       ELSE [id |-> nextId, data |-> sy[s].snap[z][r]]) \in Row \cup {None}
    BY <1>2 DEF ReplacedRows
  <2> QED
    BY <1>1 DEF TypeOK, Row
<1>4. listed \in SUBSET (Zones \X Rids)
  BY <1>1
<1>5. sy' \in [Syncs -> SyncJob]
  <2>1. sy' = [Noted(sy[s].op, listed) EXCEPT ![s] = [NoSync EXCEPT !.at = "audit", !.op = sy[s].op]]
    BY DEF Replace
  <2>2. Noted(sy[s].op, listed) \in [Syncs -> SyncJob]
    BY <1>4, NotedType DEF TypeOK
  <2>3. [NoSync EXCEPT !.at = "audit", !.op = sy[s].op] \in SyncJob
    BY <1>1, AfterType
  <2> QED
    BY <2>1, <2>2, <2>3
<1>6. dirty' \in SUBSET (Zones \X Rids)
  BY <1>2 DEF TypeOK
<1>7. stale' \in [Syncs -> SUBSET (Zones \X Rids)] /\ nextId' \in Nat
  BY DEF Replace, TypeOK
<1> QED
  BY <1>3, <1>5, <1>6, <1>7

\* Every variable keeps its type.
THEOREM TypeCorrect == Spec => []TypeOK
<1>1. Init => TypeOK
  <2> SUFFICES ASSUME Init PROVE TypeOK
    OBVIOUS
  <2>1. rows \in [Zones -> [Rids -> Row \cup {None}]]
    BY DEF Init, Row
  <2>2. held \in SUBSET (Zones \X Rids \X Data)
    BY DEF Init
  <2>3. sy \in [Syncs -> SyncJob]
    BY NoSyncType DEF Init
  <2>4. minted \in SUBSET Rids
    BY DEF Init, Present
  <2> QED
    BY <2>1, <2>2, <2>3, <2>4 DEF Init, TypeOK
<1>2. TypeOK /\ [Next]_vars => TypeOK'
  <2> SUFFICES ASSUME TypeOK, [Next]_vars PROVE TypeOK'
    OBVIOUS
  <2> USE DEF remoteVars, cacheVars, history
  <2>1. ASSUME NEW z \in Zones, RemoteAddZone(z) \/ RemoteDropZone(z) PROVE TypeOK'
    <3>1. CASE RemoteAddZone(z)
      BY <3>1 DEF RemoteAddZone, TypeOK
    <3>2. CASE RemoteDropZone(z)
      <4>1. remote' \in [Zones -> [Rids -> Data \cup {None}]]
        BY <3>2 DEF RemoteDropZone, TypeOK, Empty
      <4>2. stale' \in [Syncs -> SUBSET (Zones \X Rids)]
        BY <3>2 DEF RemoteDropZone, TypeOK
      <4> QED
        BY <3>2, <4>1, <4>2 DEF RemoteDropZone, TypeOK
    <3> QED
      BY <2>1, <3>1, <3>2
  <2>2. ASSUME NEW z \in Zones, NEW r \in Rids, NEW d \in Data \cup {None}, Store(z, r, d)
        PROVE  /\ remote' \in [Zones -> [Rids -> Data \cup {None}]]
               /\ held' \in SUBSET (Zones \X Rids \X Data)
               /\ stale' \in [Syncs -> SUBSET (Zones \X Rids)]
    <3>1. \A s \in Syncs : {z} \X Missed(s, z, r) \in SUBSET (Zones \X Rids)
      BY DEF Missed, Present
    <3> QED
      BY <2>2, <3>1 DEF Store, TypeOK
  <2>3. ASSUME NEW z \in Zones, NEW r \in Rids, NEW d \in Data \cup {None},
               RemoteChange(z, r, d)
        PROVE  TypeOK'
    BY <2>2, <2>3 DEF RemoteChange, TypeOK
  <2>4. ASSUME NEW w \in Writers, NEW op \in Op, NEW z \in Zones, NEW r \in Rids \cup {None},
               NEW id \in Nat, NEW d \in Data \cup {None}, NEW names \in SUBSET Fields,
               r = None => op = "create", d = None <=> op = "delete",
               Call(w, op, z, r, id, d, names)
        PROVE  TypeOK'
    <3>1. [at |-> "call", op |-> op, zone |-> z, rid |-> r, id |-> id, data |-> d,
           names |-> names] \in WriteJob
      BY <2>4 DEF WriteJob, Stages
    <3>2. wr' \in [Writers -> WriteJob \cup {NoWrite}]
      BY <2>4, <3>1 DEF Call, TypeOK
    <3> QED
      BY <2>4, <3>2 DEF Call, Accept, TypeOK
  <2>5. ASSUME NEW w \in Writers, NEW z \in Zones, NEW d \in Data, StartCreate(w, z, d)
        PROVE  TypeOK'
    BY <2>4, <2>5, NoneAssumption DEF StartCreate, Op
  <2>6. ASSUME NEW w \in Writers, NEW z \in Zones, NEW r \in Rids,
               NEW patch \in [Fields -> Vals \cup {None}], StartUpdate(w, z, r, patch)
        PROVE  TypeOK'
    <3>1. rows[z][r].id \in Nat /\ rows[z][r].data \in Data
      BY <2>6 DEF StartUpdate, TypeOK, Row
    <3>2. Patched(rows[z][r].data, patch) \in Data
      BY <3>1, PatchedType
    <3>3. Named(patch) \in SUBSET Fields
      BY DEF Named
    <3> QED
      BY <2>4, <2>6, <3>1, <3>2, <3>3, NoneAssumption DEF StartUpdate, Op
  <2>7. ASSUME NEW w \in Writers, NEW z \in Zones, NEW r \in Rids, StartDelete(w, z, r)
        PROVE  TypeOK'
    <3>1. rows[z][r].id \in Nat
      BY <2>7 DEF StartDelete, TypeOK, Row
    <3> QED
      BY <2>4, <2>7, <3>1, NoneAssumption DEF StartDelete, Op
  <2>8. ASSUME NEW w \in Writers, wr[w].at # "idle" PROVE wr[w] \in WriteJob
    BY <2>8, NoWriteIdle DEF TypeOK
  <2>9. ASSUME NEW w \in Writers, NEW r \in Rids, NEW arrives \in BOOLEAN,
               wr[w] \in WriteJob, Answered(w, r, arrives), minted' \in SUBSET Rids,
               Store(wr[w].zone, r, wr[w].data)
        PROVE  TypeOK'
    <3>1. wr[w].zone \in Zones /\ wr[w].data \in Data \cup {None}
      BY <2>9 DEF WriteJob
    <3>2. [wr[w] EXCEPT !.at = "write", !.rid = r] \in WriteJob
      BY <2>9, NoneAssumption DEF WriteJob, Stages
    <3>3. wr' \in [Writers -> WriteJob \cup {NoWrite}]
      BY <2>9, <3>2 DEF Answered, Finish, TypeOK
    <3>4. dirty' \in SUBSET (Zones \X Rids)
      BY <2>9, <3>1 DEF Answered, TypeOK
    <3> QED
      BY <2>2, <2>9, <3>1, <3>3, <3>4 DEF Answered, TypeOK
  <2>10. ASSUME NEW w \in Writers, NEW r \in Rids, NEW arrives \in BOOLEAN,
                ProviderCreates(w, r, arrives)
         PROVE  TypeOK'
    <3>1. minted' \in SUBSET Rids
      BY <2>10 DEF ProviderCreates, TypeOK
    <3> QED
      BY <2>8, <2>9, <2>10, <3>1 DEF ProviderCreates
  <2>11. ASSUME NEW w \in Writers, NEW arrives \in BOOLEAN, ProviderChanges(w, arrives)
         PROVE  TypeOK'
    <3>1. wr[w] \in WriteJob
      BY <2>8, <2>11 DEF ProviderChanges
    <3>2. wr[w].rid \in Rids
      BY <2>11, <3>1 DEF ProviderChanges, WriteJob
    <3>3. minted' \in SUBSET Rids
      BY <2>11 DEF ProviderChanges, TypeOK
    <3> QED
      BY <2>9, <2>11, <3>1, <3>2, <3>3 DEF ProviderChanges
  <2>12. ASSUME NEW w \in Writers, ProviderFails(w) PROVE TypeOK'
    BY <2>12 DEF ProviderFails, Finish, TypeOK
  <2>13. ASSUME NEW w \in Writers, wr[w] \in WriteJob
         PROVE  [wr[w] EXCEPT !.at = "audit"] \in WriteJob \/ wr[w].at = "call"
    BY <2>13 DEF WriteJob, Stages
  <2>14. ASSUME NEW w \in Writers, wr[w].at = "write", Committed(w)
         PROVE  wr' \in [Writers -> WriteJob \cup {NoWrite}]
    BY <2>8, <2>13, <2>14 DEF Committed, TypeOK
  <2>15. ASSUME NEW z \in Zones PROVE Bumped(z) \in [Zones -> Nat]
    BY DEF Bumped, TypeOK
  <2>16. ASSUME NEW w \in Writers, CommitCreate(w) PROVE TypeOK'
    <3>1. wr[w] \in WriteJob
      BY <2>8, <2>16 DEF CommitCreate
    <3>2. wr[w].zone \in Zones /\ wr[w].rid \in Rids /\ wr[w].data \in Data
      BY <2>16, <3>1 DEF CommitCreate, WriteJob
    <3>3. rows' \in [Zones -> [Rids -> Row \cup {None}]]
      BY <2>16, <3>2 DEF CommitCreate, TypeOK, Row
    <3>4. sy' \in [Syncs -> SyncJob]
      <4>1. sy' = Noted("create", {<<wr[w].zone, wr[w].rid>>})
        BY <2>16 DEF CommitCreate
      <4>2. {<<wr[w].zone, wr[w].rid>>} \in SUBSET (Zones \X Rids) /\ sy \in [Syncs -> SyncJob]
        BY <3>2 DEF TypeOK
      <4> QED
        BY <4>1, <4>2, NotedType
    <3>5. /\ wr' \in [Writers -> WriteJob \cup {NoWrite}]
          /\ serial' \in [Zones -> Nat] /\ nextId' \in Nat
      BY <2>14, <2>15, <2>16, <3>2 DEF CommitCreate, TypeOK
    <3>6. UNCHANGED <<account, remoteVars, zones, audit, requests, edits, history>>
      BY <2>16 DEF CommitCreate
    <3> QED
      BY <3>3, <3>4, <3>5, <3>6 DEF TypeOK
  <2>17. ASSUME NEW w \in Writers, CommitChange(w) PROVE TypeOK'
    <3>1. wr[w] \in WriteJob
      BY <2>8, <2>17 DEF CommitChange
    <3>2. /\ wr[w].zone \in Zones /\ wr[w].rid \in Rids /\ wr[w].id \in Nat
          /\ wr[w].op # "delete" => wr[w].data \in Data
      BY <2>17, <3>1 DEF CommitChange, WriteJob
    <3>3. rows' \in [Zones -> [Rids -> Row \cup {None}]]
      BY <2>17, <3>2 DEF CommitChange, TypeOK, Row
    <3> QED
      BY <2>14, <2>15, <2>17, <3>2, <3>3 DEF CommitChange, TypeOK
  <2>18. ASSUME NEW w \in Writers, WriteFails(w) PROVE TypeOK'
    <3>1. wr[w].zone \in Zones /\ wr[w].rid \in Rids
      BY <2>8, <2>18 DEF WriteFails, WriteJob
    <3> QED
      BY <2>18, <3>1 DEF WriteFails, Finish, TypeOK
  <2>19. ASSUME NEW w \in Writers, WriteAudit(w) PROVE TypeOK'
    <3>1. wr[w] \in WriteJob
      BY <2>8, <2>19 DEF WriteAudit
    <3>2. [op |-> wr[w].op, zone |-> wr[w].zone, rid |-> wr[w].rid, data |-> wr[w].data]
            \in AuditEntry
      BY <3>1 DEF WriteJob, AuditEntry
    <3> QED
      BY <2>19, <3>2 DEF WriteAudit, Logged, Finish, TypeOK
  <2>20. ASSUME NEW s \in Syncs, NEW listed \in SUBSET Zones, StartSync(s, listed)
         PROVE  TypeOK'
    <3>1. [sy[s] EXCEPT !.at = "list", !.todo = listed] \in SyncJob
      <4>1. sy[s] \in SyncJob
        BY DEF TypeOK
      <4> QED
        BY <4>1 DEF SyncJob
    <3>2. sy' \in [Syncs -> SyncJob]
      BY <2>20, <3>1 DEF StartSync, TypeOK
    <3> QED
      BY <2>20, <3>2 DEF StartSync, Accept, TypeOK
  <2>21. ASSUME NEW s \in Syncs, NEW z \in Zones, StartRefresh(s, z) PROVE TypeOK'
    <3>1. [sy[s] EXCEPT !.at = "list", !.op = "apply", !.todo = {z}] \in SyncJob
      <4>1. sy[s] \in SyncJob
        BY DEF TypeOK
      <4> QED
        BY <4>1 DEF SyncJob
    <3>2. sy' \in [Syncs -> SyncJob]
      BY <2>21, <3>1 DEF StartRefresh, TypeOK
    <3> QED
      BY <2>21, <3>2 DEF StartRefresh, Accept, TypeOK
  <2>22. ASSUME NEW s \in Syncs, NEW z \in Zones, NEW page \in SUBSET Rids, NEW last \in BOOLEAN,
                Read(s, z, page, last)
         PROVE  sy' \in [Syncs -> SyncJob]
    <3>1. sy[s] \in SyncJob
      BY DEF TypeOK
    <3>2. /\ sy[s].todo \ {z} \in SUBSET Zones
          /\ sy[s].done \cup {z} \in SUBSET Zones /\ sy[s].done \in SUBSET Zones
          /\ sy[s].offset + PerPage \in Nat
          /\ (IF last THEN None ELSE z) \in Zones \cup {None}
          /\ (IF last THEN 0 ELSE sy[s].offset + PerPage) \in Nat
      BY <3>1, ListingAssumption DEF SyncJob
    <3>3. [sy[s].snap EXCEPT ![z] = [r \in Rids |-> IF r \in page THEN remote[z][r]
                                                     ELSE sy[s].snap[z][r]]]
            \in [Zones -> [Rids -> Data \cup {None}]]
      BY <3>1 DEF SyncJob, TypeOK
    <3>4. (sy[s].twice \/ \E r \in page : sy[s].snap[z][r] # None) \in BOOLEAN
      BY <3>1 DEF SyncJob
    <3>5. sy' = [sy EXCEPT ![s] = [sy[s] EXCEPT
           !.todo = sy[s].todo \ {z},
           !.zone = IF last THEN None ELSE z,
           !.offset = IF last THEN 0 ELSE sy[s].offset + PerPage,
           !.done = IF last THEN sy[s].done \cup {z} ELSE sy[s].done,
           !.snap = [sy[s].snap EXCEPT ![z] =
                       [r \in Rids |-> IF r \in page THEN remote[z][r] ELSE sy[s].snap[z][r]]],
           !.twice = sy[s].twice \/ \E r \in page : sy[s].snap[z][r] # None]]
      BY <2>22 DEF Read
    <3>6. [sy[s] EXCEPT
           !.todo = sy[s].todo \ {z},
           !.zone = IF last THEN None ELSE z,
           !.offset = IF last THEN 0 ELSE sy[s].offset + PerPage,
           !.done = IF last THEN sy[s].done \cup {z} ELSE sy[s].done,
           !.snap = [sy[s].snap EXCEPT ![z] =
                       [r \in Rids |-> IF r \in page THEN remote[z][r] ELSE sy[s].snap[z][r]]],
           !.twice = sy[s].twice \/ \E r \in page : sy[s].snap[z][r] # None] \in SyncJob
      BY <3>1, <3>2, <3>3, <3>4 DEF SyncJob
    <3> QED
      BY <3>5, <3>6 DEF TypeOK
  <2>23. ASSUME NEW s \in Syncs, NEW z \in Zones, ListPage(s, z) \/ PageLost(s, z) PROVE TypeOK'
    <3>1. CASE ListPage(s, z)
      <4>1. Page(s, z) \in SUBSET Rids /\ IsLast(s, z) \in BOOLEAN
        BY DEF Page, Present, IsLast
      <4>2. sy' \in [Syncs -> SyncJob]
        BY <2>22, <3>1, <4>1 DEF ListPage
      <4> QED
        BY <3>1, <4>2 DEF ListPage, TypeOK
    <3>2. CASE PageLost(s, z)
      <4>1. sy' \in [Syncs -> SyncJob]
        BY <2>22, <3>2 DEF PageLost
      <4>2. stale' \in [Syncs -> SUBSET (Zones \X Rids)]
        BY <3>2 DEF PageLost, TypeOK
      <4> QED
        BY <3>2, <4>1, <4>2 DEF PageLost, TypeOK
    <3> QED
      BY <2>23, <3>1, <3>2
  <2>24. ASSUME NEW s \in Syncs, CommitSync(s) \/ CommitRefresh(s) PROVE TypeOK'
    <3>1. Replace(s) /\ sy[s].done \in SUBSET Zones
      BY <2>24 DEF CommitSync, CommitRefresh, TypeOK, SyncJob
    <3>2. serial' \in [Zones -> Nat] /\ zones' \in SUBSET Zones
      BY <2>24, <3>1 DEF CommitSync, CommitRefresh, TypeOK
    <3>3. UNCHANGED <<account, remoteVars, audit, wr, requests, edits, held>>
      BY <3>1 DEF Replace
    <3> QED
      BY <3>1, <3>2, <3>3, ReplaceType DEF TypeOK
  <2>25. ASSUME NEW s \in Syncs, SyncFails(s) \/ RefreshFails(s) PROVE TypeOK'
    <3>1. PICK op \in {"sync", "apply"}, at \in {"idle", "audit"} : Fails(s, op, at)
      BY <2>25 DEF SyncFails, RefreshFails
    <3>2. sy' \in [Syncs -> SyncJob]
      BY <3>1, AfterType DEF Fails, TypeOK
    <3> QED
      BY <3>1, <3>2 DEF Fails, TypeOK
  <2>26. ASSUME NEW s \in Syncs, AuditSync(s) PROVE TypeOK'
    <3>1. [op |-> sy[s].op, zone |-> None, rid |-> None, data |-> None] \in AuditEntry
      BY DEF AuditEntry, TypeOK, SyncJob
    <3> QED
      BY <2>26, <3>1, NoSyncType DEF AuditSync, Logged, TypeOK
  <2>27. CASE DeleteProvider
    <3>1. [op |-> "drop", zone |-> None, rid |-> None, data |-> None] \in AuditEntry
      BY DEF AuditEntry
    <3>2. rows' \in [Zones -> [Rids -> Row \cup {None}]]
      BY <2>27 DEF DeleteProvider, Empty
    <3>3. audit' \in SUBSET AuditEntry
      BY <2>27, <3>1 DEF DeleteProvider, Logged, TypeOK
    <3>4. account' \in BOOLEAN
      BY <2>27, Zenon DEF DeleteProvider
    <3>5. serial' \in [Zones -> Nat] /\ requests' \in Nat
      BY <2>27 DEF DeleteProvider, Accept, TypeOK
    <3>6. UNCHANGED <<hosted, remote, minted, nextId, wr, sy, edits, held, stale, dirty>>
      BY <2>27 DEF DeleteProvider
    <3>7. zones' \in SUBSET Zones
      BY <2>27 DEF DeleteProvider
    <3> QED
      BY <3>2, <3>3, <3>4, <3>5, <3>6, <3>7 DEF TypeOK
  <2>28. CASE Crash
    <3>1. dirty' \in SUBSET (Zones \X Rids)
      <4>1. \A w \in Writers : wr[w].at = "write" => wr[w].zone \in Zones /\ wr[w].rid \in Rids
        BY <2>8 DEF WriteJob
      <4> QED
        BY <2>28, <4>1 DEF Crash, TypeOK
    <3> QED
      BY <2>28, <3>1, NoSyncType DEF Crash, TypeOK
  <2>29. CASE UNCHANGED vars
    BY <2>29 DEF vars, TypeOK
  <2>30. CASE Console
    BY <2>1, <2>3, <2>30 DEF Console
  <2>31. ASSUME NEW w \in Writers, Write(w) PROVE TypeOK'
    BY <2>5, <2>6, <2>7, <2>10, <2>11, <2>12, <2>16, <2>17, <2>18, <2>19, <2>31 DEF Write
  <2>32. ASSUME NEW s \in Syncs, Sync(s) PROVE TypeOK'
    BY <2>20, <2>21, <2>23, <2>24, <2>25, <2>26, <2>32 DEF Sync
  <2> QED
    BY <2>27, <2>28, <2>29, <2>30, <2>31, <2>32 DEF Next
<1> QED
  BY <1>1, <1>2, PTL DEF Spec
-----------------------------------------------------------------------------
\* A request in flight is a well-formed job.
LEMMA InFlight ==
  ASSUME TypeOK, NEW w \in Writers, wr[w].at # "idle"
  PROVE  /\ wr[w] \in WriteJob
         /\ wr[w].zone \in Zones /\ wr[w].op \in Op /\ wr[w].id \in Nat
         /\ wr[w].at # "call" => wr[w].rid \in Rids
         /\ wr[w].op # "create" => wr[w].rid \in Rids
         /\ wr[w].op = "delete" => wr[w].data = None
         /\ wr[w].op # "delete" => wr[w].data \in Data
<1>1. wr[w] \in WriteJob
  BY NoWriteIdle DEF TypeOK
<1> QED
  BY <1>1 DEF WriteJob

\* Only five actions touch the account row, the zones, their rows and serials.
LEMMA CacheSteps ==
  ASSUME [Next]_vars
  PROVE  \/ UNCHANGED <<account, zones, rows, serial>>
         \/ \E w \in Writers : CommitCreate(w) \/ CommitChange(w)
         \/ \E s \in Syncs : CommitSync(s) \/ CommitRefresh(s)
         \/ DeleteProvider
<1> USE DEF remoteVars, cacheVars, history
<1>1. CASE Console
  BY <1>1 DEF Console, RemoteAddZone, RemoteDropZone, RemoteChange
<1>2. ASSUME NEW w \in Writers, Write(w)
      PROVE  \/ UNCHANGED <<account, zones, rows, serial>>
             \/ CommitCreate(w) \/ CommitChange(w)
  BY <1>2, SMTT(30) DEF Write, StartCreate, StartUpdate, StartDelete, Call, ProviderCreates,
              ProviderChanges, Answered, ProviderFails, WriteFails, WriteAudit
<1>3. ASSUME NEW s \in Syncs, Sync(s)
      PROVE  UNCHANGED <<account, zones, rows, serial>> \/ CommitSync(s) \/ CommitRefresh(s)
  BY <1>3 DEF Sync, StartSync, StartRefresh, ListPage, PageLost, SyncFails, RefreshFails, Fails,
     AuditSync
<1>4. CASE Crash
  BY <1>4 DEF Crash
<1>5. CASE UNCHANGED vars
  BY <1>5 DEF vars
<1> QED
  BY <1>1, <1>2, <1>3, <1>4, <1>5 DEF Next

\* Nothing of a deleted account stays or comes back, and only cached zones
\* have rows and a serial.
THEOREM NoOrphansCorrect == Spec => []NoOrphans
<1>1. Init => NoOrphans
  BY DEF Init, NoOrphans, Empty
<1>2. TypeOK /\ NoOrphans /\ [Next]_vars => NoOrphans'
  <2> SUFFICES ASSUME TypeOK, NoOrphans, [Next]_vars PROVE NoOrphans'
    OBVIOUS
  <2> USE DEF remoteVars, cacheVars, history
  <2>1. CASE UNCHANGED <<account, zones, rows, serial>>
    BY <2>1 DEF NoOrphans
  <2>2. ASSUME NEW w \in Writers, CommitCreate(w) PROVE NoOrphans'
    <3>1. wr[w].zone \in zones /\ wr[w].zone \in Zones
      BY <2>2 DEF CommitCreate, TypeOK
    <3>2. \A z \in Zones \ zones : rows'[z] = rows[z] /\ serial'[z] = serial[z]
      BY <2>2, <3>1 DEF CommitCreate, Bumped, TypeOK
    <3>3. \A z \in zones : serial'[z] >= 1
      BY <2>2, <3>1 DEF CommitCreate, Bumped, TypeOK, NoOrphans
    <3>4. UNCHANGED <<account, zones>>
      BY <2>2 DEF CommitCreate
    <3> QED
      BY <3>2, <3>3, <3>4 DEF NoOrphans, Empty
  <2>3. ASSUME NEW w \in Writers, CommitChange(w) PROVE NoOrphans'
    <3> DEFINE z == wr[w].zone  r == wr[w].rid
    <3>1. z \in Zones /\ r \in Rids
      BY <2>3, InFlight DEF CommitChange
    <3>2. z \notin zones => rows[z][r] = None
      BY <3>1 DEF NoOrphans, Empty
    <3>3. z \notin zones => rows' = rows /\ serial' = serial
      BY <2>3, <3>1, <3>2 DEF CommitChange, SameRow, Bumped, TypeOK
    <3>4. z \in zones => \A y \in Zones \ zones : rows'[y] = rows[y] /\ serial'[y] = serial[y]
      BY <2>3, <3>1 DEF CommitChange, Bumped, TypeOK
    <3>5. \A y \in zones : serial'[y] >= 1
      BY <2>3, <3>1 DEF CommitChange, Bumped, TypeOK, NoOrphans
    <3>6. UNCHANGED <<account, zones>>
      BY <2>3 DEF CommitChange
    <3>7. \A y \in Zones \ zones : rows'[y] = rows[y] /\ serial'[y] = serial[y]
      BY <3>3, <3>4
    <3> QED
      BY <3>5, <3>6, <3>7 DEF NoOrphans, Empty
  <2>4. ASSUME NEW s \in Syncs, CommitSync(s) PROVE NoOrphans'
    <3>1. sy[s].done \in SUBSET Zones
      BY DEF TypeOK, SyncJob
    <3>2. zones' = zones \cup sy[s].done /\ UNCHANGED account
      BY <2>4 DEF CommitSync, Replace
    <3>3. zones' # {} => account
      BY <2>4, <3>2 DEF CommitSync, AccountKey, NoOrphans
    <3>4. \A z \in Zones \ zones' : rows'[z] = Empty
      <4> SUFFICES ASSUME NEW z \in Zones \ zones' PROVE rows'[z] = Empty
        OBVIOUS
      <4>1. z \notin sy[s].done /\ rows[z] = Empty
        BY <3>2 DEF NoOrphans
      <4>2. rows'[z] = [r \in Rids |-> rows[z][r]]
        BY <2>4, <4>1 DEF CommitSync, Replace, ReplacedRows
      <4> QED
        BY <4>1, <4>2 DEF Empty
    <3>5. \A z \in Zones \ zones' : serial'[z] = 0
      BY <2>4, <3>2 DEF CommitSync, NoOrphans
    <3>6. \A z \in zones' : serial'[z] >= 1
      BY <2>4, <3>1, <3>2 DEF CommitSync, NoOrphans, TypeOK
    <3> QED
      BY <3>2, <3>3, <3>4, <3>5, <3>6 DEF NoOrphans, Empty
  <2>5. ASSUME NEW s \in Syncs, CommitRefresh(s) PROVE NoOrphans'
    <3>1. UNCHANGED <<account, zones, serial>>
      BY <2>5 DEF CommitRefresh, Replace
    <3>2. PICK kept : /\ \A x \in kept : rows[x[1]][x[2]] # None
                      /\ rows' = ReplacedRows(s, kept)
      BY <2>5 DEF CommitRefresh, Replace
    <3>3. ASSUME NEW z \in Zones \ zones PROVE rows'[z] = Empty
      <4>1. rows[z] = Empty
        BY DEF NoOrphans
      <4>2. \A r \in Rids : rows[z][r] = None /\ <<z, r>> \notin kept
        BY <3>2, <4>1 DEF Empty
      <4>3. z \in sy[s].done => \A r \in Rids : sy[s].snap[z][r] = None
        BY <2>5 DEF CommitRefresh, ZoneKey, Empty
      <4>4. rows'[z] = [r \in Rids |-> IF z \notin sy[s].done \/ <<z, r>> \in kept THEN rows[z][r]
                          ELSE IF sy[s].snap[z][r] = None THEN None
                          ELSE [id |-> nextId, data |-> sy[s].snap[z][r]]]
        BY <3>2 DEF ReplacedRows
      <4>5. \A r \in Rids : rows'[z][r] = None
        BY <4>2, <4>3, <4>4
      <4> QED
        BY <4>4, <4>5 DEF Empty
    <3> QED
      BY <3>1, <3>3 DEF NoOrphans, Empty
  <2>6. CASE DeleteProvider
    BY <2>6 DEF DeleteProvider, NoOrphans
  <2> QED
    BY <2>1, <2>2, <2>3, <2>4, <2>5, <2>6, CacheSteps
<1> QED
  BY <1>1, <1>2, TypeCorrect, PTL DEF Spec
-----------------------------------------------------------------------------
\* The history only grows, and a record that is gone stays away.
LEMMA HistoryGrows ==
  ASSUME TypeOK, HeldKnown, [Next]_vars
  PROVE  /\ held \subseteq held'
         /\ \A z \in Zones, r \in Rids : Gone(z, r) => Gone(z, r)'
         /\ HeldKnown'
<1> DEFINE Goal == /\ held \subseteq held'
                   /\ \A z \in Zones, r \in Rids : Gone(z, r) => Gone(z, r)'
                   /\ HeldKnown'
<1> USE DEF remoteVars, cacheVars, history
<1>1. ASSUME UNCHANGED <<remote, minted, held>> PROVE Goal
  BY <1>1 DEF Gone, HeldKnown
<1>2. ASSUME NEW z \in Zones, NEW r \in Rids, NEW d \in Data \cup {None},
             Store(z, r, d), minted' = minted \cup {r}, r \in minted => remote[z][r] # None
      PROVE  Goal
  <2>1. held \subseteq held' /\ (d # None => <<z, r, d>> \in held')
    BY <1>2 DEF Store
  <2>2. \A x \in held' : x[2] \in minted'
    <3>1. \A x \in held' : x \in held \/ x = <<z, r, d>>
      BY <1>2 DEF Store
    <3> QED
      BY <1>2, <3>1 DEF HeldKnown
  <2>3. ASSUME NEW y \in Zones, NEW q \in Rids
        PROVE  remote'[y][q] = IF y = z /\ q = r THEN d ELSE remote[y][q]
    BY <1>2 DEF Store, TypeOK
  <2>4. ASSUME NEW y \in Zones, NEW q \in Rids, Gone(y, q) PROVE Gone(y, q)'
    <3>1. ~(y = z /\ q = r)
      BY <1>2, <2>4 DEF Gone
    <3> QED
      BY <1>2, <2>3, <2>4, <3>1 DEF Gone
  <2>5. \A y \in Zones, q \in Rids : remote'[y][q] # None => <<y, q, remote'[y][q]>> \in held'
    BY <2>1, <2>3 DEF HeldKnown
  <2> QED
    BY <2>1, <2>2, <2>4, <2>5 DEF HeldKnown
<1>3. ASSUME NEW z \in Zones, RemoteDropZone(z) PROVE Goal
  <2>1. \A y \in Zones, q \in Rids : remote'[y][q] \in {None, remote[y][q]}
    BY <1>3 DEF RemoteDropZone, TypeOK, Empty
  <2> QED
    BY <1>3, <2>1 DEF RemoteDropZone, Gone, HeldKnown
<1>4. CASE Console
  <2>1. ASSUME NEW z \in Zones, NEW r \in Rids, NEW d \in Data \cup {None}, RemoteChange(z, r, d)
        PROVE  Goal
    BY <1>2, <2>1 DEF RemoteChange
  <2>2. ASSUME NEW z \in Zones, RemoteAddZone(z) PROVE Goal
    BY <1>1, <2>2 DEF RemoteAddZone
  <2> QED
    BY <1>3, <1>4, <2>1, <2>2 DEF Console
<1>5. ASSUME NEW w \in Writers, Write(w) PROVE Goal
  <2>1. ASSUME NEW r \in Rids, NEW arrives \in BOOLEAN, ProviderCreates(w, r, arrives)
        PROVE  Goal
    <3>1. wr[w].zone \in Zones /\ wr[w].data \in Data \cup {None}
      BY <2>1, InFlight DEF ProviderCreates
    <3> QED
      BY <1>2, <2>1, <3>1 DEF ProviderCreates
  <2>2. ASSUME NEW arrives \in BOOLEAN, ProviderChanges(w, arrives)
        PROVE  Goal
    <3>1. wr[w].zone \in Zones /\ wr[w].rid \in Rids /\ wr[w].data \in Data \cup {None}
      BY <2>2, InFlight DEF ProviderChanges
    <3>2. <<wr[w].zone, wr[w].rid, remote[wr[w].zone][wr[w].rid]>> \in held
      BY <2>2, <3>1 DEF ProviderChanges, HeldKnown
    <3>3. wr[w].rid \in minted
      BY <3>2 DEF HeldKnown
    <3>4. minted' = minted \cup {wr[w].rid}
      BY <2>2, <3>3 DEF ProviderChanges
    <3> QED
      BY <1>2, <2>2, <3>1, <3>4 DEF ProviderChanges
  <2>3. CASE UNCHANGED <<remote, minted, held>>
    BY <1>1, <2>3
  <2> QED
    BY <1>5, <2>1, <2>2, <2>3 DEF Write, StartCreate, StartUpdate, StartDelete, Call,
       ProviderFails, CommitCreate, CommitChange, WriteFails, WriteAudit
<1>6. ASSUME NEW s \in Syncs, Sync(s) PROVE Goal
  <2>1. UNCHANGED <<remote, minted, held>>
    BY <1>6 DEF Sync, StartSync, StartRefresh, ListPage, PageLost, CommitSync, CommitRefresh,
     Replace, SyncFails, RefreshFails, Fails, AuditSync
  <2> QED
    BY <1>1, <2>1, SMTT(30)
<1>7. CASE DeleteProvider
  BY <1>1, <1>7 DEF DeleteProvider
<1>8. CASE Crash
  BY <1>1, <1>8 DEF Crash
<1>9. CASE UNCHANGED vars
  BY <1>1, <1>9 DEF vars
<1> QED
  BY <1>4, <1>5, <1>6, <1>7, <1>8, <1>9 DEF Next

\* A step of a request leaves every other request alone; what it makes of its
\* own is one of four things.
LEMMA WriterSteps ==
  ASSUME TypeOK, NEW w \in Writers, Write(w)
  PROVE  /\ wr' = [wr EXCEPT ![w] = wr'[w]]
         /\ \/ wr'[w].at = "call"
            \/ wr'[w] = NoWrite
            \/ /\ \E r \in Rids : ProviderCreates(w, r, TRUE)
                                    \/ (r = wr[w].rid /\ ProviderChanges(w, TRUE))
               /\ wr'[w].at = "write" /\ wr'[w].rid \in Rids
               /\ wr'[w].zone = wr[w].zone /\ wr'[w].op = wr[w].op
               /\ wr'[w].id = wr[w].id /\ wr'[w].data = wr[w].data
               /\ wr[w].op # "create" => wr'[w].rid = wr[w].rid
               /\ wr[w].zone \in Zones /\ remote'[wr[w].zone][wr'[w].rid] = wr[w].data
            \/ /\ CommitCreate(w) \/ CommitChange(w)
               /\ wr'[w] = [wr[w] EXCEPT !.at = "audit"]
<1> DEFINE Goal ==
       /\ wr' = [wr EXCEPT ![w] = wr'[w]]
       /\ \/ wr'[w].at = "call"
          \/ wr'[w] = NoWrite
          \/ /\ \E r \in Rids : ProviderCreates(w, r, TRUE)
                                  \/ (r = wr[w].rid /\ ProviderChanges(w, TRUE))
             /\ wr'[w].at = "write" /\ wr'[w].rid \in Rids
             /\ wr'[w].zone = wr[w].zone /\ wr'[w].op = wr[w].op
             /\ wr'[w].id = wr[w].id /\ wr'[w].data = wr[w].data
             /\ wr[w].op # "create" => wr'[w].rid = wr[w].rid
             /\ wr[w].zone \in Zones /\ remote'[wr[w].zone][wr'[w].rid] = wr[w].data
          \/ /\ CommitCreate(w) \/ CommitChange(w)
             /\ wr'[w] = [wr[w] EXCEPT !.at = "audit"]
<1>1. ASSUME NEW op, NEW z, NEW r, NEW id, NEW d, NEW names, Call(w, op, z, r, id, d, names)
      PROVE  Goal
  BY <1>1 DEF Call, TypeOK
<1>2. ASSUME wr' = [wr EXCEPT ![w] = NoWrite] PROVE Goal
  BY <1>2 DEF TypeOK
<1>3. ASSUME NEW r \in Rids, ProviderCreates(w, r, TRUE) \/ (r = wr[w].rid /\ ProviderChanges(w, TRUE))
      PROVE  Goal
  <2>1. wr[w].at = "call" /\ wr' = [wr EXCEPT ![w].at = "write", ![w].rid = r]
    BY <1>3 DEF ProviderCreates, ProviderChanges, Answered
  <2>2. wr[w] \in WriteJob /\ wr[w].zone \in Zones
    BY <2>1, InFlight
  <2>3. wr'[w] = [wr[w] EXCEPT !.at = "write", !.rid = r]
    BY <2>1 DEF TypeOK
  <2>4. /\ wr'[w].at = "write" /\ wr'[w].rid = r
        /\ wr'[w].zone = wr[w].zone /\ wr'[w].op = wr[w].op
        /\ wr'[w].id = wr[w].id /\ wr'[w].data = wr[w].data
    BY <2>2, <2>3 DEF WriteJob
  <2>5. wr[w].op # "create" => r = wr[w].rid
    BY <1>3 DEF ProviderCreates
  <2>6. remote'[wr[w].zone][r] = wr[w].data
    <3>1. Store(wr[w].zone, r, wr[w].data)
      BY <1>3 DEF ProviderCreates, ProviderChanges
    <3> QED
      BY <2>2, <3>1 DEF Store, TypeOK
  <2>7. wr' = [wr EXCEPT ![w] = wr'[w]]
    BY <2>1 DEF TypeOK
  <2>8. wr[w].op # "create" => wr'[w].rid = wr[w].rid
    BY <2>4, <2>5
  <2>9. remote'[wr[w].zone][wr'[w].rid] = wr[w].data
    BY <2>4, <2>6
  <2>10. \E q \in Rids : ProviderCreates(w, q, TRUE)
                             \/ (q = wr[w].rid /\ ProviderChanges(w, TRUE))
    BY <1>3, Zenon
  <2>11. wr'[w].rid \in Rids
    BY <1>3, <2>4
  <2> QED
    BY <2>2, <2>4, <2>7, <2>8, <2>9, <2>10, <2>11, Zenon
<1>4. CASE CommitCreate(w) \/ CommitChange(w)
  <2>1. wr' = [wr EXCEPT ![w].at = "audit"]
    BY <1>4 DEF CommitCreate, CommitChange, Committed
  <2> QED
    BY <1>4, <2>1 DEF TypeOK
<1>5. ASSUME NEW r \in Rids, ProviderCreates(w, r, FALSE)
      PROVE  wr' = [wr EXCEPT ![w] = NoWrite]
  BY <1>5 DEF ProviderCreates, Answered, Finish
<1>6. ASSUME ProviderChanges(w, FALSE) PROVE wr' = [wr EXCEPT ![w] = NoWrite]
  BY <1>6 DEF ProviderChanges, Answered, Finish
<1>7. CASE ProviderFails(w) \/ WriteFails(w) \/ WriteAudit(w)
  BY <1>2, <1>7 DEF ProviderFails, WriteFails, WriteAudit, Finish
<1>8. ASSUME ProviderChanges(w, TRUE) PROVE wr[w].rid \in Rids
  BY <1>8, InFlight DEF ProviderChanges
<1>9. CASE \/ \E z \in Zones, d \in Data : StartCreate(w, z, d)
           \/ \E z \in Zones, r \in Rids, patch \in [Fields -> Vals \cup {None}] :
                StartUpdate(w, z, r, patch)
           \/ \E z \in Zones, r \in Rids : StartDelete(w, z, r)
  BY <1>1, <1>9 DEF StartCreate, StartUpdate, StartDelete
<1>10. ASSUME NEW r \in Rids, NEW arrives \in BOOLEAN, ProviderCreates(w, r, arrives)
       PROVE  Goal
  <2>1. CASE arrives = TRUE
    <3>1. ProviderCreates(w, r, TRUE)
      BY <1>10, <2>1
    <3> QED
      BY <1>3, <3>1
  <2>2. CASE arrives = FALSE
    BY <1>2, <1>5, <1>10, <2>2
  <2> QED
    BY <2>1, <2>2
<1>11. ASSUME NEW arrives \in BOOLEAN, ProviderChanges(w, arrives) PROVE Goal
  <2>1. CASE arrives = TRUE
    <3>1. ProviderChanges(w, TRUE)
      BY <1>11, <2>1
    <3>2. wr[w].rid \in Rids
      BY <1>8, <3>1
    <3> QED
      BY <1>3, <3>1, <3>2
  <2>2. CASE arrives = FALSE
    BY <1>2, <1>6, <1>11, <2>2
  <2> QED
    BY <2>1, <2>2
<1> QED
  BY <1>4, <1>7, <1>9, <1>10, <1>11 DEF Write

\* What each other step does to the requests.
LEMMA OtherSteps ==
  ASSUME [Next]_vars, ~ \E w \in Writers : Write(w)
  PROVE  UNCHANGED wr \/ (wr' = [w \in Writers |-> NoWrite] /\ UNCHANGED audit)
<1>1. CASE Console
  BY <1>1 DEF Console, RemoteChange, RemoteAddZone, RemoteDropZone
<1>2. CASE \E s \in Syncs : Sync(s)
  BY <1>2 DEF Sync, StartSync, StartRefresh, ListPage, PageLost, CommitSync, CommitRefresh,
     Replace, SyncFails, RefreshFails, Fails, AuditSync
<1>3. CASE DeleteProvider
  BY <1>3 DEF DeleteProvider
<1>4. CASE Crash
  BY <1>4 DEF Crash
<1>5. CASE UNCHANGED vars
  BY <1>5 DEF vars
<1> QED
  BY <1>1, <1>2, <1>3, <1>4, <1>5 DEF Next

\* A commit leaves what the other syncs have listed.
LEMMA ReplaceListings ==
  ASSUME TypeOK, NEW s \in Syncs, Replace(s)
  PROVE  /\ Blank(sy'[s]) /\ sy'[s].at = "audit"
         /\ \A t \in Syncs \ {s} : SameListing(sy'[t], sy[t]) /\ stale'[t] = stale[t]
<1> DEFINE listed == {x \in sy[s].done \X Rids : sy[s].snap[x[1]][x[2]] # None}
           new == Noted(sy[s].op, listed)
           after == [NoSync EXCEPT !.at = "audit", !.op = sy[s].op]
<1>1. sy[s] \in SyncJob /\ sy[s].op \in {"sync", "apply"} /\ listed \in SUBSET (Zones \X Rids)
  BY DEF TypeOK, SyncJob
<1>2. sy' = [new EXCEPT ![s] = after] /\ stale' = [stale EXCEPT ![s] = {}]
  BY DEF Replace
<1>3. new \in [Syncs -> SyncJob] /\ \A t \in Syncs : SameListing(new[t], sy[t])
  <2> HIDE DEF listed
  <2>1. sy \in [Syncs -> SyncJob]
    BY DEF TypeOK
  <2> QED
    BY <1>1, <2>1, NotedType
<1>4. after.at = "audit" /\ Blank(after)
  BY <1>1, AfterType
<1> HIDE DEF new, after
<1> QED
  BY <1>2, <1>3, <1>4 DEF TypeOK

\* A sync that starts has listed nothing yet, and one that fails or logs is done
\* with its listing.
LEMMA StartListings ==
  ASSUME TypeOK, NEW s \in Syncs,
         \/ \E listed \in SUBSET Zones : StartSync(s, listed)
         \/ \E z \in Zones : StartRefresh(s, z)
  PROVE  /\ sy[s].at = "idle" /\ UNCHANGED stale
         /\ sy'[s].zone = sy[s].zone /\ sy'[s].offset = sy[s].offset
         /\ sy'[s].done = sy[s].done /\ sy'[s].snap = sy[s].snap
         /\ \A t \in Syncs \ {s} : sy'[t] = sy[t]
<1>1. sy[s] \in SyncJob
  BY DEF TypeOK
<1>2. CASE \E listed \in SUBSET Zones : StartSync(s, listed)
  <2>1. PICK listed \in SUBSET Zones : StartSync(s, listed)
    BY <1>2
  <2> DEFINE j == [sy[s] EXCEPT !.at = "list", !.todo = listed]
  <2>2. sy' = [sy EXCEPT ![s] = j]
    BY <2>1 DEF StartSync, TypeOK
  <2>3. /\ j.zone = sy[s].zone /\ j.offset = sy[s].offset
        /\ j.done = sy[s].done /\ j.snap = sy[s].snap
    BY <1>1 DEF SyncJob
  <2>4. sy[s].at = "idle" /\ UNCHANGED stale
    BY <2>1 DEF StartSync, history
  <2> HIDE DEF j
  <2> QED
    BY <2>2, <2>3, <2>4 DEF TypeOK
<1>3. CASE \E z \in Zones : StartRefresh(s, z)
  <2>1. PICK z \in Zones : StartRefresh(s, z)
    BY <1>3
  <2> DEFINE j == [sy[s] EXCEPT !.at = "list", !.op = "apply", !.todo = {z}]
  <2>2. sy' = [sy EXCEPT ![s] = j]
    BY <2>1 DEF StartRefresh, TypeOK
  <2>3. /\ j.zone = sy[s].zone /\ j.offset = sy[s].offset
        /\ j.done = sy[s].done /\ j.snap = sy[s].snap
    BY <1>1 DEF SyncJob
  <2>4. sy[s].at = "idle" /\ UNCHANGED stale
    BY <2>1 DEF StartRefresh, history
  <2> HIDE DEF j
  <2> QED
    BY <2>2, <2>3, <2>4 DEF TypeOK
<1> QED
  BY <1>2, <1>3

LEMMA EndListings ==
  ASSUME TypeOK, NEW s \in Syncs, SyncFails(s) \/ RefreshFails(s) \/ AuditSync(s)
  PROVE  /\ Blank(sy'[s]) /\ sy'[s].at # "list"
         /\ \A t \in Syncs \ {s} : sy'[t] = sy[t] /\ stale'[t] = stale[t]
<1>1. CASE AuditSync(s)
  BY <1>1, NoSyncType DEF AuditSync, TypeOK, history
<1>2. CASE SyncFails(s) \/ RefreshFails(s)
  <2>1. PICK op \in {"sync", "apply"}, at \in {"idle", "audit"} : Fails(s, op, at)
    BY <1>2 DEF SyncFails, RefreshFails
  <2> DEFINE j == [NoSync EXCEPT !.at = at, !.op = op]
  <2>2. sy' = [sy EXCEPT ![s] = j] /\ stale' = [stale EXCEPT ![s] = {}]
    BY <2>1 DEF Fails
  <2>3. j.at = at /\ Blank(j)
    BY AfterType
  <2> HIDE DEF j
  <2> QED
    BY <2>2, <2>3 DEF TypeOK
<1> QED
  BY <1>1, <1>2

LEMMA CreateListings ==
  ASSUME TypeOK, NEW w \in Writers, CommitCreate(w), NEW t \in Syncs
  PROVE  SameListing(sy'[t], sy[t])
<1>1. wr[w].zone \in Zones /\ wr[w].rid \in Rids
  BY InFlight DEF CommitCreate
<1>2. sy' = Noted("create", {<<wr[w].zone, wr[w].rid>>}) /\ sy \in [Syncs -> SyncJob]
  BY DEF CommitCreate, TypeOK
<1> QED
  BY <1>1, <1>2, NotedType

\* Whatever copy of a record the service has, in its rows, in a request, in a
\* sync's listing or in the log, the provider has held it; and a record that was
\* deleted through the service is gone for good.
THEOREM KnownCorrect == Spec => []Known
<1>1. Init => Known
  <2> SUFFICES ASSUME Init PROVE Known
    OBVIOUS
  <2>1. HeldKnown
    <3>1. \A x \in held : x[2] \in minted
      BY NoneAssumption DEF Init, Present
    <3>2. \A z \in Zones, r \in Rids : remote[z][r] # None => <<z, r, remote[z][r]>> \in held
      BY DEF Init
    <3> QED
      BY <3>1, <3>2 DEF HeldKnown
  <2>2. CacheFromProvider
    BY <2>1 DEF Init, CacheFromProvider, HeldKnown
  <2>3. JobsKnown /\ ListingsKnown /\ AuditKnown
    BY DEF Init, JobsKnown, ListingsKnown, AuditKnown, NoWrite, NoSync, Empty
  <2> QED
    BY <2>1, <2>2, <2>3 DEF Known
<1>2. TypeOK /\ Known /\ [Next]_vars => Known'
  <2> SUFFICES ASSUME TypeOK, Known, [Next]_vars PROVE Known'
    OBVIOUS
  <2> USE DEF remoteVars, cacheVars, history
  <2>1. /\ held \subseteq held' /\ HeldKnown'
        /\ \A z \in Zones, r \in Rids : Gone(z, r) => Gone(z, r)'
    BY HistoryGrows DEF Known
  <2>2. ListingsKnown'
    <3>1. CASE UNCHANGED sy
      BY <2>1, <3>1 DEF Known, ListingsKnown
    <3>2. ASSUME \A s \in Syncs : sy'[s].snap \in {sy[s].snap, NoSync.snap} PROVE ListingsKnown'
      <4>1. \A z \in Zones, r \in Rids : NoSync.snap[z][r] = None
        BY DEF NoSync, Empty
      <4> QED
        BY <2>1, <3>2, <4>1 DEF Known, ListingsKnown
    <3>3. ASSUME NEW s \in Syncs, NEW z \in Zones, ListPage(s, z) \/ PageLost(s, z)
          PROVE  ListingsKnown'
      <4>1. sy[s] \in SyncJob
        BY DEF TypeOK
      <4>2. PICK page : sy'[s].snap = [sy[s].snap EXCEPT ![z] =
                          [r \in Rids |-> IF r \in page THEN remote[z][r] ELSE sy[s].snap[z][r]]]
        <5>1. PICK page, last : Read(s, z, page, last)
          BY <3>3 DEF ListPage, PageLost
        <5> QED
          BY <4>1, <5>1 DEF Read, TypeOK, SyncJob
      <4>3. \A t \in Syncs \ {s} : sy'[t] = sy[t]
        BY <3>3 DEF ListPage, PageLost, Read, TypeOK
      <4>4. \A y \in Zones, r \in Rids :
              sy'[s].snap[y][r] = sy[s].snap[y][r] \/ sy'[s].snap[y][r] = remote[y][r]
        BY <4>1, <4>2 DEF SyncJob
      <4>5. HeldKnown /\ ListingsKnown
        BY DEF Known
      <4> QED
        BY <2>1, <4>3, <4>4, <4>5 DEF HeldKnown, ListingsKnown
    <3>4. ASSUME NEW s \in Syncs,
                 \/ \E listed \in SUBSET Zones : StartSync(s, listed)
                 \/ \E z \in Zones : StartRefresh(s, z)
          PROVE  ListingsKnown'
      <4>1. \A t \in Syncs : sy'[t].snap = sy[t].snap
        BY <3>4, StartListings
      <4> QED
        BY <3>2, <4>1
    <3>5. ASSUME NEW s \in Syncs, SyncFails(s) \/ RefreshFails(s) \/ AuditSync(s)
          PROVE  ListingsKnown'
      <4>1. \A t \in Syncs : sy'[t].snap \in {sy[t].snap, NoSync.snap}
        BY <3>5, EndListings DEF Blank, NoSync
      <4> QED
        BY <3>2, <4>1
    <3>6. ASSUME NEW s \in Syncs, CommitSync(s) \/ CommitRefresh(s) PROVE ListingsKnown'
      <4>1. \A t \in Syncs : sy'[t].snap \in {sy[t].snap, NoSync.snap}
        BY <3>6, ReplaceListings DEF CommitSync, CommitRefresh, SameListing, Blank, NoSync
      <4> QED
        BY <3>2, <4>1
    <3>7. CASE Crash
      BY <3>7, SMTT(30) DEF Crash, ListingsKnown, NoSync, Empty
    <3>8. ASSUME NEW w \in Writers, Write(w) PROVE ListingsKnown'
      <4>1. CASE CommitCreate(w)
        <5>1. \A t \in Syncs : sy'[t].snap = sy[t].snap
          BY <4>1, CreateListings DEF SameListing
        <5> QED
          BY <3>2, <5>1
      <4>2. CASE ~CommitCreate(w)
        <5>1. UNCHANGED sy
          BY <3>8, <4>2 DEF Write, StartCreate, StartUpdate, StartDelete, Call, ProviderCreates,
             ProviderChanges, Answered, ProviderFails, CommitChange, WriteFails, WriteAudit
        <5> QED
          BY <3>1, <5>1
      <4> QED
        BY <4>1, <4>2
    <3>9. CASE Console
      BY <3>1, <3>9 DEF Console, RemoteChange, RemoteAddZone, RemoteDropZone
    <3> QED
      BY <3>1, <3>3, <3>4, <3>5, <3>6, <3>7, <3>8, <3>9 DEF Next, Sync, DeleteProvider, vars
  <2>3. CacheFromProvider'
    <3>1. CASE UNCHANGED rows
      BY <2>1, <3>1 DEF Known, CacheFromProvider
    <3>2. ASSUME NEW w \in Writers, CommitCreate(w) PROVE CacheFromProvider'
      <4>1. wr[w].zone \in Zones /\ wr[w].rid \in Rids
        BY <3>2, InFlight DEF CommitCreate
      <4>2. <<wr[w].zone, wr[w].rid, wr[w].data>> \in held
        BY <3>2 DEF CommitCreate, Known, JobsKnown
      <4>3. \A z \in Zones, r \in Rids :
              \/ rows'[z][r] = rows[z][r]
              \/ z = wr[w].zone /\ r = wr[w].rid /\ rows'[z][r].data = wr[w].data
        BY <3>2, <4>1 DEF CommitCreate, TypeOK
      <4> QED
        BY <2>1, <4>2, <4>3 DEF Known, CacheFromProvider
    <3>3. ASSUME NEW w \in Writers, CommitChange(w) PROVE CacheFromProvider'
      <4>1. wr[w].zone \in Zones /\ wr[w].rid \in Rids
        BY <3>3, InFlight DEF CommitChange
      <4>2. wr[w].op # "delete" => <<wr[w].zone, wr[w].rid, wr[w].data>> \in held
        BY <3>3 DEF CommitChange, Known, JobsKnown
      <4>3. \A z \in Zones, r \in Rids :
              \/ rows'[z][r] \in {rows[z][r], None}
              \/ /\ z = wr[w].zone /\ r = wr[w].rid /\ wr[w].op # "delete"
                 /\ rows'[z][r].data = wr[w].data
        BY <3>3, <4>1 DEF CommitChange, TypeOK
      <4> QED
        BY <2>1, <4>2, <4>3 DEF Known, CacheFromProvider
    <3>4. ASSUME NEW s \in Syncs, CommitSync(s) \/ CommitRefresh(s) PROVE CacheFromProvider'
      <4>1. \A z \in Zones, r \in Rids :
              \/ rows'[z][r] \in {rows[z][r], None}
              \/ sy[s].snap[z][r] # None /\ rows'[z][r].data = sy[s].snap[z][r]
        <5>1. PICK kept : rows' = ReplacedRows(s, kept)
          BY <3>4 DEF CommitSync, CommitRefresh, Replace
        <5> QED
          BY <5>1 DEF ReplacedRows
      <4> QED
        BY <2>1, <4>1 DEF Known, CacheFromProvider, ListingsKnown
    <3>5. CASE DeleteProvider
      BY <3>5 DEF DeleteProvider, CacheFromProvider, Empty
    <3> QED
      BY <3>1, <3>2, <3>3, <3>4, <3>5, CacheSteps
  <2>4. JobsKnown'
    <3>1. ASSUME NEW w \in Writers, Write(w) PROVE JobsKnown'
      <4> DEFINE Fits(j) == j.at \in {"write", "audit"} =>
                   IF j.op = "delete"
                   THEN j.rid \in minted' /\ remote'[j.zone][j.rid] = None
                   ELSE <<j.zone, j.rid, j.data>> \in held'
      <4>1. \A v \in Writers \ {w} : wr'[v] = wr[v]
        BY <3>1, WriterSteps DEF TypeOK
      <4>2. \A v \in Writers : Fits(wr[v])
        <5> SUFFICES ASSUME NEW v \in Writers, wr[v].at \in {"write", "audit"}
                     PROVE  Fits(wr[v])
          OBVIOUS
        <5>1. wr[v].zone \in Zones /\ wr[v].rid \in Rids
          BY InFlight
        <5> QED
          BY <2>1, <5>1 DEF Known, JobsKnown, Gone
      <4>3. Fits(wr'[w])
        <5>1. CASE wr'[w].at = "call" \/ wr'[w] = NoWrite
          BY <5>1 DEF NoWrite
        <5>2. CASE /\ wr'[w].at = "write" /\ wr'[w].rid \in Rids
                   /\ wr'[w].zone = wr[w].zone /\ wr'[w].op = wr[w].op
                   /\ wr'[w].data = wr[w].data
                   /\ \E r \in Rids : ProviderCreates(w, r, TRUE)
                                    \/ (r = wr[w].rid /\ ProviderChanges(w, TRUE))
                   /\ wr[w].op # "create" => wr'[w].rid = wr[w].rid
                   /\ wr[w].zone \in Zones /\ remote'[wr[w].zone][wr'[w].rid] = wr[w].data
          <6>1. wr[w].at = "call"
            BY <5>2 DEF ProviderCreates, ProviderChanges
          <6>2. wr[w].op = "delete" => wr[w].data = None /\ wr[w].rid \in Rids
            BY <6>1, InFlight
          <6>3. wr[w].op # "delete" => wr[w].data # None
            BY <6>1, InFlight, NoneAssumption
          <6>4. CASE wr[w].op # "delete"
            BY <2>1, <5>2, <6>3, <6>4 DEF HeldKnown
          <6>5. CASE wr[w].op = "delete"
            <7>1. ProviderChanges(w, TRUE)
              BY <5>2, <6>5 DEF ProviderCreates
            <7>2. remote[wr[w].zone][wr[w].rid] # None
              BY <7>1 DEF ProviderChanges
            <7>3. wr[w].rid \in minted
              BY <5>2, <6>2, <6>5, <7>2 DEF Known, HeldKnown
            <7>4. wr[w].rid \in minted'
              BY <7>1, <7>3 DEF ProviderChanges
            <7> QED
              BY <5>2, <6>2, <6>5, <7>4 DEF Gone
          <6> QED
            BY <6>4, <6>5
        <5>3. CASE /\ CommitCreate(w) \/ CommitChange(w)
                   /\ wr'[w] = [wr[w] EXCEPT !.at = "audit"]
          <6>1. wr[w].at = "write"
            BY <5>3 DEF CommitCreate, CommitChange
          <6>2. wr[w] \in WriteJob
            BY <6>1, InFlight
          <6>3. /\ wr'[w].op = wr[w].op /\ wr'[w].zone = wr[w].zone
                /\ wr'[w].rid = wr[w].rid /\ wr'[w].data = wr[w].data
            BY <5>3, <6>2 DEF WriteJob
          <6> QED
            BY <4>2, <6>1, <6>3
        <5> QED
          BY <3>1, <5>1, <5>2, <5>3, WriterSteps
      <4>4. \A v \in Writers : Fits(wr'[v])
        BY <4>1, <4>2, <4>3
      <4> QED
        BY <4>4 DEF JobsKnown, Gone
    <3>2. CASE UNCHANGED wr
      <4>1. \A w \in Writers : wr[w].at \in {"write", "audit"} =>
              wr[w].zone \in Zones /\ wr[w].rid \in Rids
        BY InFlight
      <4> QED
        BY <2>1, <3>2, <4>1 DEF Known, JobsKnown, Gone
    <3>3. CASE wr' = [w \in Writers |-> NoWrite]
      BY <3>3 DEF JobsKnown, NoWrite
    <3> QED
      BY <3>1, <3>2, <3>3, OtherSteps
  <2>5. AuditKnown'
    <3>1. ASSUME UNCHANGED audit PROVE AuditKnown'
      <4>1. minted \subseteq Rids
        BY DEF TypeOK
      <4> QED
        BY <2>1, <3>1, <4>1 DEF Known, AuditKnown, Gone
    <3>2. ASSUME NEW e, Logged(e), e.op \notin Op PROVE AuditKnown'
      <4>1. CASE UNCHANGED audit
        BY <3>1, <4>1
      <4>2. CASE audit' = audit \cup {e}
        <5>1. minted \subseteq Rids
          BY DEF TypeOK
        <5> QED
          BY <2>1, <3>2, <4>2, <5>1 DEF Known, AuditKnown, Gone, Op
      <4> QED
        BY <3>2, <4>1, <4>2 DEF Logged
    <3>3. ASSUME NEW w \in Writers, WriteAudit(w) PROVE AuditKnown'
      <4> DEFINE e == [op |-> wr[w].op, zone |-> wr[w].zone, rid |-> wr[w].rid,
                       data |-> wr[w].data]
      <4>1. UNCHANGED <<remote, minted, held>>
        BY <3>3 DEF WriteAudit
      <4>2. wr[w].zone \in Zones /\ wr[w].rid \in Rids
        BY <3>3, InFlight DEF WriteAudit
      <4>3. /\ e.op \in {"create", "update"} => <<e.zone, e.rid, e.data>> \in held
            /\ e.op = "delete" => e.zone \in Zones /\ Gone(e.zone, e.rid)
        BY <3>3, <4>2 DEF WriteAudit, Known, JobsKnown
      <4>4. audit' = audit \cup {e} \/ UNCHANGED audit
        BY <3>3 DEF WriteAudit, Logged
      <4>5. \A x \in audit' :
              /\ x.op \in {"create", "update"} => <<x.zone, x.rid, x.data>> \in held
              /\ x.op = "delete" => x.zone \in Zones /\ Gone(x.zone, x.rid)
        <5> HIDE DEF e
        <5> QED
          BY <4>3, <4>4, ZenonT(40) DEF Known, AuditKnown
      <4> QED
        BY <4>1, <4>5 DEF AuditKnown, Gone
    <3>4. ASSUME NEW s \in Syncs, Sync(s) PROVE AuditKnown'
      <4>1. CASE AuditSync(s)
        <5> DEFINE e == [op |-> sy[s].op, zone |-> None, rid |-> None, data |-> None]
        <5>1. Logged(e) /\ e.op = sy[s].op
          BY <4>1 DEF AuditSync
        <5>2. sy[s].op \notin Op
          BY DEF TypeOK, SyncJob, Op
        <5> QED
          BY <3>2, <5>1, <5>2
      <4> QED
        BY <3>1, <3>4, <4>1 DEF Sync, StartSync, StartRefresh, ListPage, PageLost, CommitSync,
           CommitRefresh, Replace, SyncFails, RefreshFails, Fails
    <3>5. CASE DeleteProvider
      BY <3>2, <3>5, SMTT(30) DEF DeleteProvider, Op
    <3>6. ASSUME NEW w \in Writers, Write(w), ~WriteAudit(w) PROVE UNCHANGED audit
      BY <3>6 DEF Write, StartCreate, StartUpdate, StartDelete, Call, ProviderCreates,
         ProviderChanges, Answered, ProviderFails, CommitCreate, CommitChange, WriteFails
    <3>7. CASE Console \/ Crash \/ UNCHANGED vars
      BY <3>1, <3>7 DEF Console, RemoteChange, RemoteAddZone, RemoteDropZone, Crash, vars
    <3> QED
      BY <3>1, <3>3, <3>4, <3>5, <3>6, <3>7 DEF Next
  <2> QED
    BY <2>1, <2>2, <2>3, <2>4, <2>5 DEF Known
<1> QED
  BY <1>1, <1>2, TypeCorrect, PTL DEF Spec

\* The cache is never ahead of the provider.
THEOREM CacheNeverAhead == Spec => []CacheFromProvider
<1>1. Known => CacheFromProvider
  BY DEF Known
<1> QED
  BY <1>1, KnownCorrect, PTL

\* The log tells the truth about the provider.
THEOREM AuditTellsTruth == Spec => []AuditTruth
<1>1. Known => AuditTruth
  BY DEF Known, AuditKnown, AuditTruth, Gone
<1> QED
  BY <1>1, KnownCorrect, PTL
-----------------------------------------------------------------------------
\* The places of a listing are numbers below the number of its records.
LEMMA PlaceType ==
  ASSUME NEW P \in SUBSET Rids, NEW r \in Rids
  PROVE  LET before == {q \in P \ {r} : <<q, r>> \in Before} IN
         /\ IsFiniteSet(before) /\ Cardinality(before) \in Nat /\ Cardinality(P) \in Nat
         /\ r \in P => Cardinality(before) < Cardinality(P)
<1> DEFINE before == {q \in P \ {r} : <<q, r>> \in Before}
<1>1. IsFiniteSet(P)
  BY ListingAssumption, FS_Subset
<1>2. IsFiniteSet(P \ {r})
  BY <1>1, FS_Subset
<1>3. IsFiniteSet(before) /\ Cardinality(before) <= Cardinality(P \ {r})
  <2>1. before \subseteq P \ {r}
    OBVIOUS
  <2> HIDE DEF before
  <2> QED
    BY <1>2, <2>1, FS_Subset
<1>4. /\ Cardinality(before) \in Nat /\ Cardinality(P) \in Nat /\ Cardinality(P \ {r}) \in Nat
  BY <1>1, <1>2, <1>3, FS_CardinalityType
<1>5. r \in P => Cardinality(P \ {r}) = Cardinality(P) - 1
  BY <1>1, FS_RemoveElement
<1> HIDE DEF before
<1>6. r \in P => Cardinality(before) < Cardinality(P)
  BY <1>3, <1>4, <1>5
<1> QED
  BY <1>3, <1>4, <1>6 DEF before

LEMMA PositionType ==
  ASSUME NEW z, NEW r \in Rids
  PROVE  /\ Position(z, r) \in Nat /\ Cardinality(Present(remote[z])) \in Nat
         /\ r \in Present(remote[z]) => Position(z, r) < Cardinality(Present(remote[z]))
<1>1. Present(remote[z]) \in SUBSET Rids
  BY DEF Present
<1> QED
  BY <1>1, PlaceType DEF Position

\* A change of record r moves another up, by one place, only when r goes and came
\* before it.
LEMMA StorePlaces ==
  ASSUME TypeOK, NEW z \in Zones, NEW r \in Rids, NEW d \in Data \cup {None}, Store(z, r, d),
         NEW y \in Zones, NEW q \in Rids
  PROVE  /\ Position(y, q) \in Nat /\ Position(y, q)' \in Nat
         /\ \/ Position(y, q)' >= Position(y, q)
            \/ /\ y = z /\ q # r /\ d = None /\ <<r, q>> \in Before
               /\ Position(y, q)' = Position(y, q) - 1
<1> DEFINE P == Present(remote[y])  N == Present(remote'[y])
           A == {p \in P \ {q} : <<p, q>> \in Before}
           B == {p \in N \ {q} : <<p, q>> \in Before}
<1>1. \A p \in Rids : remote'[y][p] = IF y = z /\ p = r THEN d ELSE remote[y][p]
  BY DEF Store, TypeOK
<1>2. P \in SUBSET Rids /\ N \in SUBSET Rids
  BY DEF Present
<1>3. /\ IsFiniteSet(A) /\ Cardinality(A) \in Nat
      /\ IsFiniteSet(B) /\ Cardinality(B) \in Nat
  BY <1>2, PlaceType
<1>4. Position(y, q) = Cardinality(A) /\ Position(y, q)' = Cardinality(B)
  BY DEF Position
<1>5. CASE A \subseteq B
  <2>1. Cardinality(A) <= Cardinality(B)
    BY <1>3, <1>5, FS_Subset
  <2> HIDE DEF A, B
  <2> QED
    BY <1>3, <1>4, <2>1
<1>6. CASE ~(A \subseteq B)
  <2>1. y = z /\ d = None /\ r \in A /\ B = A \ {r}
    BY <1>1, <1>6 DEF Present
  <2>2. q # r /\ <<r, q>> \in Before
    BY <2>1
  <2> HIDE DEF A, B
  <2>3. Cardinality(B) = Cardinality(A) - 1
    BY <1>3, <2>1, FS_RemoveElement
  <2> QED
    BY <1>3, <1>4, <2>1, <2>2, <2>3
<1> QED
  BY <1>5, <1>6

\* Store marks what it changes, and what it makes a listing miss, as stale for
\* every sync whose pages are past it.
LEMMA StoreFresh ==
  ASSUME TypeOK, ListingRight, NEW z \in Zones, NEW r \in Rids, NEW d \in Data \cup {None},
         Store(z, r, d), UNCHANGED sy
  PROVE  /\ ListingRight'
         /\ \A y \in Zones, q \in Rids :
              remote'[y][q] = IF y = z /\ q = r THEN d ELSE remote[y][q]
<1>1. ASSUME NEW y \in Zones, NEW q \in Rids
      PROVE  remote'[y][q] = IF y = z /\ q = r THEN d ELSE remote[y][q]
  BY DEF Store, TypeOK
<1>2. ASSUME NEW s \in Syncs, NEW y \in Zones, NEW q \in Rids,
             Passed(s, y, q)', <<y, q>> \notin stale'[s]
      PROVE  sy[s].snap[y][q] = remote'[y][q]
  <2>1. stale'[s] = stale[s] \cup (IF Passed(s, z, r) THEN {<<z, r>>} ELSE {})
                             \cup (IF d = None THEN {z} \X Missed(s, z, r) ELSE {})
    BY DEF Store
  <2>2. <<y, q>> \notin stale[s] /\ (y = z /\ q = r => ~Passed(s, y, q))
    BY <1>2, <2>1
  <2>3. CASE Passed(s, y, q)
    <3>1. sy[s].snap[y][q] = remote[y][q] /\ ~(y = z /\ q = r)
      BY <2>2, <2>3 DEF ListingRight, ListingFresh
    <3> QED
      BY <1>1, <3>1
  <2>4. CASE ~Passed(s, y, q)
    <3>1. /\ sy[s].zone = y /\ sy[s].snap[y][q] = None
          /\ Position(y, q)' < sy[s].offset /\ ~(Position(y, q) < sy[s].offset)
      BY <1>2, <2>4 DEF Passed
    <3>2. sy[s].offset \in Nat
      BY DEF TypeOK, SyncJob
    <3>3. /\ y = z /\ q # r /\ d = None /\ <<r, q>> \in Before
          /\ Position(y, q) = sy[s].offset
      <4>1. /\ Position(y, q) \in Nat /\ Position(y, q)' \in Nat
            /\ \/ Position(y, q)' >= Position(y, q)
               \/ /\ y = z /\ q # r /\ d = None /\ <<r, q>> \in Before
                  /\ Position(y, q)' = Position(y, q) - 1
        BY StorePlaces
      <4> QED
        BY <3>1, <3>2, <4>1
    <3>4. q \notin Missed(s, z, r)
      BY <1>2, <2>1, <3>3
    <3>5. remote[y][q] = None
      BY <3>1, <3>3, <3>4 DEF Missed, Present
    <3> QED
      BY <1>1, <3>1, <3>3, <3>5
  <2> QED
    BY <2>3, <2>4
<1>3. ListingShape'
  BY DEF ListingRight, ListingShape
<1> QED
  BY <1>1, <1>2, <1>3 DEF ListingRight, ListingFresh

\* A page, with what the pages up to it leave out.
LEMMA ReadFresh ==
  ASSUME TypeOK, ListingRight, NEW s \in Syncs, NEW z \in Zones, Lists(s, z),
         NEW page \in SUBSET Rids, NEW last \in BOOLEAN, Read(s, z, page, last), UNCHANGED remote,
         \A t \in Syncs : stale[t] \subseteq stale'[t],
         \A q \in Rids \ page :
           ~Passed(s, z, q) /\ (last \/ Position(z, q) < sy[s].offset + PerPage) =>
             <<z, q>> \in stale'[s] \/ remote[z][q] = None
  PROVE  ListingRight'
<1>1. sy[s] \in SyncJob /\ None \notin Zones
  BY NoneAssumption DEF TypeOK
<1>2. /\ sy'[s].at = "list" /\ sy'[s].todo = sy[s].todo \ {z}
      /\ sy'[s].zone = IF last THEN None ELSE z
      /\ sy'[s].offset = IF last THEN 0 ELSE sy[s].offset + PerPage
      /\ sy'[s].done = IF last THEN sy[s].done \cup {z} ELSE sy[s].done
      /\ sy'[s].snap = [sy[s].snap EXCEPT ![z] =
                         [r \in Rids |-> IF r \in page THEN remote[z][r] ELSE sy[s].snap[z][r]]]
  BY <1>1 DEF Read, Lists, TypeOK, SyncJob
<1>3. \A t \in Syncs \ {s} : sy'[t] = sy[t]
  BY DEF Read, TypeOK
<1>4. /\ z \notin sy[s].done /\ sy[s].zone \in {z, None} /\ sy[s].todo \cap sy[s].done = {}
      /\ \A y \in Zones \ (sy[s].done \cup {sy[s].zone}) : sy[s].snap[y] = Empty
  BY DEF Lists, ListingRight, ListingShape
<1>5. /\ \A y \in Zones \ {z} : sy'[s].snap[y] = sy[s].snap[y]
      /\ \A q \in Rids : sy'[s].snap[z][q] = IF q \in page THEN remote[z][q] ELSE sy[s].snap[z][q]
  BY <1>1, <1>2 DEF SyncJob
<1>6. ListingShape'
  <2> SUFFICES ASSUME NEW t \in Syncs
               PROVE  /\ sy'[t].at # "list" => sy'[t].done = {} /\ sy'[t].zone = None
                      /\ sy'[t].zone = None => sy'[t].offset = 0
                      /\ sy'[t].zone \notin sy'[t].done
                      /\ sy'[t].todo \cap sy'[t].done = {}
                      /\ \A y \in Zones \ (sy'[t].done \cup {sy'[t].zone}) : sy'[t].snap[y] = Empty
    BY DEF ListingShape, Empty
  <2>1. CASE t # s
    BY <1>3, <2>1 DEF ListingRight, ListingShape
  <2>2. CASE t = s
    <3>1. sy[s].done \subseteq Zones
      BY <1>1 DEF SyncJob
    <3>2. \A y \in Zones \ (sy'[s].done \cup {sy'[s].zone}) : sy'[s].snap[y] = Empty
      <4> SUFFICES ASSUME NEW y \in Zones \ (sy'[s].done \cup {sy'[s].zone})
                   PROVE  sy'[s].snap[y] = Empty
        OBVIOUS
      <4>1. y # z /\ y \notin sy[s].done /\ y # sy[s].zone
        BY <1>1, <1>2, <1>4
      <4> QED
        BY <1>4, <1>5, <4>1
    <3>3. sy'[s].zone = None => sy'[s].offset = 0
      BY <1>1, <1>2
    <3>4. sy'[s].zone \notin sy'[s].done
      BY <1>1, <1>2, <1>4, <3>1
    <3>5. sy'[s].todo \cap sy'[s].done = {}
      BY <1>2, <1>4
    <3> QED
      BY <1>2, <2>2, <3>2, <3>3, <3>4, <3>5
  <2> QED
    BY <2>1, <2>2
<1>7. ListingFresh'
  <2> SUFFICES ASSUME NEW t \in Syncs, NEW y \in Zones, NEW q \in Rids,
                      Passed(t, y, q)', <<y, q>> \notin stale'[t]
               PROVE  sy'[t].snap[y][q] = remote[y][q]
    BY DEF ListingFresh
  <2>1. <<y, q>> \notin stale[t] /\ Position(y, q)' = Position(y, q)
    BY DEF Position
  <2>2. CASE t # s
    <3>1. Passed(t, y, q)
      BY <1>3, <2>1, <2>2 DEF Passed
    <3> QED
      BY <1>3, <2>1, <2>2, <3>1 DEF ListingRight, ListingFresh
  <2>3. CASE t = s /\ y # z
    <3>1. Passed(s, y, q)
      BY <1>1, <1>2, <2>3 DEF Passed
    <3> QED
      BY <1>5, <2>1, <2>3, <3>1 DEF ListingRight, ListingFresh
  <2>4. CASE t = s /\ y = z
    <3>1. CASE q \in page
      BY <1>5, <2>4, <3>1
    <3>2. CASE q \notin page /\ Passed(s, z, q)
      BY <1>5, <2>1, <2>4, <3>2 DEF ListingRight, ListingFresh
    <3>3. CASE q \notin page /\ ~Passed(s, z, q)
      <4>1. sy[s].snap[z][q] = None
        <5>1. CASE sy[s].zone = z
          BY <3>3, <5>1 DEF Passed
        <5>2. CASE sy[s].zone # z
          BY <1>4, <5>2 DEF Empty
        <5> QED
          BY <5>1, <5>2
      <4>2. sy'[s].snap[z][q] = None
        BY <1>5, <3>3, <4>1
      <4>3. last \/ Position(z, q) < sy[s].offset + PerPage
        <5>1. CASE last
          BY <5>1
        <5>2. CASE ~last
          <6>1. z \notin sy'[s].done /\ sy'[s].offset = sy[s].offset + PerPage
            BY <1>2, <1>4, <5>2
          <6>2. Position(z, q)' < sy'[s].offset
            BY <2>4, <4>2, <6>1 DEF Passed
          <6> QED
            BY <2>1, <2>4, <6>1, <6>2
        <5> QED
          BY <5>1, <5>2
      <4>4. remote[z][q] = None
        BY <2>4, <3>3, <4>3
      <4> QED
        BY <2>4, <4>2, <4>4
    <3> QED
      BY <3>1, <3>2, <3>3
  <2> QED
    BY <2>2, <2>3, <2>4
<1> QED
  BY <1>6, <1>7 DEF ListingRight

\* A page that arrives leaves out no record that is there; what a lost page leaves
\* out is marked.
LEMMA PageFresh ==
  ASSUME TypeOK, ListingRight, NEW s \in Syncs, NEW z \in Zones, ListPage(s, z) \/ PageLost(s, z)
  PROVE  ListingRight'
<1>1. CASE ListPage(s, z)
  <2>1. /\ Lists(s, z) /\ Read(s, z, Page(s, z), IsLast(s, z)) /\ UNCHANGED <<remote, stale>>
    BY <1>1 DEF ListPage, remoteVars, history
  <2>2. Page(s, z) \in SUBSET Rids /\ IsLast(s, z) \in BOOLEAN
    BY DEF Page, Present, IsLast
  <2>3. ASSUME NEW q \in Rids \ Page(s, z), ~Passed(s, z, q), remote[z][q] # None
        PROVE  ~IsLast(s, z) /\ ~(Position(z, q) < sy[s].offset + PerPage)
    <3>1. sy[s].offset \in Nat /\ PerPage \in Nat
      BY ListingAssumption DEF TypeOK, SyncJob
    <3>2. q \in Present(remote[z])
      BY <2>3 DEF Present
    <3>3. /\ Position(z, q) \in Nat /\ Cardinality(Present(remote[z])) \in Nat
          /\ Position(z, q) < Cardinality(Present(remote[z]))
      BY <3>2, PositionType
    <3>4. Position(z, q) >= sy[s].offset
      <4>1. CASE sy[s].zone = z
        BY <2>3, <3>1, <3>3, <4>1 DEF Passed
      <4>2. CASE sy[s].zone = None
        BY <3>3, <4>2 DEF ListingRight, ListingShape
      <4> QED
        BY <2>1, <4>1, <4>2 DEF Lists
    <3>5. Position(z, q) \notin sy[s].offset .. sy[s].offset + PerPage - 1
      BY <2>3, <3>2 DEF Page
    <3>6. Position(z, q) >= sy[s].offset + PerPage
      BY <3>1, <3>3, <3>4, <3>5
    <3> QED
      BY <3>1, <3>3, <3>6 DEF IsLast
  <2> QED
    BY <2>1, <2>2, <2>3, ReadFresh
<1>2. CASE PageLost(s, z)
  <2>1. Lists(s, z) /\ Read(s, z, {}, TRUE) /\ UNCHANGED remote
    BY <1>2 DEF PageLost, remoteVars
  <2>2. stale' = [stale EXCEPT ![s] = @ \cup {<<z, r>> : r \in {q \in Rids : ~Passed(s, z, q)}}]
    BY <1>2 DEF PageLost
  <2>3. /\ \A t \in Syncs : stale[t] \subseteq stale'[t]
        /\ \A q \in Rids : ~Passed(s, z, q) => <<z, q>> \in stale'[s]
    BY <2>2 DEF TypeOK
  <2> QED
    BY <2>1, <2>3, ReadFresh
<1> QED
  BY <1>1, <1>2

\* A step that makes no change at the provider and reads no page.
LEMMA ListingKept ==
  ASSUME TypeOK, ListingRight, UNCHANGED remote,
         \A t \in Syncs : \/ SameListing(sy'[t], sy[t]) /\ stale'[t] = stale[t]
                          \/ Blank(sy'[t])
  PROVE  ListingRight'
<1>1. \A z \in Zones : Empty = [r \in Rids |-> None]
  BY DEF Empty
<1>2. ASSUME NEW t \in Syncs
      PROVE  /\ sy'[t].at # "list" => sy'[t].done = {} /\ sy'[t].zone = None
             /\ sy'[t].zone = None => sy'[t].offset = 0
             /\ sy'[t].zone \notin sy'[t].done
             /\ sy'[t].todo \cap sy'[t].done = {}
             /\ \A z \in Zones \ (sy'[t].done \cup {sy'[t].zone}) : sy'[t].snap[z] = Empty
  <2>1. CASE SameListing(sy'[t], sy[t])
    BY <2>1 DEF SameListing, ListingRight, ListingShape
  <2>2. CASE Blank(sy'[t])
    BY <2>2 DEF Blank
  <2> QED
    BY <2>1, <2>2
<1>3. ASSUME NEW t \in Syncs, NEW z \in Zones, NEW r \in Rids,
             Passed(t, z, r)', <<z, r>> \notin stale'[t]
      PROVE  sy'[t].snap[z][r] = remote'[z][r]
  <2>1. Position(z, r)' = Position(z, r)
    BY DEF Position
  <2>2. CASE SameListing(sy'[t], sy[t]) /\ stale'[t] = stale[t]
    <3>1. Passed(t, z, r)
      BY <1>3, <2>1, <2>2 DEF Passed, SameListing
    <3> QED
      BY <1>3, <2>2, <3>1 DEF SameListing, ListingRight, ListingFresh
  <2>3. CASE Blank(sy'[t])
    <3>1. z \notin sy'[t].done /\ sy'[t].zone # z
      BY <2>3, NoneAssumption DEF Blank
    <3> QED
      BY <1>3, <3>1 DEF Passed
  <2> QED
    BY <2>2, <2>3
<1>4. ListingShape'
  BY <1>2 DEF ListingShape, Empty
<1> QED
  BY <1>3, <1>4 DEF ListingRight, ListingFresh

\* MirrorInv survives a step that leaves rows and cached zones alone, marks
\* every record it changes at the provider as dirty, sends no request on to its
\* commit, and marks the record of every request it ends before its commit.
LEMMA MirrorKept ==
  ASSUME TypeOK, MirrorInv, ListingRight', UNCHANGED <<zones, rows>>,
         dirty \subseteq dirty',
         \A z \in Zones, r \in Rids : <<z, r>> \in dirty' \/ remote'[z][r] = remote[z][r],
         \A w \in Writers :
           \/ wr'[w] = wr[w]
           \/ /\ wr'[w].at # "write"
              /\ wr[w].at = "write" => <<wr[w].zone, wr[w].rid>> \in dirty'
  PROVE  MirrorInv'
<1>1. PendingAlone'
  BY DEF MirrorInv, PendingAlone
<1>2. \A w \in Writers : wr[w].at = "write" => wr[w].zone \in Zones /\ wr[w].rid \in Rids
  BY InFlight
<1>3. \A z \in Zones, r \in Rids : <<z, r>> \notin dirty' => (Mirrors(z, r) <=> Mirrors(z, r)')
  BY DEF Mirrors
<1>4. \A w \in Writers : wr'[w] = wr[w] => (SameRow(w) <=> SameRow(w)')
  BY DEF SameRow
<1>5. PendingFits'
  <2> SUFFICES ASSUME NEW w \in Writers, wr'[w].at = "write",
                      <<wr'[w].zone, wr'[w].rid>> \notin dirty'
               PROVE  /\ remote'[wr'[w].zone][wr'[w].rid] = wr'[w].data
                      /\ \/ wr'[w].zone \notin zones'
                         \/ Mirrors(wr[w].zone, wr[w].rid)'
                         \/ wr'[w].op = "create" /\ rows'[wr'[w].zone][wr'[w].rid] = None
                         \/ wr'[w].op # "create" /\ SameRow(w)'
    BY DEF PendingFits
  <2>1. wr'[w] = wr[w]
    OBVIOUS
  <2> DEFINE z == wr[w].zone  r == wr[w].rid
  <2>2. z \in Zones /\ r \in Rids /\ <<z, r>> \notin dirty /\ <<z, r>> \notin dirty'
    BY <1>2, <2>1
  <2>3. /\ remote[z][r] = wr[w].data
        /\ \/ z \notin zones
           \/ Mirrors(z, r)
           \/ wr[w].op = "create" /\ rows[z][r] = None
           \/ wr[w].op # "create" /\ SameRow(w)
    BY <2>1, <2>2 DEF MirrorInv, PendingFits
  <2>4. remote'[z][r] = remote[z][r]
    BY <2>2
  <2>5. Mirrors(z, r) <=> Mirrors(wr[w].zone, wr[w].rid)'
    BY <2>1, <2>4 DEF Mirrors
  <2> QED
    BY <1>4, <2>1, <2>2, <2>3, <2>4, <2>5
<1>6. zones \subseteq Zones
  BY DEF TypeOK
<1>7. \A z \in Zones, r \in Rids : <<z, r>> \notin dirty' /\ ~Pending(z, r)' => ~Pending(z, r)
  BY DEF Pending
<1>8. MirrorUnlessDisturbed'
  BY <1>3, <1>6, <1>7 DEF MirrorInv, MirrorUnlessDisturbed
<1> QED
  BY <1>1, <1>5, <1>8 DEF MirrorInv

\* The provider's answer reaches a request that nothing got in the way of.
LEMMA AnswerKeepsMirror ==
  ASSUME TypeOK, MirrorInv, ListingRight', UNCHANGED <<zones, rows>>,
         NEW w \in Writers, wr' = [wr EXCEPT ![w] = wr'[w]], wr'[w].at = "write",
         wr[w].at = "call",
         NEW z \in Zones, NEW r \in Rids, wr'[w].zone = z, wr'[w].rid = r,
         dirty' = IF ~Overlapped(w, z, r) THEN dirty ELSE dirty \cup {<<z, r>>},
         \A y \in Zones, q \in Rids :
           remote'[y][q] = IF y = z /\ q = r THEN wr'[w].data ELSE remote[y][q],
         wr'[w].op = "create" => rows[z][r] = None,
         wr'[w].op # "create" => (SameRow(w) <=> SameRow(w)'),
         wr'[w].op = wr[w].op
  PROVE  MirrorInv'
<1>1. \A v \in Writers \ {w} : wr'[v] = wr[v]
  BY DEF TypeOK
<1>2. \A v \in Writers \ {w} : wr[v].at = "write" /\ wr[v].zone = z /\ wr[v].rid = r =>
        <<z, r>> \in dirty'
  BY DEF Overlapped
<1>3. dirty \subseteq dirty'
  OBVIOUS
<1>4. PendingAlone'
  BY <1>1, <1>2, <1>3 DEF MirrorInv, PendingAlone
<1>5. \A y \in Zones, q \in Rids : ~(y = z /\ q = r) => (Mirrors(y, q) <=> Mirrors(y, q)')
  BY DEF Mirrors
<1>6. ASSUME NEW v \in Writers \ {w}, wr[v].at = "write",
             <<wr[v].zone, wr[v].rid>> \notin dirty'
      PROVE  /\ remote'[wr[v].zone][wr[v].rid] = wr[v].data
             /\ \/ wr[v].zone \notin zones
                \/ Mirrors(wr[v].zone, wr[v].rid)'
                \/ wr[v].op = "create" /\ rows[wr[v].zone][wr[v].rid] = None
                \/ wr[v].op # "create" /\ SameRow(v)
  <2>1. wr[v].zone \in Zones /\ wr[v].rid \in Rids
    BY <1>6, InFlight
  <2>2. ~(wr[v].zone = z /\ wr[v].rid = r)
    BY <1>2, <1>6
  <2>3. <<wr[v].zone, wr[v].rid>> \notin dirty
    BY <1>3, <1>6
  <2>4. wr'[v] = wr[v]
    BY <1>1
  <2>5. remote'[wr[v].zone][wr[v].rid] = remote[wr[v].zone][wr[v].rid]
    BY <2>1, <2>2
  <2>6. Mirrors(wr[v].zone, wr[v].rid) <=> Mirrors(wr[v].zone, wr[v].rid)'
    BY <2>4, <2>5 DEF Mirrors
  <2> QED
    BY <1>6, <2>3, <2>5, <2>6 DEF MirrorInv, PendingFits
<1>7. \A v \in Writers \ {w} : SameRow(v) <=> SameRow(v)'
  BY <1>1 DEF SameRow
<1>8. ASSUME <<z, r>> \notin dirty', wr'[w].op # "create" PROVE SameRow(w)'
  BY <1>8 DEF Overlapped
<1>9. PendingFits'
  <2> SUFFICES ASSUME NEW v \in Writers, wr'[v].at = "write",
                      <<wr'[v].zone, wr'[v].rid>> \notin dirty'
               PROVE  /\ remote'[wr'[v].zone][wr'[v].rid] = wr'[v].data
                      /\ \/ wr'[v].zone \notin zones'
                         \/ Mirrors(wr[v].zone, wr[v].rid)' /\ wr'[v] = wr[v]
                         \/ wr'[v].op = "create" /\ rows'[wr'[v].zone][wr'[v].rid] = None
                         \/ wr'[v].op # "create" /\ SameRow(v)'
    BY DEF PendingFits
  <2>1. CASE v = w
    BY <1>8, <2>1
  <2>2. CASE v # w
    BY <1>1, <1>6, <1>7, <2>2
  <2> QED
    BY <2>1, <2>2
<1>10. zones \subseteq Zones
  BY DEF TypeOK
<1>11. \A y \in Zones, q \in Rids : <<y, q>> \notin dirty' /\ ~Pending(y, q)' =>
         ~(y = z /\ q = r) /\ <<y, q>> \notin dirty /\ ~Pending(y, q)
  BY <1>1, <1>3 DEF Pending
<1>12. MirrorUnlessDisturbed'
  BY <1>5, <1>10, <1>11 DEF MirrorInv, MirrorUnlessDisturbed
<1> QED
  BY <1>4, <1>9, <1>12 DEF MirrorInv

\* A commit writes the one row of its record.
LEMMA CommitKeepsMirror ==
  ASSUME TypeOK, MirrorInv, NEW w \in Writers, CommitCreate(w) \/ CommitChange(w)
  PROVE  MirrorInv'
<1> DEFINE z == wr[w].zone  r == wr[w].rid
<1>1. wr[w].at = "write" /\ UNCHANGED <<remote, zones, stale, dirty>>
  BY DEF CommitCreate, CommitChange, remoteVars, history
<1>2. /\ wr[w] \in WriteJob /\ z \in Zones /\ r \in Rids /\ wr[w].id \in Nat
      /\ wr[w].op = "delete" => wr[w].data = None
      /\ wr[w].op # "delete" => wr[w].data \in Data
  BY <1>1, InFlight
<1>3. (\A v \in Writers \ {w} : wr'[v] = wr[v]) /\ wr'[w].at = "audit"
  <2>1. wr' = [wr EXCEPT ![w].at = "audit"]
    BY DEF CommitCreate, CommitChange, Committed
  <2> QED
    BY <1>2, <2>1 DEF TypeOK, WriteJob
<1>4. \A y \in Zones, q \in Rids : ~(y = z /\ q = r) => rows'[y][q] = rows[y][q]
  BY <1>2 DEF CommitCreate, CommitChange, TypeOK
<1>5. z \in zones /\ <<z, r>> \notin dirty => Mirrors(z, r) \/ rows[z][r] = None \/ SameRow(w)
  BY <1>1 DEF MirrorInv, PendingFits
<1>6. <<z, r>> \notin dirty => remote[z][r] = wr[w].data
  BY <1>1 DEF MirrorInv, PendingFits
<1>7. ASSUME z \in zones, <<z, r>> \notin dirty
      PROVE  IF rows'[z][r] = None THEN remote[z][r] = None
             ELSE rows'[z][r].data = remote[z][r]
  <2>1. CASE CommitCreate(w)
    <3>1. rows'[z][r] = [id |-> nextId, data |-> wr[w].data]
      BY <1>2, <2>1 DEF CommitCreate, TypeOK
    <3>2. wr[w].data \in Data
      BY <1>2, <2>1 DEF CommitCreate
    <3>3. rows'[z][r] # None
      BY <3>1, <3>2, NoneAssumption DEF Row, TypeOK
    <3> QED
      BY <1>6, <1>7, <3>1, <3>3
  <2>2. CASE CommitChange(w)
    <3>1. rows'[z][r] = IF ~SameRow(w) THEN rows[z][r]
                        ELSE IF wr[w].op = "delete" THEN None
                        ELSE [id |-> wr[w].id, data |-> wr[w].data]
      BY <1>2, <2>2 DEF CommitChange, TypeOK
    <3>2. CASE ~SameRow(w)
      <4>1. Mirrors(z, r)
        BY <1>1, <1>7, <2>2, <3>2 DEF CommitChange, MirrorInv, PendingFits
      <4> QED
        BY <3>1, <3>2, <4>1 DEF Mirrors
    <3>3. CASE SameRow(w) /\ wr[w].op = "delete"
      BY <1>2, <1>6, <1>7, <3>1, <3>3
    <3>4. CASE SameRow(w) /\ wr[w].op # "delete"
      <4>1. [id |-> wr[w].id, data |-> wr[w].data] # None
        BY <1>2, <3>4, NoneAssumption DEF Row
      <4> QED
        BY <1>6, <1>7, <3>1, <3>4, <4>1
    <3> QED
      BY <3>2, <3>3, <3>4
  <2> QED
    BY <2>1, <2>2
<1>8. ListingRight'
  <2>1. \A t \in Syncs : SameListing(sy'[t], sy[t])
    <3>1. CASE CommitCreate(w)
      BY <3>1, CreateListings
    <3>2. CASE CommitChange(w)
      BY <3>2 DEF CommitChange, SameListing
    <3> QED
      BY <3>1, <3>2
  <2> QED
    BY <1>1, <2>1, ListingKept DEF MirrorInv
<1>9. PendingAlone'
  BY <1>1, <1>3 DEF MirrorInv, PendingAlone
<1>10. PendingFits'
  <2> SUFFICES ASSUME NEW v \in Writers, wr'[v].at = "write",
                      <<wr'[v].zone, wr'[v].rid>> \notin dirty'
               PROVE  /\ remote'[wr'[v].zone][wr'[v].rid] = wr'[v].data
                      /\ \/ wr'[v].zone \notin zones'
                         \/ Mirrors(wr[v].zone, wr[v].rid)'
                         \/ wr'[v].op = "create" /\ rows'[wr'[v].zone][wr'[v].rid] = None
                         \/ wr'[v].op # "create" /\ SameRow(v)'
    BY DEF PendingFits
  <2> DEFINE y == wr[v].zone  q == wr[v].rid
  <2>1. v # w /\ wr'[v] = wr[v] /\ wr[v].at = "write" /\ <<y, q>> \notin dirty
    BY <1>1, <1>3
  <2>2. ~(y = z /\ q = r)
    BY <1>1, <2>1 DEF MirrorInv, PendingAlone
  <2>3. y \in Zones /\ q \in Rids
    BY <2>1, InFlight
  <2>4. rows'[y][q] = rows[y][q]
    BY <1>4, <2>2, <2>3
  <2>5. Mirrors(y, q) <=> Mirrors(wr[v].zone, wr[v].rid)'
    BY <1>1, <2>1, <2>4 DEF Mirrors
  <2>6. SameRow(v) <=> SameRow(v)'
    BY <2>1, <2>4 DEF SameRow
  <2>7. /\ remote[y][q] = wr[v].data
        /\ \/ y \notin zones
           \/ Mirrors(y, q)
           \/ wr[v].op = "create" /\ rows[y][q] = None
           \/ wr[v].op # "create" /\ SameRow(v)
    BY <2>1 DEF MirrorInv, PendingFits
  <2> QED
    BY <1>1, <2>1, <2>4, <2>5, <2>6, <2>7
<1>11. MirrorUnlessDisturbed'
  <2> SUFFICES ASSUME NEW y \in zones', NEW q \in Rids, <<y, q>> \notin dirty', ~Pending(y, q)'
               PROVE  Mirrors(y, q)'
    BY DEF MirrorUnlessDisturbed
  <2>1. CASE y = z /\ q = r
    BY <1>1, <1>7, <2>1 DEF Mirrors
  <2>2. CASE ~(y = z /\ q = r)
    <3>1. ~Pending(y, q)
      BY <1>3, <2>2 DEF Pending
    <3>2. Mirrors(y, q)
      BY <1>1, <3>1 DEF MirrorInv, MirrorUnlessDisturbed
    <3>3. y \in Zones
      BY <1>1 DEF TypeOK
    <3> QED
      BY <1>1, <1>4, <2>2, <3>2, <3>3 DEF Mirrors
  <2> QED
    BY <2>1, <2>2
<1> QED
  BY <1>8, <1>9, <1>10, <1>11 DEF MirrorInv

\* What a commit puts into the rows it does not keep is what the provider has.
LEMMA ReplacedMirror ==
  ASSUME TypeOK, ListingRight, NEW s \in Syncs, NEW kept, rows' = ReplacedRows(s, kept),
         UNCHANGED remote, NEW z \in sy[s].done, NEW r \in Rids,
         <<z, r>> \notin kept, <<z, r>> \notin stale[s]
  PROVE  Mirrors(z, r)'
<1>1. /\ z \in Zones /\ sy[s].snap[z][r] \in Data \cup {None}
  BY DEF TypeOK, SyncJob
<1>2. sy[s].snap[z][r] = remote[z][r]
  BY <1>1 DEF ListingRight, ListingFresh, Passed
<1>3. rows'[z][r] = IF remote[z][r] = None THEN None ELSE [id |-> nextId, data |-> remote[z][r]]
  BY <1>1, <1>2 DEF ReplacedRows
<1>4. remote[z][r] # None => [id |-> nextId, data |-> remote[z][r]] # None
  BY <1>1, <1>2, NoneAssumption DEF Row, TypeOK
<1>5. CASE remote[z][r] = None
  BY <1>3, <1>5 DEF Mirrors
<1>6. CASE remote[z][r] # None
  BY <1>3, <1>4, <1>6 DEF Mirrors
<1> QED
  BY <1>5, <1>6

\* A sync and a refresh make every record of the listed zones mirror the provider,
\* but for those that changed after they were listed and the rows that they keep.
LEMMA SyncKeepsMirror ==
  ASSUME TypeOK, NoOrphans, MirrorInv, NEW s \in Syncs, CommitSync(s) \/ CommitRefresh(s)
  PROVE  MirrorInv'
<1> DEFINE done == sy[s].done
<1>1. PICK kept :
        /\ \A x \in kept : rows[x[1]][x[2]] # None
        /\ rows' = ReplacedRows(s, kept)
        /\ dirty' = {x \in dirty : x[1] \notin done \/ x \in kept \/ Pending(x[1], x[2])} \cup stale[s]
  BY DEF CommitSync, CommitRefresh, Replace
<1>2. /\ zones' \in {zones, zones \cup done} /\ UNCHANGED <<remote, wr>> /\ Replace(s)
  BY DEF CommitSync, CommitRefresh, Replace, remoteVars
<1>3. done \in SUBSET Zones /\ zones \in SUBSET Zones
  BY DEF TypeOK, SyncJob
<1> DEFINE left(z, r) == z \notin done \/ <<z, r>> \in kept
<1>4. ASSUME NEW z \in done, NEW r \in Rids, ~left(z, r), <<z, r>> \notin dirty'
      PROVE  Mirrors(z, r)'
  BY <1>1, <1>2, <1>4, ReplacedMirror DEF MirrorInv
<1>5. ASSUME NEW z \in Zones, NEW r \in Rids, left(z, r)
       PROVE  /\ rows'[z][r] = rows[z][r] /\ (z \in zones' => z \in zones)
              /\ <<z, r>> \notin dirty' => <<z, r>> \notin dirty
  <2>1. rows'[z][r] = rows[z][r]
    BY <1>1, <1>5 DEF ReplacedRows
  <2>2. <<z, r>> \in kept => z \in zones
    BY <1>1 DEF NoOrphans, Empty
  <2>3. z \in zones' => z \in zones
    BY <1>2, <1>5, <2>2
  <2>4. <<z, r>> \notin dirty' => <<z, r>> \notin dirty
    BY <1>1, <1>5
  <2> QED
    BY <2>1, <2>3, <2>4
<1>6. ListingRight'
  BY <1>2, ReplaceListings, ListingKept DEF MirrorInv
<1>7. \A w \in Writers : wr[w].at = "write" =>
        /\ wr[w].zone \in Zones /\ wr[w].rid \in Rids
        /\ <<wr[w].zone, wr[w].rid>> \notin dirty' => <<wr[w].zone, wr[w].rid>> \notin dirty
  BY <1>1, InFlight DEF Pending
<1>8. PendingAlone'
  BY <1>2, <1>7 DEF MirrorInv, PendingAlone
<1>9. PendingFits'
  <2> SUFFICES ASSUME NEW v \in Writers, wr'[v].at = "write",
                      <<wr'[v].zone, wr'[v].rid>> \notin dirty'
               PROVE  /\ remote'[wr'[v].zone][wr'[v].rid] = wr'[v].data
                      /\ \/ wr'[v].zone \notin zones'
                         \/ Mirrors(wr[v].zone, wr[v].rid)'
                         \/ wr'[v].op = "create" /\ rows'[wr'[v].zone][wr'[v].rid] = None
                         \/ wr'[v].op # "create" /\ SameRow(v)'
    BY DEF PendingFits
  <2> DEFINE y == wr[v].zone  q == wr[v].rid
  <2>1. /\ wr[v].at = "write" /\ y \in Zones /\ q \in Rids
        /\ <<y, q>> \notin dirty /\ <<y, q>> \notin dirty'
    BY <1>2, <1>7
  <2>2. /\ remote[y][q] = wr[v].data
        /\ \/ y \notin zones
           \/ Mirrors(y, q)
           \/ wr[v].op = "create" /\ rows[y][q] = None
           \/ wr[v].op # "create" /\ SameRow(v)
    BY <2>1 DEF MirrorInv, PendingFits
  <2>3. CASE ~left(y, q)
    <3>1. Mirrors(wr[v].zone, wr[v].rid)'
      BY <1>2, <1>4, <2>1, <2>3 DEF Mirrors
    <3> QED
      BY <1>2, <2>2, <3>1
  <2>4. CASE left(y, q)
    <3>1. rows'[y][q] = rows[y][q] /\ (y \in zones' => y \in zones)
      BY <1>5, <2>1, <2>4
    <3>2. Mirrors(y, q) <=> Mirrors(wr[v].zone, wr[v].rid)'
      BY <1>2, <3>1 DEF Mirrors
    <3>3. SameRow(v) <=> SameRow(v)'
      BY <1>2, <3>1 DEF SameRow
    <3> QED
      BY <1>2, <2>2, <3>1, <3>2, <3>3
  <2> QED
    BY <2>3, <2>4
<1>10. MirrorUnlessDisturbed'
  <2> SUFFICES ASSUME NEW y \in zones', NEW q \in Rids, <<y, q>> \notin dirty', ~Pending(y, q)'
               PROVE  Mirrors(y, q)'
    BY DEF MirrorUnlessDisturbed
  <2>1. CASE ~left(y, q)
    BY <1>4, <2>1
  <2>2. CASE left(y, q)
    <3>1. y \in Zones
      BY <1>2, <1>3
    <3>2. /\ y \in zones /\ <<y, q>> \notin dirty /\ ~Pending(y, q)
          /\ rows'[y][q] = rows[y][q]
      BY <1>2, <1>5, <2>2, <3>1 DEF Pending
    <3>3. Mirrors(y, q)
      BY <3>2 DEF MirrorInv, MirrorUnlessDisturbed
    <3> QED
      BY <1>2, <3>2, <3>3 DEF Mirrors
  <2> QED
    BY <2>1, <2>2
<1> QED
  BY <1>6, <1>8, <1>9, <1>10 DEF MirrorInv

\* The cache mirrors the provider but for the records that something went wrong
\* with: the promise of the write-through cache.
THEOREM MirrorCorrect == Spec => []MirrorInv
<1>1. Init => MirrorInv
  <2> SUFFICES ASSUME Init PROVE MirrorInv
    OBVIOUS
  <2>1. zones \subseteq Zones /\ (zones = {} \/ zones = hosted)
    BY DEF Init
  <2>2. ASSUME NEW z \in zones, NEW r \in Rids PROVE Mirrors(z, r)
    <3>1. rows[z][r] = IF remote[z][r] # None THEN [id |-> 0, data |-> remote[z][r]] ELSE None
      BY <2>1 DEF Init
    <3>2. remote[z][r] \in Data \cup {None}
      BY <2>1 DEF Init
    <3>3. remote[z][r] # None => [id |-> 0, data |-> remote[z][r]] # None
      BY <3>2, NoneAssumption DEF Row
    <3> QED
      BY <3>1, <3>3 DEF Mirrors
  <2>3. PendingAlone /\ PendingFits
    BY DEF Init, PendingAlone, PendingFits, NoWrite
  <2>4. ListingRight
    <3>1. \A s \in Syncs : sy[s] = NoSync
      BY DEF Init
    <3>2. ListingShape
      BY <3>1 DEF ListingShape, NoSync
    <3>3. \A s \in Syncs, z \in Zones, r \in Rids : ~Passed(s, z, r)
      BY <3>1, NoneAssumption DEF Passed, NoSync
    <3> QED
      BY <3>2, <3>3 DEF ListingRight, ListingFresh
  <2> QED
    BY <2>2, <2>3, <2>4 DEF MirrorInv, MirrorUnlessDisturbed
<1>2. TypeOK /\ NoOrphans /\ Known /\ MirrorInv /\ [Next]_vars => MirrorInv'
  <2> SUFFICES ASSUME TypeOK, NoOrphans, Known, MirrorInv, [Next]_vars PROVE MirrorInv'
    OBVIOUS
  <2> USE DEF remoteVars, cacheVars, history
  <2>1. ASSUME UNCHANGED <<remote, sy, stale>> PROVE ListingRight'
    BY <2>1, ListingKept DEF MirrorInv, SameListing
  <2>2. CASE Console
    <3>1. ASSUME NEW z \in Zones, NEW r \in Rids, NEW d \in Data \cup {None},
                 RemoteChange(z, r, d)
          PROVE  MirrorInv'
      <4>1. /\ ListingRight'
            /\ \A y \in Zones, q \in Rids :
                 remote'[y][q] = IF y = z /\ q = r THEN d ELSE remote[y][q]
        BY <3>1, StoreFresh DEF RemoteChange, MirrorInv
      <4>2. dirty' = dirty \cup {<<z, r>>} /\ UNCHANGED <<zones, rows, wr>>
        BY <3>1 DEF RemoteChange
      <4> QED
        BY <4>1, <4>2, MirrorKept
    <3>2. ASSUME NEW z \in Zones, RemoteAddZone(z) PROVE MirrorInv'
      BY <2>1, <3>2, MirrorKept DEF RemoteAddZone
    <3>3. ASSUME NEW z \in Zones, RemoteDropZone(z) PROVE MirrorInv'
      <4>1. /\ \A y \in Zones, q \in Rids : y # z => remote'[y][q] = remote[y][q]
            /\ dirty' = dirty \cup ({z} \X Rids) /\ UNCHANGED <<zones, rows, wr, sy>>
        BY <3>3 DEF RemoteDropZone, TypeOK
      <4>2. ListingFresh'
        <5> SUFFICES ASSUME NEW s \in Syncs, NEW y \in Zones, NEW q \in Rids,
                            Passed(s, y, q)', <<y, q>> \notin stale'[s]
                     PROVE  sy[s].snap[y][q] = remote'[y][q]
          BY <4>1 DEF ListingFresh
        <5>1. stale'[s] = IF z \in sy[s].done \cup {sy[s].zone}
                          THEN stale[s] \cup ({z} \X Rids) ELSE stale[s]
          BY <3>3 DEF RemoteDropZone
        <5>2. y \in sy[s].done \cup {sy[s].zone}
          BY <4>1 DEF Passed
        <5>3. y # z /\ <<y, q>> \notin stale[s]
          BY <5>1, <5>2
        <5>4. remote'[y] = remote[y]
          BY <3>3, <5>3 DEF RemoteDropZone, TypeOK
        <5>5. Passed(s, y, q)
          BY <4>1, <5>4 DEF Passed, Position
        <5> QED
          BY <5>3, <5>4, <5>5 DEF MirrorInv, ListingRight, ListingFresh
      <4>3. ListingShape'
        BY <4>1 DEF MirrorInv, ListingRight, ListingShape
      <4> QED
        BY <4>1, <4>2, <4>3, MirrorKept DEF ListingRight
    <3> QED
      BY <2>2, <3>1, <3>2, <3>3 DEF Console
  <2>3. ASSUME NEW w \in Writers, Write(w) PROVE MirrorInv'
    <3>1. ASSUME NEW op, NEW z, NEW r, NEW id, NEW d, NEW names,
                 wr[w].at = "idle", Call(w, op, z, r, id, d, names)
          PROVE  MirrorInv'
      <4>1. ListingRight' /\ UNCHANGED <<zones, rows, remote, dirty>>
        BY <2>1, <3>1 DEF Call
      <4>2. wr'[w].at = "call" /\ \A v \in Writers \ {w} : wr'[v] = wr[v]
        BY <3>1 DEF Call, TypeOK
      <4> QED
        BY <3>1, <4>1, <4>2, MirrorKept
    <3>2. CASE \/ \E z \in Zones, d \in Data : StartCreate(w, z, d)
               \/ \E z \in Zones, r \in Rids, patch \in [Fields -> Vals \cup {None}] :
                    StartUpdate(w, z, r, patch)
               \/ \E z \in Zones, r \in Rids : StartDelete(w, z, r)
      BY <3>1, <3>2 DEF StartCreate, StartUpdate, StartDelete, Ready
    <3>3. ASSUME NEW r \in Rids, NEW arrives \in BOOLEAN,
                 wr[w].at = "call", Store(wr[w].zone, r, wr[w].data), Answered(w, r, arrives),
                 wr[w].op = "create" => rows[wr[w].zone][r] = None,
                 wr[w].op # "create" => wr[w].rid = r
          PROVE  MirrorInv'
      <4> DEFINE z == wr[w].zone
      <4>1. wr[w] \in WriteJob /\ z \in Zones /\ wr[w].data \in Data \cup {None}
        BY <3>3, InFlight
      <4>2. /\ ListingRight'
            /\ \A y \in Zones, q \in Rids :
                 remote'[y][q] = IF y = z /\ q = r THEN wr[w].data ELSE remote[y][q]
        BY <3>3, <4>1, StoreFresh DEF Answered, MirrorInv
      <4>3. UNCHANGED <<zones, rows>>
        BY <3>3 DEF Answered
      <4>4. CASE arrives = FALSE
        <5>1. wr' = [wr EXCEPT ![w] = NoWrite] /\ dirty' = dirty \cup {<<z, r>>}
          BY <3>3, <4>4 DEF Answered, Finish
        <5>2. wr'[w].at # "write" /\ \A v \in Writers \ {w} : wr'[v] = wr[v]
          BY <5>1, NoWriteIdle DEF TypeOK
        <5> QED
          BY <3>3, <4>2, <4>3, <5>1, <5>2, MirrorKept
      <4>5. CASE arrives = TRUE
        <5>1. wr' = [wr EXCEPT ![w] = [wr[w] EXCEPT !.at = "write", !.rid = r]]
          BY <3>3, <4>5 DEF Answered, TypeOK
        <5>2. /\ wr'[w].at = "write" /\ wr'[w].rid = r /\ wr'[w].zone = z
              /\ wr'[w].op = wr[w].op /\ wr'[w].id = wr[w].id /\ wr'[w].data = wr[w].data
          BY <4>1, <5>1 DEF TypeOK, WriteJob
        <5>3. wr' = [wr EXCEPT ![w] = wr'[w]]
          BY <5>1 DEF TypeOK
        <5>4. dirty' = IF ~Overlapped(w, z, r) THEN dirty ELSE dirty \cup {<<z, r>>}
          BY <3>3, <4>5 DEF Answered
        <5>5. wr[w].op # "create" => (SameRow(w) <=> SameRow(w)')
          BY <3>3, <4>3, <5>2 DEF SameRow
        <5>6. \A y \in Zones, q \in Rids :
                remote'[y][q] = IF y = z /\ q = r THEN wr'[w].data ELSE remote[y][q]
          BY <4>2, <5>2
        <5>7. /\ wr'[w].op = "create" => rows[z][r] = None
              /\ wr'[w].op # "create" => (SameRow(w) <=> SameRow(w)')
          BY <3>3, <5>2, <5>5
        <5>8. z \in Zones /\ wr[w].at = "call" /\ ListingRight'
          BY <3>3, <4>1, <4>2
        <5> HIDE DEF z
        <5> QED
          BY <4>3, <5>2, <5>3, <5>4, <5>6, <5>7, <5>8, AnswerKeepsMirror, ZenonT(60)
      <4> QED
        BY <4>4, <4>5
    <3>4. ASSUME NEW r \in Rids, NEW arrives \in BOOLEAN, ProviderCreates(w, r, arrives)
          PROVE  MirrorInv'
      <4>1. wr[w].zone \in Zones
        BY <3>4, InFlight DEF ProviderCreates
      <4>2. rows[wr[w].zone][r] = None
        BY <3>4, <4>1 DEF ProviderCreates, Known, CacheFromProvider, HeldKnown
      <4> QED
        BY <3>3, <3>4, <4>2 DEF ProviderCreates
    <3>5. ASSUME NEW arrives \in BOOLEAN, ProviderChanges(w, arrives) PROVE MirrorInv'
      <4>1. wr[w].rid \in Rids
        BY <3>5, InFlight DEF ProviderChanges
      <4> QED
        BY <3>3, <3>5, <4>1 DEF ProviderChanges
    <3>6. CASE ProviderFails(w) \/ WriteFails(w) \/ WriteAudit(w)
      <4>1. ListingRight' /\ UNCHANGED <<zones, rows, remote>> /\ dirty \subseteq dirty'
        BY <2>1, <3>6 DEF ProviderFails, WriteFails, WriteAudit
      <4>2. /\ wr[w].at = "write" => <<wr[w].zone, wr[w].rid>> \in dirty'
            /\ wr' = [wr EXCEPT ![w] = NoWrite]
        BY <3>6 DEF ProviderFails, WriteFails, WriteAudit, Finish
      <4>3. wr'[w].at # "write" /\ \A v \in Writers \ {w} : wr'[v] = wr[v]
        BY <4>2, NoWriteIdle DEF TypeOK
      <4> QED
        BY <4>1, <4>2, <4>3, MirrorKept
    <3>7. CASE CommitCreate(w) \/ CommitChange(w)
      BY <3>7, CommitKeepsMirror
    <3> QED
      BY <2>3, <3>2, <3>4, <3>5, <3>6, <3>7 DEF Write
  <2>4. ASSUME NEW s \in Syncs, Sync(s) PROVE MirrorInv'
    <3>1. ASSUME UNCHANGED <<zones, rows, remote, dirty, wr>>, ListingRight' PROVE MirrorInv'
      BY <3>1, MirrorKept
    <3>2. CASE \/ \E listed \in SUBSET Zones : StartSync(s, listed)
               \/ \E z \in Zones : StartRefresh(s, z)
      <4>1. UNCHANGED <<zones, rows, remote, dirty, wr>>
        BY <3>2 DEF StartSync, StartRefresh
      <4>2. Blank(sy'[s])
        <5>1. sy[s].done = {} /\ sy[s].zone = None /\ sy[s].offset = 0
          BY <3>2, StartListings DEF MirrorInv, ListingRight, ListingShape
        <5>2. \A z \in Zones : sy[s].snap[z] = Empty
          BY <5>1, NoneAssumption DEF MirrorInv, ListingRight, ListingShape
        <5>3. sy[s].snap = [z \in Zones |-> Empty]
          <6>1. sy[s].snap \in [Zones -> [Rids -> Data \cup {None}]]
            BY DEF TypeOK, SyncJob
          <6> QED
            BY <5>2, <6>1
        <5> QED
          BY <3>2, <5>1, <5>3, StartListings DEF Blank
      <4>3. ListingRight'
        BY <3>2, <4>1, <4>2, StartListings, ListingKept DEF MirrorInv, SameListing
      <4> QED
        BY <3>1, <4>1, <4>3
    <3>3. ASSUME NEW z \in Zones, ListPage(s, z) \/ PageLost(s, z) PROVE MirrorInv'
      BY <3>1, <3>3, PageFresh DEF ListPage, PageLost, MirrorInv
    <3>4. CASE SyncFails(s) \/ RefreshFails(s) \/ AuditSync(s)
      <4>1. UNCHANGED <<zones, rows, remote, dirty, wr>>
        BY <3>4 DEF SyncFails, RefreshFails, Fails, AuditSync
      <4>2. ListingRight'
        BY <3>4, <4>1, EndListings, ListingKept DEF MirrorInv, SameListing
      <4> QED
        BY <3>1, <4>1, <4>2
    <3>5. CASE CommitSync(s) \/ CommitRefresh(s)
      BY <3>5, SyncKeepsMirror
    <3> QED
      BY <2>4, <3>2, <3>3, <3>4, <3>5 DEF Sync
  <2>5. CASE DeleteProvider
    <3>1. /\ zones' = {} /\ UNCHANGED <<remote, wr, sy, stale, dirty>>
      BY <2>5 DEF DeleteProvider
    <3>2. PendingFits' /\ PendingAlone'
      BY <3>1 DEF MirrorInv, PendingFits, PendingAlone
    <3> QED
      BY <2>1, <3>1, <3>2 DEF MirrorInv, MirrorUnlessDisturbed
  <2>6. CASE Crash
    <3>1. UNCHANGED remote /\ \A s \in Syncs : Blank(sy'[s])
      BY <2>6, NoSyncType DEF Crash
    <3>2. ListingRight'
      BY <3>1, ListingKept DEF MirrorInv
    <3>3. /\ UNCHANGED <<zones, rows, remote>> /\ dirty \subseteq dirty'
          /\ \A w \in Writers : /\ wr'[w].at # "write"
                                /\ wr[w].at = "write" => <<wr[w].zone, wr[w].rid>> \in dirty'
      BY <2>6, NoWriteIdle DEF Crash
    <3> QED
      BY <3>2, <3>3, MirrorKept
  <2>7. CASE UNCHANGED vars
    BY <2>1, <2>7, MirrorKept DEF vars
  <2> QED
    BY <2>2, <2>3, <2>4, <2>5, <2>6, <2>7 DEF Next
<1> QED
  BY <1>1, <1>2, TypeCorrect, NoOrphansCorrect, KnownCorrect, PTL DEF Spec

\* What the runs check of the mirror.
THEOREM MirrorPromise == Spec => []MirrorUnlessDisturbed
<1>1. MirrorInv => MirrorUnlessDisturbed
  BY DEF MirrorInv
<1> QED
  BY <1>1, MirrorCorrect, PTL

\* A sync and a refresh repair what they list whole and nobody changes meanwhile.
THEOREM SyncCorrect == Spec => SyncMirrors
<1>1. TypeOK /\ MirrorInv =>
        \A s \in Syncs : CommitSync(s) \/ CommitRefresh(s) =>
          \A z \in sy[s].done, r \in Rids :
            <<z, r>> \notin stale[s] \cup sy[s].beside => Mirrors(z, r)'
  <2> SUFFICES ASSUME TypeOK, MirrorInv, NEW s \in Syncs, CommitSync(s) \/ CommitRefresh(s),
                      NEW z \in sy[s].done, NEW r \in Rids,
                      <<z, r>> \notin stale[s] \cup sy[s].beside
               PROVE  Mirrors(z, r)'
    OBVIOUS
  <2>1. PICK kept \in SUBSET sy[s].beside : rows' = ReplacedRows(s, kept)
    BY DEF CommitSync, CommitRefresh, Replace
  <2>2. UNCHANGED remote
    BY DEF CommitSync, CommitRefresh, Replace, remoteVars
  <2> QED
    BY <2>1, <2>2, ReplacedMirror DEF MirrorInv
<1> QED
  BY <1>1, TypeCorrect, MirrorCorrect, PTL DEF SyncMirrors
-----------------------------------------------------------------------------
\* A request's step before its log entry: it stays, or comes to be, on a cached
\* zone, commits if that is what it does, and logs nothing.
LEMMA RequestSteps ==
  ASSUME TypeOK, NEW w \in Writers, Write(w), ~WriteAudit(w)
  PROVE  /\ UNCHANGED <<account, zones, audit>> /\ wr[w].at # "audit"
         /\ \A v \in Writers \ {w} : wr'[v] = wr[v]
         /\ \/ wr'[w].at = "idle" /\ UNCHANGED serial
            \/ wr'[w].at = "call" /\ wr'[w].zone \in zones /\ UNCHANGED serial
            \/ /\ wr'[w].at = "write" /\ wr[w].at = "call"
               /\ wr'[w].zone = wr[w].zone /\ UNCHANGED serial
            \/ /\ wr'[w].at = "audit" /\ wr[w].at = "write"
               /\ wr'[w].zone = wr[w].zone /\ wr[w].zone \in Zones
               /\ serial' = Bumped(wr[w].zone)
<1> DEFINE Goal == /\ UNCHANGED <<account, zones, audit>> /\ wr[w].at # "audit"
                   /\ \A v \in Writers \ {w} : wr'[v] = wr[v]
                   /\ \/ wr'[w].at = "idle" /\ UNCHANGED serial
                      \/ wr'[w].at = "call" /\ wr'[w].zone \in zones /\ UNCHANGED serial
                      \/ /\ wr'[w].at = "write" /\ wr[w].at = "call"
                         /\ wr'[w].zone = wr[w].zone /\ UNCHANGED serial
                      \/ /\ wr'[w].at = "audit" /\ wr[w].at = "write"
                         /\ wr'[w].zone = wr[w].zone /\ wr[w].zone \in Zones
                         /\ serial' = Bumped(wr[w].zone)
<1> USE DEF cacheVars
<1>1. \A v \in Writers \ {w} : wr'[v] = wr[v]
  BY WriterSteps DEF TypeOK
<1>2. ASSUME NEW op, NEW z \in zones, NEW r, NEW id, NEW d, NEW names, wr[w].at = "idle",
             Call(w, op, z, r, id, d, names)
      PROVE  Goal
  BY <1>1, <1>2 DEF Call, TypeOK
<1>3. CASE \/ \E z \in Zones, d \in Data : StartCreate(w, z, d)
           \/ \E z \in Zones, r \in Rids, patch \in [Fields -> Vals \cup {None}] :
                StartUpdate(w, z, r, patch)
           \/ \E z \in Zones, r \in Rids : StartDelete(w, z, r)
  BY <1>2, <1>3 DEF StartCreate, StartUpdate, StartDelete, Ready
<1>4. ASSUME NEW r \in Rids, NEW arrives \in BOOLEAN, wr[w].at = "call", Answered(w, r, arrives),
             UNCHANGED <<zones, serial>>
      PROVE  Goal
  <2>1. UNCHANGED <<account, audit>> /\ wr[w] \in WriteJob
    BY <1>4, InFlight DEF Answered
  <2>2. CASE arrives = TRUE
    <3>1. wr' = [wr EXCEPT ![w] = [wr[w] EXCEPT !.at = "write", !.rid = r]]
      BY <1>4, <2>2 DEF Answered, TypeOK
    <3>2. wr'[w].at = "write" /\ wr'[w].zone = wr[w].zone
      BY <2>1, <3>1 DEF TypeOK, WriteJob
    <3> QED
      BY <1>1, <1>4, <2>1, <3>2
  <2>3. CASE arrives = FALSE
    <3>1. wr'[w].at = "idle"
      BY <1>4, <2>3, NoWriteIdle DEF Answered, Finish, TypeOK
    <3> QED
      BY <1>1, <1>4, <2>1, <3>1
  <2> QED
    BY <2>2, <2>3
<1>5. ASSUME NEW r \in Rids, NEW arrives \in BOOLEAN, ProviderCreates(w, r, arrives) PROVE Goal
  BY <1>4, <1>5 DEF ProviderCreates, Answered
<1>6. ASSUME NEW arrives \in BOOLEAN, ProviderChanges(w, arrives) PROVE Goal
  <2>1. wr[w].rid \in Rids
    BY <1>6, InFlight DEF ProviderChanges
  <2> QED
    BY <1>4, <1>6, <2>1 DEF ProviderChanges, Answered
<1>7. CASE ProviderFails(w) \/ WriteFails(w)
  BY <1>1, <1>7, NoWriteIdle DEF ProviderFails, WriteFails, Finish, TypeOK
<1>8. CASE CommitCreate(w) \/ CommitChange(w)
  <2>1. /\ wr[w].at = "write" /\ UNCHANGED <<account, zones, audit>>
        /\ serial' = Bumped(wr[w].zone) /\ wr' = [wr EXCEPT ![w].at = "audit"]
    BY <1>8 DEF CommitCreate, CommitChange, Committed
  <2>2. wr[w] \in WriteJob /\ wr[w].zone \in Zones
    BY <2>1, InFlight
  <2>3. wr'[w].at = "audit" /\ wr'[w].zone = wr[w].zone
    BY <2>1, <2>2 DEF TypeOK, WriteJob
  <2> QED
    BY <1>1, <2>1, <2>2, <2>3
<1> QED
  BY <1>3, <1>5, <1>6, <1>7, <1>8 DEF Write

\* The entry that WriteAudit adds, if it adds one, is of the request's zone.
LEMMA LogSteps ==
  ASSUME TypeOK, NEW w \in Writers, WriteAudit(w)
  PROVE  /\ UNCHANGED <<account, zones, serial>> /\ wr[w].at = "audit" /\ wr'[w].at = "idle"
         /\ \A v \in Writers \ {w} : wr'[v] = wr[v]
         /\ \E e : /\ e.zone = wr[w].zone /\ audit' \in {audit, audit \cup {e}}
<1> DEFINE entry == [op |-> wr[w].op, zone |-> wr[w].zone, rid |-> wr[w].rid, data |-> wr[w].data]
<1>1. entry.zone = wr[w].zone /\ audit' \in {audit, audit \cup {entry}}
  BY DEF WriteAudit, Logged
<1>2. UNCHANGED <<account, zones, serial>> /\ wr[w].at = "audit" /\ wr' = [wr EXCEPT ![w] = NoWrite]
  BY DEF WriteAudit, Finish, cacheVars
<1> HIDE DEF entry
<1> QED
  BY <1>1, <1>2, NoWriteIdle DEF TypeOK

\* The steps of nobody's request add no entry about a record.
LEMMA NoRecordLogged ==
  ASSUME TypeOK, [Next]_vars, ~ \E w \in Writers : Write(w)
  PROVE  {e \in audit' : e.op \in Op} = {e \in audit : e.op \in Op}
<1>1. ASSUME NEW op, NEW r, NEW z, NEW d, op \notin Op,
             Logged([op |-> op, zone |-> z, rid |-> r, data |-> d])
      PROVE  {e \in audit' : e.op \in Op} = {e \in audit : e.op \in Op}
  BY <1>1 DEF Logged
<1>2. "drop" \notin Op /\ \A s \in Syncs : sy[s].op \notin Op
  BY DEF Op, TypeOK, SyncJob
<1>3. CASE Console
  BY <1>3 DEF Console, RemoteChange, RemoteAddZone, RemoteDropZone
<1>4. ASSUME NEW s \in Syncs, Sync(s)
      PROVE  {e \in audit' : e.op \in Op} = {e \in audit : e.op \in Op}
  <2>1. CASE AuditSync(s)
    BY <1>1, <1>2, <2>1 DEF AuditSync
  <2>2. CASE ~AuditSync(s)
    BY <1>4, <2>2 DEF Sync, StartSync, StartRefresh, ListPage, PageLost, CommitSync, CommitRefresh,
     Replace, SyncFails, RefreshFails, Fails
  <2> QED
    BY <2>1, <2>2
<1>5. CASE DeleteProvider
  BY <1>1, <1>2, <1>5 DEF DeleteProvider
<1>6. CASE Crash \/ UNCHANGED vars
  BY <1>6 DEF Crash, vars
<1> QED
  BY <1>3, <1>4, <1>5, <1>6 DEF Next

\* A request that commits is one more to log, and the serial one more.
LEMMA RequestsCounted ==
  ASSUME TypeOK, CountInv, NEW w \in Writers, Write(w), ~WriteAudit(w)
  PROVE  CountInv'
<1> DEFINE y == wr[w].zone
<1>1. /\ UNCHANGED <<account, zones, audit>> /\ wr[w].at # "audit"
      /\ \A v \in Writers \ {w} : wr'[v] = wr[v]
      /\ \/ wr'[w].at = "idle" /\ UNCHANGED serial
         \/ wr'[w].at = "call" /\ wr'[w].zone \in zones /\ UNCHANGED serial
         \/ /\ wr'[w].at = "write" /\ wr[w].at = "call"
            /\ wr'[w].zone = y /\ UNCHANGED serial
         \/ /\ wr'[w].at = "audit" /\ wr[w].at = "write"
            /\ wr'[w].zone = y /\ y \in Zones
            /\ serial' = Bumped(y)
  BY RequestSteps
<1>2. OfCachedZones'
  BY <1>1 DEF CountInv, OfCachedZones
<1>3. ASSUME NEW z \in zones'
      PROVE  /\ IsFiniteSet(LogOf(z)') /\ IsFiniteSet(Logging(z)')
             /\ Cardinality(LogOf(z)') + Cardinality(Logging(z)') < serial'[z]
  <2>1. /\ z \in zones /\ z \in Zones /\ serial \in [Zones -> Nat]
        /\ IsFiniteSet(LogOf(z)) /\ IsFiniteSet(Logging(z))
        /\ Cardinality(LogOf(z)) + Cardinality(Logging(z)) < serial[z]
    BY <1>1 DEF CountInv, Counted, TypeOK
  <2>2. LogOf(z)' = LogOf(z)
    BY <1>1 DEF LogOf
  <2>3. CASE wr'[w].at # "audit" \/ z # y
    <3>1. Logging(z)' = Logging(z)
      BY <1>1, <2>3 DEF Logging
    <3>2. serial'[z] = serial[z]
      BY <1>1, <2>1, <2>3 DEF Bumped
    <3> QED
      BY <2>1, <2>2, <3>1, <3>2
  <2>4. CASE wr'[w].at = "audit" /\ z = y
    <3>1. Logging(z)' = Logging(z) \cup {w} /\ w \notin Logging(z)
      BY <1>1, <2>4 DEF Logging
    <3>2. serial'[z] = serial[z] + 1
      BY <1>1, <2>1, <2>4 DEF Bumped
    <3>3. /\ IsFiniteSet(Logging(z)') /\ Cardinality(Logging(z)') = Cardinality(Logging(z)) + 1
          /\ Cardinality(Logging(z)) \in Nat /\ Cardinality(LogOf(z)) \in Nat
      BY <2>1, <3>1, FS_AddElement, FS_CardinalityType
    <3> QED
      BY <2>1, <2>2, <3>2, <3>3
  <2> QED
    BY <2>3, <2>4
<1> QED
  BY <1>2, <1>3 DEF CountInv, Counted

\* A request that logs is one fewer to log, and one entry more at the most.
LEMMA LogCounted ==
  ASSUME TypeOK, CountInv, NEW w \in Writers, WriteAudit(w)
  PROVE  CountInv'
<1> DEFINE y == wr[w].zone
<1>1. PICK e : /\ UNCHANGED <<account, zones, serial>> /\ wr[w].at = "audit" /\ wr'[w].at = "idle"
               /\ \A v \in Writers \ {w} : wr'[v] = wr[v]
               /\ e.zone = y /\ audit' \in {audit, audit \cup {e}}
  BY LogSteps
<1>2. OfCachedZones'
  BY <1>1 DEF CountInv, OfCachedZones
<1>3. ASSUME NEW z \in zones'
      PROVE  /\ IsFiniteSet(LogOf(z)') /\ IsFiniteSet(Logging(z)')
             /\ Cardinality(LogOf(z)') + Cardinality(Logging(z)') < serial'[z]
  <2>1. /\ z \in Zones /\ serial'[z] = serial[z] /\ serial[z] \in Nat
        /\ IsFiniteSet(LogOf(z)) /\ IsFiniteSet(Logging(z))
        /\ Cardinality(LogOf(z)) + Cardinality(Logging(z)) < serial[z]
    BY <1>1 DEF CountInv, Counted, TypeOK
  <2>2. CASE z # y
    <3>1. Logging(z)' = Logging(z) /\ LogOf(z)' = LogOf(z)
      BY <1>1, <2>2 DEF Logging, LogOf
    <3> QED
      BY <2>1, <3>1
  <2>3. CASE z = y
    <3>1. Logging(z)' = Logging(z) \ {w} /\ w \in Logging(z)
      BY <1>1, <2>3 DEF Logging
    <3>2. LogOf(z)' \in {LogOf(z), LogOf(z) \cup {e}}
      BY <1>1, <2>3 DEF LogOf
    <3>3. /\ IsFiniteSet(Logging(z)') /\ Cardinality(Logging(z)') = Cardinality(Logging(z)) - 1
          /\ Cardinality(Logging(z)) \in Nat /\ Cardinality(LogOf(z)) \in Nat
      BY <2>1, <3>1, FS_RemoveElement, FS_CardinalityType
    <3>4. /\ IsFiniteSet(LogOf(z)')
          /\ Cardinality(LogOf(z)') \in {Cardinality(LogOf(z)), Cardinality(LogOf(z)) + 1}
      BY <2>1, <3>2, FS_AddElement
    <3> QED
      BY <2>1, <3>3, <3>4
  <2> QED
    BY <2>2, <2>3
<1> QED
  BY <1>2, <1>3 DEF CountInv, Counted

\* The serial counts what was logged and what is about to be.
THEOREM CountCorrect == Spec => []CountInv
<1>1. Init => CountInv
  <2> SUFFICES ASSUME Init PROVE CountInv
    OBVIOUS
  <2>1. /\ audit = {} /\ \A w \in Writers : wr[w].at = "idle"
        /\ zones \subseteq Zones /\ serial = [z \in Zones |-> IF z \in zones THEN 1 ELSE 0]
    BY NoWriteIdle DEF Init
  <2>2. ASSUME NEW z \in zones PROVE LogOf(z) = {} /\ Logging(z) = {} /\ serial[z] = 1
    BY <2>1 DEF LogOf, Logging
  <2> QED
    BY <2>1, <2>2, FS_EmptySet DEF CountInv, Counted, OfCachedZones
<1>2. TypeOK /\ CountInv /\ [Next]_vars => CountInv'
  <2> SUFFICES ASSUME TypeOK, CountInv, [Next]_vars, ~ \E w \in Writers : Write(w)
               PROVE  CountInv'
    BY RequestsCounted, LogCounted
  <2>1. \A z \in Zones : LogOf(z)' = LogOf(z)
    BY NoRecordLogged DEF LogOf
  <2>2. UNCHANGED wr \/ wr' = [w \in Writers |-> NoWrite]
    BY OtherSteps
  <2>3. \A z \in Zones : Logging(z)' \in {Logging(z), {}}
    BY <2>2, NoWriteIdle DEF Logging
  <2>4. \/ UNCHANGED <<account, zones, serial>>
        \/ \E s \in Syncs : CommitSync(s) \/ CommitRefresh(s)
        \/ DeleteProvider
    <3>1. ASSUME NEW w \in Writers, CommitCreate(w) \/ CommitChange(w) PROVE FALSE
      BY <3>1 DEF Write
    <3> QED
      BY <3>1, CacheSteps
  <2>5. ASSUME zones \subseteq zones', account' => account PROVE OfCachedZones'
    <3>1. ASSUME NEW w \in Writers, wr'[w].at # "idle" PROVE wr'[w] = wr[w]
      BY <2>2, <3>1, NoWriteIdle
    <3>2. ASSUME NEW e \in audit', e.op \in Op PROVE e \in audit
      BY <3>2, NoRecordLogged
    <3> QED
      BY <2>5, <3>1, <3>2 DEF CountInv, OfCachedZones
  <2>6. ASSUME NEW z \in zones, serial'[z] = serial[z]
        PROVE  /\ IsFiniteSet(LogOf(z)') /\ IsFiniteSet(Logging(z)')
               /\ Cardinality(LogOf(z)') + Cardinality(Logging(z)') < serial'[z]
    <3>1. /\ IsFiniteSet(LogOf(z)) /\ IsFiniteSet(Logging(z))
          /\ Cardinality(LogOf(z)) + Cardinality(Logging(z)) < serial[z]
          /\ serial[z] \in Nat /\ z \in Zones
      BY DEF CountInv, Counted, TypeOK
    <3>2. /\ Cardinality(LogOf(z)) \in Nat /\ Cardinality(Logging(z)) \in Nat
          /\ IsFiniteSet({}) /\ Cardinality({}) = 0
      BY <3>1, FS_CardinalityType, FS_EmptySet
    <3> QED
      BY <2>1, <2>3, <2>6, <3>1, <3>2
  <2>7. CASE UNCHANGED <<account, zones, serial>>
    BY <2>5, <2>6, <2>7 DEF CountInv, Counted
  <2>8. ASSUME NEW s \in Syncs, CommitSync(s) PROVE CountInv'
    <3> DEFINE done == sy[s].done
    <3>1. /\ zones' = zones \cup done /\ UNCHANGED account /\ (account \/ done = {})
          /\ done \subseteq Zones /\ zones \subseteq Zones
          /\ serial' = [z \in Zones |-> IF z \in done \ zones THEN 1 ELSE serial[z]]
      BY <2>8 DEF CommitSync, Replace, AccountKey, TypeOK, SyncJob
    <3>2. ASSUME NEW z \in done \ zones
          PROVE  LogOf(z) = {} /\ Logging(z) = {} /\ serial'[z] = 1
      BY <3>1 DEF CountInv, OfCachedZones, LogOf, Logging
    <3>3. ASSUME NEW z \in zones' \ zones
          PROVE  /\ IsFiniteSet(LogOf(z)') /\ IsFiniteSet(Logging(z)')
                 /\ Cardinality(LogOf(z)') + Cardinality(Logging(z)') < serial'[z]
      <4>1. z \in Zones /\ LogOf(z) = {} /\ Logging(z) = {} /\ serial'[z] = 1
        BY <3>1, <3>2
      <4>2. LogOf(z)' = {} /\ Logging(z)' = {}
        BY <2>1, <2>3, <4>1
      <4> QED
        BY <4>1, <4>2, FS_EmptySet
    <3>4. ASSUME NEW z \in zones PROVE serial'[z] = serial[z]
      BY <3>1
    <3>5. Counted'
      BY <2>6, <3>3, <3>4 DEF Counted
    <3>6. zones \subseteq zones' /\ (account' => account)
      BY <3>1
    <3> QED
      BY <2>5, <3>5, <3>6 DEF CountInv
  <2>9. CASE DeleteProvider
    BY <2>9 DEF DeleteProvider, CountInv, Counted, OfCachedZones
  <2>10. ASSUME NEW s \in Syncs, CommitRefresh(s) PROVE CountInv'
    BY <2>7, <2>10 DEF CommitRefresh, Replace
  <2> QED
    BY <2>4, <2>7, <2>8, <2>9, <2>10
<1> QED
  BY <1>1, <1>2, TypeCorrect, PTL DEF Spec

\* Every change the log reports of a zone has advanced the zone's serial.
THEOREM VersionCoversCorrect == Spec => []VersionCoversAudit
<1>1. TypeOK /\ CountInv => VersionCoversAudit
  <2> SUFFICES ASSUME TypeOK, CountInv, NEW z \in zones
               PROVE  Cardinality(LogOf(z)) < serial[z]
    BY DEF VersionCoversAudit
  <2>1. /\ IsFiniteSet(LogOf(z)) /\ IsFiniteSet(Logging(z)) /\ serial[z] \in Nat
        /\ Cardinality(LogOf(z)) + Cardinality(Logging(z)) < serial[z]
    BY DEF CountInv, Counted, TypeOK
  <2>2. Cardinality(LogOf(z)) \in Nat /\ Cardinality(Logging(z)) \in Nat
    BY <2>1, FS_CardinalityType
  <2> QED
    BY <2>1, <2>2
<1> QED
  BY <1>1, CountCorrect, TypeCorrect, PTL
=============================================================================
