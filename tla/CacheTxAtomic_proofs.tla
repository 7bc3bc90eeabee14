------------------------ MODULE CacheTxAtomic_proofs ------------------------
(***************************************************************************)
(* CacheTx implements AtomicCache: TxInv is inductive, and under it every  *)
(* statement is a stutter but the read before the provider call, the       *)
(* commit, and the failure, which are steps of AtomicCache.                *)
(***************************************************************************)
EXTENDS CacheTx_proofs

\* TxInv, said of one transaction that stands as r says.
PhaseOf(t, r) ==
  /\ r.at \in {"write", "bump", "commit"} /\ Changes(t) => target[t] # None
  /\ r.at = "commit" => r.held = {job[t].rec.zone}
  /\ r.at \in {"bump", "commit"} =>
       IF Changes(t)
       THEN r.gone = {Id(row) : row \in Found(t)} /\ r.added = NewRows(t)
       ELSE r.gone = {} /\ r.added = {RowOf(job[t].rec, t)}

KeysOf(r) ==
  /\ r.gone \subseteq {Id(row) : row \in rows}
  /\ \A x, y \in r.added : Key(x) = Key(y) => x = y
  /\ \A x \in r.added, row \in rows : Key(x) = Key(row) => Id(row) \in r.gone

Apart(r, q) ==
  /\ r.gone \cap q.gone = {}
  /\ r.held \cap q.held = {}
  /\ \A x \in r.added, y \in q.added : Key(x) # Key(y)

ThroughOf(t, r) == job[t].zones \ (r.todo \cup {r.zone})
BegunOf(t, r)   == IF r.at = "replace" THEN ThroughOf(t, r) \cup {r.zone} ELSE ThroughOf(t, r)
Covered(r, row) ==
  \/ Id(row) \in r.gone
  \/ r.at = "replace" /\ row.zone = r.zone /\ Id(row) \in r.doomed
Replacing(r) == r.at \in {"pick", "upsert", "select", "replace"}
FitsOf(t, r) ==
  Replacing(r) =>
    /\ r.todo \subseteq job[t].zones
    /\ IF r.at = "pick" THEN r.zone = None ELSE r.zone \in job[t].zones \ r.todo
    /\ r.at = "replace" =>
         /\ \A x \in r.left : x \in job[t].recs /\ x.zone = r.zone
         /\ \A id \in r.doomed : id[1] = r.zone
    /\ r.added = {RowOf(x, t) : x \in {y \in job[t].recs :
         y.zone \in BegunOf(t, r) /\ ~(r.at = "replace" /\ y \in r.left)}}
    /\ \A id \in r.gone : id[1] \in BegunOf(t, r)
    /\ job[t].op = "sync" =>
         BegunOf(t, r) \subseteq r.held /\ (r.at = "select" => r.zone \in r.held)
    /\ \A row \in rows :
         row.zone \in BegunOf(t, r) /\ (row.by = Old \/ ~Atomic!Unguarded(t)) => Covered(r, row)

Each == \A t \in Txs : PhaseOf(t, tx[t]) /\ KeysOf(tx[t]) /\ FitsOf(t, tx[t])
Pairs == \A t, u \in Txs : t # u => Apart(tx[t], tx[u])
Unique == \A x, y \in rows : Key(x) = Key(y) => x = y

LEMMA Parts ==
  Phases /\ LocksHold /\ KeysHold /\ ReplaceFits <=> Each /\ Pairs /\ Unique
<1>1. (\A t \in Txs : PhaseOf(t, tx[t])) <=> Phases
  BY DEF PhaseOf, Phases
<1>2. (\A t \in Txs : FitsOf(t, tx[t])) <=> ReplaceFits
  BY DEF FitsOf, ReplaceFits, Replacing, BegunOf, ThroughOf, Begun, Through, Covered
<1>3. (\A t \in Txs : KeysOf(tx[t])) /\ Pairs /\ Unique <=> LocksHold /\ KeysHold
  BY DEF KeysOf, Pairs, Unique, Apart, LocksHold, KeysHold, Atomic!UniqueKeys, Key
<1> QED
  BY <1>1, <1>2, <1>3 DEF Each

LEMMA PartsNext ==
  Phases' /\ LocksHold' /\ KeysHold' /\ ReplaceFits' <=> Each' /\ Pairs' /\ Unique'
BY Parts, PTL

\* A step of t that commits nothing: it is enough to look at t itself.
LEMMA Frame ==
  ASSUME TypeOK, Each, Pairs, Unique, TargetsRead, Keeps,
         NEW t \in Txs, NEW r \in TxRec, tx' = [tx EXCEPT ![t] = r],
         PhaseOf(t, r), KeysOf(r), FitsOf(t, r),
         \A u \in Txs \ {t} : Apart(r, tx[u]) /\ Apart(tx[u], r),
         tx[t].at \in {"audit", "done"} => r.at \in {"audit", "done"}
  PROVE  Each' /\ Pairs' /\ Unique' /\ TargetsRead'
<1>0. tx' \in [Txs -> TxRec] /\ tx'[t] = r /\ \A u \in Txs \ {t} : tx'[u] = tx[u]
  BY DEF TypeOK, TxRec, Stage
<1>k. rows' = rows /\ job' = job /\ target' = target
  BY DEF Keeps
<1>1. ASSUME NEW u \in Txs, NEW q, tx'[u] = q, PhaseOf(u, q), KeysOf(q), FitsOf(u, q)
      PROVE  (PhaseOf(u, tx[u]) /\ KeysOf(tx[u]) /\ FitsOf(u, tx[u]))'
  <2>1. PhaseOf(u, tx[u])'
    BY <1>1, <1>k DEF PhaseOf, Found, NewRows, Changes
  <2>2. KeysOf(tx[u])'
    BY <1>1, <1>k DEF KeysOf
  <2>3. FitsOf(u, tx[u])'
    BY <1>1, <1>k DEF FitsOf, Replacing, BegunOf, ThroughOf, Covered, Atomic!Unguarded, Atomic!ZonesOf, Atomic!Replaces
  <2> QED
    BY <2>1, <2>2, <2>3
<1>2. Each'
  BY <1>0, <1>1 DEF Each
<1>3. Pairs'
  <2> SUFFICES ASSUME NEW u \in Txs, NEW v \in Txs, u # v PROVE Apart(tx'[u], tx'[v])
    BY DEF Pairs, Apart
  <2> QED
    BY <1>0 DEF Pairs
<1>4. Unique' /\ TargetsRead'
  <2>1. \A b : Settled(b) /\ b \in Txs \cup {Old} => Settled(b)'
    BY <1>0 DEF Settled
  <2>2. \A row \in rows : row.by \in Txs \cup {Old}
    BY DEF TypeOK, Row, Atomic!Row
  <2>3. \A u \in Txs : target[u] # None => target[u][3] \in Txs \cup {Old}
    BY DEF TypeOK, Ids, Atomic!Ids
  <2> QED
    BY <2>1, <2>2, <2>3, <1>k DEF TargetsRead, Unique, Changes
<1> QED
  BY <1>2, <1>3, <1>4
-----------------------------------------------------------------------------
Fits == TypeOK /\ Kinds /\ NotBegun /\ HoldsNothing /\ TargetsRead /\ Each /\ Pairs /\ Unique
Good == TargetsRead /\ Each /\ Pairs /\ Unique

\* Statements that change nothing a transaction holds.
LEMMA SameHoldings ==
  ASSUME Fits, Keeps, NEW t \in Txs, NEW r \in TxRec, tx' = [tx EXCEPT ![t] = r],
         r.added = tx[t].added, r.gone = tx[t].gone, r.held = tx[t].held,
         PhaseOf(t, r), FitsOf(t, r),
         tx[t].at \in {"audit", "done"} => r.at \in {"audit", "done"}
  PROVE  Good'
<1>1. KeysOf(r)
  BY DEF Fits, Each, KeysOf
<1>2. \A u \in Txs \ {t} : Apart(r, tx[u]) /\ Apart(tx[u], r)
  BY DEF Fits, Pairs, Apart
<1> QED
  BY <1>1, <1>2, Frame DEF Fits, Good

LEMMA RollbackKeeps ==
  ASSUME Fits, Keeps, NEW t \in Txs, Rollback(t)
  PROVE  Good'
<1> DEFINE r == [NoTx EXCEPT !.at = IF job[t].op = "refresh" THEN "audit" ELSE "done"]
<1>1. /\ r \in TxRec /\ r.at \in {"audit", "done"}
      /\ r.added = {} /\ r.gone = {} /\ r.held = {}
  BY DEF NoTx, TxRec, Stage
<1>2. tx' = [tx EXCEPT ![t] = r]
  BY DEF Rollback
<1> HIDE DEF r
<1>3. PhaseOf(t, r) /\ KeysOf(r) /\ FitsOf(t, r)
  BY <1>1 DEF PhaseOf, KeysOf, FitsOf, Replacing
<1>4. \A u \in Txs \ {t} : Apart(r, tx[u]) /\ Apart(tx[u], r)
  BY <1>1 DEF Apart
<1> QED
  BY <1>1, <1>2, <1>3, <1>4, Frame DEF Fits, Good

\* The row that a request reads comes from a request that is over.
LEMMA ReadKeeps ==
  ASSUME Fits, NEW t \in Txs, Read(t)
  PROVE  Good'
<1>1. PICK row \in rows : Key(row) = Key(job[t].rec) /\ target' = [target EXCEPT ![t] = Id(row)]
  BY DEF Read
<1>2. tx' = tx /\ rows' = rows /\ job' = job /\ tx[t].at = "ready" /\ Changes(t)
  BY DEF Read
<1>3. Id(row)[1] = job[t].rec.zone /\ Id(row)[3] = row.by
  BY <1>1, <1>2, JobFacts, RowFacts
  DEF Fits, TypeOK, Changes, Replaces, Key, Id, Row, Atomic!Key, Atomic!Id, Atomic!Row
<1>4. TargetsRead'
  BY <1>1, <1>2, <1>3 DEF Fits, TypeOK, TargetsRead, Settled, Changes
<1>5. \A u \in Txs : PhaseOf(u, tx[u])'
  <2> SUFFICES ASSUME NEW u \in Txs PROVE PhaseOf(u, tx[u])'
    OBVIOUS
  <2>1. CASE u = t
    BY <2>1, <1>2 DEF PhaseOf
  <2>2. CASE u # t
    <3>1. target'[u] = target[u] /\ tx'[u] = tx[u]
      BY <1>1, <1>2, <2>2 DEF Fits, TypeOK
    <3>2. Found(u)' = Found(u)
      BY <3>1, <1>2 DEF Found
    <3>3. NewRows(u)' = NewRows(u)
      BY <3>2, <1>2 DEF NewRows
    <3>4. PhaseOf(u, tx[u])
      BY DEF Fits, Each
    <3> QED
      BY <3>1, <3>2, <3>3, <3>4, <1>2 DEF PhaseOf, Changes
  <2> QED
    BY <2>1, <2>2
<1>6. ASSUME NEW u \in Txs PROVE (KeysOf(tx[u]) /\ FitsOf(u, tx[u]))'
  <2>1. KeysOf(tx[u]) /\ FitsOf(u, tx[u])
    BY DEF Fits, Each
  <2>2. KeysOf(tx[u])'
    BY <2>1, <1>2 DEF KeysOf
  <2>3. FitsOf(u, tx[u])'
    BY <2>1, <1>2 DEF FitsOf, Replacing, BegunOf, ThroughOf, Covered, Atomic!Unguarded,
                      Atomic!ZonesOf, Atomic!Replaces
  <2> QED
    BY <2>2, <2>3
<1> QED
  BY <1>2, <1>4, <1>5, <1>6 DEF Good, Fits, Each, Pairs, Apart, Unique

LEMMA BeginKeeps ==
  ASSUME Fits, NEW t \in Txs, Begin(t) \/ NotFound(t) \/ Audit(t)
  PROVE  Good'
<1>1. PICK a \in {"done", "pick", "write"} :
        /\ tx' = [tx EXCEPT ![t] = [tx[t] EXCEPT !.at = a]] /\ Keeps
        /\ tx[t].at \in {"ready", "audit"} /\ (tx[t].at = "audit" => a = "done")
        /\ a = "write" => (Changes(t) => target[t] # None)
        /\ a = "pick" => tx[t].at = "ready" /\ Replaces(t)
  BY DEF Begin, NotFound, Audit, After
<1> DEFINE r == [tx[t] EXCEPT !.at = a]
<1>2. /\ r \in TxRec /\ r.at = a /\ r.added = tx[t].added /\ r.gone = tx[t].gone
      /\ r.held = tx[t].held /\ r.todo = tx[t].todo /\ r.zone = tx[t].zone
      /\ r.left = tx[t].left /\ r.doomed = tx[t].doomed
  BY <1>1 DEF Fits, TypeOK, TxRec, Stage, Running
<1>3. tx' = [tx EXCEPT ![t] = r]
  BY <1>1
<1> HIDE DEF r
<1>4. PhaseOf(t, r)
  BY <1>1, <1>2 DEF PhaseOf
<1>5. FitsOf(t, r)
  <2> SUFFICES ASSUME a = "pick" PROVE FitsOf(t, r)
    BY <1>1, <1>2 DEF FitsOf, Replacing
  <2>1. /\ r.todo = job[t].zones /\ r.zone = None
        /\ r.added = {} /\ r.gone = {} /\ r.held = {}
    BY <1>1, <1>2 DEF Fits, NotBegun, NoTx
  <2>2. BegunOf(t, r) = {}
    BY <2>1, <1>2 DEF BegunOf, ThroughOf
  <2> QED
    BY <2>1, <2>2, <1>2 DEF FitsOf
<1> QED
  BY <1>1, <1>2, <1>3, <1>4, <1>5, SameHoldings
-----------------------------------------------------------------------------
\* An INSERT waits for its key, an UPDATE or a DELETE for its row: whoever has
\* touched either is t itself.
LEMMA InsertKeeps ==
  ASSUME Fits, NEW t \in Txs, WriteRecord(t), job[t].op = "insert", ~Taken(t, Key(job[t].rec))
  PROVE  Good'
<1> DEFINE row == RowOf(job[t].rec, t)
           r == [tx[t] EXCEPT !.at = "bump", !.added = {row}]
<1>1. /\ tx[t].at = "write" /\ Keeps /\ tx' = [tx EXCEPT ![t] = r]
      /\ \A u \in Txs \ {t} : u \notin KeyHolders(Key(job[t].rec))
  BY DEF WriteRecord, After, Blockers, Changes
<1>2. job[t].rec \in Record
  BY <1>1, JobFacts DEF Fits, Kinds
<1>3. row \in Row /\ Key(row) = Key(job[t].rec)
  BY <1>2, RowFacts
<1> HIDE DEF row
<1>4. /\ r \in TxRec /\ r.at = "bump" /\ r.added = {row} /\ r.gone = {} /\ r.held = {}
  BY <1>1, <1>3 DEF Fits, HoldsNothing, TypeOK, TxRec, Stage, Running
<1> HIDE DEF r
<1>5. PhaseOf(t, r)
  BY <1>4 DEF PhaseOf, Changes, row
<1>6. KeysOf(r)
  <2>1. \A x \in rows : Key(x) # Key(row)
    BY <1>1, <1>3 DEF Taken, Fits, HoldsNothing
  <2> QED
    BY <2>1, <1>4 DEF KeysOf
<1>7. FitsOf(t, r)
  BY <1>4 DEF FitsOf, Replacing
<1>8. \A u \in Txs \ {t} : Apart(r, tx[u]) /\ Apart(tx[u], r)
  BY <1>1, <1>3, <1>4 DEF Apart, KeyHolders
<1> QED
  BY <1>1, <1>4, <1>5, <1>6, <1>7, <1>8, Frame DEF Fits, Good

LEMMA ChangeKeeps ==
  ASSUME Fits, NEW t \in Txs, WriteRecord(t), job[t].op # "insert"
  PROVE  Good'
<1> DEFINE G == {Id(row) : row \in Found(t)}
           r == [tx[t] EXCEPT !.at = "bump", !.gone = G, !.added = NewRows(t)]
<1>1. /\ tx[t].at = "write" /\ Keeps /\ tx' = [tx EXCEPT ![t] = r]
  BY DEF WriteRecord, After, Found, NewRows
<1>2. ~Replaces(t) /\ Changes(t) /\ job[t].rec \in Record
  BY <1>1, JobFacts DEF Fits, Kinds, Changes
<1>3. \A u \in Txs \ {t} : u \notin RowHolders(target[t])
  BY <1>1, <1>2 DEF WriteRecord, Blockers
<1>4. \A row \in Found(t) : row \in rows /\ row \in Row /\ Id(row) = target[t]
  BY DEF Found, Fits, TypeOK
<1>5. \A x \in NewRows(t) : \E row \in Found(t) : x \in Row /\ Key(x) = Key(row)
  BY <1>2, <1>4, RowFacts DEF NewRows
<1>6. \A x, y \in Found(t) : x = y
  <2>1. \A x, y \in Row : Id(x) = Id(y) => Key(x) = Key(y)
    BY DEF Id, Key, Atomic!Id, Atomic!Key
  <2> QED
    BY <2>1, <1>4 DEF Fits, Unique
<1>7. \A x, y \in NewRows(t) : x = y
  BY <1>6 DEF NewRows
<1>8. G \subseteq {target[t]} /\ G \subseteq Ids /\ NewRows(t) \subseteq Row
  BY <1>4, <1>5, RowFacts
<1>9. G \subseteq {Id(row) : row \in rows}
  BY <1>4
<1>10. \A row \in Found(t) : Id(row) \in G
  OBVIOUS
<1> HIDE DEF G
<1>11. r \in TxRec /\ r.at = "bump" /\ r.added = NewRows(t) /\ r.gone = G /\ r.held = {}
  BY <1>1, <1>8 DEF Fits, HoldsNothing, TypeOK, TxRec, Stage, Running
<1> HIDE DEF r
<1>12. PhaseOf(t, r)
  BY <1>1, <1>2, <1>11 DEF PhaseOf, Fits, Each, G
<1>13. KeysOf(r)
  <2>1. ASSUME NEW x \in NewRows(t), NEW row \in rows, Key(x) = Key(row) PROVE Id(row) \in G
    <3>1. PICK y \in Found(t) : Key(x) = Key(y)
      BY <1>5
    <3>2. y = row
      BY <3>1, <2>1, <1>4 DEF Fits, Unique
    <3> QED
      BY <3>2, <1>10
  <2> QED
    BY <2>1, <1>7, <1>9, <1>11 DEF KeysOf
<1>14. FitsOf(t, r)
  BY <1>11 DEF FitsOf, Replacing
<1>15. ASSUME NEW u \in Txs \ {t} PROVE Apart(r, tx[u]) /\ Apart(tx[u], r)
  <2>1. target[t] \notin tx[u].gone
    BY <1>3 DEF RowHolders
  <2>2. ASSUME NEW x \in NewRows(t), NEW y \in tx[u].added PROVE Key(x) # Key(y)
    <3>1. PICK row \in Found(t) : Key(x) = Key(row)
      BY <1>5
    <3>2. Key(y) = Key(row) => Id(row) \in tx[u].gone
      BY <1>4 DEF Fits, Each, KeysOf
    <3> QED
      BY <3>1, <3>2, <2>1, <1>4
  <2> QED
    BY <2>1, <2>2, <1>8, <1>11 DEF Apart
<1> QED
  BY <1>1, <1>11, <1>12, <1>13, <1>14, <1>15, Frame DEF Fits, Good

LEMMA BumpKeeps ==
  ASSUME Fits, NEW t \in Txs, BumpSerial(t)
  PROVE  Good'
<1> DEFINE r == [tx[t] EXCEPT !.at = "commit", !.held = {job[t].rec.zone}]
<1>1. /\ tx[t].at = "bump" /\ Keeps /\ tx' = [tx EXCEPT ![t] = r]
      /\ \A u \in Txs \ {t} : u \notin ZoneHolders(job[t].rec.zone)
  BY DEF BumpSerial, After, Blockers
<1>2. job[t].rec.zone \in Zones
  BY <1>1, JobFacts DEF Fits, Kinds, Record, Atomic!Record
<1>3. /\ r \in TxRec /\ r.at = "commit" /\ r.held = {job[t].rec.zone}
      /\ r.added = tx[t].added /\ r.gone = tx[t].gone
  BY <1>1, <1>2 DEF Fits, TypeOK, TxRec, Stage, Running
<1> HIDE DEF r
<1>4. PhaseOf(t, r)
  BY <1>1, <1>3 DEF Fits, Each, PhaseOf
<1>5. KeysOf(r)
  BY <1>3 DEF Fits, Each, KeysOf
<1>6. FitsOf(t, r)
  BY <1>3 DEF FitsOf, Replacing
<1>7. \A u \in Txs \ {t} : Apart(r, tx[u]) /\ Apart(tx[u], r)
  BY <1>1, <1>3 DEF Apart, ZoneHolders, Fits, Pairs
<1> QED
  BY <1>1, <1>3, <1>4, <1>5, <1>6, <1>7, Frame DEF Fits, Good
-----------------------------------------------------------------------------
\* What a replacement holds of the zones it has been through.
LEMMA ZonesFit ==
  ASSUME Fits, NEW t \in Txs, Replacing(tx[t])
  PROVE  /\ Replaces(t) /\ job[t].zones \subseteq Zones /\ None \notin job[t].zones
         /\ tx[t].todo \subseteq job[t].zones
         /\ IF tx[t].at = "pick" THEN tx[t].zone = None ELSE tx[t].zone \in job[t].zones \ tx[t].todo
         /\ PhaseOf(t, tx[t]) /\ KeysOf(tx[t]) /\ FitsOf(t, tx[t])
<1>1. Replaces(t)
  BY DEF Fits, Kinds, Replacing
<1>2. job[t].zones \subseteq Zones
  BY <1>1, JobFacts DEF Fits
<1> QED
  BY <1>1, <1>2, NamesAssumption DEF Fits, Each, FitsOf

LEMMA PickKeeps ==
  ASSUME Fits, NEW t \in Txs, NEW z \in Zones, Pick(t, z)
  PROVE  Good'
<1> DEFINE r == [tx[t] EXCEPT !.at = AfterPick(t), !.todo = @ \ {z}, !.zone = z]
<1>1. /\ tx[t].at = "pick" /\ z \in tx[t].todo /\ Keeps /\ tx' = [tx EXCEPT ![t] = r]
      /\ Replacing(tx[t])
  BY DEF Pick, Replacing
<1>2. /\ r \in TxRec /\ r.at = AfterPick(t) /\ r.at \in {"upsert", "select"} /\ r.zone = z
      /\ r.todo = tx[t].todo \ {z}
      /\ r.added = tx[t].added /\ r.gone = tx[t].gone /\ r.held = tx[t].held
      /\ r.left = tx[t].left /\ r.doomed = tx[t].doomed
  BY <1>1 DEF Fits, TypeOK, TxRec, Stage, Running, AfterPick
<1> HIDE DEF r
<1>3. BegunOf(t, r) = BegunOf(t, tx[t])
  BY <1>1, <1>2, ZonesFit DEF BegunOf, ThroughOf
<1>4. PhaseOf(t, r)
  BY <1>2 DEF PhaseOf
<1>5. job[t].op = "sync" => r.at = "upsert"
  BY <1>2 DEF AfterPick
<1>6. FitsOf(t, r)
  BY <1>1, <1>2, <1>3, <1>5, ZonesFit DEF FitsOf, Replacing, Covered
<1> QED
  BY <1>1, <1>2, <1>4, <1>6, SameHoldings

LEMMA UpsertKeeps ==
  ASSUME Fits, NEW t \in Txs, Upsert(t)
  PROVE  Good'
<1> DEFINE r == [tx[t] EXCEPT !.at = "select", !.held = @ \cup {tx[t].zone}]
<1>1. /\ tx[t].at = "upsert" /\ Keeps /\ tx' = [tx EXCEPT ![t] = r] /\ Replacing(tx[t])
      /\ \A u \in Txs \ {t} : tx[t].zone \notin tx[u].held
  BY DEF Upsert, Blockers, ZoneHolders, Replacing
<1>2. tx[t].zone \in Zones
  BY <1>1, ZonesFit
<1>3. /\ r \in TxRec /\ r.at = "select" /\ r.zone = tx[t].zone /\ r.todo = tx[t].todo
      /\ r.added = tx[t].added /\ r.gone = tx[t].gone /\ r.held = tx[t].held \cup {tx[t].zone}
      /\ r.left = tx[t].left /\ r.doomed = tx[t].doomed
  BY <1>1, <1>2 DEF Fits, TypeOK, TxRec, Stage, Running
<1> HIDE DEF r
<1>4. BegunOf(t, r) = BegunOf(t, tx[t])
  BY <1>1, <1>3 DEF BegunOf, ThroughOf
<1>5. PhaseOf(t, r) /\ KeysOf(r)
  BY <1>1, <1>3, ZonesFit DEF PhaseOf, KeysOf
<1>6. FitsOf(t, r)
  BY <1>1, <1>3, <1>4, ZonesFit DEF FitsOf, Replacing, Covered
<1>7. \A u \in Txs \ {t} : Apart(r, tx[u]) /\ Apart(tx[u], r)
  BY <1>1, <1>3 DEF Apart, Fits, Pairs
<1> QED
  BY <1>1, <1>3, <1>5, <1>6, <1>7, Frame DEF Fits, Good

\* Whatever the zone holds when its turn comes is doomed.
LEMMA SelectKeeps ==
  ASSUME Fits, NEW t \in Txs, Select(t)
  PROVE  Good'
<1> DEFINE D == {Id(row) : row \in {x \in rows : x.zone = tx[t].zone}}
           L == {x \in job[t].recs : x.zone = tx[t].zone}
           r == [tx[t] EXCEPT !.at = "replace", !.doomed = D, !.left = L]
<1>1. /\ tx[t].at = "select" /\ Keeps /\ tx' = [tx EXCEPT ![t] = r] /\ Replacing(tx[t])
  BY DEF Select, Replacing
<1>2. D \subseteq Ids /\ L \subseteq Record /\ \A id \in D : id[1] = tx[t].zone
  BY <1>1, JobFacts, RowFacts, ZonesFit DEF Fits, TypeOK
<1>3. /\ \A row \in rows : row.zone = tx[t].zone => Id(row) \in D
      /\ \A x \in L : x \in job[t].recs /\ x.zone = tx[t].zone
      /\ \A x \in job[t].recs : x.zone = tx[t].zone => x \in L
  OBVIOUS
<1> HIDE DEF D, L
<1>4. /\ r \in TxRec /\ r.at = "replace" /\ r.zone = tx[t].zone /\ r.todo = tx[t].todo
      /\ r.added = tx[t].added /\ r.gone = tx[t].gone /\ r.held = tx[t].held
      /\ r.left = L /\ r.doomed = D
  BY <1>1, <1>2 DEF Fits, TypeOK, TxRec, Stage, Running
<1> HIDE DEF r
<1>5. BegunOf(t, r) = BegunOf(t, tx[t]) \cup {tx[t].zone} /\ tx[t].zone \notin BegunOf(t, tx[t])
  BY <1>1, <1>4 DEF BegunOf, ThroughOf
<1>6. PhaseOf(t, r)
  BY <1>4 DEF PhaseOf
<1>7. {y \in job[t].recs : y.zone \in BegunOf(t, r) /\ ~(r.at = "replace" /\ y \in r.left)}
        = {y \in job[t].recs : y.zone \in BegunOf(t, tx[t])
                                /\ ~(tx[t].at = "replace" /\ y \in tx[t].left)}
  BY <1>1, <1>3, <1>4, <1>5
<1>8. FitsOf(t, tx[t]) /\ Replacing(tx[t]) /\ tx[t].zone \in job[t].zones \ tx[t].todo
  BY <1>1, ZonesFit
<1>9. \A row \in rows :
        row.zone \in BegunOf(t, r) /\ (row.by = Old \/ ~Atomic!Unguarded(t)) => Covered(r, row)
  BY <1>1, <1>3, <1>4, <1>5, <1>8 DEF FitsOf, Covered
<1>10. FitsOf(t, r)
  BY <1>1, <1>2, <1>3, <1>4, <1>5, <1>7, <1>8, <1>9 DEF FitsOf
<1> QED
  BY <1>1, <1>4, <1>6, <1>10, SameHoldings

LEMMA DeleteKeeps ==
  ASSUME Fits, NEW t \in Txs, NEW id \in tx[t].doomed, DeleteRow(t, id)
  PROVE  Good'
<1> DEFINE G == tx[t].gone \cup ({id} \cap {Id(row) : row \in rows})
           r == [tx[t] EXCEPT !.doomed = @ \ {id}, !.gone = G]
<1>1. /\ tx[t].at = "replace" /\ Keeps /\ tx' = [tx EXCEPT ![t] = r] /\ Replacing(tx[t])
      /\ \A u \in Txs \ {t} : id \notin tx[u].gone
  BY DEF DeleteRow, RowHolders, Replacing
<1>2. /\ tx[t].gone \subseteq {Id(row) : row \in rows}
      /\ FitsOf(t, tx[t]) /\ KeysOf(tx[t]) /\ id[1] = tx[t].zone
  BY <1>1, ZonesFit DEF KeysOf, FitsOf
<1>3. /\ G \subseteq {Id(row) : row \in rows} /\ G \subseteq tx[t].gone \cup {id}
      /\ tx[t].gone \subseteq G /\ \A row \in rows : Id(row) = id => id \in G
  BY <1>2
<1>4. G \subseteq Ids
  BY <1>3, RowFacts DEF Fits, TypeOK
<1> HIDE DEF G
<1>5. /\ r \in TxRec /\ r.at = "replace" /\ r.zone = tx[t].zone /\ r.todo = tx[t].todo
      /\ r.added = tx[t].added /\ r.gone = G /\ r.held = tx[t].held
      /\ r.left = tx[t].left /\ r.doomed = tx[t].doomed \ {id}
  BY <1>1, <1>4 DEF Fits, TypeOK, TxRec, Stage
<1> HIDE DEF r
<1>6. BegunOf(t, r) = BegunOf(t, tx[t]) /\ tx[t].zone \in BegunOf(t, r)
  BY <1>1, <1>5 DEF BegunOf, ThroughOf
<1>7. PhaseOf(t, r)
  BY <1>5 DEF PhaseOf
<1>8. KeysOf(r)
  BY <1>2, <1>3, <1>5 DEF KeysOf
<1>9. \A row \in rows : Covered(tx[t], row) => Covered(r, row)
  BY <1>3, <1>5 DEF Covered
<1>10. FitsOf(t, r)
  <2>1. \A i \in r.gone : i[1] \in BegunOf(t, r)
    BY <1>1, <1>2, <1>3, <1>5, <1>6 DEF FitsOf
  <2> QED
    BY <2>1, <1>1, <1>2, <1>5, <1>6, <1>9 DEF FitsOf, Replacing
<1>11. \A u \in Txs \ {t} : Apart(r, tx[u]) /\ Apart(tx[u], r)
  BY <1>1, <1>3, <1>5 DEF Apart, Fits, Pairs
<1> QED
  BY <1>1, <1>5, <1>7, <1>8, <1>10, <1>11, Frame DEF Fits, Good

LEMMA InsertRowKeeps ==
  ASSUME Fits, NEW t \in Txs, NEW x \in tx[t].left, InsertRow(t, x), ~Taken(t, Key(x))
  PROVE  Good'
<1> DEFINE row == RowOf(x, t)
           r == [tx[t] EXCEPT !.left = @ \ {x}, !.added = @ \cup {row}]
<1>1. /\ tx[t].at = "replace" /\ Keeps /\ tx' = [tx EXCEPT ![t] = r] /\ Replacing(tx[t])
      /\ \A u \in Txs \ {t} : u \notin KeyHolders(Key(x))
  BY DEF InsertRow, Replacing
<1>2. /\ FitsOf(t, tx[t]) /\ KeysOf(tx[t])
      /\ x \in job[t].recs /\ x.zone = tx[t].zone
  BY <1>1, ZonesFit DEF FitsOf
<1>3. x \in Record /\ row \in Row /\ Key(row) = Key(x)
  BY <1>1, <1>2, ZonesFit, JobFacts, RowFacts DEF Fits
<1>4. \A y \in job[t].recs : Key(y) = Key(x) => y = x
  BY <1>1, <1>2, ZonesFit, JobFacts DEF Fits
<1>5. row = RowOf(x, t)
  OBVIOUS
<1> HIDE DEF row
<1>6. /\ r \in TxRec /\ r.at = "replace" /\ r.zone = tx[t].zone /\ r.todo = tx[t].todo
      /\ r.added = tx[t].added \cup {row} /\ r.gone = tx[t].gone /\ r.held = tx[t].held
      /\ r.left = tx[t].left \ {x} /\ r.doomed = tx[t].doomed
  BY <1>1, <1>3 DEF Fits, TypeOK, TxRec, Stage
<1> HIDE DEF r
<1>7. BegunOf(t, r) = BegunOf(t, tx[t]) /\ tx[t].zone \in BegunOf(t, r)
  BY <1>1, <1>6 DEF BegunOf, ThroughOf
<1>8. PhaseOf(t, r)
  BY <1>6 DEF PhaseOf
<1>9. KeysOf(r)
  <2>1. \A y \in tx[t].added : Key(y) # Key(x)
    BY DEF Taken
  <2>2. \A y \in rows : Key(y) = Key(x) => Id(y) \in tx[t].gone
    BY DEF Taken
  <2> QED
    BY <2>1, <2>2, <1>2, <1>3, <1>6 DEF KeysOf
<1>10. FitsOf(t, r)
  <2> DEFINE A == {y \in job[t].recs : y.zone \in BegunOf(t, tx[t])
                                         /\ ~(tx[t].at = "replace" /\ y \in tx[t].left)}
             B == {y \in job[t].recs : y.zone \in BegunOf(t, r)
                                         /\ ~(r.at = "replace" /\ y \in r.left)}
  <2>1. B = A \cup {x}
    BY <1>1, <1>2, <1>6, <1>7
  <2>2. tx[t].added = {RowOf(y, t) : y \in A}
    BY <1>1, <1>2 DEF FitsOf
  <2> HIDE DEF A, B
  <2>3. r.added = {RowOf(y, t) : y \in B}
    BY <2>1, <2>2, <1>5, <1>6
  <2>4. \A y \in rows : Covered(tx[t], y) => Covered(r, y)
    BY <1>1, <1>6 DEF Covered
  <2> QED
    BY <2>3, <2>4, <1>1, <1>2, <1>6, <1>7 DEF FitsOf, B
<1>11. \A u \in Txs \ {t} : Apart(r, tx[u]) /\ Apart(tx[u], r)
  BY <1>1, <1>3, <1>6 DEF Apart, Fits, Pairs, KeyHolders
<1> QED
  BY <1>1, <1>6, <1>8, <1>9, <1>10, <1>11, Frame DEF Fits, Good

LEMMA DoneKeeps ==
  ASSUME Fits, NEW t \in Txs, ZoneDone(t)
  PROVE  Good'
<1> DEFINE r == [tx[t] EXCEPT !.at = "pick", !.zone = None]
<1>1. /\ tx[t].at = "replace" /\ tx[t].doomed = {} /\ tx[t].left = {}
      /\ Keeps /\ tx' = [tx EXCEPT ![t] = r] /\ Replacing(tx[t])
  BY DEF ZoneDone, Replacing
<1>2. /\ r \in TxRec /\ r.at = "pick" /\ r.zone = None /\ r.todo = tx[t].todo
      /\ r.added = tx[t].added /\ r.gone = tx[t].gone /\ r.held = tx[t].held
      /\ r.left = {} /\ r.doomed = {}
  BY <1>1 DEF Fits, TypeOK, TxRec, Stage, Running
<1> HIDE DEF r
<1>3. BegunOf(t, r) = BegunOf(t, tx[t])
  BY <1>1, <1>2, ZonesFit DEF BegunOf, ThroughOf
<1>4. PhaseOf(t, r)
  BY <1>2 DEF PhaseOf
<1>5. {y \in job[t].recs : y.zone \in BegunOf(t, r) /\ ~(r.at = "replace" /\ y \in r.left)}
        = {y \in job[t].recs : y.zone \in BegunOf(t, tx[t])
                                /\ ~(tx[t].at = "replace" /\ y \in tx[t].left)}
  BY <1>1, <1>2, <1>3
<1>6. \A row \in rows : Covered(tx[t], row) => Covered(r, row)
  BY <1>1, <1>2 DEF Covered
<1>7. FitsOf(t, r)
  BY <1>1, <1>2, <1>3, <1>5, <1>6, ZonesFit DEF FitsOf
<1> QED
  BY <1>1, <1>2, <1>4, <1>7, SameHoldings
-----------------------------------------------------------------------------
\* What a transaction about to commit has done: a record request has inserted its
\* row, or changed or deleted the one it had read, if it was there; a replacement
\* has been through all its zones.
LEMMA ReadyFacts ==
  ASSUME Fits, NEW t \in Txs, Ready(t)
  PROVE  /\ KeysOf(tx[t]) /\ tx[t].added \subseteq Row
         /\ tx[t].at \notin {"ready", "audit", "done"}
         /\ Replaces(t) =>
              /\ BegunOf(t, tx[t]) = job[t].zones /\ FitsOf(t, tx[t]) /\ tx[t].at = "pick"
              /\ tx[t].added = {RowOf(x, t) : x \in job[t].recs}
              /\ job[t].op = "sync" => job[t].zones \subseteq tx[t].held
         /\ ~Replaces(t) => job[t].rec \in Record /\ tx[t].held = {job[t].rec.zone}
         /\ Changes(t) =>
              /\ tx[t].gone = {Id(row) : row \in Found(t)} /\ tx[t].added = NewRows(t)
              /\ target[t] # None
         /\ ~Replaces(t) /\ ~Changes(t) =>
              tx[t].gone = {} /\ tx[t].added = {RowOf(job[t].rec, t)}
<1>1. KeysOf(tx[t]) /\ PhaseOf(t, tx[t]) /\ tx[t].added \subseteq Row
  BY DEF Fits, Each, TypeOK
<1>2. tx[t].at \notin {"ready", "audit", "done"}
  BY DEF Ready
<1>3. ASSUME Replaces(t)
      PROVE  /\ BegunOf(t, tx[t]) = job[t].zones /\ FitsOf(t, tx[t]) /\ tx[t].at = "pick"
             /\ tx[t].added = {RowOf(x, t) : x \in job[t].recs}
             /\ job[t].op = "sync" => job[t].zones \subseteq tx[t].held
  <2>1. tx[t].at = "pick" /\ tx[t].todo = {} /\ Replacing(tx[t])
    BY <1>3 DEF Ready, Fits, Kinds, Replacing
  <2>2. BegunOf(t, tx[t]) = job[t].zones /\ FitsOf(t, tx[t])
    BY <2>1, ZonesFit DEF BegunOf, ThroughOf
  <2>3. {y \in job[t].recs : y.zone \in BegunOf(t, tx[t])
                              /\ ~(tx[t].at = "replace" /\ y \in tx[t].left)} = job[t].recs
    BY <2>1, <2>2, <1>3, JobFacts DEF Fits
  <2>4. tx[t].added = {RowOf(x, t) : x \in job[t].recs}
    BY <2>1, <2>2, <2>3 DEF FitsOf
  <2> QED
    BY <2>1, <2>2, <2>4 DEF FitsOf
<1>4. ASSUME ~Replaces(t)
      PROVE  tx[t].at = "commit" /\ job[t].rec \in Record /\ tx[t].held = {job[t].rec.zone}
  BY <1>1, <1>4, JobFacts DEF Ready, Fits, Kinds, PhaseOf
<1>5. Changes(t) => ~Replaces(t)
  BY DEF Changes, Replaces
<1> QED
  BY <1>1, <1>2, <1>3, <1>4, <1>5 DEF PhaseOf

\* The rows a commit adds: its own, in its zones, or the one that was read, with
\* its id.
LEMMA AddedFacts ==
  ASSUME Fits, NEW t \in Txs, Ready(t), NEW x \in tx[t].added
  PROVE  \/ x.by = t /\ x.zone \in Atomic!ZonesOf(t) /\ ~Changes(t)
         \/ \E row \in rows : /\ Id(row) = Id(x) /\ row.zone = x.zone /\ row.by = x.by
                              /\ Id(row) \in tx[t].gone /\ Id(row) = target[t]
<1>1. CASE Replaces(t)
  <2>1. PICK y \in job[t].recs : x = RowOf(y, t)
    BY <1>1, ReadyFacts
  <2>2. y \in Record /\ y.zone \in job[t].zones
    BY <1>1, JobFacts DEF Fits
  <2> QED
    BY <1>1, <2>1, <2>2, RowFacts DEF Atomic!ZonesOf, Atomic!Replaces, Replaces, Changes
<1>2. CASE ~Replaces(t) /\ ~Changes(t)
  <2>1. x = RowOf(job[t].rec, t) /\ job[t].rec \in Record
    BY <1>2, ReadyFacts
  <2> QED
    BY <1>2, <2>1, RowFacts DEF Atomic!ZonesOf, Atomic!Replaces, Replaces
<1>3. CASE Changes(t)
  <2>a. x \in NewRows(t)
    BY <1>3, ReadyFacts
  <2>b. job[t].op # "delete"
    BY <2>a DEF NewRows
  <2>1. PICK row \in Found(t) : x = [row EXCEPT !.val = job[t].rec.val]
    BY <2>a, <2>b DEF NewRows
  <2>2. row \in rows /\ row \in Row /\ Id(row) = target[t] /\ Id(row) \in tx[t].gone
    BY <1>3, ReadyFacts DEF Found, Fits, TypeOK
  <2>3. x.zone = row.zone /\ x.rid = row.rid /\ x.by = row.by
    BY <2>1, <2>2 DEF Row, Atomic!Row
  <2> QED
    BY <2>2, <2>3 DEF Id, Atomic!Id
<1> QED
  BY <1>1, <1>2, <1>3

\* The rows of another transaction stand where they stood, and what a commit
\* adds to its zones it has already taken into account, or is guarded from.
LEMMA CommitKeeps ==
  ASSUME Fits, NEW t \in Txs, Commit(t)
  PROVE  Good'
<1>0. Ready(t)
  BY DEF Commit
<1>1. /\ rows' = {row \in rows : Id(row) \notin tx[t].gone} \cup tx[t].added
      /\ job' = job /\ target' = target
      /\ tx' = [tx EXCEPT ![t] = [NoTx EXCEPT !.at = "audit"]]
  BY DEF Commit
<1>2. /\ tx'[t].at = "audit" /\ tx'[t].added = {} /\ tx'[t].gone = {} /\ tx'[t].held = {}
      /\ \A u \in Txs \ {t} : tx'[u] = tx[u]
  BY <1>1 DEF NoTx, Fits, TypeOK
<1>3. KeysOf(tx[t]) /\ tx[t].at \notin {"audit", "done"}
  BY <1>0, ReadyFacts
<1>4. \A row \in rows' : (row \in rows /\ Id(row) \notin tx[t].gone) \/ row \in tx[t].added
  BY <1>1
<1>5. Unique'
  BY <1>3, <1>4 DEF Fits, Unique, KeysOf
<1>6. Pairs'
  BY <1>2 DEF Fits, Pairs, Apart
<1>7. TargetsRead'
  <2>1. \A b \in Txs \cup {Old} : Settled(b) => Settled(b)'
    BY <1>2 DEF Settled
  <2>2. Settled(t)'
    BY <1>2 DEF Settled
  <2>3. ASSUME NEW row \in rows PROVE Settled(row.by)'
    BY <2>1 DEF Fits, TypeOK, Row, Atomic!Row, TargetsRead
  <2>4. ASSUME NEW x \in tx[t].added PROVE Settled(x.by)'
    BY <1>0, <2>2, <2>3, AddedFacts
  <2>5. \A u \in Txs : target[u] # None => target[u][3] \in Txs \cup {Old}
    BY DEF Fits, TypeOK, Ids, Atomic!Ids
  <2> QED
    BY <1>1, <1>4, <2>1, <2>3, <2>4, <2>5 DEF Fits, TargetsRead, Changes
<1>8. PhaseOf(t, tx[t])' /\ KeysOf(tx[t])' /\ FitsOf(t, tx[t])'
  BY <1>2 DEF PhaseOf, KeysOf, FitsOf, Replacing
<1>9. ASSUME NEW u \in Txs \ {t} PROVE (PhaseOf(u, tx[u]) /\ KeysOf(tx[u]) /\ FitsOf(u, tx[u]))'
  <2>1. /\ PhaseOf(u, tx[u]) /\ KeysOf(tx[u]) /\ FitsOf(u, tx[u])
        /\ Apart(tx[t], tx[u]) /\ tx'[u] = tx[u]
    BY <1>2 DEF Fits, Each, Pairs
  <2>2. PhaseOf(u, tx[u])'
    <3>1. CASE tx[u].at \in {"bump", "commit"} /\ Changes(u)
      <4>1. target[u] # None /\ tx[u].gone = {Id(row) : row \in Found(u)}
        BY <3>1, <2>1 DEF PhaseOf
      <4>2. \A row \in rows : Id(row) = target[u] => row \in rows'
        BY <4>1, <2>1, <1>1 DEF Found, Apart
      <4>3. \A row \in tx[t].added : Id(row) # target[u]
        <5> SUFFICES ASSUME NEW x \in tx[t].added, Id(x) = target[u] PROVE FALSE
          OBVIOUS
        <5>1. CASE x.by = t
          <6>1. x \in Row
            BY <1>0, ReadyFacts
          <6>2. target[u][3] = t
            BY <5>1, <6>1, RowFacts
          <6> QED
            BY <6>2, <4>1, <1>3, NamesAssumption DEF Fits, TargetsRead, Settled
        <5>2. CASE \E row \in rows : Id(row) = Id(x) /\ Id(row) \in tx[t].gone
          BY <5>2, <4>1, <2>1 DEF Found, Apart
        <5> QED
          BY <5>1, <5>2, <1>0, AddedFacts
      <4>4. Found(u)' = Found(u)
        BY <4>2, <4>3, <1>1, <1>4 DEF Found
      <4>5. NewRows(u)' = NewRows(u)
        BY <4>4, <1>1 DEF NewRows
      <4> QED
        BY <4>4, <4>5, <2>1, <1>1 DEF PhaseOf, Changes
    <3>2. CASE ~(tx[u].at \in {"bump", "commit"} /\ Changes(u))
      BY <3>2, <2>1, <1>1 DEF PhaseOf, Changes
    <3> QED
      BY <3>1, <3>2
  <2>3. KeysOf(tx[u])'
    <3>1. tx[u].gone \subseteq {Id(row) : row \in rows'}
      BY <2>1, <1>1 DEF KeysOf, Apart
    <3>2. ASSUME NEW x \in tx[u].added, NEW row \in rows', Key(x) = Key(row) PROVE Id(row) \in tx[u].gone
      <4>1. row \notin tx[t].added
        BY <3>2, <2>1 DEF Apart
      <4> QED
        BY <3>2, <4>1, <2>1, <1>4 DEF KeysOf
    <3> QED
      BY <3>1, <3>2, <2>1 DEF KeysOf
  <2>4. FitsOf(u, tx[u])'
    <3>1. Atomic!Unguarded(u)' <=> Atomic!Unguarded(u)
      BY <1>1 DEF Atomic!Unguarded, Atomic!ZonesOf, Atomic!Replaces
    <3>2. ASSUME Replacing(tx[u]), NEW row \in rows', row.zone \in BegunOf(u, tx[u]),
                 row.by = Old \/ ~Atomic!Unguarded(u)
          PROVE  Covered(tx[u], row)
      <4>1. \A x \in rows : x.zone = row.zone /\ x.by = row.by => Covered(tx[u], x)
        BY <3>2, <2>1 DEF FitsOf
      <4>2. CASE row \in rows
        BY <4>1, <4>2
      <4>3. CASE row \in tx[t].added
        <5>1. CASE row.by = t /\ row.zone \in Atomic!ZonesOf(t)
          <6>1. ~Atomic!Unguarded(u)
            BY <5>1, <3>2, NamesAssumption
          <6>2. Replaces(u) /\ row.zone \in job[u].zones
            BY <3>2, ZonesFit DEF BegunOf, ThroughOf
          <6>3. row.zone \in Atomic!ZonesOf(u)
            BY <6>2 DEF Atomic!ZonesOf, Atomic!Replaces, Replaces
          <6>4. job[u].op # "refresh" /\ job[t].op # "refresh"
            BY <6>1, <6>3, <5>1 DEF Atomic!Unguarded
          <6>5. row.zone \in tx[u].held
            BY <6>2, <6>4, <3>2, <2>1 DEF FitsOf, Replaces
          <6>6. row.zone \in tx[t].held
            BY <6>4, <5>1, <1>0, ReadyFacts DEF Atomic!ZonesOf, Atomic!Replaces, Replaces
          <6> QED
            BY <6>5, <6>6, <2>1 DEF Apart
        <5>2. CASE \E x \in rows : Id(x) = Id(row) /\ x.zone = row.zone /\ x.by = row.by
          BY <5>2, <4>1 DEF Covered
        <5> QED
          BY <5>1, <5>2, <4>3, <1>0, AddedFacts
      <4> QED
        BY <4>2, <4>3, <1>4
    <3>3. BegunOf(u, tx[u])' = BegunOf(u, tx[u]) /\ (\A row : Covered(tx[u], row)' <=> Covered(tx[u], row))
      BY <2>1, <1>1 DEF BegunOf, ThroughOf, Covered
    <3> QED
      BY <2>1, <1>1, <3>1, <3>2, <3>3 DEF FitsOf, Replacing
  <2> QED
    BY <2>2, <2>3, <2>4
<1>10. Each'
  BY <1>8, <1>9 DEF Each
<1> QED
  BY <1>5, <1>6, <1>7, <1>10 DEF Good
-----------------------------------------------------------------------------
\* A step but a read takes its transaction on; it is over when it has failed,
\* has found nothing to do, or has committed.
Closes(t) == Rollback(t) \/ NotFound(t) \/ Audit(t) \/ Commit(t)

LEMMA Moves ==
  ASSUME TypeOK, NEW t \in Txs, Step(t) \/ DeadlockAborts(t) \/ Cancel(t), ~Read(t)
  PROVE  \E r : /\ tx' = [tx EXCEPT ![t] = r] /\ r.at # "ready"
                /\ Closes(t) \/ r.at \notin {"audit", "done"}
<1> DEFINE Goal == \E r : /\ tx' = [tx EXCEPT ![t] = r] /\ r.at # "ready"
                          /\ Closes(t) \/ r.at \notin {"audit", "done"}
<1>0. tx[t] \in TxRec
  BY DEF TypeOK, TxRec, Stage
<1>a. ASSUME NEW r, tx' = [tx EXCEPT ![t] = r], r.at # "ready", Closes(t) \/ r.at \notin {"audit", "done"}
      PROVE Goal
  BY <1>a
<1>b. \A a : [tx[t] EXCEPT !.at = a].at = a
  BY <1>0 DEF TxRec
<1> SUFFICES Goal
  OBVIOUS
<1> HIDE DEF Goal
<1>1. Rollback(t) => Goal
  <2> DEFINE r == [NoTx EXCEPT !.at = IF job[t].op = "refresh" THEN "audit" ELSE "done"]
  <2>1. r.at # "ready" /\ (Rollback(t) => tx' = [tx EXCEPT ![t] = r])
    BY DEF NoTx, Rollback
  <2> HIDE DEF r
  <2> QED
    BY <2>1, <1>a DEF Closes
<1>2. CASE NotFound(t) \/ Audit(t)
  <2>1. tx' = [tx EXCEPT ![t] = [tx[t] EXCEPT !.at = "done"]] /\ Closes(t)
    BY <1>2 DEF NotFound, Audit, Closes
  <2>2. [tx[t] EXCEPT !.at = "done"].at # "ready"
    BY <1>b
  <2> QED
    BY <2>1, <2>2, <1>a
<1>3. CASE Begin(t)
  <2>1. PICK a \in {"pick", "write"} : tx' = [tx EXCEPT ![t] = [tx[t] EXCEPT !.at = a]]
    BY <1>3 DEF Begin, After
  <2>2. [tx[t] EXCEPT !.at = a].at \in {"pick", "write"}
    BY <1>b
  <2> QED
    BY <2>1, <2>2, <1>a
<1>4. CASE WriteRecord(t) /\ ~Rollback(t)
  <2> DEFINE found == {row \in rows : Id(row) = target[t]}
             G == {Id(row) : row \in found}
             A == IF job[t].op = "delete" THEN {}
                  ELSE {[row EXCEPT !.val = job[t].rec.val] : row \in found}
             N == {RowOf(job[t].rec, t)}
             p == [tx[t] EXCEPT !.at = "bump", !.added = N]
             q == [tx[t] EXCEPT !.at = "bump", !.gone = G, !.added = A]
  <2>1. tx' = [tx EXCEPT ![t] = p] \/ tx' = [tx EXCEPT ![t] = q]
    BY <1>4 DEF WriteRecord, After
  <2> HIDE DEF G, A, N
  <2>2. p.at = "bump" /\ q.at = "bump"
    BY <1>0 DEF TxRec
  <2> HIDE DEF p, q
  <2> QED
    BY <2>1, <2>2, <1>a
<1>5. CASE BumpSerial(t)
  <2>1. [tx[t] EXCEPT !.at = "commit", !.held = {job[t].rec.zone}].at = "commit"
    BY <1>0 DEF TxRec
  <2> QED
    BY <2>1, <1>5, <1>a DEF BumpSerial, After
<1>6. ASSUME NEW z, Pick(t, z) PROVE Goal
  <2>1. [tx[t] EXCEPT !.at = AfterPick(t), !.todo = @ \ {z}, !.zone = z].at \in {"upsert", "select"}
    BY <1>0 DEF TxRec, AfterPick
  <2> QED
    BY <2>1, <1>6, <1>a DEF Pick
<1>7. CASE Upsert(t)
  <2>1. [tx[t] EXCEPT !.at = "select", !.held = @ \cup {tx[t].zone}].at = "select"
    BY <1>0 DEF TxRec
  <2> QED
    BY <2>1, <1>7, <1>a DEF Upsert
<1>8. CASE Select(t)
  <2> DEFINE D == {Id(row) : row \in {x \in rows : x.zone = tx[t].zone}}
             L == {x \in job[t].recs : x.zone = tx[t].zone}
  <2>1. tx' = [tx EXCEPT ![t] = [tx[t] EXCEPT !.at = "replace", !.doomed = D, !.left = L]]
    BY <1>8 DEF Select
  <2> HIDE DEF D, L
  <2>2. [tx[t] EXCEPT !.at = "replace", !.doomed = D, !.left = L].at = "replace"
    BY <1>0 DEF TxRec
  <2> QED
    BY <2>1, <2>2, <1>a
<1>9. ASSUME NEW id, DeleteRow(t, id) PROVE Goal
  <2> DEFINE G == tx[t].gone \cup ({id} \cap {Id(row) : row \in rows})
  <2>1. /\ tx' = [tx EXCEPT ![t] = [tx[t] EXCEPT !.doomed = @ \ {id}, !.gone = G]]
        /\ tx[t].at = "replace"
    BY <1>9 DEF DeleteRow
  <2> HIDE DEF G
  <2>2. [tx[t] EXCEPT !.doomed = @ \ {id}, !.gone = G].at = tx[t].at
    BY <1>0 DEF TxRec
  <2> QED
    BY <2>1, <2>2, <1>a
<1>10. ASSUME NEW x, InsertRow(t, x) PROVE Goal
  <2>1. CASE ~Taken(t, Key(x))
    <3> DEFINE A == tx[t].added \cup {RowOf(x, t)}
    <3>1. /\ tx' = [tx EXCEPT ![t] = [tx[t] EXCEPT !.left = @ \ {x}, !.added = A]]
          /\ tx[t].at = "replace"
      BY <2>1, <1>10 DEF InsertRow
    <3> HIDE DEF A
    <3>2. [tx[t] EXCEPT !.left = @ \ {x}, !.added = A].at = tx[t].at
      BY <1>0 DEF TxRec
    <3> QED
      BY <3>1, <3>2, <1>a
  <2> QED
    BY <2>1, <1>10, <1>1 DEF InsertRow
<1>11. CASE ZoneDone(t)
  <2>1. [tx[t] EXCEPT !.at = "pick", !.zone = None].at = "pick"
    BY <1>0 DEF TxRec
  <2> QED
    BY <2>1, <1>11, <1>a DEF ZoneDone
<1>12. CASE Commit(t)
  <2>1. [NoTx EXCEPT !.at = "audit"].at # "ready"
    BY DEF NoTx
  <2> QED
    BY <2>1, <1>12, <1>a DEF Commit, Closes
<1>13. CASE Step(t)
  <2>1. (\E z \in Zones : Pick(t, z)) => Goal
    BY <1>6
  <2>2. (\E id \in tx[t].doomed : DeleteRow(t, id)) => Goal
    BY <1>9
  <2>3. (\E x \in tx[t].left : InsertRow(t, x)) => Goal
    BY <1>10
  <2> QED
    BY <2>1, <2>2, <2>3, <1>1, <1>2, <1>3, <1>4, <1>5, <1>7, <1>8, <1>11, <1>12, <1>13 DEF Step
<1>14. CASE DeadlockAborts(t) \/ Cancel(t)
  BY <1>1, <1>14 DEF DeadlockAborts, Cancel
<1> QED
  BY <1>13, <1>14

\* Once begun, a transaction never is ready again.
LEMMA NotBegunStep == TypeOK /\ NotBegun /\ [Next]_vars => NotBegun'
<1> SUFFICES ASSUME TypeOK, NotBegun, [Next]_vars PROVE NotBegun'
  OBVIOUS
<1>0. tx \in [Txs -> TxRec]
  BY DEF TypeOK, TxRec, Stage
<1>1. ASSUME tx' = tx, job' = job PROVE NotBegun'
  BY <1>1 DEF NotBegun, Replaces
<1>2. ASSUME NEW t \in Txs, Step(t) \/ DeadlockAborts(t) \/ Cancel(t), ~Read(t) PROVE NotBegun'
  <2>1. job' = job
    BY <1>2 DEF Step, DeadlockAborts, Cancel, NotFound, Begin, WriteRecord, BumpSerial, Pick, Upsert,
                Select, DeleteRow, InsertRow, ZoneDone, Commit, Audit, Keeps
  <2>2. PICK r : tx' = [tx EXCEPT ![t] = r] /\ r.at # "ready"
    BY <1>2, Moves
  <2> QED
    BY <2>1, <2>2, <1>0 DEF NotBegun, Replaces
<1> QED
  BY <1>1, <1>2 DEF Next, vars, Read

LEMMA FitsInit == Init => Fits
<1> SUFFICES ASSUME Init PROVE Fits
  OBVIOUS
<1>1. TypeOK /\ Kinds /\ HoldsNothing
  BY TypeInit, KindsInit, HoldsInit
<1>2. \A t \in Txs : /\ tx[t] = [NoTx EXCEPT !.todo = IF Replaces(t) THEN job[t].zones ELSE {}]
                     /\ tx[t].at = "ready" /\ tx[t].added = {} /\ tx[t].gone = {} /\ tx[t].held = {}
  BY DEF Init, NoTx
<1>3. NotBegun
  BY <1>2 DEF NotBegun
<1>4. PICK c \in Caches : rows = {RowOf(x, Old) : x \in c}
  BY DEF Init
<1>5. \A row \in rows : \E x \in c : x \in Record /\ row = RowOf(x, Old) /\ row.by = Old /\ Key(row) = Key(x)
  BY <1>4, RowFacts, CachesAssumption DEF Record
<1>6. Unique
  <2>1. \A x, y \in c : Key(x) = Key(y) => x = y
    BY CachesAssumption DEF Atomic!UniqueKeys, Key
  <2> QED
    BY <1>5, <2>1 DEF Unique
<1>7. TargetsRead
  BY <1>5 DEF TargetsRead, Settled, Init
<1>8. Pairs
  BY <1>2 DEF Pairs, Apart
<1>9. Each
  BY <1>2 DEF Each, PhaseOf, KeysOf, FitsOf, Replacing
<1> QED
  BY <1>1, <1>3, <1>6, <1>7, <1>8, <1>9 DEF Fits

LEMMA FitsStep == Fits /\ [Next]_vars => Fits'
<1> SUFFICES ASSUME Fits, [Next]_vars PROVE Fits'
  OBVIOUS
<1>1. TypeOK' /\ Kinds' /\ HoldsNothing' /\ NotBegun'
  BY TypeStep, HoldsStep, NotBegunStep DEF Fits
<1>2. ASSUME NEW t \in Txs, Step(t) \/ DeadlockAborts(t) \/ Cancel(t) PROVE Good'
  <2>1. CASE WriteRecord(t)
    <3>1. CASE job[t].op = "insert" /\ Taken(t, Key(job[t].rec))
      BY <2>1, <3>1, RollbackKeeps DEF WriteRecord
    <3> QED
      BY <2>1, <3>1, InsertKeeps, ChangeKeeps
  <2>2. ASSUME NEW x \in tx[t].left, InsertRow(t, x) PROVE Good'
    <3>1. CASE Taken(t, Key(x))
      BY <2>2, <3>1, RollbackKeeps DEF InsertRow
    <3> QED
      BY <2>2, <3>1, InsertRowKeeps
  <2>3. CASE DeadlockAborts(t) \/ Cancel(t)
    BY <2>3, RollbackKeeps DEF DeadlockAborts, Cancel
  <2> QED
    BY <1>2, <2>1, <2>2, <2>3, ReadKeeps, BeginKeeps, BumpKeeps, PickKeeps, UpsertKeeps, SelectKeeps,
       DeleteKeeps, DoneKeeps, CommitKeeps DEF Step
<1>3. CASE UNCHANGED vars
  <2>1. Phases' <=> Phases
    BY <1>3 DEF vars, Phases, Found, NewRows, Changes
  <2>2. LocksHold' /\ KeysHold' <=> LocksHold /\ KeysHold
    BY <1>3 DEF vars, LocksHold, KeysHold
  <2>3. ReplaceFits' <=> ReplaceFits
    BY <1>3 DEF vars, ReplaceFits, Begun, Through, Atomic!Unguarded, Atomic!ZonesOf, Atomic!Replaces
  <2>4. TargetsRead' <=> TargetsRead
    BY <1>3 DEF vars, TargetsRead, Settled, Changes
  <2> QED
    BY <1>1, <2>1, <2>2, <2>3, <2>4, Parts, PartsNext DEF Fits
<1> QED
  BY <1>1, <1>2, <1>3 DEF Next, Fits, Good

\* What the transactions hold, and what they have deleted, inserted and read,
\* always fits together.
THEOREM TxInvariant == Spec => []TxInv
<1>1. Fits => TxInv
  BY Parts DEF Fits, TxInv
<1> QED
  BY <1>1, FitsInit, FitsStep, PTL DEF Spec
-----------------------------------------------------------------------------
\* The refinement.  A commit is the step of its request.
Open == {t \in Txs : tx[t].at \notin {"audit", "done"}}

LEMMA CommitMaps ==
  ASSUME Fits, NEW t \in Txs, Commit(t), t \in Open, Open' = Open \ {t}
  PROVE  Atomic!Insert(t) \/ Atomic!Change(t) \/ Atomic!Replace(t)
<1>1. /\ Ready(t) /\ job' = job /\ target' = target
      /\ rows' = {row \in rows : Id(row) \notin tx[t].gone} \cup tx[t].added
      /\ serial' = IF Replaces(t) THEN serial ELSE [serial EXCEPT ![job[t].rec.zone] = @ + 1]
  BY DEF Commit
<1>2. Atomic!Ends(t)
  BY DEF Atomic!Ends, Open
<1>3. CASE ~Replaces(t) /\ ~Changes(t)
  <2>1. job[t].op = "insert"
    BY <1>3, JobFacts DEF Fits, Changes
  <2>2. tx[t].gone = {} /\ tx[t].added = {RowOf(job[t].rec, t)} /\ KeysOf(tx[t]) /\ job[t].rec \in Record
    BY <1>1, <1>3, ReadyFacts
  <2>3. \A row \in rows : Key(row) # Key(job[t].rec)
    BY <2>2, RowFacts DEF KeysOf
  <2> QED
    BY <1>1, <1>2, <1>3, <2>1, <2>2, <2>3 DEF Atomic!Insert, Atomic!Bump, Key, RowOf
<1>4. CASE Changes(t)
  <2>1. tx[t].gone = {Id(row) : row \in Found(t)} /\ tx[t].added = NewRows(t) /\ target[t] # None
    BY <1>1, <1>4, ReadyFacts
  <2>2. {row \in rows : Id(row) \notin tx[t].gone} = {row \in rows : Id(row) # target[t]}
    BY <2>1 DEF Found
  <2>3. Atomic!Changes(t) /\ ~Replaces(t)
    BY <1>4 DEF Changes, Replaces, Atomic!Changes
  <2> QED
    BY <1>1, <1>2, <2>1, <2>2, <2>3 DEF Atomic!Change, Atomic!Bump, Found, NewRows, Id
<1>5. CASE Replaces(t)
  <2> DEFINE kept == {row \in rows : row.zone \in job[t].zones /\ Id(row) \notin tx[t].gone}
  <2>1. /\ BegunOf(t, tx[t]) = job[t].zones /\ FitsOf(t, tx[t]) /\ tx[t].at = "pick"
        /\ tx[t].added = {RowOf(x, t) : x \in job[t].recs}
    BY <1>1, <1>5, ReadyFacts
  <2>2. \A row \in kept : row.by # Old /\ Atomic!Unguarded(t)
    BY <2>1 DEF FitsOf, Replacing, Covered
  <2>3. \A row \in rows : row.zone \notin job[t].zones => Id(row) \notin tx[t].gone
    <3>1. \A id \in tx[t].gone : id[1] \in job[t].zones
      BY <2>1 DEF FitsOf, Replacing
    <3> QED
      BY <3>1, RowFacts DEF Fits, TypeOK
  <2>4. rows' = {row \in rows : row.zone \notin job[t].zones} \cup kept \cup tx[t].added
    BY <1>1, <2>3
  <2>5. Atomic!UniqueKeys(rows')
    BY CommitKeeps DEF Good, Unique, Atomic!UniqueKeys, Key
  <2>6. Atomic!Fresh(t) = tx[t].added
    BY <2>1 DEF Atomic!Fresh, RowOf
  <2>7. Atomic!Replaces(t) /\ Atomic!ZonesOf(t) = job[t].zones
    BY <1>5 DEF Replaces, Atomic!Replaces, Atomic!ZonesOf
  <2>8. kept \in SUBSET {row \in rows : row.zone \in job[t].zones /\ row.by # Old}
    BY <2>2
  <2>9. kept # {} => Atomic!Unguarded(t)
    BY <2>2
  <2> HIDE DEF kept
  <2> QED
    BY <1>1, <1>2, <1>5, <2>4, <2>5, <2>6, <2>7, <2>8, <2>9 DEF Atomic!Replace
<1> QED
  BY <1>3, <1>4, <1>5

\* Who is part of a deadlock waits in a statement.
LEMMA WaitingIsOpen ==
  ASSUME NEW t \in Txs, DeadlockAborts(t)
  PROVE  tx[t].at \notin {"audit", "done"}
<1>1. PICK S \in SUBSET Txs : t \in S /\ Deadlocked(S)
  BY DEF DeadlockAborts
<1>2. S # {t}
  <2>1. S = {t} => Cardinality(S) = 1
    BY FS_Singleton
  <2>2. ~(1 > 1)
    OBVIOUS
  <2>3. Cardinality(S) > 1
    BY <1>1 DEF Deadlocked
  <2> QED
    BY <2>1, <2>2, <2>3
<1>3. {t} \in (SUBSET S) \ {{}, S}
  BY <1>1, <1>2
<1>4. Blockers(t) # {}
  BY <1>1, <1>3 DEF Deadlocked
<1> QED
  BY <1>4 DEF Blockers

LEMMA StepMaps == Fits /\ [Next]_vars => [Atomic!Next]_(Atomic!vars)
<1> SUFFICES ASSUME Fits, [Next]_vars PROVE Atomic!Next \/ UNCHANGED Atomic!vars
  OBVIOUS
<1>0. tx \in [Txs -> TxRec]
  BY DEF Fits, TypeOK, TxRec, Stage
<1>1. CASE UNCHANGED vars
  BY <1>1 DEF vars, Atomic!vars
<1>2. ASSUME NEW t \in Txs, Read(t) PROVE Atomic!Next
  <2>1. Atomic!Read(t)
    BY <1>2 DEF Read, Atomic!Read, Changes, Atomic!Changes, Key, Id
  <2> QED
    BY <2>1 DEF Atomic!Next
<1>3. ASSUME NEW t \in Txs, Step(t) \/ DeadlockAborts(t) \/ Cancel(t), ~Read(t)
      PROVE  Atomic!Next \/ UNCHANGED Atomic!vars
  <2>1. PICK r : tx' = [tx EXCEPT ![t] = r] /\ (Closes(t) \/ r.at \notin {"audit", "done"})
    BY <1>3, Moves DEF Fits
  <2>2. tx[t].at = "audit" => Audit(t)
    BY <1>3, WaitingIsOpen DEF Step, Cancel, InTx, Running, NotFound, Begin, WriteRecord, BumpSerial, Pick,
       Upsert, Select, DeleteRow, InsertRow, ZoneDone, Commit, Ready
  <2>3. tx[t].at # "done"
    BY <1>3, WaitingIsOpen DEF Step, Cancel, InTx, Running, NotFound, Begin, WriteRecord, BumpSerial, Pick,
       Upsert, Select, DeleteRow, InsertRow, ZoneDone, Commit, Ready, Audit
  <2>4. ~Commit(t) => Keeps
    BY <1>3 DEF Step, DeadlockAborts, Cancel, NotFound, Begin, WriteRecord, BumpSerial, Pick,
       Upsert, Select, DeleteRow, InsertRow, ZoneDone, Audit
  \* What a transaction does before its end, and the audit, is seen by nobody.
  <2>5. CASE r.at \notin {"audit", "done"} \/ Audit(t)
    <3>a. tx'[t] = r
      BY <2>1, <1>0
    <3>b. Audit(t) => r.at = "done" /\ tx[t].at = "audit" /\ Keeps
      BY <3>a, <1>0 DEF Audit, TxRec
    <3>c. Commit(t) => r.at = "audit" /\ tx[t].at # "audit"
      BY <3>a, <1>0 DEF Commit, NoTx, Ready
    <3>1. (r.at \in {"audit", "done"}) <=> (tx[t].at \in {"audit", "done"})
      BY <2>2, <2>3, <2>5, <3>b
    <3>2. Open' = Open
      BY <3>1, <2>1, <1>0 DEF Open
    <3>3. Keeps
      BY <2>4, <2>5, <3>b, <3>c
    <3> QED
      BY <3>2, <3>3 DEF Keeps, Open, Atomic!vars
  <2>6. CASE r.at \in {"audit", "done"} /\ ~Audit(t)
    <3>1. t \in Open /\ Open' = Open \ {t}
      BY <2>6, <2>1, <2>2, <2>3, <1>0 DEF Open
    <3>2. CASE Commit(t)
      BY <3>1, <3>2, CommitMaps DEF Atomic!Next
    <3>3. CASE Keeps
      BY <3>1, <3>3 DEF Keeps, Open, Atomic!Next, Atomic!Fail, Atomic!Ends
    <3> QED
      BY <3>2, <3>3, <2>4
  <2> QED
    BY <2>5, <2>6
<1> QED
  BY <1>1, <1>2, <1>3 DEF Next

\* Statement by statement, under every interleaving, deadlock and cancellation,
\* the transactions are steps of AtomicCache: CacheTx!IsAtomic.
THEOREM Implements == Spec => IsAtomic
<1>1. Init => Atomic!Init
  <2>1. Init => Open = Txs
    BY DEF Init, NoTx, Open
  <2> QED
    BY <2>1 DEF Init, Atomic!Init, RowOf, Open
<1> QED
  BY <1>1, FitsInit, FitsStep, StepMaps, PTL DEF Spec, IsAtomic, Atomic!Spec
=============================================================================
