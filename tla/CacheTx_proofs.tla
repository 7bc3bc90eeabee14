--------------------------- MODULE CacheTx_proofs ---------------------------
(***************************************************************************)
(* Proofs about CacheTx: its state is well formed, and record requests     *)
(* among themselves do not deadlock.                                       *)
(***************************************************************************)
EXTENDS CacheTx, FiniteSetTheorems, TLAPS

-----------------------------------------------------------------------------
\* The inductive invariants.

\* What a record request holds between its statements; the row it has read was
\* there from the start or comes from a request that has committed.
Found(t)   == {row \in rows : Id(row) = target[t]}
NewRows(t) == IF job[t].op = "delete" THEN {}
              ELSE {[row EXCEPT !.val = job[t].rec.val] : row \in Found(t)}

Kinds ==
  \A t \in Txs :
    /\ tx[t].at \in {"write", "bump", "commit"} => ~Replaces(t)
    /\ tx[t].at \in {"pick", "upsert", "select", "replace"} => Replaces(t)
    /\ tx[t].at \in {"upsert", "select", "replace"} => tx[t].zone \in Zones

\* A transaction that has not begun has all its zones before it.
NotBegun ==
  \A t \in Txs : tx[t].at = "ready" =>
    tx[t] = [NoTx EXCEPT !.todo = IF Replaces(t) THEN job[t].zones ELSE {}]

\* Before its first statement, and after its end, a transaction holds nothing.
HoldsNothing ==
  \A t \in Txs :
    /\ tx[t].at \in {"ready", "audit", "done", "write"} =>
         tx[t].added = {} /\ tx[t].gone = {} /\ tx[t].held = {}
    /\ tx[t].at = "bump" => tx[t].held = {}

Phases ==
  \A t \in Txs :
    /\ tx[t].at \in {"write", "bump", "commit"} /\ Changes(t) => target[t] # None
    /\ tx[t].at = "commit" => tx[t].held = {job[t].rec.zone}
    /\ tx[t].at \in {"bump", "commit"} =>
         IF Changes(t)
         THEN tx[t].gone = {Id(row) : row \in Found(t)} /\ tx[t].added = NewRows(t)
         ELSE tx[t].gone = {} /\ tx[t].added = {RowOf(job[t].rec, t)}

\* Who inserted a row that is committed.
Settled(by) == by = Old \/ tx[by].at \in {"audit", "done"}
TargetsRead ==
  /\ \A row \in rows : Settled(row.by)
  /\ \A t \in Txs : target[t] # None =>
       Changes(t) /\ target[t][1] = job[t].rec.zone /\ Settled(target[t][3])

\* Row, key and zone locks: what a transaction has deleted or changed is still
\* committed, and no two transactions hold the same.
LocksHold ==
  /\ \A t \in Txs : tx[t].gone \subseteq {Id(row) : row \in rows}
  /\ \A t, u \in Txs : t # u =>
       /\ tx[t].gone \cap tx[u].gone = {}
       /\ tx[t].held \cap tx[u].held = {}
       /\ \A x \in tx[t].added, y \in tx[u].added : Key(x) # Key(y)

KeysHold ==
  /\ Atomic!UniqueKeys(rows)
  /\ \A t \in Txs :
       /\ Atomic!UniqueKeys(tx[t].added)
       /\ \A x \in tx[t].added, row \in rows : Key(x) = Key(row) => Id(row) \in tx[t].gone

\* The zones a replacement is through with, and those it has begun.
Through(t) == job[t].zones \ (tx[t].todo \cup {tx[t].zone})
Begun(t)   == IF tx[t].at = "replace" THEN Through(t) \cup {tx[t].zone} ELSE Through(t)

\* A replacement has deleted, or will, whatever its zones held when it came to
\* them, and with a guard whatever they hold.
ReplaceFits ==
  \A t \in Txs : tx[t].at \in {"pick", "upsert", "select", "replace"} =>
    /\ tx[t].todo \subseteq job[t].zones
    /\ IF tx[t].at = "pick" THEN tx[t].zone = None
       ELSE tx[t].zone \in job[t].zones \ tx[t].todo
    /\ tx[t].at = "replace" =>
         /\ \A x \in tx[t].left : x \in job[t].recs /\ x.zone = tx[t].zone
         /\ \A id \in tx[t].doomed : id[1] = tx[t].zone
    /\ tx[t].added = {RowOf(x, t) : x \in {y \in job[t].recs :
         y.zone \in Begun(t) /\ ~(tx[t].at = "replace" /\ y \in tx[t].left)}}
    /\ \A id \in tx[t].gone : id[1] \in Begun(t)
    /\ job[t].op = "sync" =>
         Begun(t) \subseteq tx[t].held /\ (tx[t].at = "select" => tx[t].zone \in tx[t].held)
    /\ \A row \in rows :
         row.zone \in Begun(t) /\ (row.by = Old \/ ~Atomic!Unguarded(t)) =>
           \/ Id(row) \in tx[t].gone
           \/ tx[t].at = "replace" /\ row.zone = tx[t].zone /\ Id(row) \in tx[t].doomed

TxInv ==
  /\ Kinds /\ NotBegun /\ HoldsNothing /\ Phases /\ TargetsRead
  /\ LocksHold /\ KeysHold /\ ReplaceFits
Stage == Running \cup {"ready", "audit", "done"}
TxRec == [at : Stage, todo : SUBSET Zones, zone : Zones \cup {None},
          doomed : SUBSET Ids, left : SUBSET Record,
          added : SUBSET Row, gone : SUBSET Ids, held : SUBSET Zones]

\* What a request is about: a record, or zones with their listing.
LEMMA JobFacts ==
  ASSUME TypeOK, NEW t \in Txs
  PROVE  /\ ~Replaces(t) => job[t].rec \in Record /\ job[t].op \in {"insert", "update", "delete"}
         /\ Replaces(t) =>
              /\ job[t].zones \subseteq Zones
              /\ job[t].recs \subseteq Record
              /\ \A x \in job[t].recs : x.zone \in job[t].zones
              /\ \A x, y \in job[t].recs : Key(x) = Key(y) => x = y
<1>1. job[t] \in Jobs
  BY DEF TypeOK
<1>2. job[t] \in Atomic!WriteJob \/ job[t] \in Atomic!ReplaceJob
  BY <1>1, JobsAssumption
<1>3. CASE job[t] \in Atomic!WriteJob
  BY <1>3 DEF Replaces, Atomic!WriteJob, Record
<1>4. CASE job[t] \in Atomic!ReplaceJob
  <2>1. Replaces(t) /\ job[t].zones \subseteq Zones /\ job[t].recs \subseteq Record
    BY <1>4 DEF Replaces, Atomic!ReplaceJob, Record
  <2>2. Atomic!UniqueKeys(job[t].recs) /\ \A x \in job[t].recs : x.zone \in job[t].zones
    BY <1>1, <1>4, JobsAssumption
  <2> QED
    BY <2>1, <2>2 DEF Atomic!UniqueKeys, Key
<1> QED
  BY <1>2, <1>3, <1>4

\* Ids and rows have the parts they are made of.
LEMMA RowFacts ==
  /\ \A row \in Row : Id(row) = <<row.zone, row.rid, row.by>> /\ Id(row) \in Ids
                        /\ Key(row) = <<row.zone, row.rid>>
  /\ \A x \in Record, t \in Txs \cup {Old} :
       /\ RowOf(x, t) \in Row
       /\ RowOf(x, t).zone = x.zone /\ RowOf(x, t).rid = x.rid
       /\ RowOf(x, t).val = x.val /\ RowOf(x, t).by = t
       /\ Key(RowOf(x, t)) = Key(x) /\ Id(RowOf(x, t)) = <<x.zone, x.rid, t>>
  /\ \A row \in Row, x \in Record :
       [row EXCEPT !.val = x.val] \in Row /\ Id([row EXCEPT !.val = x.val]) = Id(row)
         /\ Key([row EXCEPT !.val = x.val]) = Key(row)
BY DEF Row, Record, Ids, Id, Key, RowOf, Atomic!Row, Atomic!Record, Atomic!Ids, Atomic!Id,
       Atomic!Key, Atomic!RowOf
-----------------------------------------------------------------------------
LEMMA TypeInit == Init => TypeOK
<1> SUFFICES ASSUME Init PROVE TypeOK
  OBVIOUS
<1>1. rows \in SUBSET Row
  BY RowFacts, CachesAssumption DEF Init, Record
<1>2. \A t \in Txs : Replaces(t) => job[t].zones \subseteq Zones
  BY JobsAssumption DEF Init, Replaces, Atomic!WriteJob, Atomic!ReplaceJob
<1>3. tx \in [Txs -> TxRec]
  BY <1>2 DEF Init, NoTx, TxRec, Stage, Running
<1> QED
  BY <1>1, <1>3 DEF Init, TypeOK, TxRec, Stage

\* A step that changes nothing but the transaction of t keeps the state typed.
LEMMA TypeTx ==
  ASSUME TypeOK, Keeps, NEW t \in Txs, NEW r \in TxRec, tx' = [tx EXCEPT ![t] = r]
  PROVE  TypeOK'
BY DEF TypeOK, Keeps, TxRec, Stage

LEMMA TypeStep == TypeOK /\ Kinds /\ [Next]_vars => TypeOK' /\ Kinds'
<1> SUFFICES ASSUME TypeOK, Kinds, [Next]_vars PROVE TypeOK' /\ Kinds'
  OBVIOUS
<1>1. CASE UNCHANGED vars
  BY <1>1 DEF vars, TypeOK, Kinds, Replaces
<1>2. ASSUME NEW t \in Txs, Step(t) \/ DeadlockAborts(t) \/ Cancel(t) PROVE TypeOK' /\ Kinds'
  <2>0. tx[t] \in TxRec /\ tx \in [Txs -> TxRec] /\ job[t] \in Jobs
    BY DEF TypeOK, TxRec, Stage
  <2>a. ASSUME Keeps, NEW r \in TxRec, tx' = [tx EXCEPT ![t] = r],
               r.at \in {"write", "bump", "commit"} => ~Replaces(t),
               r.at \in {"pick", "upsert", "select", "replace"} => Replaces(t),
               r.at \in {"upsert", "select", "replace"} => r.zone \in Zones
        PROVE  TypeOK' /\ Kinds'
    <3>1. TypeOK'
      BY <2>a, TypeTx
    <3>2. Kinds'
      BY <2>a, <2>0 DEF Kinds, Keeps, Replaces
    <3> QED
      BY <3>1, <3>2
  <2>1. ASSUME Rollback(t), Keeps PROVE TypeOK' /\ Kinds'
    <3> DEFINE r == [NoTx EXCEPT !.at = IF job[t].op = "refresh" THEN "audit" ELSE "done"]
    <3>1. r \in TxRec /\ r.at \in {"audit", "done"}
      BY DEF NoTx, TxRec, Stage
    <3> HIDE DEF r
    <3>2. tx' = [tx EXCEPT ![t] = r]
      BY <2>1 DEF Rollback, r
    <3> QED
      BY <3>1, <3>2, <2>1, <2>a
  <2>2. CASE Read(t)
    BY <2>2, RowFacts DEF Read, TypeOK, Kinds, Replaces
  <2>3. CASE NotFound(t)
    <3>1. [tx[t] EXCEPT !.at = "done"] \in TxRec
      BY <2>0 DEF TxRec, Stage
    <3> QED
      BY <3>1, <2>3, <2>a, <2>0 DEF NotFound, TxRec
  <2>4. CASE Begin(t)
    <3>1. [tx[t] EXCEPT !.at = IF Replaces(t) THEN "pick" ELSE After(t).ready] \in TxRec
      BY <2>0 DEF TxRec, Stage, After, Running
    <3> QED
      BY <3>1, <2>4, <2>a, <2>0 DEF Begin, TxRec, After
  <2>5. CASE WriteRecord(t)
    <3>1. ~Replaces(t) /\ job[t].rec \in Record
      BY <2>5, JobFacts DEF Kinds, WriteRecord
    <3>2. RowOf(job[t].rec, t) \in Row
      BY <3>1, RowFacts
    <3>3. CASE job[t].op = "insert" /\ ~Taken(t, Key(job[t].rec))
      <4> DEFINE r == [tx[t] EXCEPT !.at = After(t).write, !.added = {RowOf(job[t].rec, t)}]
      <4>1. r \in TxRec /\ r.at = "bump"
        BY <3>2, <2>0 DEF TxRec, Stage, After, Running
      <4>2. tx' = [tx EXCEPT ![t] = r]
        BY <3>3, <2>5 DEF WriteRecord
      <4> HIDE DEF r
      <4> QED
        BY <4>1, <4>2, <2>5, <2>a, <3>1 DEF WriteRecord
    <3>4. CASE job[t].op # "insert"
      <4> DEFINE found == {row \in rows : Id(row) = target[t]}
                 G == {Id(row) : row \in found}
                 A == IF job[t].op = "delete" THEN {}
                      ELSE {[row EXCEPT !.val = job[t].rec.val] : row \in found}
                 r == [tx[t] EXCEPT !.at = After(t).write, !.gone = G, !.added = A]
      <4>1. G \in SUBSET Ids /\ A \in SUBSET Row
        BY <3>1, RowFacts DEF TypeOK
      <4>2. tx' = [tx EXCEPT ![t] = r]
        BY <3>4, <2>5 DEF WriteRecord
      <4> HIDE DEF G, A
      <4>3. r \in TxRec /\ r.at = "bump"
        BY <4>1, <2>0 DEF TxRec, Stage, After, Running
      <4> HIDE DEF r
      <4> QED
        BY <4>2, <4>3, <2>5, <2>a, <3>1 DEF WriteRecord
    <3> QED
      BY <3>3, <3>4, <2>5, <2>1 DEF WriteRecord
  <2>6. CASE BumpSerial(t)
    <3>1. ~Replaces(t) /\ job[t].rec \in Record
      BY <2>6, JobFacts DEF Kinds, BumpSerial
    <3>2. [tx[t] EXCEPT !.at = After(t).bump, !.held = {job[t].rec.zone}] \in TxRec
      BY <3>1, <2>0 DEF TxRec, Stage, After, Running, Record, Atomic!Record
    <3> QED
      BY <3>1, <3>2, <2>6, <2>a, <2>0 DEF BumpSerial, TxRec, After
  <2>7. ASSUME NEW z \in Zones, Pick(t, z) PROVE TypeOK' /\ Kinds'
    <3>1. [tx[t] EXCEPT !.at = AfterPick(t), !.todo = @ \ {z}, !.zone = z] \in TxRec
      BY <2>0 DEF TxRec, Stage, AfterPick, Running
    <3>2. Replaces(t)
      BY <2>7 DEF Pick, Kinds
    <3> QED
      BY <3>1, <3>2, <2>7, <2>a, <2>0 DEF Pick, TxRec, AfterPick
  <2>8. CASE Upsert(t)
    <3>1. tx[t].zone \in Zones /\ Replaces(t)
      BY <2>8 DEF Upsert, Kinds
    <3>2. [tx[t] EXCEPT !.at = "select", !.held = @ \cup {tx[t].zone}] \in TxRec
      BY <2>0, <3>1 DEF TxRec, Stage, Running
    <3> QED
      BY <3>1, <3>2, <2>8, <2>a, <2>0 DEF Upsert, TxRec
  <2>9. CASE Select(t)
    <3> DEFINE D == {Id(row) : row \in {x \in rows : x.zone = tx[t].zone}}
               L == {x \in job[t].recs : x.zone = tx[t].zone}
    <3>1. tx[t].zone \in Zones /\ Replaces(t)
      BY <2>9 DEF Select, Kinds
    <3>2. D \in SUBSET Ids /\ L \in SUBSET Record
      BY <3>1, JobFacts, RowFacts DEF TypeOK
    <3> HIDE DEF D, L
    <3>3. [tx[t] EXCEPT !.at = "replace", !.doomed = D, !.left = L] \in TxRec
      BY <2>0, <3>2 DEF TxRec, Stage, Running
    <3>4. tx' = [tx EXCEPT ![t] = [tx[t] EXCEPT !.at = "replace", !.doomed = D, !.left = L]]
      BY <2>9 DEF Select, D, L
    <3> QED
      BY <3>1, <3>3, <3>4, <2>9, <2>a, <2>0 DEF Select, TxRec
  <2>10. ASSUME NEW id \in tx[t].doomed, DeleteRow(t, id) PROVE TypeOK' /\ Kinds'
    <3> DEFINE G == tx[t].gone \cup ({id} \cap {Id(row) : row \in rows})
               r == [tx[t] EXCEPT !.doomed = @ \ {id}, !.gone = G]
    <3>1. G \in SUBSET Ids
      BY <2>0, RowFacts DEF TypeOK, TxRec
    <3>2. tx' = [tx EXCEPT ![t] = r]
      BY <2>10 DEF DeleteRow
    <3>4. tx[t].at = "replace"
      BY <2>10 DEF DeleteRow
    <3> HIDE DEF G
    <3>3. r \in TxRec /\ r.at = tx[t].at /\ r.zone = tx[t].zone
      BY <2>0, <3>1 DEF TxRec
    <3> HIDE DEF r
    <3> QED
      BY <3>2, <3>3, <3>4, <2>10, <2>a, <2>0 DEF DeleteRow, Kinds
  <2>11. ASSUME NEW x \in tx[t].left, InsertRow(t, x) PROVE TypeOK' /\ Kinds'
    <3>1. CASE Taken(t, Key(x))
      BY <3>1, <2>11, <2>1 DEF InsertRow
    <3>2. CASE ~Taken(t, Key(x))
      <4> DEFINE A == tx[t].added \cup {RowOf(x, t)}
                 r == [tx[t] EXCEPT !.left = @ \ {x}, !.added = A]
      <4>1. A \in SUBSET Row
        BY <2>0, RowFacts DEF TxRec
      <4>2. tx' = [tx EXCEPT ![t] = r]
        BY <3>2, <2>11 DEF InsertRow
      <4> HIDE DEF A
      <4>3. r \in TxRec /\ r.at = tx[t].at /\ r.zone = tx[t].zone
        BY <2>0, <4>1 DEF TxRec
      <4> HIDE DEF r
      <4> QED
        BY <4>2, <4>3, <2>11, <2>a DEF InsertRow, Kinds
    <3> QED
      BY <3>1, <3>2
  <2>12. CASE ZoneDone(t)
    <3>1. [tx[t] EXCEPT !.at = "pick", !.zone = None] \in TxRec
      BY <2>0 DEF TxRec, Stage, Running
    <3>2. Replaces(t)
      BY <2>12 DEF ZoneDone, Kinds
    <3> QED
      BY <3>1, <3>2, <2>12, <2>a, <2>0 DEF ZoneDone, TxRec
  <2>13. CASE Commit(t)
    <3> DEFINE r == [NoTx EXCEPT !.at = "audit"]
    <3>1. r \in TxRec /\ r.at = "audit"
      BY DEF NoTx, TxRec, Stage
    <3> HIDE DEF r
    <3>2. tx' = [tx EXCEPT ![t] = r] /\ job' = job /\ target' = target
      BY <2>13 DEF Commit, r
    <3>3. rows' \in SUBSET Row
      BY <2>13, <2>0 DEF Commit, TypeOK, TxRec
    <3>4. serial' \in [Zones -> Nat]
      <4>1. ~Replaces(t) => job[t].rec.zone \in Zones
        BY JobFacts DEF Record, Atomic!Record
      <4>2. serial \in [Zones -> Nat]
        BY DEF TypeOK
      <4>3. \A z \in Zones : [serial EXCEPT ![z] = @ + 1] \in [Zones -> Nat]
        BY <4>2
      <4> QED
        BY <4>1, <4>2, <4>3, <2>13 DEF Commit
    <3>5. tx' \in [Txs -> TxRec]
      BY <3>1, <3>2, <2>0
    <3>6. TypeOK'
      BY <3>2, <3>3, <3>4, <3>5 DEF TypeOK, TxRec, Stage
    <3>7. Kinds'
      BY <3>1, <3>2, <2>0 DEF Kinds, Replaces
    <3> QED
      BY <3>6, <3>7
  <2>14. CASE Audit(t)
    <3>1. [tx[t] EXCEPT !.at = "done"] \in TxRec
      BY <2>0 DEF TxRec, Stage
    <3> QED
      BY <3>1, <2>14, <2>a, <2>0 DEF Audit, TxRec
  <2>15. CASE DeadlockAborts(t) \/ Cancel(t)
    BY <2>15, <2>1 DEF DeadlockAborts, Cancel
  <2> QED
    BY <1>2, <2>2, <2>3, <2>4, <2>5, <2>6, <2>7, <2>8, <2>9, <2>10, <2>11, <2>12, <2>13, <2>14,
       <2>15 DEF Step
<1> QED
  BY <1>1, <1>2 DEF Next

LEMMA KindsInit == Init => Kinds
BY DEF Init, Kinds, NoTx

\* The state stays well formed: what CacheTx!TypeOK says of the tables and of
\* the transactions in progress.
THEOREM TypeCorrect == Spec => []TypeOK
<1>1. Spec => [](TypeOK /\ Kinds)
  BY TypeInit, KindsInit, TypeStep, PTL DEF Spec
<1> QED
  BY <1>1, PTL
-----------------------------------------------------------------------------
LEMMA HoldsInit == Init => HoldsNothing
BY DEF Init, HoldsNothing, NoTx

LEMMA HoldsStep == TypeOK /\ Kinds /\ HoldsNothing /\ [Next]_vars => HoldsNothing'
<1> SUFFICES ASSUME TypeOK, Kinds, HoldsNothing, [Next]_vars PROVE HoldsNothing'
  OBVIOUS
<1>0. tx \in [Txs -> TxRec]
  BY DEF TypeOK, TxRec, Stage
<1>1. CASE UNCHANGED vars
  BY <1>1 DEF vars, HoldsNothing
<1>2. ASSUME NEW t \in Txs, Step(t) \/ DeadlockAborts(t) \/ Cancel(t) PROVE HoldsNothing'
  <2> DEFINE Fine(r) == /\ r.at \in {"ready", "audit", "done", "write"} =>
                             r.added = {} /\ r.gone = {} /\ r.held = {}
                        /\ r.at = "bump" => r.held = {}
  <2>0. tx[t] \in TxRec /\ Fine(tx[t])
    BY <1>0 DEF HoldsNothing
  <2>a. ASSUME NEW r, tx' = [tx EXCEPT ![t] = r], Fine(r) PROVE HoldsNothing'
    BY <2>a, <1>0 DEF HoldsNothing
  \* From one stage to another, or within one.
  <2>b. \A a : LET r == [tx[t] EXCEPT !.at = a] IN
                 r.at = a /\ r.added = tx[t].added /\ r.gone = tx[t].gone /\ r.held = tx[t].held
    BY <2>0 DEF TxRec
  <2>1. Rollback(t) => HoldsNothing'
    <3> DEFINE r == [NoTx EXCEPT !.at = IF job[t].op = "refresh" THEN "audit" ELSE "done"]
    <3>1. Fine(r)
      BY DEF NoTx
    <3>2. Rollback(t) => tx' = [tx EXCEPT ![t] = r]
      BY DEF Rollback
    <3> HIDE DEF r, Fine
    <3> QED
      BY <3>1, <3>2, <2>a
  <2>2. CASE Read(t)
    BY <2>2 DEF Read, HoldsNothing
  <2>3. CASE NotFound(t) \/ Audit(t)
    <3>1. tx' = [tx EXCEPT ![t] = [tx[t] EXCEPT !.at = "done"]] /\ tx[t].at \in {"ready", "audit"}
      BY <2>3 DEF NotFound, Audit
    <3> QED
      BY <3>1, <2>0, <2>a, <2>b
  <2>4. CASE Begin(t)
    <3>1. PICK a \in {"pick", "write"} :
            tx' = [tx EXCEPT ![t] = [tx[t] EXCEPT !.at = a]] /\ tx[t].at = "ready"
      BY <2>4 DEF Begin, After
    <3> QED
      BY <3>1, <2>0, <2>a, <2>b
  <2>5. CASE WriteRecord(t) /\ ~Rollback(t)
    <3>1. PICK A, G : /\ tx[t].at = "write"
                      /\ tx' = [tx EXCEPT ![t] = [tx[t] EXCEPT !.at = "bump", !.added = A, !.gone = G]]
      <4>1. CASE job[t].op = "insert"
        <5> DEFINE A == {RowOf(job[t].rec, t)}
        <5>1. tx[t].at = "write" /\ tx' = [tx EXCEPT ![t] = [tx[t] EXCEPT !.at = "bump", !.added = A]]
          BY <2>5, <4>1 DEF WriteRecord, After
        <5> HIDE DEF A
        <5>2. [tx[t] EXCEPT !.at = "bump", !.added = A]
                = [tx[t] EXCEPT !.at = "bump", !.added = A, !.gone = tx[t].gone]
          BY <2>0 DEF TxRec
        <5> QED
          BY <5>1, <5>2
      <4>2. CASE job[t].op # "insert"
        <5> DEFINE found == {row \in rows : Id(row) = target[t]}
                   G == {Id(row) : row \in found}
                   A == IF job[t].op = "delete" THEN {}
                        ELSE {[row EXCEPT !.val = job[t].rec.val] : row \in found}
        <5>1. /\ tx[t].at = "write"
              /\ tx' = [tx EXCEPT ![t] = [tx[t] EXCEPT !.at = "bump", !.gone = G, !.added = A]]
          BY <2>5, <4>2 DEF WriteRecord, After
        <5> HIDE DEF A, G
        <5>2. [tx[t] EXCEPT !.at = "bump", !.gone = G, !.added = A]
                = [tx[t] EXCEPT !.at = "bump", !.added = A, !.gone = G]
          BY <2>0 DEF TxRec
        <5> QED
          BY <5>1, <5>2
      <4> QED
        BY <4>1, <4>2
    <3>2. Fine([tx[t] EXCEPT !.at = "bump", !.added = A, !.gone = G])
      BY <3>1, <2>0 DEF TxRec
    <3> QED
      BY <3>1, <3>2, <2>a
  <2>6. CASE BumpSerial(t)
    <3>1. tx' = [tx EXCEPT ![t] = [tx[t] EXCEPT !.at = "commit", !.held = {job[t].rec.zone}]]
      BY <2>6 DEF BumpSerial, After
    <3>2. Fine([tx[t] EXCEPT !.at = "commit", !.held = {job[t].rec.zone}])
      BY <2>0 DEF TxRec
    <3> QED
      BY <3>1, <3>2, <2>a
  \* The statements of a replacement leave it in the stages of one.
  <2>c. ASSUME NEW r, tx' = [tx EXCEPT ![t] = r], r.at \in {"pick", "upsert", "select", "replace"}
        PROVE  HoldsNothing'
    BY <2>a, <2>c
  <2>7. ASSUME NEW z \in Zones, Pick(t, z) PROVE HoldsNothing'
    <3>1. [tx[t] EXCEPT !.at = AfterPick(t), !.todo = @ \ {z}, !.zone = z].at \in {"upsert", "select"}
      BY <2>0 DEF TxRec, AfterPick
    <3> QED
      BY <3>1, <2>7, <2>c DEF Pick
  <2>8. CASE Upsert(t)
    <3>1. [tx[t] EXCEPT !.at = "select", !.held = @ \cup {tx[t].zone}].at = "select"
      BY <2>0 DEF TxRec
    <3> QED
      BY <3>1, <2>8, <2>c DEF Upsert
  <2>9. CASE Select(t)
    <3> DEFINE D == {Id(row) : row \in {x \in rows : x.zone = tx[t].zone}}
               L == {x \in job[t].recs : x.zone = tx[t].zone}
    <3>1. tx' = [tx EXCEPT ![t] = [tx[t] EXCEPT !.at = "replace", !.doomed = D, !.left = L]]
      BY <2>9 DEF Select
    <3> HIDE DEF D, L
    <3>2. [tx[t] EXCEPT !.at = "replace", !.doomed = D, !.left = L].at = "replace"
      BY <2>0 DEF TxRec
    <3> QED
      BY <3>1, <3>2, <2>c
  <2>10. ASSUME NEW id, DeleteRow(t, id) PROVE HoldsNothing'
    <3> DEFINE G == tx[t].gone \cup ({id} \cap {Id(row) : row \in rows})
    <3>1. /\ tx' = [tx EXCEPT ![t] = [tx[t] EXCEPT !.doomed = @ \ {id}, !.gone = G]]
          /\ tx[t].at = "replace"
      BY <2>10 DEF DeleteRow
    <3> HIDE DEF G
    <3>2. [tx[t] EXCEPT !.doomed = @ \ {id}, !.gone = G].at = tx[t].at
      BY <2>0 DEF TxRec
    <3> QED
      BY <3>1, <3>2, <2>c
  <2>11. ASSUME NEW x, InsertRow(t, x) PROVE HoldsNothing'
    <3>1. CASE Taken(t, Key(x))
      BY <3>1, <2>11, <2>1 DEF InsertRow
    <3>2. CASE ~Taken(t, Key(x))
      <4> DEFINE A == tx[t].added \cup {RowOf(x, t)}
      <4>1. /\ tx' = [tx EXCEPT ![t] = [tx[t] EXCEPT !.left = @ \ {x}, !.added = A]]
            /\ tx[t].at = "replace"
        BY <3>2, <2>11 DEF InsertRow
      <4> HIDE DEF A
      <4>2. [tx[t] EXCEPT !.left = @ \ {x}, !.added = A].at = tx[t].at
        BY <2>0 DEF TxRec
      <4> QED
        BY <4>1, <4>2, <2>c
    <3> QED
      BY <3>1, <3>2
  <2>12. CASE ZoneDone(t)
    <3>1. [tx[t] EXCEPT !.at = "pick", !.zone = None].at = "pick"
      BY <2>0 DEF TxRec
    <3> QED
      BY <3>1, <2>12, <2>c DEF ZoneDone
  <2>13. CASE Commit(t)
    <3>1. Fine([NoTx EXCEPT !.at = "audit"])
      BY DEF NoTx
    <3> HIDE DEF Fine
    <3> QED
      BY <3>1, <2>13, <2>a DEF Commit
  <2> QED
    BY <1>2, <2>1, <2>2, <2>3, <2>4, <2>5, <2>6, <2>7, <2>8, <2>9, <2>10, <2>11, <2>12, <2>13
    DEF Step, DeadlockAborts, Cancel, WriteRecord
<1> QED
  BY <1>1, <1>2 DEF Next

\* Record requests change the row first and the zone last: among themselves they
\* never wait in a circle, however many there are: CacheTx!DeadlockNeedsReplace.
THEOREM WritesDoNotDeadlock == Spec => []DeadlockNeedsReplace
<1>1. Spec => [](TypeOK /\ Kinds /\ HoldsNothing)
  BY TypeInit, KindsInit, HoldsInit, TypeStep, HoldsStep, PTL DEF Spec
<1>2. TypeOK /\ Kinds /\ HoldsNothing => DeadlockNeedsReplace
  <2> SUFFICES ASSUME Kinds, HoldsNothing, NEW S \in SUBSET Txs, Deadlocked(S),
                      \A t \in S : ~Replaces(t)
               PROVE  FALSE
    BY DEF DeadlockNeedsReplace
  <2>1. S # {} /\ \A u \in S : S # {u}
    <3>1. Cardinality(S) > 1
      BY DEF Deadlocked
    <3>2. S = {} => Cardinality(S) = 0
      BY FS_EmptySet
    <3>3. \A u \in S : S = {u} => Cardinality(S) = 1
      BY FS_Singleton
    <3>4. ~(0 > 1) /\ ~(1 > 1)
      OBVIOUS
    <3> QED
      BY <3>1, <3>2, <3>3, <3>4
  <2>2. ASSUME NEW u \in S PROVE \E v \in S : v \in Blockers(u)
    <3>1. {u} \in (SUBSET S) \ {{}, S}
      BY <2>1
    <3> QED
      BY <3>1 DEF Deadlocked
  \* Who waits, waits for its row, its key or its zone ...
  <2>3. ASSUME NEW u \in S PROVE tx[u].at \in {"write", "bump"}
    BY <2>2 DEF Blockers, Kinds
  \* ... and has no zone yet, ...
  <2>4. ASSUME NEW u \in S PROVE tx[u].at = "write"
    <3>1. PICK v \in S : v \in Blockers(u)
      BY <2>2
    <3>2. tx[v].held = {}
      BY <2>3 DEF HoldsNothing
    <3>3. tx[u].at = "bump" => FALSE
      BY <3>1, <3>2 DEF Blockers, ZoneHolders
    <3> QED
      BY <3>3, <2>3
  \* ... so that it has nothing that another one waits for.
  <2>5. PICK u \in S : TRUE
    BY <2>1
  <2>6. PICK v \in S : v \in Blockers(u)
    BY <2>2
  <2>7. tx[v].added = {} /\ tx[v].gone = {}
    BY <2>4 DEF HoldsNothing
  <2> QED
    BY <2>4, <2>6, <2>7 DEF Blockers, RowHolders, KeyHolders
<1> QED
  BY <1>1, <1>2, PTL
=============================================================================
