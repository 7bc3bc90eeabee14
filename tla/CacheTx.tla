------------------------------- MODULE CacheTx -------------------------------
(***************************************************************************)
(* The cache transactions statement by statement, as PostgreSQL runs them  *)
(* under READ COMMITTED: each statement sees what is committed when it     *)
(* begins, waits for rows and keys that another transaction has touched,   *)
(* and goes on with what it finds then.  A transaction's rows become       *)
(* visible when it commits; a deadlock costs one of its members.           *)
(*                                                                         *)
(*   record request   INSERT, UPDATE or DELETE one row; bump the zone      *)
(*   sync             per zone: upsert the zone; DELETE; INSERTs           *)
(*   apply refresh    DELETE; INSERTs, without a statement on the zone     *)
(*                                                                         *)
(* An INSERT also takes a KEY SHARE lock on its zone; neither an upsert    *)
(* nor a bump changes the key of a zone, so it waits for neither.          *)
(***************************************************************************)
EXTENDS Integers, FiniteSets

CONSTANTS
  Zones, Rids, Vals, Txs, Old, None, Jobs, Caches,   \* as in AtomicCache
  MaxConns   \* size of the connection pool

VARIABLES
  job, rows, serial, target,   \* as in AtomicCache; rows are the committed ones
  tx                           \* tx[t]: how far the transaction of t is

Atomic == INSTANCE AtomicCache WITH
            open <- {t \in Txs : tx[t].at \notin {"audit", "done"}}

ASSUME JobsAssumption ==
  /\ Jobs \subseteq Atomic!WriteJob \cup Atomic!ReplaceJob
  /\ \A j \in Jobs \cap Atomic!ReplaceJob : Atomic!UniqueKeys(j.recs) /\ \A x \in j.recs : x.zone \in j.zones
ASSUME CachesAssumption ==
  /\ Caches \subseteq SUBSET Atomic!Record
  /\ \A c \in Caches : Atomic!UniqueKeys(c)
ASSUME NamesAssumption == Old \notin Txs /\ None \notin Zones \cup Atomic!Ids
ASSUME ConnsAssumption == MaxConns \in Nat \ {0}

vars == <<job, rows, serial, target, tx>>

Record == Atomic!Record
Row    == Atomic!Row
Ids    == Atomic!Ids
Key(x) == Atomic!Key(x)
Id(row) == Atomic!Id(row)
RowOf(x, t) == Atomic!RowOf(x, t)
Changes(t)  == job[t].op \in {"update", "delete"}
Replaces(t) == job[t].op \in {"sync", "refresh"}

\* todo: the zones still to replace; zone: the one being replaced; doomed and
\* left: what its DELETE and its INSERTs have yet to do; added and gone: the
\* rows this transaction has inserted and the ids it has deleted or changed;
\* held: the zone rows it has changed.
NoTx == [at |-> "ready", todo |-> {}, zone |-> None, doomed |-> {}, left |-> {},
         added |-> {}, gone |-> {}, held |-> {}]

Running == {"write", "bump", "pick", "upsert", "select", "replace", "commit"}

TypeOK ==
  /\ job \in [Txs -> Jobs]
  /\ rows \in SUBSET Row
  /\ serial \in [Zones -> Nat]
  /\ target \in [Txs -> Ids \cup {None}]
  /\ tx \in [Txs -> [at : Running \cup {"ready", "audit", "done"},
                     todo : SUBSET Zones, zone : Zones \cup {None},
                     doomed : SUBSET Ids, left : SUBSET Record,
                     added : SUBSET Row, gone : SUBSET Ids, held : SUBSET Zones]]

Init ==
  /\ job \in [Txs -> Jobs]
  /\ \E c \in Caches : rows = {RowOf(x, Old) : x \in c}
  /\ serial = [z \in Zones |-> 1]
  /\ target = [t \in Txs |-> None]
  /\ tx = [t \in Txs |-> [NoTx EXCEPT !.todo = IF Replaces(t) THEN job[t].zones ELSE {}]]
-----------------------------------------------------------------------------
\* Locks and connections.

InTxOrAudit(t) == tx[t].at \in Running \cup {"audit"}
InTx(t) == tx[t].at \in Running
Free == Cardinality({t \in Txs : InTx(t)}) < MaxConns

RowHolders(id) == {u \in Txs : id \in tx[u].gone}
ZoneHolders(z) == {u \in Txs : z \in tx[u].held}

\* A key is held by a transaction that has inserted it, or deleted or changed
\* the row that has it.
KeyHolders(k) ==
  {u \in Txs : \/ \E row \in tx[u].added : Key(row) = k
               \/ \E row \in rows : Key(row) = k /\ Id(row) \in tx[u].gone}

\* The transactions that a statement of t waits for.
Blockers(t) ==
  CASE tx[t].at = "write" -> (IF Changes(t) THEN RowHolders(target[t])
                              ELSE KeyHolders(Key(job[t].rec))) \ {t}
    [] tx[t].at = "bump" -> ZoneHolders(job[t].rec.zone) \ {t}
    [] tx[t].at = "upsert" -> ZoneHolders(tx[t].zone) \ {t}
    [] tx[t].at = "replace" ->
         (IF tx[t].doomed # {} THEN UNION {RowHolders(id) : id \in tx[t].doomed}
          ELSE UNION {KeyHolders(Key(x)) : x \in tx[t].left}) \ {t}
    [] OTHER -> {}

\* t is one of a set of transactions of which each waits, over others of the
\* set, for every other one.
Deadlocked(S) ==
  /\ Cardinality(S) > 1
  /\ \A A \in (SUBSET S) \ {{}, S} : \E u \in A, v \in S \ A : v \in Blockers(u)

\* UNIQUE (zone_id, remote_record_id), as t sees it.
Taken(t, k) ==
  \/ \E row \in rows : Key(row) = k /\ Id(row) \notin tx[t].gone
  \/ \E row \in tx[t].added : Key(row) = k

\* No row, serial or target changes.
Keeps == UNCHANGED <<job, rows, serial, target>>

\* The transaction is rolled back and its connection returned.  An apply goes
\* on to its audit entry, the other requests answer an error.
Rollback(t) ==
  tx' = [tx EXCEPT ![t] = [NoTx EXCEPT !.at = IF job[t].op = "refresh" THEN "audit" ELSE "done"]]
-----------------------------------------------------------------------------
\* PATCH and DELETE read the row by its id before they call the provider.
Read(t) ==
  /\ tx[t].at = "ready" /\ Changes(t) /\ target[t] = None /\ Free
  /\ \E row \in rows :
       Key(row) = Key(job[t].rec) /\ target' = [target EXCEPT ![t] = Id(row)]
  /\ UNCHANGED <<job, rows, serial, tx>>

NotFound(t) ==
  /\ tx[t].at = "ready" /\ Changes(t) /\ target[t] = None /\ Free
  /\ \A row \in rows : Key(row) # Key(job[t].rec)
  /\ tx' = [tx EXCEPT ![t].at = "done"]
  /\ Keeps

\* writeRecordTx: the row first, then the serial.
DeleteBumpsFirst(t) ==
  IF job[t].op # "delete" THEN [ready |-> "write", write |-> "bump", bump |-> "commit"]
  ELSE [ready |-> "bump", bump |-> "write", write |-> "commit"]
After(t) == [ready |-> "write", write |-> "bump", bump |-> "commit"]

Begin(t) ==
  /\ tx[t].at = "ready" /\ Free
  /\ Changes(t) => target[t] # None
  /\ tx' = [tx EXCEPT ![t].at = IF Replaces(t) THEN "pick" ELSE After(t).ready]
  /\ Keeps

\* insertRecord, updateRecordRow, deleteRecord.  An id that is gone is no error.
WriteRecord(t) ==
  /\ tx[t].at = "write" /\ Blockers(t) = {}
  /\ IF job[t].op = "insert"
     THEN IF Taken(t, Key(job[t].rec)) THEN Rollback(t)
          ELSE tx' = [tx EXCEPT ![t].at = After(t).write, ![t].added = {RowOf(job[t].rec, t)}]
     ELSE LET found == {row \in rows : Id(row) = target[t]} IN
          tx' = [tx EXCEPT ![t].at = After(t).write,
                   ![t].gone = {Id(row) : row \in found},
                   ![t].added = IF job[t].op = "delete" THEN {}
                                ELSE {[row EXCEPT !.val = job[t].rec.val] : row \in found}]
  /\ Keeps

\* bumpZoneSerial
BumpSerial(t) ==
  /\ tx[t].at = "bump" /\ Blockers(t) = {}
  /\ tx' = [tx EXCEPT ![t].at = After(t).bump, ![t].held = {job[t].rec.zone}]
  /\ Keeps
-----------------------------------------------------------------------------
\* The zones of a sync are taken in the order the provider listed them in,
\* which is left open.
PickUnlocked(t) == "select"
AfterPick(t) == IF job[t].op = "sync" THEN "upsert" ELSE "select"
Pick(t, z) ==
  /\ tx[t].at = "pick" /\ z \in tx[t].todo
  /\ tx' = [tx EXCEPT ![t].at = AfterPick(t), ![t].todo = @ \ {z}, ![t].zone = z]
  /\ Keeps

\* upsertZone; an INSERT that meets another one of the same zone waits as well.
Upsert(t) ==
  /\ tx[t].at = "upsert" /\ Blockers(t) = {}
  /\ tx' = [tx EXCEPT ![t].at = "select", ![t].held = @ \cup {tx[t].zone}]
  /\ Keeps

\* replaceZoneRecords: the DELETE begins.  It will see the rows committed now.
SelectKeys(t) ==
  /\ tx[t].at = "select"
  /\ tx' = [tx EXCEPT ![t].at = "replace",
              ![t].doomed = {Key(row) : row \in {x \in rows : x.zone = tx[t].zone}},
              ![t].left = {x \in job[t].recs : x.zone = tx[t].zone}]
  /\ Keeps
Select(t) ==
  /\ tx[t].at = "select"
  /\ tx' = [tx EXCEPT ![t].at = "replace",
              ![t].doomed = {Id(row) : row \in {x \in rows : x.zone = tx[t].zone}},
              ![t].left = {x \in job[t].recs : x.zone = tx[t].zone}]
  /\ Keeps

\* A row that was changed meanwhile is deleted all the same, one that was
\* deleted is passed over.
DeleteRow(t, id) ==
  /\ tx[t].at = "replace" /\ id \in tx[t].doomed
  /\ RowHolders(id) \subseteq {t}
  /\ tx' = [tx EXCEPT ![t].doomed = @ \ {id},
              ![t].gone = @ \cup ({id} \cap {Id(row) : row \in rows})]
  /\ Keeps

InsertRow(t, x) ==
  /\ tx[t].at = "replace" /\ tx[t].doomed = {} /\ x \in tx[t].left
  /\ KeyHolders(Key(x)) \subseteq {t}
  /\ IF Taken(t, Key(x)) THEN Rollback(t)
     ELSE tx' = [tx EXCEPT ![t].left = @ \ {x}, ![t].added = @ \cup {RowOf(x, t)}]
  /\ Keeps

ZoneDone(t) ==
  /\ tx[t].at = "replace" /\ tx[t].doomed = {} /\ tx[t].left = {}
  /\ tx' = [tx EXCEPT ![t].at = "pick", ![t].zone = None]
  /\ Keeps
-----------------------------------------------------------------------------
Ready(t) == tx[t].at = "commit" \/ (tx[t].at = "pick" /\ tx[t].todo = {})

Commit(t) ==
  /\ Ready(t)
  /\ rows' = {row \in rows : Id(row) \notin tx[t].gone} \cup tx[t].added
  /\ serial' = IF Replaces(t) THEN serial
               ELSE [serial EXCEPT ![job[t].rec.zone] = @ + 1]
  /\ tx' = [tx EXCEPT ![t] = [NoTx EXCEPT !.at = "audit"]]
  /\ UNCHANGED <<job, target>>

\* writeAudit takes a connection of its own, after that of the transaction.
Audit(t) ==
  /\ tx[t].at = "audit" /\ Free
  /\ tx' = [tx EXCEPT ![t].at = "done"]
  /\ Keeps

\* The database ends a deadlock by failing a statement of one transaction.
DeadlockAborts(t) ==
  /\ \E S \in SUBSET Txs : t \in S /\ Deadlocked(S)
  /\ Rollback(t)
  /\ Keeps

\* The client goes away, the connection breaks, the service dies: whatever was
\* not committed is rolled back.
Cancel(t) ==
  /\ tx[t].at = "ready" \/ InTx(t)
  /\ Rollback(t)
  /\ Keeps

Step(t) ==
  \/ Read(t) \/ NotFound(t) \/ Begin(t) \/ WriteRecord(t) \/ BumpSerial(t)
  \/ (\E z \in Zones : Pick(t, z)) \/ Upsert(t) \/ Select(t)
  \/ (\E id \in tx[t].doomed : DeleteRow(t, id))
  \/ (\E x \in tx[t].left : InsertRow(t, x))
  \/ ZoneDone(t) \/ Commit(t) \/ Audit(t)

Next == \E t \in Txs : Step(t) \/ DeadlockAborts(t) \/ Cancel(t)

Spec == Init /\ [][Next]_vars

\* While a statement can run or a deadlock is to be found, something happens.
FairSpec == Spec /\ WF_vars(\E t \in Txs : Step(t) \/ DeadlockAborts(t))
-----------------------------------------------------------------------------
\* Statement by statement, the transactions are the steps of AtomicCache: a
\* sync replaces its zones as one step whatever record requests do meanwhile,
\* and a record request changes row and serial together (sync_handlers.go:6,
\* records_store.go:65).  The other models rest on it.
IsAtomic == Atomic!Spec

\* Every request ends, though requests wait for each other's rows, keys and
\* zones, deadlock, and share a pool that may be smaller than their number.
AllEnd == <>(\A t \in Txs : tx[t].at = "done")

\* Record requests among themselves never deadlock: every deadlock has a sync
\* or a refresh in it (records_store.go:69, the order of row and zone).
DeadlockNeedsReplace ==
  \A S \in SUBSET Txs : Deadlocked(S) => \E t \in S : Replaces(t)
=============================================================================
