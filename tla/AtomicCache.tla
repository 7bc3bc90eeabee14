----------------------------- MODULE AtomicCache -----------------------------
(***************************************************************************)
(* What the rest of the service may take a cache transaction for: one      *)
(* step that happens or does not.  Record requests insert, change or       *)
(* delete one row and advance the serial of its zone (writeRecordTx); a    *)
(* sync replaces the rows of all its zones, the refresh of an apply those  *)
(* of one zone (replaceZoneRecords).                                       *)
(*                                                                         *)
(* A row is known by its dr_ id, fresh at every insert.  Here the id is    *)
(* the record and the transaction that inserted it, or Old.                *)
(***************************************************************************)
EXTENDS Integers

CONSTANTS
  Zones, Rids, Vals,
  Txs,       \* the requests, each of which has one transaction
  Old,       \* who inserted the rows that are there from the start
  None,      \* no row
  Jobs,      \* what a request may be about
  Caches     \* the records that may be cached to begin with

Record == [zone : Zones, rid : Rids, val : Vals]
Row    == [zone : Zones, rid : Rids, val : Vals, by : Txs \cup {Old}]
Ids    == Zones \X Rids \X (Txs \cup {Old})

Key(x)  == <<x.zone, x.rid>>
Id(row) == <<row.zone, row.rid, row.by>>
RowOf(x, t) == [zone |-> x.zone, rid |-> x.rid, val |-> x.val, by |-> t]

\* A record request names a record, a replacement its zones and their listing.
WriteJob   == [op : {"insert", "update", "delete"}, rec : Record]
ReplaceJob == [op : {"sync", "refresh"}, zones : SUBSET Zones, recs : SUBSET Record]

\* UNIQUE (zone_id, remote_record_id)
UniqueKeys(R) == \A x, y \in R : Key(x) = Key(y) => x = y

VARIABLES
  job,      \* job[t]: what request t is about
  rows,     \* dns_record
  serial,   \* dns_zone.serial
  target,   \* target[t]: the id of the row that t has read and will change
  open      \* the requests whose transaction is still to come or under way

Changes(t)  == job[t].op \in {"update", "delete"}
Replaces(t) == job[t].op \in {"sync", "refresh"}
ZonesOf(t)  == IF Replaces(t) THEN job[t].zones ELSE {job[t].rec.zone}
Fresh(t)    == {RowOf(x, t) : x \in job[t].recs}

\* A refresh does not lock the zone row: whatever shares its zone may run
\* between its statements, and it between theirs.
Unguarded(t) ==
  \E u \in Txs \ {t} :
    /\ job[t].op = "refresh" \/ job[u].op = "refresh"
    /\ ZonesOf(t) \cap ZonesOf(u) # {}
-----------------------------------------------------------------------------
Init ==
  /\ job \in [Txs -> Jobs]
  /\ \E c \in Caches : rows = {RowOf(x, Old) : x \in c}
  /\ serial = [z \in Zones |-> 1]
  /\ target = [t \in Txs |-> None]
  /\ open = Txs

Ends(t) == t \in open /\ open' = open \ {t}
Bump(z) == serial' = [serial EXCEPT ![z] = @ + 1]

Read(t) ==
  /\ t \in open /\ Changes(t) /\ target[t] = None
  /\ \E row \in rows :
       Key(row) = Key(job[t].rec) /\ target' = [target EXCEPT ![t] = Id(row)]
  /\ UNCHANGED <<job, rows, serial, open>>

Insert(t) ==
  /\ Ends(t) /\ job[t].op = "insert"
  /\ \A row \in rows : Key(row) # Key(job[t].rec)
  /\ rows' = rows \cup {RowOf(job[t].rec, t)}
  /\ Bump(job[t].rec.zone)
  /\ UNCHANGED <<job, target>>

\* The row with the id that t has read is changed or deleted, if there is one.
Change(t) ==
  /\ Ends(t) /\ Changes(t) /\ target[t] # None
  /\ rows' = {row \in rows : Id(row) # target[t]}
       \cup IF job[t].op = "delete" THEN {}
            ELSE {[row EXCEPT !.val = job[t].rec.val] : row \in {x \in rows : Id(x) = target[t]}}
  /\ Bump(job[t].rec.zone)
  /\ UNCHANGED <<job, target>>

\* The zones hold what was listed, and nothing else unless t is unguarded;
\* and then no row that was there from the start.
Replace(t) ==
  /\ Ends(t) /\ Replaces(t)
  /\ \E kept \in SUBSET {row \in rows : row.zone \in ZonesOf(t) /\ row.by # Old} :
       /\ kept # {} => Unguarded(t)
       /\ rows' = {row \in rows : row.zone \notin ZonesOf(t)} \cup kept \cup Fresh(t)
       /\ UniqueKeys(rows')
  /\ UNCHANGED <<job, serial, target>>

\* The transaction fails, or never begins.
Fail(t) == Ends(t) /\ UNCHANGED <<job, rows, serial, target>>

Next == \E t \in Txs : Read(t) \/ Insert(t) \/ Change(t) \/ Replace(t) \/ Fail(t)

vars == <<job, rows, serial, target, open>>
Spec == Init /\ [][Next]_vars
=============================================================================
