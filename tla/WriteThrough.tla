---------------------------- MODULE WriteThrough ----------------------------
(***************************************************************************)
(* The record cache of one provider account: the write-through handlers of *)
(* records_handlers.go, the sync of sync_handlers.go, the refresh that     *)
(* ends an apply (apply_handlers.go) and the account's deletion,           *)
(* interleaved with each other, with whatever else changes the same zones  *)
(* at the provider (its console, the calls of an apply's plan), with lost  *)
(* answers, failing database transactions and crashes of the service.      *)
(*                                                                         *)
(* One step is one thing the rest of the system can observe: the cache     *)
(* read a handler decides on, one call the provider performs, one page of  *)
(* a listing, one database transaction, one audit insert.  A handler waits *)
(* between them.                                                           *)
(*                                                                         *)
(* A zone stands for its name and its provider handle together, so the     *)
(* UNIQUE keys of the schema are the index of the functions below: a zone  *)
(* is cached once, and at most one row of it holds a remote handle.        *)
(***************************************************************************)
EXTENDS Integers, FiniteSets

CONSTANTS
  Zones,         \* zones the account may have at the provider
  Rids,          \* record handles the provider may mint
  Fields,        \* the fields of a record a PATCH can name one by one
  Vals,          \* the values of a field
  Writers,       \* record requests that can be in flight together
  Syncs,         \* syncs and applies that can be in flight together
  Before,        \* the provider lists record q before r: <<q, r>> \in Before
  PerPage,       \* records on a page of a listing
  None,          \* the missing value: no record, no row, a nil field
  MaxRequests,   \* bound: requests the service accepts in one behaviour
  MaxEdits       \* bound: changes made at the provider by others

Data == [Fields -> Vals]
Row  == [id : Nat, data : Data]

ASSUME NoneAssumption ==
  None \notin Zones /\ None \notin Rids /\ None \notin Vals /\ None \notin Data
    /\ None \notin Row
ASSUME ListingAssumption ==
  IsFiniteSet(Rids) /\ Before \subseteq Rids \X Rids /\ PerPage \in Nat \ {0}
ASSUME BoundAssumption == MaxRequests \in Nat /\ MaxEdits \in Nat

VARIABLES
  account,   \* does the dns_provider row exist?
  hosted,    \* the zones that exist at the provider
  remote,    \* the provider's records: remote[z][r] is a Data or None
  minted,    \* the handles the provider has given out so far
  zones,     \* the zones in dns_zone
  rows,      \* dns_record: rows[z][r] is None or the row with that handle
  serial,    \* dns_zone.serial, 0 for a zone without a row
  nextId,    \* source of fresh dr_ ids
  audit,     \* dns_audit_log
  wr,        \* wr[w]: where record request w stands
  sy,        \* sy[s]: where the sync, or the apply's refresh, s stands
  requests,  \* requests accepted so far, up to MaxRequests
  edits,     \* changes by others so far, up to MaxEdits
  held,      \* history: <<z, r, d>> such that remote[z][r] has been d
  stale,     \* history: stale[s] are the records changed since s listed them,
             \* and those that its pages have missed
  dirty      \* history: the records whose cache nobody promises anything of

remoteVars == <<hosted, remote, minted>>
cacheVars  == <<zones, rows, serial, nextId>>
history    == <<held, stale, dirty>>
vars == <<account, remoteVars, cacheVars, audit, wr, sy, requests, edits, history>>

Empty == [r \in Rids |-> None]
Op    == {"create", "update", "delete"}

\* A request waits for the provider ("call"), then to commit ("write"), then to
\* log ("audit").  A sync lists the zones of todo, a refresh its one zone, page by
\* page ("list"): zone is the one under way, offset what its pages so far amount
\* to.  When all is collected it commits and logs.  twice says that a page
\* repeated a record; beside are the rows that others have inserted next to the
\* transaction, so that its DELETE may not have seen them.
NoWrite == [at |-> "idle", op |-> None, zone |-> None, rid |-> None,
            id |-> 0, data |-> None, names |-> {}]
NoSync  == [at |-> "idle", op |-> "sync", todo |-> {}, zone |-> None, offset |-> 0, done |-> {},
            snap |-> [z \in Zones |-> Empty], twice |-> FALSE, beside |-> {}]

Stages == {"call", "write", "audit"}
WriteJob ==
  {j \in [at : Stages, op : Op, zone : Zones, rid : Rids \cup {None},
           id : Nat, data : Data \cup {None}, names : SUBSET Fields] :
     /\ j.rid = None => j.op = "create" /\ j.at = "call"
     /\ j.data = None <=> j.op = "delete"}
SyncJob ==
  [at : {"idle", "list", "audit"}, op : {"sync", "apply"}, todo : SUBSET Zones,
   zone : Zones \cup {None}, offset : Nat, done : SUBSET Zones,
   snap : [Zones -> [Rids -> Data \cup {None}]], twice : BOOLEAN,
   beside : SUBSET (Zones \X Rids)]
AuditEntry ==
  [op : Op \cup {"sync", "apply", "drop"}, zone : Zones \cup {None},
   rid : Rids \cup {None}, data : Data \cup {None}]

TypeOK ==
  /\ account \in BOOLEAN
  /\ hosted \in SUBSET Zones
  /\ remote \in [Zones -> [Rids -> Data \cup {None}]]
  /\ minted \in SUBSET Rids
  /\ zones \in SUBSET Zones
  /\ rows \in [Zones -> [Rids -> Row \cup {None}]]
  /\ serial \in [Zones -> Nat]
  /\ nextId \in Nat
  /\ audit \in SUBSET AuditEntry
  /\ wr \in [Writers -> WriteJob \cup {NoWrite}]
  /\ sy \in [Syncs -> SyncJob]
  /\ requests \in Nat /\ edits \in Nat
  /\ held \in SUBSET (Zones \X Rids \X Data)
  /\ stale \in [Syncs -> SUBSET (Zones \X Rids)]
  /\ dirty \in SUBSET (Zones \X Rids)
-----------------------------------------------------------------------------
\* The service starts on a database that is empty or was synced before.

Present(recs) == {r \in Rids : recs[r] # None}

Init ==
  /\ account = TRUE
  /\ hosted \in SUBSET Zones
  /\ remote \in [Zones -> [Rids -> Data \cup {None}]]
  /\ \A z \in Zones \ hosted : remote[z] = Empty
  /\ \A y, z \in Zones : y # z => Present(remote[y]) \cap Present(remote[z]) = {}
  /\ minted = UNION {Present(remote[z]) : z \in Zones}
  /\ zones \in {{}, hosted}
  /\ rows = [z \in Zones |-> [r \in Rids |->
              IF z \in zones /\ remote[z][r] # None
              THEN [id |-> 0, data |-> remote[z][r]] ELSE None]]
  /\ serial = [z \in Zones |-> IF z \in zones THEN 1 ELSE 0]
  /\ nextId = 1
  /\ audit = {}
  /\ wr = [w \in Writers |-> NoWrite]
  /\ sy = [s \in Syncs |-> NoSync]
  /\ requests = 0 /\ edits = 0
  /\ held = {x \in Zones \X Rids \X Data : remote[x[1]][x[2]] = x[3]}
  /\ stale = [s \in Syncs |-> {}]
  /\ dirty = {}
-----------------------------------------------------------------------------
\* The provider's side.

\* The place of r in a listing of z: how many records come before it.
Position(z, r) == Cardinality({q \in Present(remote[z]) \ {r} : <<q, r>> \in Before})

\* The pages that s has read are past the place of r.
Passed(s, z, r) ==
  \/ z \in sy[s].done
  \/ sy[s].zone = z /\ (sy[s].snap[z][r] # None \/ Position(z, r) < sy[s].offset)

\* When a record goes, all that come after it move up; when one of them was to be
\* read next it is missed.
Missed(s, z, r) ==
  {q \in Present(remote[z]) :
     sy[s].zone = z /\ <<r, q>> \in Before /\ Position(z, q) = sy[s].offset}

\* Record r of zone z becomes d (None: it is deleted), whoever asked for it.
Store(z, r, d) ==
  /\ remote' = [remote EXCEPT ![z][r] = d]
  /\ held' = IF d = None THEN held ELSE held \cup {<<z, r, d>>}
  /\ stale' = [s \in Syncs |->
                 stale[s] \cup (IF Passed(s, z, r) THEN {<<z, r>>} ELSE {})
                          \cup (IF d = None THEN {z} \X Missed(s, z, r) ELSE {})]

\* Someone else creates, edits or deletes a record at the provider: at its
\* console, or by the plan of an apply (ZoneApply says by which calls).
RemoteChange(z, r, d) ==
  /\ edits < MaxEdits /\ edits' = edits + 1
  /\ z \in hosted
  /\ r \in minted => remote[z][r] # None
  /\ d # remote[z][r]
  /\ minted' = minted \cup {r}
  /\ Store(z, r, d)
  /\ dirty' = dirty \cup {<<z, r>>}
  /\ UNCHANGED <<account, hosted, cacheVars, audit, wr, sy, requests>>

\* Someone adds an empty zone to the account, or takes a zone away.
RemoteAddZone(z) ==
  /\ edits < MaxEdits /\ edits' = edits + 1
  /\ z \notin hosted
  /\ hosted' = hosted \cup {z}
  /\ UNCHANGED <<account, remote, minted, cacheVars, audit, wr, sy, requests, history>>

RemoteDropZone(z) ==
  /\ edits < MaxEdits /\ edits' = edits + 1
  /\ z \in hosted
  /\ hosted' = hosted \ {z}
  /\ remote' = [remote EXCEPT ![z] = Empty]
  /\ stale' = [s \in Syncs |-> IF z \in sy[s].done \cup {sy[s].zone}
                               THEN stale[s] \cup ({z} \X Rids) ELSE stale[s]]
  /\ dirty' = dirty \cup ({z} \X Rids)
  /\ UNCHANGED <<account, minted, cacheVars, audit, wr, sy, requests, held>>
-----------------------------------------------------------------------------
\* Record requests, up to the provider call.

Accept == requests < MaxRequests /\ requests' = requests + 1

\* A PATCH overlays the fields it names (not None) on the current record.
PatchedRaw(cur, patch) == patch
Patched(cur, patch) == [f \in Fields |-> IF patch[f] = None THEN cur[f] ELSE patch[f]]
Named(patch) == {f \in Fields : patch[f] # None}

\* What every record handler needs before it calls the provider: the zone and
\* account rows.  They are read one after the other; a row that goes away in
\* between is an error answer, as it is when it is gone from the start.
Ready(w, z) == wr[w].at = "idle" /\ account /\ z \in zones

Call(w, op, z, r, id, d, names) ==
  /\ wr' = [wr EXCEPT ![w] = [at |-> "call", op |-> op, zone |-> z, rid |-> r,
                               id |-> id, data |-> d, names |-> names]]
  /\ Accept
  /\ UNCHANGED <<account, remoteVars, cacheVars, audit, sy, edits, history>>

StartCreate(w, z, d) == Ready(w, z) /\ Call(w, "create", z, None, 0, d, {})

StartUpdate(w, z, r, patch) ==
  /\ Ready(w, z) /\ rows[z][r] # None
  /\ Call(w, "update", z, r, rows[z][r].id, Patched(rows[z][r].data, patch), Named(patch))

StartDelete(w, z, r) ==
  /\ Ready(w, z) /\ rows[z][r] # None
  /\ Call(w, "delete", z, r, rows[z][r].id, None, {})
-----------------------------------------------------------------------------
\* The provider call.  The answer may be lost after the provider has acted (a
\* timeout, a dropped connection, a client that went away): the handler then
\* reports an error and does nothing more.

Finish(w) == wr' = [wr EXCEPT ![w] = NoWrite]

\* Is the row the request read still there, under the id it had?
SameRow(w) ==
  LET row == rows[wr[w].zone][wr[w].rid] IN row # None /\ row.id = wr[w].id

\* The provider acts for w while another request on the record has yet to
\* commit, or after a sync or a refresh has replaced the row that w is going to write.
Overlapped(w, z, r) ==
  \/ \E v \in Writers \ {w} : wr[v].at = "write" /\ wr[v].zone = z /\ wr[v].rid = r
  \/ wr[w].op # "create" /\ ~SameRow(w)

\* The provider has made record r what the request asked for.
Answered(w, r, arrives) ==
  LET z == wr[w].zone IN
  /\ IF arrives
       THEN wr' = [wr EXCEPT ![w].at = "write", ![w].rid = r]
       ELSE Finish(w)
  /\ dirty' = IF arrives /\ ~Overlapped(w, z, r) THEN dirty ELSE dirty \cup {<<z, r>>}
  /\ UNCHANGED <<account, hosted, cacheVars, audit, sy, requests, edits>>

ProviderCreates(w, r, arrives) ==
  /\ wr[w].at = "call" /\ wr[w].op = "create"
  /\ wr[w].zone \in hosted /\ r \notin minted
  /\ minted' = minted \cup {r}
  /\ Store(wr[w].zone, r, wr[w].data)
  /\ Answered(w, r, arrives)

\* UpdateRecord (a PUT of the whole record) and DeleteRecord: a handle the
\* provider no longer knows is an error.
ProviderChanges(w, arrives) ==
  /\ wr[w].at = "call" /\ wr[w].op \in {"update", "delete"}
  /\ remote[wr[w].zone][wr[w].rid] # None
  /\ Store(wr[w].zone, wr[w].rid, wr[w].data)
  /\ Answered(w, wr[w].rid, arrives)
  /\ UNCHANGED minted

\* The call failed and changed nothing: the cache is left alone.
ErrorIgnored(w) ==
  /\ wr[w].at = "call" /\ wr[w].op # "create"
  /\ wr' = [wr EXCEPT ![w].at = "write"]
  /\ UNCHANGED <<account, remoteVars, cacheVars, audit, sy, requests, edits, history>>
ProviderFails(w) ==
  /\ wr[w].at = "call"
  /\ Finish(w)
  /\ UNCHANGED <<account, remoteVars, cacheVars, audit, sy, requests, edits, history>>
-----------------------------------------------------------------------------
\* The cache transaction and the audit.

Committed(w) == wr' = [wr EXCEPT ![w].at = "audit"]

\* bumpZoneSerial: no row, no change.
NotBumped(z) == serial
Bumped(z) == [serial EXCEPT ![z] = IF z \in zones THEN @ + 1 ELSE @]

\* A transaction has inserted rows into zones whose records t is replacing.  A
\* refresh does not lock the zone row (AtomicCache!Unguarded): beside one, rows
\* that come in between its DELETE and its commit stay.
Collected(t) == sy[t].at = "list" /\ sy[t].todo = {} /\ sy[t].zone = None
Noted(op, new) ==
  [t \in Syncs |-> IF Collected(t) /\ (op = "apply" \/ sy[t].op = "apply")
                   THEN [sy[t] EXCEPT !.beside = @ \cup {x \in new : x[1] \in sy[t].done}]
                   ELSE sy[t]]

CommitCreate(w) ==
  LET z == wr[w].zone  r == wr[w].rid IN
  /\ wr[w].at = "write" /\ wr[w].op = "create"
  /\ z \in zones                    \* foreign key
  /\ rows[z][r] = None              \* UNIQUE (zone_id, remote_record_id)
  /\ rows' = [rows EXCEPT ![z][r] = [id |-> nextId, data |-> wr[w].data]]
  /\ nextId' = nextId + 1
  /\ serial' = Bumped(z)
  /\ Committed(w)
  /\ sy' = Noted("create", {<<z, r>>})
  /\ UNCHANGED <<account, remoteVars, zones, audit, requests, edits, history>>

\* UPDATE and DELETE name the row by its id: when it was replaced since the
\* request read it they touch nothing, and that is no error.
CommitChange(w) ==
  LET z == wr[w].zone  r == wr[w].rid IN
  /\ wr[w].at = "write" /\ wr[w].op \in {"update", "delete"}
  /\ rows' = [rows EXCEPT ![z][r] =
                IF ~SameRow(w) THEN @
                ELSE IF wr[w].op = "delete" THEN None
                ELSE [id |-> wr[w].id, data |-> wr[w].data]]
  /\ serial' = Bumped(z)
  /\ Committed(w)
  /\ UNCHANGED <<account, remoteVars, zones, nextId, audit, sy, requests, edits, history>>

\* The transaction fails: a violated key, a deadlock, a cancelled request.
WriteFails(w) ==
  /\ wr[w].at = "write"
  /\ Finish(w)
  /\ dirty' = dirty \cup {<<wr[w].zone, wr[w].rid>>}
  /\ UNCHANGED <<account, remoteVars, cacheVars, audit, sy, requests, edits, held, stale>>

\* writeAudit is best effort: an insert that fails is only logged.
Logged(entry) == audit' = audit \cup {entry} \/ UNCHANGED audit

WriteAudit(w) ==
  /\ wr[w].at = "audit"
  /\ Logged([op |-> wr[w].op, zone |-> wr[w].zone, rid |-> wr[w].rid, data |-> wr[w].data])
  /\ Finish(w)
  /\ UNCHANGED <<account, remoteVars, cacheVars, sy, requests, edits, history>>
-----------------------------------------------------------------------------
\* Pending(z, r): a request has changed record r at the provider and has yet to
\* commit to the cache.
Pending(z, r) == \E w \in Writers : wr[w].at = "write" /\ wr[w].zone = z /\ wr[w].rid = r

\* The sync: every zone and record is listed first, page after page; one
\* transaction then stores what was collected.  The refresh of an apply does the
\* same with one zone, once its plan has been executed.  The zones are listed in
\* pages too, and a page that is lost leaves its zones out.

StartSync(s, listed) ==
  /\ sy[s].at = "idle" /\ account /\ listed \subseteq hosted
  /\ sy' = [sy EXCEPT ![s].at = "list", ![s].todo = listed]
  /\ Accept
  /\ UNCHANGED <<account, remoteVars, cacheVars, audit, wr, edits, history>>

StartRefresh(s, z) ==
  /\ sy[s].at = "idle" /\ account /\ z \in zones
  /\ sy' = [sy EXCEPT ![s].at = "list", ![s].op = "apply", ![s].todo = {z}]
  /\ Accept
  /\ UNCHANGED <<account, remoteVars, cacheVars, audit, wr, edits, history>>

\* The records of z from the offset on that fit on a page; is it the last one?
Page(s, z) == {r \in Present(remote[z]) :
                 Position(z, r) \in sy[s].offset .. sy[s].offset + PerPage - 1}
EndsEarly(s, z) == Cardinality(Present(remote[z])) <= sy[s].offset + 2 * PerPage
IsLast(s, z) == Cardinality(Present(remote[z])) <= sy[s].offset + PerPage

Lists(s, z) ==
  /\ sy[s].at = "list" /\ z \in hosted
  /\ sy[s].zone = z \/ (sy[s].zone = None /\ z \in sy[s].todo)
Read(s, z, page, last) ==
  sy' = [sy EXCEPT ![s] = [sy[s] EXCEPT
           !.todo = sy[s].todo \ {z},
           !.zone = IF last THEN None ELSE z,
           !.offset = IF last THEN 0 ELSE sy[s].offset + PerPage,
           !.done = IF last THEN sy[s].done \cup {z} ELSE sy[s].done,
           !.snap = [sy[s].snap EXCEPT ![z] =
                       [r \in Rids |-> IF r \in page THEN remote[z][r] ELSE sy[s].snap[z][r]]],
           !.twice = sy[s].twice \/ \E r \in page : sy[s].snap[z][r] # None]]

ListPage(s, z) ==
  /\ Lists(s, z)
  /\ Read(s, z, Page(s, z), IsLast(s, z))
  /\ UNCHANGED <<account, remoteVars, cacheVars, audit, wr, requests, edits, history>>

\* A page of Name.com without its body is an empty one, and the last.
PageLost(s, z) ==
  /\ Lists(s, z)
  /\ Read(s, z, {}, TRUE)
  /\ stale' = [stale EXCEPT ![s] = @ \cup {<<z, r>> : r \in {q \in Rids : ~Passed(s, z, q)}}]
  /\ UNCHANGED <<account, remoteVars, cacheVars, audit, wr, requests, edits, held, dirty>>

\* replaceZoneRecords: the rows of every listed zone are deleted, but for those
\* kept, and the listed records inserted under fresh ids.
MergedRows(s, kept) ==
  [z \in Zones |-> [r \in Rids |->
     IF z \in sy[s].done /\ sy[s].snap[z][r] # None
     THEN [id |-> nextId, data |-> sy[s].snap[z][r]] ELSE rows[z][r]]]
ReplacedRows(s, kept) ==
  [z \in Zones |-> [r \in Rids |->
     IF z \notin sy[s].done \/ <<z, r>> \in kept THEN rows[z][r]
     ELSE IF sy[s].snap[z][r] = None THEN None
     ELSE [id |-> nextId, data |-> sy[s].snap[z][r]]]]

\* UNIQUE (zone_id, remote_record_id): no record is listed twice, or listed and kept.
Replace(s) ==
  LET done == sy[s].done  snap == sy[s].snap
      listed == {x \in done \X Rids : snap[x[1]][x[2]] # None}
  IN
  /\ Collected(s) /\ ~sy[s].twice
  /\ \E kept \in SUBSET (sy[s].beside \ listed) :
       /\ \A x \in kept : rows[x[1]][x[2]] # None
       /\ rows' = ReplacedRows(s, kept)
       /\ dirty' = {x \in dirty : x[1] \notin done \/ x \in kept \/ Pending(x[1], x[2])} \cup stale[s]
  /\ nextId' = nextId + 1
  /\ sy' = [Noted(sy[s].op, listed) EXCEPT ![s] = [NoSync EXCEPT !.at = "audit", !.op = sy[s].op]]
  /\ stale' = [stale EXCEPT ![s] = {}]
  /\ UNCHANGED <<account, remoteVars, audit, wr, requests, edits, held>>

\* upsertZone and replaceZoneRecords for every listed zone: serials stay, and
\* zones the provider no longer has are not looked at.  Zones are inserted for an
\* account that exists (foreign key of dns_zone).
NoKey(s) == TRUE
AccountKey(s) == account \/ sy[s].done = {}
CommitSync(s) ==
  /\ sy[s].op = "sync" /\ AccountKey(s)
  /\ Replace(s)
  /\ zones' = zones \cup sy[s].done
  /\ serial' = [z \in Zones |-> IF z \in sy[s].done \ zones THEN 1 ELSE serial[z]]

\* replaceZoneRecords alone; records are inserted into a zone that exists.
ZoneKey(s) == \A z \in sy[s].done : z \in zones \/ sy[s].snap[z] = Empty
CommitRefresh(s) ==
  /\ sy[s].op = "apply" /\ ZoneKey(s)
  /\ Replace(s)
  /\ UNCHANGED <<zones, serial>>

\* A list call or the transaction fails: nothing was written.  The refresh is best
\* effort, and its apply goes on to the log.
Fails(s, op, at) ==
  /\ sy[s].at = "list" /\ sy[s].op = op
  /\ sy' = [sy EXCEPT ![s] = [NoSync EXCEPT !.at = at, !.op = op]]
  /\ stale' = [stale EXCEPT ![s] = {}]
  /\ UNCHANGED <<account, remoteVars, cacheVars, audit, wr, requests, edits, held, dirty>>
SyncFails(s) == Fails(s, "sync", "idle")
RefreshFails(s) == Fails(s, "apply", "audit")

AuditSync(s) ==
  /\ sy[s].at = "audit"
  /\ Logged([op |-> sy[s].op, zone |-> None, rid |-> None, data |-> None])
  /\ sy' = [sy EXCEPT ![s] = NoSync]
  /\ UNCHANGED <<account, remoteVars, cacheVars, wr, requests, edits, history>>
-----------------------------------------------------------------------------
\* The account goes, and its zones and records with it (ON DELETE CASCADE).
DeleteProvider ==
  /\ account
  /\ Accept
  /\ account' = FALSE
  /\ zones' = {}
  /\ rows' = [z \in Zones |-> Empty]
  /\ serial' = [z \in Zones |-> 0]
  /\ Logged([op |-> "drop", zone |-> None, rid |-> None, data |-> None])
  /\ UNCHANGED <<remoteVars, nextId, wr, sy, edits, history>>

\* The service dies and restarts: handlers are forgotten, the database and the
\* provider are not.
Crash ==
  /\ wr' = [w \in Writers |-> NoWrite]
  /\ sy' = [s \in Syncs |-> NoSync]
  /\ stale' = [s \in Syncs |-> {}]
  /\ dirty' = dirty \cup {<<wr[w].zone, wr[w].rid>> : w \in {v \in Writers : wr[v].at = "write"}}
  /\ UNCHANGED <<account, remoteVars, cacheVars, audit, requests, edits, held>>
-----------------------------------------------------------------------------
Console == \E z \in Zones :
  \/ RemoteAddZone(z) \/ RemoteDropZone(z)
  \/ \E r \in Rids, d \in Data \cup {None} : RemoteChange(z, r, d)

Write(w) ==
  \/ \E z \in Zones, d \in Data : StartCreate(w, z, d)
  \/ \E z \in Zones, r \in Rids, patch \in [Fields -> Vals \cup {None}] : StartUpdate(w, z, r, patch)
  \/ \E z \in Zones, r \in Rids : StartDelete(w, z, r)
  \/ \E r \in Rids, arrives \in BOOLEAN : ProviderCreates(w, r, arrives)
  \/ \E arrives \in BOOLEAN : ProviderChanges(w, arrives)
  \/ ProviderFails(w) \/ CommitCreate(w) \/ CommitChange(w)
  \/ WriteFails(w) \/ WriteAudit(w)

Sync(s) ==
  \/ \E listed \in SUBSET Zones : StartSync(s, listed)
  \/ \E z \in Zones : StartRefresh(s, z) \/ ListPage(s, z) \/ PageLost(s, z)
  \/ CommitSync(s) \/ SyncFails(s) \/ CommitRefresh(s) \/ RefreshFails(s) \/ AuditSync(s)

Next ==
  \/ Console
  \/ \E w \in Writers : Write(w)
  \/ \E s \in Syncs : Sync(s)
  \/ DeleteProvider
  \/ Crash

Spec == Init /\ [][Next]_vars
-----------------------------------------------------------------------------
\* What the cache promises.

\* The row of a record is what the provider holds.
Mirrors(z, r) == IF rows[z][r] = None THEN remote[z][r] = None
                 ELSE rows[z][r].data = remote[z][r]

\* A record is cached exactly as the provider holds it, whatever syncs, applies,
\* other records' requests, crashes and account changes ran meanwhile, unless,
\* since a sync or a refresh last listed it with no request on it pending,
\* someone else changed it at the provider, an answer or a transaction was lost, a
\* request on it overlapped another one or a sync, or such a listing missed it
\* because its page came without a body or another record left the zone between
\* two pages (sync_handlers.go:6, records_handlers.go:3).
MirrorUnlessDisturbed ==
  \A z \in zones, r \in Rids :
    <<z, r>> \notin dirty /\ ~Pending(z, r) => Mirrors(z, r)

\* A sync or a refresh repairs: its commit makes every record of the zones it
\* listed, that nobody changed and no page missed since, what the provider has
\* now, whatever the cache had of it and whichever requests are on it.  The one
\* exception is a row that was inserted beside a refresh (sync_handlers.go:6,
\* apply_handlers.go:142).
SyncMirrors ==
  [][\A s \in Syncs : CommitSync(s) \/ CommitRefresh(s) =>
       \A z \in sy[s].done, r \in Rids :
         <<z, r>> \notin stale[s] \cup sy[s].beside => Mirrors(z, r)']_vars

\* The provider comes first: the cache never shows a record the provider has
\* not held, however calls fail and answers get lost (records_handlers.go:3-6).
CacheFromProvider ==
  \A z \in Zones, r \in Rids : rows[z][r] # None => <<z, r, rows[z][r].data>> \in held

\* The log tells the truth about the provider: what it says was written was
\* held there, and a record it says was deleted is gone for good.
AuditTruth ==
  \A e \in audit :
    /\ e.op \in {"create", "update"} => <<e.zone, e.rid, e.data>> \in held
    /\ e.op = "delete" => remote[e.zone][e.rid] = None

\* Nothing of a deleted account stays or comes back, though requests and syncs
\* that began before the deletion finish after it (ON DELETE CASCADE, and the
\* foreign keys of dns-schema.sql:44 and :61).
NoOrphans ==
  /\ zones # {} => account
  /\ \A z \in Zones \ zones : rows[z] = Empty /\ serial[z] = 0
  /\ \A z \in zones : serial[z] >= 1

LogOf(z) == {e \in audit : e.op \in Op /\ e.zone = z}

\* Every change the log reports of a zone has advanced the zone's serial: the
\* version is at least one more than the number of logged record writes.
VersionCoversAudit == \A z \in zones : Cardinality(LogOf(z)) < serial[z]
-----------------------------------------------------------------------------
\* What a comment says and the code does not do.

\* records_handlers.go:69: a PATCH overlays the provided fields; the others
\* keep the value they have at the provider.
PatchKeepsOtherFields ==
  [][\A w \in Writers :
       wr[w].at = "call" /\ wr[w].op = "update" /\ wr'[w].at = "write" =>
         \A f \in Fields \ wr[w].names :
           remote'[wr[w].zone][wr[w].rid][f] = remote[wr[w].zone][wr[w].rid][f]]_vars
=============================================================================
