# Models and proofs for polar-dns

polar-dns keeps a database of DNS zones and records in front of DNS providers
(Cloudflare, Name.com) and of self-hosted zones that resolver agents poll. This
directory holds TLA+ modules of its state machine, the TLC configurations that
check them on small instances, and TLAPS proofs of what matters most. Paths
below are relative to `src/internal/dns/` unless they say otherwise.

## The system

| part | code | state | operations |
|---|---|---|---|
| record write-through | `records_handlers.go`, `records_store.go` | locals of a request | create, PATCH, delete: read the cache, call the provider, one transaction, audit |
| provider sync | `sync_handlers.go` | what it has listed | list zones, list each zone's records, replace the cache in one transaction, audit |
| cache | `zones_store.go`, `scripts/migrate/dns-schema.sql` | `dns_zone` (with `serial`), `dns_record` | upsert, replace, insert/update/delete, bump; keys and cascades |
| audit log | `audit_store.go` | `dns_audit_log` | best-effort insert, list |
| local zones | `zones_handlers.go`, `provider_local.go` | rows only; every remote call is a no-op | declare a zone; records as above |
| export | `export_handlers.go` | locals of a poll; the agent's document and ETag | list local zones, 304 or one query per zone |
| declarative apply | `apply.go`, `apply_handlers.go` | plan, error list | list, diff, execute, refresh the cache |
| provider accounts | `providers_handlers.go`, `providers_store.go`, `crypto.go` | `dns_provider`, the service's key | create, edit, delete; seal and open credentials |
| provider contract | `provider.go`, `provider_metered.go` | registry, HTTP client | build a provider; retry GETs; count calls |
| Cloudflare, Name.com | `provider_cloudflare.go`, `provider_namecom.go` | remote | paged listings, record calls, field mapping |
| lifecycle | `plugin.go`, `config.go`, `cmd/dns-svc/main.go` | pool, key, heartbeat | start, heartbeat, health, shutdown |
| auth gate | `auth.go` | none (the dock SDK caches) | verify a token, choose a workspace, check its grant |
| UI, CLI, metrics, helpers | `web.go`, `web/`, `cmd/dnsctl`, `metrics.go`, `helpers.go` | counters | clients of the API |

Handlers run concurrently, one goroutine per request, and share nothing but the
database and the provider. There is no lock: between the cache read a handler
decides on, its provider calls, its transaction and its audit insert anything
else may run. Nothing retries a write, nothing repairs a cache but a sync (or
the refresh of an apply), and nobody is told of changes made at the provider's
own console. That is where the hard behaviour is:

* a listing or a cached row is stale when it is used (sync, PATCH, apply, edit
  of an account);
* a provider acts and its answer, the transaction or the audit insert fails, or
  the process dies in between;
* rows are replaced under new ids, accounts and zones are deleted, while
  requests on them are in flight;
* an export is read in several queries, and its version must not be newer than
  its records;
* the service restarts with another credential key;
* transactions of several statements wait for each other's rows and connections;
* listings are read page by page, GETs are repeated, bodies are lost;
* memberships, grants and the service itself come and go under a request.

`PROJECT.json` lists each of these at its line under `hazards`, with the
properties that cover it.

## The modules

Each component has a module, an `MC` module that gives its constants values for
TLC, and a `_proofs` module, which begins with the inductive invariants (`CacheTx`
has a second one for its refinement). They fit together like this:

* `WriteThrough`, `LocalExport`, `ZoneApply` and `ProviderAccounts` are the
  handlers, with a cache transaction as one step. `ZoneApply` is an apply at the
  provider; what it does to the cache afterwards is in `WriteThrough`, where the
  syncs and requests are that it gets in the way of;
* `CacheTx` takes those transactions apart and shows by refinement that they are
  the steps of `AtomicCache`, which is what the handlers' modules assume, with
  the rows that a refresh may leave behind (`kept`);
* `VersionedZones` is what `LocalExport` promises its agents, and is refined by it;
* `RecordMapping` is what becomes of a record on its way to Cloudflare or Name.com
  and back, and `ProviderApply` is `ZoneApply` with that;
* `ProviderClient` takes the calls apart, with retries, lost bodies and the lookup
  of a zone's name (`WriteThrough` has the pages of a listing, `ZoneApply` a
  listing that may lack records), and `Service` composes it
  with the gate in front of every handler and the start and stop of the process.

### WriteThrough: requests, sync, refresh, account deletion

One account and its zones. `remote` is the provider, `zones`/`rows`/`serial` the
tables, `wr[w]` the locals of a request, `sy[s]` those of a sync or of the
refresh that ends an apply. A zone stands
for its name and its remote handle, and `rows[z][r]` for the row with handle
`r`, so the UNIQUE keys are the functions' domains; a row keeps its `dr_` id,
because UPDATE and DELETE name it.

| step | code |
|---|---|
| `StartCreate`, `StartUpdate`, `StartDelete` | everything before the provider call; `getRecord`, `getZone` and `getProvider` are one read: a row that goes away between them is an error answer, as when it was gone before |
| `ProviderCreates`, `ProviderChanges`, `ProviderFails` | the call; `arrives = FALSE` is an answer lost after the provider acted |
| `CommitCreate`, `CommitChange`, `WriteFails` | `writeRecordTx`, with the keys of the schema; an UPDATE that finds no row is no error |
| `WriteAudit`, `AuditSync` | `writeAudit`, which may fail silently |
| `StartSync`, `CommitSync`, `SyncFails` | `handleProviderSync`; zones in any order, some left out when a page of them is lost |
| `StartRefresh`, `CommitRefresh`, `RefreshFails` | the end of `handleZoneApply`, best effort |
| `ListPage`, `PageLost` | one page of `ListRecords`, for both; a page of Name.com whose body is lost is empty and the last |
| `Replace` | `replaceZoneRecords`, for both |
| `DeleteProvider` | the DELETE with its cascade, and its audit |
| `RemoteChange`, `RemoteAddZone`, `RemoteDropZone` | other people at the provider, and the calls of an apply's plan |
| `Crash` | the process dies and comes back |

A provider's handle is never used twice (`minted`). A call that the provider
performs after the handler has given up is, to the service, a console edit.

A listing is read by offsets, `PerPage` records at a time, in the provider's
order `Before`, from a zone that changes between the pages. A record that comes
moves others back, and a page may repeat one: the transaction then breaks UNIQUE
(`twice`). A record that goes moves others up, and the one that was to be read
next is never read: the replacement deletes its row, although nobody has touched
it (`Missed`). Changing a record does not move it in the provider's order.

A refresh takes no lock on the zone row. Rows that another transaction inserts
while one of the two replaces the zone may stay (`beside`, from the moment all is
listed, and `kept`, the ones that do), which is what `AtomicCache` allows.

`held`, `stale` and `dirty` are history: what the provider has held; what has
changed since a sync or a refresh read past it, and what its pages missed or
lost; and the records of which the cache promises nothing: those edited at the
console, those whose answer or transaction was lost, those whose requests
overlapped each other or a replacement, and those left over by one (`kept`). A
replacement clears its zones from `dirty` but for records a request is about to
commit, and adds what is in `stale`.

### LocalExport: self-hosted zones and their agents

An element of `Zones` is one `dns_zone` row, created and deleted once; a name
can have several rows, at one time (two local accounts) or one after the other.
A create on a local zone is its transaction; PATCH and DELETE read and commit
(`job`). `Apply` is what `handleZoneApply` amounts to over a provider that lists
nothing. `BeginPoll`, `ReadZone`, `FinishPoll` are the queries of one export;
`NotModified` is the 304. The ETag is the list of (name, serial) pairs it
hashes, in every order `ORDER BY zone_name` allows. `saw` and `blind` are
history: the versions an agent's document states, and the zones an apply emptied
behind its back.

`VersionedZones` is the abstract specification: zones with a version and a
content, agents with a labelled copy of each, and one step, `Fetch`, for a whole
poll. It never brings an older version, and a copy under the current version is
the current one; `Clear` is the exception, a content that goes without a new
version. The mapping takes `serial`, `Visible`, `saw`, `doc` and `blind` for
`version`, `content`, `label`, `copy` and `stale`.

### ZoneApply: diff and plan

`Plan(cur, want, prune, pick)` is `diffRecords`, with `pick` for the choice that
`curByContent` leaves to the order of a listing with equal values. A plan is a
set of calls, executed creates first, then updates, then deletes (`Turn`).
Within one kind the order of the calls is left open: the code follows the lists,
and the plan of pruned groups follows a Go map, which has no order. `Written`
says how a provider lists what was written: a constant of `ZoneApply`, and
`ListedAs` in `ProviderApply`. A call may be turned down (`Refused`: a second
record in a group the provider keeps to one, a handle that is gone) or fail
(`CallFails`); the next one is made. The plan is made of one of `Listings`: the
zone as it is, or without some of its records, as after a lost page or a record
that was missed. `RemoteChange` stands for record requests, the console and other
tools, as far as the provider is concerned. The cache plays no part: an apply
plans from the provider's listing, and its refresh is `WriteThrough!StartRefresh`
to `CommitRefresh`.

### RecordMapping, ProviderApply: what the adapters make of a record

`ToCloudflare`/`FromCloudflare` and `ToNamecom`/`FromNamecom` are the adapters'
mappings, `CfToFull`/`CfToRelative` the names, as sequences of labels. Numbers are
cut to `Word` values, a priority of 0 and a TTL of 0 are left out of a Name.com
request, and a TTL without meaning becomes 1 at Cloudflare. `ToRecord` and
`Allowed` are what `handleZoneApply` does to its input. The one thing that is not
in this code is `DefaultTTL`, Name.com's choice for a missing TTL. Types are taken
in upper case and names without trailing dots and blanks.

### ProviderAccounts: rows, credentials, keys

A credential is a value; `Seal` and `Open` are the three columns it is stored
in, and only the key that sealed it opens it. An edit is a read that builds the
whole new row (`Update`) and a statement that stores it (`Write`), which finds
its row or not and its name free or not. `Restart(k)` drops what is in flight
and changes the key. `given` and `lapped` are history: the credential last given
for an account, and the accounts to which an edit has since written an older one.

### AtomicCache and CacheTx: transactions, statement by statement

`AtomicCache` is the abstract specification: a record request reads a row, then
inserts, changes or deletes one row and advances the serial, in one step; a sync
replaces the rows of all its zones in one step; a refresh those of one zone; or
a transaction fails and changes nothing. The one place where this is not so
simple is the refresh of an apply, which does not touch `dns_zone`: a transaction
on the same zone may run between its statements (`Unguarded`), and then rows of
that transaction may be left beside the listing (`kept`). Rows that were there
before are gone all the same, and keys are unique.

`CacheTx` is PostgreSQL's READ COMMITTED, as far as these transactions use it:
`rows` are the committed rows, `tx[t]` the statement a transaction is at and what
it has changed so far (`added`, `gone`, `held`). `Blockers` is what a statement
waits for: the row's, the zone row's or the key's holder. An UPDATE or DELETE
passes over a row that has gone meanwhile and takes one that has changed; a
sync's DELETE sees the rows that are there when it begins (`Select`) and takes
them one after the other in any order (`DeleteRow`); an INSERT waits for an
uncommitted row of its key and fails on a committed one. `DeadlockAborts` is the
database's detector, `Free` the pool, `Cancel` a client that goes away. A
refresh's order of rows and the order of a sync's zones (the provider's) are
open.

| step | code |
|---|---|
| `Read`, `NotFound` | `getRecord`, before the provider call |
| `Begin`, `WriteRecord`, `BumpSerial`, `Commit` | `writeRecordTx` |
| `Pick`, `Upsert`, `Select`, `DeleteRow`, `InsertRow`, `ZoneDone` | the loop of a sync; a refresh passes it once, without `Upsert` |
| `Audit` | `writeAudit`, on a connection of its own |

The mapping is the identity on `job`, `rows`, `serial` and `target`; `open` is
the set of requests whose transaction has not ended.

### ProviderClient and Service: from the gate to the database

A request stands at one of the places of `req[r].at`: the token (`Verify`), the
membership (`ResolveWorkspace`), the grant (`CheckAccess`), the reads of its
handler (`ReadRows`), the call, the transaction (`Store`). The dock's answers
may not come, and memberships and grants change in between. `call[r]` is the
call: a listing asks for page after page while others change the zone (`Leave`,
`Come`); Cloudflare may first be asked for the name of the zone (page 0); a GET
that fails is repeated up to `MaxRetries` times after a pause, a write never is;
`GiveUp` is any other status, the client's fifteen seconds, a cancelled request.
A write may have arrived although its call fails. `BodyLost` is a connection
that ends between header and body. `phase` is `main`: `Shutdown` waits for the
requests in flight or gives up (`late`), `Exit` closes the database.

`stayed`, `left`, `came`, `cut`, `arrived`, `was`, `had` and `failed` are
history: the records that were in the zone all the while, what happened to the
others, whether a body was lost, how often a write arrived, the workspaces the
user belonged to and those with a grant while the request was at the gate, and
whether the database refused the transaction.

Requests share nothing but `phase`, the dock and the provider, so one request is
enough for TLC; the proofs are for any number.

## What TLC checks

Passing runs:

| run | asks | bounds |
|---|---|---|
| `write_race` | two requests beside a sync or a refresh, lost answers and pages, crashes, one zone | 2 records, pages of 1, 2 values, 3 requests; 350 000 states |
| `write_zones` | two syncs or refreshes beside each other or a request, zones that come and go, a console edit | 2 zones, 2 records, pages of 1, 2 requests, 1 edit; 450 000 states |
| `export_poll` | an agent, a writer, two accounts with a zone of one name; a poll is a fetch of `VersionedZones`, the agent catches up | 2 handles, 2 values of which 1 is filtered, 3 writes, 1 failed poll; 960 000 states |
| `apply_plan` | every desired set of up to two records on every zone of up to three, at Name.com, which lists some of them otherwise | one apply, numbers of 2 bits (inputs 0 to 5 and -1); 130 000 states |
| `apply_race` | two applies and a console edit, at Cloudflare; a call that fails, a listing that lacks records, or an apply cut off | 3 handles, two groups, one of them managed, 1 edit, 1 failure; 490 000 states |
| `cache_tx` | three transactions of any kinds on two zones, deadlocks, lost clients; they implement `AtomicCache` | 5 jobs, 3 handles, 2 values, 2 connections; 180 000 states |
| `service` | a request through gate, call and transaction, with a page size of two, and the service's end | listings of 0, 2 and 3 records, 2 repetitions, 1 change at the provider, 1 at the dock; 440 000 states |
| `accounts` | three requests, two at a time, on two accounts of two types; two restarts | 2 credentials and the empty one, 2 proxies of which 1 is usable, 2 keys; 370 000 states |

Why these are enough: each conflict in this code is between at most two handlers
and one outside event (each handler has one read and one write to get between),
so two requests or syncs, one more to set the scene, and one edit reach them
all; two values tell old from new, two zones tell "this zone" from "the rest".
Two records on pages of one are a listing with something between its pages, and
the shortest in which a record is missed or repeated. `write_race` has the
record requests as the changes between pages, `write_zones` the console's.
Values, slots, contents, zones and handles are interchangeable, but for the
handles of `WriteThrough`, which a listing has in an order, and symmetry is used
only in runs without temporal properties, but for `write_race`, `write_zones`
and `apply_race`, whose properties are action properties over symmetric sets.
Deadlock checking is off because the bounds on requests let a behaviour end.

Properties, in words: an undisturbed record is cached as the provider holds it
(`MirrorUnlessDisturbed`); a sync or a refresh makes right the zones it lists,
but for what somebody changes or a page misses meanwhile (`SyncMirrors`); the
cache never shows what the provider never held (`CacheFromProvider`); the log is
true (`AuditTruth`); nothing of a deleted account stays or returns
(`NoOrphans`); a zone's version counts every logged write
(`VersionCoversAudit`); a 304 is right (`NotModifiedSound`); an answer is never
labelled newer than its records (`AnswerNotOlder`); a poll is one fetch of
versioned documents (`IsVersioned`); versions go forward (`VersionsAdvance`);
agents catch up (`AgentsCatchUp`); an accepted apply reaches what was asked for
and a second one changes nothing if the provider can say it (`ApplyReaches`,
`ApplyConverges`); transactions are steps of the abstract cache (`IsAtomic`),
record requests do not deadlock among themselves (`DeadlockNeedsReplace`) and
every transaction ends (`AllEnd`); a write arrives at most once (`AtMostOnce`);
a listing has what stayed, and nothing twice (`ListingSound`); a request acts in
a workspace its user may use (`ActsWhereAllowed`); nothing is cut off by the end
of the service unless time ran out (`CutOnlyLate`); every request is answered
(`Answered`); applies spare what they were not asked about (`OthersSpared`); a
rotated credential stays (`RotationHolds`) and has no plain copy
(`NoPlainCopy`); stored accounts can be built (`Buildable`); deleted accounts
stay deleted (`GoneForGood`).

Violations: these runs show where the code does something else than its comments
or documents say. Each checks one property; `PROJECT.json` quotes the line.

| run | what happens |
|---|---|
| `write_revert` | two PATCHes of different fields: the later one reverts the earlier at the provider |
| `export_apply` | apply on a local zone deletes all its records |
| `apply_cname` | changing a CNAME's value leaves the name empty |
| `service_listing` | a page from Name.com loses its body and ends the listing as an empty last page; a sync then deletes cached records |

The passing properties carry exceptions (`dirty`, `stale`, `beside`, `blind`,
`lapped`, `moved`, `Kept`, `Representable`, `Unguarded`, `left`, `came`, `cut`,
`late`, `failed`), and no others; those that are history variables are set by
the actions above and cleared by a sync, a poll, a refresh or a rotation.
(`dirty` also holds a record when a lost write fell before the last sync's
listing and no longer matters: it is an upper bound.)

What else the models follow the code in, though a comment or document reads
otherwise; there is no run of its own for these:

* A sync between a PATCH's read and its commit gives the row a new id: the PATCH
  is answered 200 and no row has changed (`records_store.go:43-46`). `IsAtomic`
  and `MirrorUnlessDisturbed` say what is left.
* A zone that is declared again after its account was deleted starts at serial 1,
  so the old ETag returns: `Kept` (`zones_store.go:70`; `export_handlers.go:12-14`).
* An edit of an account that names no credential writes back the one it read, and
  so undoes a rotation made meanwhile: `lapped` (`providers_handlers.go:139`; line
  81 says "omit/empty = keep existing").
* Of several listed records with one content an apply updates one and deletes
  none (`apply.go:75-78`; `apply.go:9-11` says the value set is authoritative).
* The endpoint for deleted workspaces (`doc/dev-plan.md:205`) does not exist.
* A dock that does not answer the membership check makes the request act in the
  user's own workspace (`auth.go:103-118`).
* A write whose answer loses its body is a success with an empty record at
  Name.com (`provider_namecom.go:244`), cached under handle 0. The answers of
  `WriteThrough` carry the record, so it speaks of Cloudflare, and of Name.com
  while bodies arrive.
* A transaction that fails after the provider accepted ends the request without
  an audit entry (`records_handlers.go:233`; `doc/dev-plan.md:214` wants one).
* A zone that left the provider stays cached after a sync (`sync_handlers.go:6-7`
  says the cache then mirrors the provider exactly).
* An apply on a local zone leaves the serial, so agents get 304 for records that
  are gone: `blind` (`export_handlers.go:71-73`).
* Two local accounts may have a zone of one name, and the ETag depends on the
  order of the two rows: `Listing` (`export_handlers.go:71-72` calls it stable).
* A document can hold records newer than its serials; it is no snapshot
  (`export_handlers.go:3`).
* A record renamed after the listing is changed under its new name: `moved`
  (`apply.go:12-13`).
* A record that another's deletion moves up between two pages of a listing is
  missed, and its row deleted, although nobody has touched it: `Missed`
  (`sync_handlers.go:6`, `apply_handlers.go:142`).
* Of two replacements the older listing can be committed last: `stale`
  (`apply_handlers.go:142`). Beside a refresh, rows that another transaction
  inserts may stay: `beside`.
* Name.com lists priority 0 as none, and a TTL or a priority that is no uint32 as
  another number, so an apply that wants one of these plans the same update for
  ever: `Representable` (`provider_namecom.go:104`, `116`; `doc/dev-plan.md:223`).
* Declared NS and SOA groups do lose extra values, though `apply.go:13-14` reads
  as if they never did.
* A local account without a credential is refused (`providers_handlers.go:35`),
  though `provider_local.go:10` says it needs none; input checks that change
  nothing are not steps of `ProviderAccounts`.

### Fairness

`LocalExport!FairSpec`: an agent that may poll does, and each query and the
answer come about (weak fairness of `BeginPoll`, `ReadZone`, `FinishPoll`). It
is the agent's loop and the fact that queries end; a poll may fail up to
`MaxFailures` times. Writers are not fair: a write need never commit.

`CacheTx!FairSpec`: some statement that can run does, or the database finds the
deadlock. That is PostgreSQL's scheduling and its detector; which transaction goes
on is left open, and a client may go away at any time, so `AllEnd` does not rest
on a fair choice between them. It needs no more because a transaction has
finitely many statements and gives back its connection before its audit wants
one: the mutant `InTxOrAudit`, which keeps it, stops.

`Service!FairSpec`: `main` goes on, and each handler does. A handler waits for
the dock, the database or the provider only, and each of these waits is bounded
by a timeout (the dock SDK's, the client's fifteen seconds) or by the database,
which either answers or fails. Changes at the provider and the dock are not fair
and are bounded (`MaxEdits`, `MaxGrants`): a zone that grows faster than its
pages are read would be listed for ever, but for the request's end.

The other properties are safety properties, of specifications without fairness.

## What is proved

TLAPS proves for all values of the constants:

* `WriteThrough_proofs`: `TypeCorrect`; `NoOrphansCorrect`, inductive as it
  stands; `KnownCorrect`, of the invariant `Known`: what requests, listings, rows
  and the log hold was held by the provider, and what a request has deleted is
  gone and its handle spent. Both `CacheNeverAhead` and `AuditTellsTruth` follow.
  `MirrorCorrect` is the longest, of `MirrorInv`: a record that the pages of a
  listing are past is in it as the provider has it, but for `stale`
  (`ListingFresh`); two requests wait to commit one record only if it is dirty; and
  one that waits to commit a clean record holds what the provider holds and will
  find its row (`PendingFits`). The first part is about positions in a zone that
  shifts: a change moves a record up by one place at most, and only when another
  before it goes (`StorePlaces`), so none gets behind the pages unread without
  being marked (`StoreFresh`); a page then takes what stands on it, and leaves
  nothing before the next offset (`ReadFresh`). It needs `NoOrphansCorrect`, for rows
  of zones that are not cached. `MirrorPromise` follows, and `SyncCorrect`, for the
  commit of a sync or a refresh stores such a listing. `CountCorrect`, of `CountInv`:
  a serial exceeds the entries of its zone and the requests that have yet to
  log, together, and while the account exists neither is of a zone that is not
  cached (or a sync would bring it in with serial 1). `VersionCoversCorrect`
  follows.
* `LocalExport_proofs`: `TypeCorrect`; `FitsCorrect`, of `Fits`: serials seen are
  not in the future, and whoever has seen the current one holds the records.
  `NotModifiedCorrect` then needs that equal tags mean equal serials, although the
  rows of one name come in any order: as many rows reach any given serial in the
  one reading as in the other, serials only grow, so none has (`OrdersAgree`,
  `TagsEqual`). That no listed row of the name has gone (`Kept`) is necessary: a
  zone declared again repeats its ETag. `VersionsCorrect` adds `PollsAdvance`: an
  answer on its way is no older than what the agent holds, and all that was
  emptied since it was read is known to have been. `Implements`: `LocalExport`
  refines `VersionedZones`, where the answer that reaches the agent is the fetch
  and everything before is seen by nobody.
* `ZoneApply_proofs`: `TypeCorrect`; `PlanCorrect`, of `PlanFits`: a call of a
  plan was in scope when listed and is in the same group, gone for good, or
  moved. `OthersCorrect`, an action property, follows. `ReachCorrect` rests on a
  third invariant, `ReachInv`: what a smooth execution (nobody else at work, no
  call lost or turned down) has not yet made as desired is still in its plan,
  record by record, and the other groups are as listed (`OnTrack`). It holds of
  a new plan by what `diffRecords` puts into it; each call makes one record as
  desired and takes itself out; and with nothing left it says what was asked for
  (`TrackEnds`), whatever the order of the calls. `IdempotentCorrect` then is a
  fact about `Plan` (`NothingLeft`).
* `ProviderApply_proofs`: `MappingStable`, that both adapters give `ZoneApply`
  what it assumes of a provider; `NameReturns`, that a listed record is written
  back under its own name; `ConvergesCorrect`, that apply converges at both
  providers, for any word length, names and numbers that the provider can say.
* `ProviderAccounts_proofs`: `TypeCorrect`, and from the one invariant
  `AccountInv` `RotationCorrect`, `AuditCorrect` and `DeletionCorrect`. The
  invariant says what a request about to write carries: a rotation its sealed
  credential under the running key, an edit the credential last given unless it
  was overtaken or the account has lapsed. A second one, `SealedInv`, says that
  what is stored or about to be is properly sealed and complete for its type, and
  encrypted if given under a key: `NoPlainCopyCorrect` and `BuildableCorrect`.

* `CacheTx_proofs`: `TypeCorrect`; `WritesDoNotDeadlock`: in a set of waiting
  transactions without a sync or a refresh nobody waits at its zone row, because
  the holder of a zone row has both its locks and waits for nothing; so all wait
  at their first statement, where they hold nothing anyone could wait for
  (`HoldsNothing`).
* `CacheTxAtomic_proofs`: `Implements`, that `CacheTx` refines `AtomicCache`. The
  invariant is `TxInv`: what a transaction has deleted or changed is still
  committed and no two hold the same row, key or zone; a record request holds
  what its row makes it hold; a replacement has inserted the listing of the zones
  it has begun and has deleted, or is about to delete, whatever else is in them,
  unless it is unguarded (`ReplaceFits`). The last part is the delicate one: a
  commit of another transaction must add no row to a zone that is already
  through, and does not because both hold the zone row. Since a step of one
  transaction changes nothing but its own record, the proof looks at `TxInv` one
  transaction at a time (`Frame`); only `Commit` concerns the others.
* `Service_proofs`: `TypeCorrect` (with `Counted`, that a pause leaves a
  repetition to come); `WritesOnce` from `SendsOnce`, that what is still to be
  sent has not arrived; `StaysInWorkspace` from `GateHolds`, which adds what the
  history knows of the current memberships; `DrainsFirst` from `DrainHolds`;
  `ListsAll` from `PagesFit`: what stayed is either listed or behind the pages
  read so far, a statement about positions in a zone that shifts.

The assumptions are those the modules name: the missing value is none of the
values, bounds are natural numbers, the record handles of `WriteThrough` are
finitely many and a page holds one or more; `Reads` keeps group and
content and is idempotent, which `MappingStable` proves of the adapters.

Only model-checked: the liveness properties `AgentsCatchUp`, `AllEnd` and
`Answered`. Liveness under fairness is out of the prover's reach; every other
property of a passing run is proved.

## What is not modelled

Reads that change nothing (lists, health, metrics, audit query, dry run), the
heartbeat, the web UI, `dnsctl` (one request to the API), input checks of record
requests, wording and status codes. Workspaces in the handlers' modules: every
query is scoped by one, and `Service` says which. What the dock SDK remembers of
tokens and grants (thirty seconds): its answers are fresh. What a provider itself
makes of a record (letter case, the TTL of a proxied record). Hashes and
ids are assumed not to collide. An agent keeps its query (the ETag covers neither
view nor `meta`). What a provider's listing does when a record changes its place in
the order: `Before` is an order of handles. In `LocalExport` the
refresh of an apply on a local zone is one step: its listing is empty and waits
for nobody, it inserts no row, and a row that another transaction inserts beside
it stays as if it came later. The cascade of an account's deletion is one step in
`WriteThrough` and `LocalExport`, and not among the transactions of `CacheTx`.

## What is left

1. The deletion of an account as a transaction of `CacheTx`.

