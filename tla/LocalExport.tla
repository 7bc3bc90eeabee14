----------------------------- MODULE LocalExport -----------------------------
(***************************************************************************)
(* Self-hosted zones and their export.  Zones of a 'local' provider live   *)
(* only in the database (provider_local.go: every remote call is a no-op); *)
(* resolver agents poll GET /api/dns/export with the ETag of the document  *)
(* they hold and render what they get (export_handlers.go).                *)
(*                                                                         *)
(* An element of Zones is one dns_zone row, which is created and deleted   *)
(* once: a zone that is declared again is another element with the same    *)
(* name.  The answer of the export is put together from one query for the  *)
(* zones and one query per zone for its records, with writes in between.   *)
(***************************************************************************)
EXTENDS Integers, Sequences, FiniteSets

CONSTANTS
  Zones,       \* zone rows
  Names,       \* zone names
  NameOf,      \* the name of a zone row
  Owners,      \* local provider accounts
  OwnerOf,     \* the account of a zone row
  Rids,        \* record handles (loc_...)
  Data,        \* what a record can say, its view included
  Shown,       \* the records the agents' view filter lets through
  Writers,     \* record requests that can be in flight together
  Agents,      \* resolver agents
  None,        \* the missing value
  MaxWrites,   \* bound: record writes and applies in one behaviour
  MaxFailures  \* bound: polls that fail in one behaviour

ASSUME ZoneAssumption ==
  IsFiniteSet(Zones) /\ NameOf \in [Zones -> Names] /\ OwnerOf \in [Zones -> Owners]
ASSUME NoneAssumption == None \notin Data /\ None \notin Zones
ASSUME BoundAssumption == Shown \subseteq Data /\ MaxWrites \in Nat /\ MaxFailures \in Nat

VARIABLES
  owners,    \* the accounts that exist
  unborn,    \* zone rows not created yet
  zones,     \* zone rows in dns_zone
  serial,    \* dns_zone.serial; 0 without a row
  recs,      \* dns_record: recs[z][r] is a Data or None
  used,      \* handles minted so far
  job,       \* job[w]: the PATCH or DELETE that w has decided on, or NoJob
  writes,    \* writes so far, up to MaxWrites
  failures,  \* failed polls so far, up to MaxFailures
  poll,      \* poll[a]: the answer the service is putting together for a
  etag,      \* etag[a]: {the tag of the document a holds}, {} at first
  doc,       \* doc[a][z]: the records a holds of zone z
  saw,       \* history: saw[a][z] is the serial of z in a's document, or 0
  blind      \* history: blind[a] are the zones emptied without a new serial
             \* since a's document read them

zoneVars  == <<owners, unborn, zones, serial, recs, used, job, writes>>
agentVars == <<etag, doc, saw>>
vars == <<zoneVars, failures, poll, agentVars, blind>>

Empty == [r \in Rids |-> None]
NoJob == [zone |-> None, rid |-> None, data |-> None]
Job   == [zone : Zones, rid : Rids, data : Data \cup {None}]

\* A document, before and after the agent has it: the records of each zone.
Docs   == [Zones -> SUBSET Shown]
NoDoc  == [z \in Zones |-> {}]
Serials == [Zones -> Nat]
NoSerials == [z \in Zones |-> 0]
NoPoll == [on |-> FALSE, tag |-> None, todo |-> {}, saw |-> NoSerials,
           doc |-> NoDoc, blind |-> {}]
ETags  == [Names -> Seq(Nat)]
Poll   == {p \in [on : BOOLEAN, tag : ETags \cup {None}, todo : SUBSET Zones,
                  saw : Serials, doc : Docs, blind : SUBSET Zones] :
             p.on => p.tag \in ETags}

TypeOK ==
  /\ owners \in SUBSET Owners /\ unborn \in SUBSET Zones
  /\ zones \in SUBSET (Zones \ unborn)
  /\ serial \in Serials
  /\ recs \in [Zones -> [Rids -> Data \cup {None}]]
  /\ used \in SUBSET Rids
  /\ job \in [Writers -> Job \cup {NoJob}]
  /\ writes \in Nat /\ failures \in Nat
  /\ poll \in [Agents -> Poll]
  /\ etag \in [Agents -> SUBSET ETags]
  /\ doc \in [Agents -> Docs]
  /\ saw \in [Agents -> Serials]
  /\ blind \in [Agents -> SUBSET Zones]
-----------------------------------------------------------------------------
\* What the export says of a zone: the records that pass the view filter.
\* (Their order, and which of two equal records is which, tells nobody anything.)
Unfiltered(z) == {recs[z][r] : r \in Rids} \ {None}
Visible(z) == {recs[z][r] : r \in Rids} \cap Shown

\* listLocalZones orders by name only: rows of one name come in any order.
Orders(S) ==
  {q \in [1..Cardinality(S) -> S] : \A i, j \in 1..Cardinality(S) : q[i] = q[j] => i = j}
Listing(Z) == {f \in [Names -> UNION {Orders(S) : S \in SUBSET Z}] :
                 \A n \in Names : f[n] \in Orders({z \in Z : NameOf[z] = n})}

\* exportETag: a hash of the listed (name, serial) pairs, without collisions.
NamesTag(order, ser) == [n \in Names |-> [i \in DOMAIN order[n] |-> 1]]
Tag(order, ser) == [n \in Names |-> [i \in DOMAIN order[n] |-> ser[order[n][i]]]]
Tags(Z, ser) == {Tag(f, ser) : f \in Listing(Z)}

\* The agent's tag is one the service would compute now.
Matches(a) == etag[a] \cap Tags(zones, serial) # {}

Init ==
  /\ owners = Owners
  /\ unborn = Zones /\ zones = {}
  /\ serial = NoSerials
  /\ recs = [z \in Zones |-> Empty]
  /\ used = {}
  /\ job = [w \in Writers |-> NoJob]
  /\ writes = 0 /\ failures = 0
  /\ poll = [a \in Agents |-> NoPoll]
  /\ etag = [a \in Agents |-> {}]
  /\ doc = [a \in Agents |-> NoDoc]
  /\ saw = [a \in Agents |-> NoSerials]
  /\ blind = [a \in Agents |-> {}]
-----------------------------------------------------------------------------
\* Zones and accounts.

\* createLocalZone; UNIQUE (workspace, provider, zone_name).
CreateZone(z) ==
  /\ z \in unborn /\ OwnerOf[z] \in owners
  /\ ~ \E y \in zones : NameOf[y] = NameOf[z] /\ OwnerOf[y] = OwnerOf[z]
  /\ unborn' = unborn \ {z}
  /\ zones' = zones \cup {z}
  /\ serial' = [serial EXCEPT ![z] = 1]
  /\ UNCHANGED <<owners, recs, used, job, writes, failures, poll, agentVars, blind>>

\* The account goes, and its zones and their records with it.
DeleteProvider(o) ==
  LET gone == {z \in zones : OwnerOf[z] = o} IN
  /\ o \in owners
  /\ owners' = owners \ {o}
  /\ zones' = zones \ gone
  /\ recs' = [z \in Zones |-> IF z \in gone THEN Empty ELSE recs[z]]
  /\ UNCHANGED <<unborn, serial, used, job, writes, failures, poll, agentVars, blind>>
-----------------------------------------------------------------------------
\* Records.  The provider call is a no-op, so a create is its transaction; a
\* PATCH or DELETE decides on the row it has read and commits later.

Counted == writes < MaxWrites /\ writes' = writes + 1

\* writeRecordTx: the row and the zone's serial change together.
Unversioned(z) == serial
Bumped(z) == [serial EXCEPT ![z] = IF z \in zones THEN @ + 1 ELSE @]

CreateRecord(z, r, d) ==
  /\ Counted
  /\ z \in zones /\ r \notin used
  /\ used' = used \cup {r}
  /\ recs' = [recs EXCEPT ![z][r] = d]
  /\ serial' = Bumped(z)
  /\ UNCHANGED <<owners, unborn, zones, job, failures, poll, agentVars, blind>>

StartWrite(w, z, r, d) ==
  /\ Counted
  /\ job[w] = NoJob /\ recs[z][r] # None
  /\ job' = [job EXCEPT ![w] = [zone |-> z, rid |-> r, data |-> d]]
  /\ UNCHANGED <<owners, unborn, zones, serial, recs, used, failures, poll, agentVars, blind>>

\* The row may be gone by now; that is no error, and the serial advances.
CommitWrite(w) ==
  LET z == job[w].zone  r == job[w].rid IN
  /\ job[w] # NoJob
  /\ recs' = [recs EXCEPT ![z][r] = IF @ = None THEN None ELSE job[w].data]
  /\ serial' = Bumped(z)
  /\ job' = [job EXCEPT ![w] = NoJob]
  /\ UNCHANGED <<owners, unborn, zones, used, writes, failures, poll, agentVars, blind>>

\* The request fails, is cancelled, or dies with the service.
AbandonWrite(w) ==
  /\ job[w] # NoJob
  /\ job' = [job EXCEPT ![w] = NoJob]
  /\ UNCHANGED <<owners, unborn, zones, serial, recs, used, writes, failures, poll, agentVars, blind>>

\* Apply on a local zone: every record counts as missing (ListRecords returns
\* nothing), the creates are no-ops, and the refresh replaces the cached records
\* by the empty listing.  The serial stays.
Apply(z) ==
  /\ Counted
  /\ z \in zones
  /\ recs' = [recs EXCEPT ![z] = Empty]
  /\ poll' = [a \in Agents |-> IF z \in poll[a].todo THEN poll[a]
                               ELSE [poll[a] EXCEPT !.blind = @ \cup {z}]]
  /\ blind' = [a \in Agents |-> blind[a] \cup {z}]
  /\ UNCHANGED <<owners, unborn, zones, serial, used, job, failures, agentVars>>
-----------------------------------------------------------------------------
\* The export.

\* The zones are listed; an agent whose tag matches is answered 304.
NotModified(a) ==
  /\ ~poll[a].on
  /\ Matches(a)
  /\ UNCHANGED vars

BeginPoll(a) ==
  /\ ~poll[a].on
  /\ \E tag \in Tags(zones, serial) :
       /\ tag \notin etag[a]
       /\ poll' = [poll EXCEPT ![a] =
            [on |-> TRUE, tag |-> tag, todo |-> zones,
             saw |-> [z \in Zones |-> IF z \in zones THEN serial[z] ELSE 0],
             doc |-> NoDoc, blind |-> {}]]
  /\ UNCHANGED <<zoneVars, failures, agentVars, blind>>

ReadZone(a, z) ==
  /\ poll[a].on /\ z \in poll[a].todo
  /\ poll' = [poll EXCEPT ![a] =
       [poll[a] EXCEPT !.todo = poll[a].todo \ {z},
                       !.doc = [poll[a].doc EXCEPT ![z] = Visible(z)]]]
  /\ UNCHANGED <<zoneVars, failures, agentVars, blind>>

\* The whole answer reaches the agent, which keeps it and its tag.
FinishPoll(a) ==
  /\ poll[a].on /\ poll[a].todo = {}
  /\ etag' = [etag EXCEPT ![a] = {poll[a].tag}]
  /\ doc' = [doc EXCEPT ![a] = poll[a].doc]
  /\ saw' = [saw EXCEPT ![a] = poll[a].saw]
  /\ blind' = [blind EXCEPT ![a] = poll[a].blind]
  /\ poll' = [poll EXCEPT ![a] = NoPoll]
  /\ UNCHANGED <<zoneVars, failures>>

\* The ETag is set before the queries that may fail (export_handlers.go:95): an
\* agent that takes it from an error has the new tag and the old records.
TakesTagOfFailure(a) ==
  /\ poll[a].on
  /\ failures < MaxFailures /\ failures' = failures + 1
  /\ etag' = [etag EXCEPT ![a] = {poll[a].tag}] /\ saw' = [saw EXCEPT ![a] = poll[a].saw]
  /\ poll' = [poll EXCEPT ![a] = NoPoll]
  /\ UNCHANGED <<zoneVars, doc, blind>>

\* A query fails, the service dies, or the answer is lost: the agent keeps what
\* it has.
FailPoll(a) ==
  /\ poll[a].on
  /\ failures < MaxFailures /\ failures' = failures + 1
  /\ poll' = [poll EXCEPT ![a] = NoPoll]
  /\ UNCHANGED <<zoneVars, agentVars, blind>>
-----------------------------------------------------------------------------
Admin ==
  \/ \E z \in Zones : CreateZone(z) \/ Apply(z)
  \/ \E o \in Owners : DeleteProvider(o)

Write(w) ==
  \/ \E z \in Zones, r \in Rids, d \in Data \cup {None} : StartWrite(w, z, r, d)
  \/ CommitWrite(w) \/ AbandonWrite(w)

Export(a) ==
  \/ BeginPoll(a) \/ (\E z \in Zones : ReadZone(a, z))
  \/ FinishPoll(a) \/ FailPoll(a) \/ NotModified(a)

Next ==
  \/ Admin
  \/ \E z \in Zones, r \in Rids, d \in Data : CreateRecord(z, r, d)
  \/ \E w \in Writers : Write(w)
  \/ \E a \in Agents : Export(a)

Spec == Init /\ [][Next]_vars

\* An agent keeps polling and the service keeps answering; only so many polls
\* fail.  Nothing else is promised to happen.
Polling(a) ==
  /\ WF_vars(BeginPoll(a))
  /\ \A z \in Zones : WF_vars(ReadZone(a, z))
  /\ WF_vars(FinishPoll(a))
FairSpec == Spec /\ \A a \in Agents : Polling(a)
-----------------------------------------------------------------------------
\* The agent holds what the service would send.
UpToDate(a, z) == doc[a][z] = Visible(z)

\* No row of z's name that the agent's document lists has gone.
Kept(a, z) == \A y \in Zones : NameOf[y] = NameOf[z] /\ saw[a][y] # 0 => y \in zones

\* A 304 is right (export_handlers.go:12-14): an agent whose tag matches holds
\* the records every zone has now, however writes fell between the queries its
\* document was read with, and in whatever order the rows of one name were
\* listed.  The two exceptions: an apply emptied the zone since, or a row of its
\* name is gone and another one may have come to the same serial.
NotModifiedSound ==
  \A a \in Agents : Matches(a) => \A z \in zones \ blind[a] : Kept(a, z) => UpToDate(a, z)

\* An answer on its way is never labelled newer than the records in it: a zone
\* that was read holds at least what its serial says.
AnswerNotOlder ==
  \A a \in Agents, z \in zones :
    poll[a].on /\ z \notin poll[a].todo \cup poll[a].blind /\ poll[a].saw[z] = serial[z] =>
      poll[a].doc[z] = Visible(z)

\* Query by query, a poll is one step, a fetch that never brings an older version
\* of a zone, nor an old copy under the current version: what VersionedZones
\* promises (export_handlers.go:12-14).
Content == [z \in Zones |-> Visible(z)]
Versioned == INSTANCE VersionedZones WITH
               version <- serial, content <- Content, label <- saw, copy <- doc, stale <- blind
IsVersioned == Versioned!Spec

\* Versions move forward: the serial of a zone grows with every change of its
\* records but an apply (zones_store.go:78-80), and no agent goes back to an
\* older version of a zone that is still there.
VersionsAdvance ==
  [][\A z \in zones \cap zones' :
       /\ serial'[z] >= serial[z]
       /\ recs'[z] # recs[z] => serial'[z] > serial[z] \/ Apply(z)
       /\ \A a \in Agents : saw'[a][z] >= saw[a][z]]_vars

\* Once the writes are over, every agent comes to hold every zone, and keeps it,
\* with the same two exceptions.
AgentsCatchUp ==
  \A a \in Agents : <>[](\A z \in zones \ blind[a] : Kept(a, z) => UpToDate(a, z))
-----------------------------------------------------------------------------
\* What a comment says and the code does not do.

\* apply.go:12: groups that an apply does not mention are left alone.  Here no
\* zone that has records is emptied in one step while its account stays.
ApplyKeepsRecords ==
  [][\A z \in zones \cap zones' : Cardinality({r \in Rids : recs[z][r] # None}) > 1 => recs'[z] # Empty]_vars
=============================================================================
