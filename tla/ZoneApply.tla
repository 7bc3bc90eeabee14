------------------------------ MODULE ZoneApply ------------------------------
(***************************************************************************)
(* Declarative apply on one zone of a remote provider (apply.go,           *)
(* apply_handlers.go): the zone is listed, the difference to the desired   *)
(* records is planned, and the plan is executed call by call.  Applies     *)
(* interleave with each other and with everybody else who changes the zone *)
(* at the provider, calls fail one by one, and the service may die in the  *)
(* middle.                                                                 *)
(*                                                                         *)
(* This is the provider's side of an apply.  The cached rows of the zone   *)
(* play no part in it; their refresh at the end is WriteThrough's.         *)
(***************************************************************************)
EXTENDS Integers, Sequences

CONSTANTS
  Groups,       \* record groups: one name and type each
  Managed,      \* the groups of type SOA or NS
  Single,       \* the groups the provider keeps to one record (CNAME)
  Contents,     \* record values
  Attrs,        \* what else a record says: ttl, priority, proxied
  Reads,        \* Reads[d]: how the provider lists a record written as d
  Rids,         \* record handles
  Applies,      \* applies that can be in flight together
  Wants,        \* the desired record sets that are asked for, as sequences
  None,         \* the missing value
  MaxApplies,   \* bound: applies in one behaviour
  MaxEdits,     \* bound: changes to the zone by others
  MaxFailures   \* bound: provider calls that fail, listings that lack records

Data == [group : Groups, content : Contents, attr : Attrs]

ASSUME GroupAssumption == Managed \subseteq Groups /\ Single \subseteq Groups
ASSUME DataAssumption ==
  /\ None \notin Data /\ None \notin Rids /\ None \notin Applies
  /\ Wants \subseteq Seq(Data)
  /\ Reads \in [Data -> Data]
  /\ \A d \in Data : /\ Reads[d].group = d.group /\ Reads[d].content = d.content
                    /\ Reads[Reads[d]] = Reads[d]
ASSUME BoundAssumption == MaxApplies \in Nat /\ MaxEdits \in Nat /\ MaxFailures \in Nat

VARIABLES
  remote,    \* the provider's records: remote[r] is a Data or None
  minted,    \* handles given out so far
  ap,        \* ap[p]: where apply p stands
  applies, edits, failures    \* counters, up to their bounds

counters == <<applies, edits, failures>>
vars == <<remote, minted, ap, counters>>

Records == [Rids -> Data \cup {None}]
Present(recs) == {r \in Rids : recs[r] # None}
Nothing == [r \in Rids |-> None]

\* A call of a plan: create desired record i, make record rid desired record i,
\* delete record rid.
Calls == {c \in [op : {"create", "update", "delete"}, i : Nat, rid : Rids \cup {None}] :
            c.rid = None <=> c.op = "create"}

\* An apply executes its plan ("run") and is over.  todo is what is left of the
\* plan.  History: cur is the listing the plan was made of; missed says that the
\* listing was not whole or a call failed, refused that a call was turned down,
\* disturbed that others have changed the zone since the listing, moved which
\* records they have put into another group.
NoApply == [at |-> "idle", want |-> <<>>, prune |-> FALSE, todo |-> {}, cur |-> Nothing,
            missed |-> FALSE, refused |-> FALSE, disturbed |-> FALSE, moved |-> {}]
Job ==
  {j \in [at : {"idle", "run"}, want : Seq(Data), prune : BOOLEAN, todo : SUBSET Calls,
          cur : Records, missed : BOOLEAN, refused : BOOLEAN, disturbed : BOOLEAN,
          moved : SUBSET Rids] :
     \A c \in j.todo : c.op # "delete" => c.i \in DOMAIN j.want}

TypeOK ==
  /\ remote \in Records
  /\ minted \in SUBSET Rids
  /\ ap \in [Applies -> Job]
  /\ applies \in Nat /\ edits \in Nat /\ failures \in Nat
-----------------------------------------------------------------------------
\* diffRecords.

Declared(want) == {want[i].group : i \in DOMAIN want}

\* The records of cur with the group and the content of d.
Same(cur, d) ==
  {r \in Present(cur) : cur[r].group = d.group /\ cur[r].content = d.content}
Wanted(want, d) ==
  \E i \in DOMAIN want : want[i].group = d.group /\ want[i].content = d.content

\* Of several records with one content the last one listed counts, for every
\* desired record with that content; the listing comes in any order.
Picks(cur, want) ==
  {pick \in [DOMAIN want -> Rids \cup {None}] :
     \A i, j \in DOMAIN want :
       /\ IF Same(cur, want[i]) = {} THEN pick[i] = None ELSE pick[i] \in Same(cur, want[i])
       /\ Same(cur, want[i]) = Same(cur, want[j]) => pick[i] = pick[j]}

\* A declared group loses the values that are not wanted; with prune, groups that
\* are not declared go as a whole, unless the provider manages them.
Prunes(want, prune, g) == prune /\ g \notin Declared(want) /\ g \notin Managed
SurplusManaged(cur, want, prune) ==
  {r \in Present(cur) : IF cur[r].group \in Declared(want) THEN ~Wanted(want, cur[r]) ELSE prune}
Surplus(cur, want, prune) ==
  {r \in Present(cur) : \/ cur[r].group \in Declared(want) /\ ~Wanted(want, cur[r])
                        \/ Prunes(want, prune, cur[r].group)}

UpdateNoHandle(i, r) == [op |-> "update", i |-> i, rid |-> None]
UpdateCall(i, r) == [op |-> "update", i |-> i, rid |-> r]
Plan(cur, want, prune, pick) ==
  LET creates == {i \in DOMAIN want : pick[i] = None}
      updates == {i \in DOMAIN want \ creates : cur[pick[i]].attr # want[i].attr}
  IN  {[op |-> "create", i |-> i, rid |-> None] : i \in creates}
        \cup {UpdateCall(i, pick[i]) : i \in updates}
        \cup {[op |-> "delete", i |-> 0, rid |-> r] : r \in Surplus(cur, want, prune)}
-----------------------------------------------------------------------------
\* What a provider lists of d once it is written.
Written(d) == Reads[d]
Listed == {Written(d) : d \in Data}

Init ==
  /\ remote \in [Rids -> Listed \cup {None}]
  /\ minted = Present(remote)
  /\ ap = [p \in Applies |-> NoApply]
  /\ applies = 0 /\ edits = 0 /\ failures = 0

\* What the applies in job know of it when record r becomes d by the hand of p
\* (None: of somebody else).
Noticed(job, p, r, d) ==
  [q \in Applies |->
     IF job[q].at = "idle" \/ p = q THEN job[q]
     ELSE [job[q] EXCEPT
             !.disturbed = TRUE,
             !.moved = IF remote[r] # None /\ d # None /\ remote[r].group # d.group
                       THEN @ \cup {r} ELSE @]]
Store(p, job, r, d) ==
  /\ remote' = [remote EXCEPT ![r] = d]
  /\ ap' = Noticed(job, p, r, d)

\* A record request, the provider's console or another tool changes the zone.
RemoteChange(r, d) ==
  /\ edits < MaxEdits /\ edits' = edits + 1
  /\ r \in minted => remote[r] # None
  /\ d # remote[r]
  /\ minted' = minted \cup {r}
  /\ Store(None, ap, r, d)
  /\ UNCHANGED <<applies, failures>>
-----------------------------------------------------------------------------
\* The zone is listed and the plan made.  A listing may lack records: a page of
\* Name.com came without its body, or a record left the zone between two pages.
Listings == {[r \in Rids |-> IF r \in seen THEN remote[r] ELSE None] :
               seen \in SUBSET Present(remote)}
StartApply(p, want, prune, cur) ==
  /\ applies < MaxApplies /\ applies' = applies + 1
  /\ ap[p].at = "idle"
  /\ \/ cur = remote /\ UNCHANGED failures
     \/ cur # remote /\ failures < MaxFailures /\ failures' = failures + 1
  /\ \E pick \in Picks(cur, want) :
       ap' = [ap EXCEPT ![p] =
                [NoApply EXCEPT !.at = "run", !.want = want, !.prune = prune, !.cur = cur,
                                !.todo = Plan(cur, want, prune, pick),
                                !.missed = (cur # remote)]]
  /\ UNCHANGED <<remote, minted, edits>>

\* Creates come first, then updates, then deletes.
Order == [create |-> 1, update |-> 2, delete |-> 3]
Turn(p, c) ==
  /\ ap[p].at = "run" /\ c \in ap[p].todo
  /\ \A e \in ap[p].todo : Order[c.op] <= Order[e.op]
Without(p, c) == [ap EXCEPT ![p].todo = @ \ {c}]

\* A group of one record takes no second one, and a zone only so many records.
Full(g) == minted = Rids \/ (g \in Single /\ \E r \in Present(remote) : remote[r].group = g)
Accepted(p, c) ==
  IF c.op = "create" THEN ~Full(ap[p].want[c.i].group) ELSE remote[c.rid] # None

Create(p, c, r) ==
  /\ Turn(p, c) /\ c.op = "create" /\ Accepted(p, c)
  /\ r \notin minted
  /\ minted' = minted \cup {r}
  /\ Store(p, Without(p, c), r, Written(ap[p].want[c.i]))
  /\ UNCHANGED counters

\* Updates and deletes name a record by its handle, whatever it is by now.
Update(p, c) ==
  /\ Turn(p, c) /\ c.op = "update" /\ Accepted(p, c)
  /\ Store(p, Without(p, c), c.rid, Written(ap[p].want[c.i]))
  /\ UNCHANGED <<minted, counters>>

Delete(p, c) ==
  /\ Turn(p, c) /\ c.op = "delete" /\ Accepted(p, c)
  /\ Store(p, Without(p, c), c.rid, None)
  /\ UNCHANGED <<minted, counters>>

\* A call that the provider turns down, or that fails on the way, is noted, and
\* the next one is made.  (When the answer is lost after the provider acted, the
\* call is reported as an error too, and nothing else is different.)
Refused(p, c) ==
  /\ Turn(p, c) /\ ~Accepted(p, c)
  /\ ap' = [Without(p, c) EXCEPT ![p].refused = TRUE]
  /\ UNCHANGED <<remote, minted, counters>>

CallFails(p, c) ==
  /\ Turn(p, c)
  /\ failures < MaxFailures /\ failures' = failures + 1
  /\ ap' = [Without(p, c) EXCEPT ![p].missed = TRUE]
  /\ UNCHANGED <<remote, minted, applies, edits>>
-----------------------------------------------------------------------------
Executed(p) == ap[p].at = "run" /\ ap[p].todo = {}

Finish(p) ==
  /\ Executed(p)
  /\ ap' = [ap EXCEPT ![p] = NoApply]
  /\ UNCHANGED <<remote, minted, counters>>

\* The service dies, or the client goes away: what is left is not done.
Abandon(p) ==
  /\ ap[p].at # "idle"
  /\ failures < MaxFailures /\ failures' = failures + 1
  /\ ap' = [ap EXCEPT ![p] = NoApply]
  /\ UNCHANGED <<remote, minted, applies, edits>>
-----------------------------------------------------------------------------
Execute(p) ==
  \E c \in ap[p].todo :
    \/ \E r \in Rids : Create(p, c, r)
    \/ Update(p, c) \/ Delete(p, c) \/ Refused(p, c) \/ CallFails(p, c)

Work(p) == Execute(p) \/ Finish(p)

Next ==
  \/ \E r \in Rids, d \in Listed \cup {None} : RemoteChange(r, d)
  \/ \E cur \in Listings, p \in Applies, want \in Wants, prune \in BOOLEAN :
       StartApply(p, want, prune, cur)
  \/ \E p \in Applies : Work(p) \/ Abandon(p)

Spec == Init /\ [][Next]_vars
-----------------------------------------------------------------------------
\* Inputs that say what they want: one attribute per value, attributes that the
\* provider keeps.  Zones with one record per value.
Consistent(want) ==
  \A i, j \in DOMAIN want :
    want[i].group = want[j].group /\ want[i].content = want[j].content => want[i] = want[j]
Lasting(want) == \A i \in DOMAIN want : Written(want[i]) = want[i]
Distinct(recs) ==
  \A r, s \in Present(recs) :
    recs[r].group = recs[s].group /\ recs[r].content = recs[s].content => r = s

\* What group g holds, and which handle holds it.
Values(recs, g) == {recs[r] : r \in {s \in Present(recs) : recs[s].group = g}}
Holds(recs, g) == {<<r, recs[r]>> : r \in {s \in Present(recs) : recs[s].group = g}}

\* The zone is what want asks for: declared groups hold the desired values with
\* their attributes, the others what they held when listed, or nothing (apply.go:9-14).
Reached(p) ==
  LET want == ap[p].want IN
  \A g \in Groups :
    IF g \in Declared(want)
      THEN Values(remote, g) = {Written(want[i]) : i \in {j \in DOMAIN want : want[j].group = g}}
      ELSE Holds(remote, g) = IF Prunes(want, ap[p].prune, g) THEN {} ELSE Holds(ap[p].cur, g)

\* Nobody else changed the zone, it was listed whole, and every call reached the
\* provider.
Calm(p) == Executed(p) /\ ~ap[p].disturbed /\ ~ap[p].missed

\* An apply with a whole listing whose calls were all accepted, with nobody else at
\* work, has made the zone what was asked for, whatever it was before.
ApplyReaches ==
  \A p \in Applies :
    Calm(p) /\ ~ap[p].refused /\ Consistent(ap[p].want) /\ Distinct(ap[p].cur) => Reached(p)

\* Doing it again would change nothing (dev-plan.md:223: idempotent upsert), if
\* the provider lists the desired attributes as they were written.
ApplyIdempotent ==
  \A p \in Applies :
    Calm(p) /\ ~ap[p].refused /\ Consistent(ap[p].want) /\ Lasting(ap[p].want) /\ Distinct(ap[p].cur) =>
      \A pick \in Picks(remote, ap[p].want) : Plan(remote, ap[p].want, ap[p].prune, pick) = {}

\* An apply may touch what is in a declared group, and what it prunes.
InScope(job, g) == g \in Declared(job.want) \/ Prunes(job.want, job.prune, g)

\* However applies and other changes interleave, calls fail and listings lack
\* records, an execution alters or removes no record outside its scope (SOA and NS
\* groups included), but for a record that somebody moved to another group after
\* the listing.
OthersSpared ==
  [][\A p \in Applies, r \in Rids :
       Execute(p) /\ remote[r] # None /\ remote'[r] # remote[r] =>
         InScope(ap[p], remote[r].group) \/ r \in ap[p].moved]_vars

-----------------------------------------------------------------------------
\* What a comment says and the code does not do.

\* apply.go:9-11: in a declared group extra values go and missing ones come: a
\* declared group that held a value when listed does not end up with none.
DeclaredGroupsHold ==
  \A p \in Applies :
    Calm(p) => \A g \in Declared(ap[p].want) :
                 Values(ap[p].cur, g) # {} => Values(remote, g) # {}
=============================================================================
