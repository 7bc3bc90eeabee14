--------------------------- MODULE ZoneApply_proofs ---------------------------
(***************************************************************************)
(* What an apply may do to a zone, for any records, requests and number of *)
(* applies: types, the scope of what it changes, and the zone it leaves.   *)
(***************************************************************************)
EXTENDS ZoneApply, TLAPS

-----------------------------------------------------------------------------
\* The inductive invariants.

\* What a call changes or deletes was in the scope of its apply when listed; it is
\* in the same group now, or gone for good, or has been moved.
CallFits(job, c, now) ==
  LET old == job.cur[c.rid] IN
  /\ old # None /\ InScope(job, old.group)
  /\ c.op = "update" => job.want[c.i].group = old.group
  /\ now # None => now.group = old.group \/ c.rid \in job.moved
PlanFits ==
  /\ Present(remote) \subseteq minted
  /\ \A p \in Applies : ap[p].at = "run" =>
       \A c \in ap[p].todo : c.op # "create" =>
         c.rid \in minted /\ CallFits(ap[p], c, remote[c.rid])

\* What an apply wants is what somebody asked for.
AskedFor == \A p \in Applies : ap[p].want \in Wants \cup {<<>>}

\* What an execution that nobody disturbs has not yet made as desired is still in
\* its plan; the records of other groups are as they were listed.
OnTrack(job, now) ==
  LET want == job.want
      Due(op, r) == \E c \in job.todo : c.op = op /\ c.rid = r
  IN
  /\ \A i \in DOMAIN want : Same(job.cur, want[i]) = {} =>
       \/ \E c \in job.todo : c.op = "create" /\ c.i = i
       \/ \E r \in Rids \ Present(job.cur) : now[r] = Written(want[i])
  /\ \A r \in Rids \ Present(job.cur) :
       now[r] # None => \E i \in DOMAIN want : now[r] = Written(want[i])
  /\ \A r \in Surplus(job.cur, want, job.prune) : now[r] = None \/ Due("delete", r)
  /\ \A r \in Present(job.cur) \ Surplus(job.cur, want, job.prune) :
       IF job.cur[r].group \notin Declared(want) THEN now[r] = job.cur[r]
       ELSE \E i \in DOMAIN want :
              r \in Same(job.cur, want[i]) /\ (now[r] = Written(want[i]) \/ Due("update", r))

Smooth(job) == ~job.disturbed /\ ~job.missed /\ ~job.refused /\ Distinct(job.cur)
RunFits(job, now, known) ==
  /\ Present(job.cur) \subseteq known
  /\ \A c \in job.todo :
       /\ c.op = "update" => c.rid \in Same(job.cur, job.want[c.i])
       /\ c.op = "delete" => c.rid \in Surplus(job.cur, job.want, job.prune)
  /\ Smooth(job) => OnTrack(job, now)
ReachInv ==
  /\ remote \in [Rids -> Listed \cup {None}]
  /\ Present(remote) \subseteq minted
  /\ \A p \in Applies : ap[p].at = "run" => RunFits(ap[p], remote, minted)
-----------------------------------------------------------------------------
\* Types.

LEMMA WrittenType ==
  ASSUME NEW d \in Data
  PROVE  Written(d) \in Data /\ Written(d).group = d.group /\ Written(d).content = d.content
BY DataAssumption DEF Written

LEMMA NoApplyType == NoApply \in Job
<1>1. <<>> \in Seq(Data)
  OBVIOUS
<1>2. Nothing \in Records
  BY DEF Nothing, Records
<1> QED BY <1>1, <1>2 DEF NoApply, Job

\* A plan is a set of calls, each with what it needs.
LEMMA PlanType ==
  ASSUME NEW cur \in Records, NEW want \in Seq(Data), NEW prune \in BOOLEAN,
         NEW pick \in Picks(cur, want)
  PROVE  /\ Plan(cur, want, prune, pick) \subseteq Calls
         /\ \A c \in Plan(cur, want, prune, pick) :
              c.op # "delete" => c.i \in DOMAIN want
<1> DEFINE creates == {i \in DOMAIN want : pick[i] = None}
           updates == {i \in DOMAIN want \ creates : cur[pick[i]].attr # want[i].attr}
<1>1. DOMAIN want \subseteq Nat
  OBVIOUS
<1>2. pick \in [DOMAIN want -> Rids \cup {None}]
  BY DEF Picks
<1>3. \A i \in creates : [op |-> "create", i |-> i, rid |-> None] \in Calls
  BY <1>1 DEF Calls
<1>4. \A i \in updates : UpdateCall(i, pick[i]) \in Calls /\ UpdateCall(i, pick[i]).i = i
  BY <1>1, <1>2, DataAssumption DEF Calls, UpdateCall
<1>5. \A r \in Surplus(cur, want, prune) : [op |-> "delete", i |-> 0, rid |-> r] \in Calls
  BY DataAssumption DEF Calls, Surplus, Present
<1> QED BY <1>3, <1>4, <1>5 DEF Plan

\* What the others know after a change is still a job.
LEMMA NoticedType ==
  ASSUME TypeOK, NEW job \in [Applies -> Job], NEW p, NEW r \in Rids, NEW d
  PROVE  Noticed(job, p, r, d) \in [Applies -> Job]
<1> SUFFICES ASSUME NEW q \in Applies PROVE Noticed(job, p, r, d)[q] \in Job
  BY DEF Noticed
<1> DEFINE j == job[q]
           moved == IF remote[r] # None /\ d # None /\ remote[r].group # d.group
                    THEN j.moved \cup {r} ELSE j.moved
           new == [j EXCEPT !.disturbed = TRUE, !.moved = moved]
<1>1. j \in Job
  OBVIOUS
<1>2. moved \in SUBSET Rids
  BY <1>1 DEF Job
<1>3. new \in Job
  <2> HIDE DEF j, moved
  <2> QED BY <1>1, <1>2 DEF Job
<1> QED BY <1>1, <1>3 DEF Noticed

\* An apply as it begins, on listing cur.
Begun(want, prune, cur, pick) ==
  [NoApply EXCEPT !.at = "run", !.want = want, !.prune = prune, !.cur = cur,
                  !.todo = Plan(cur, want, prune, pick), !.missed = (cur # remote)]

LEMMA BegunFields ==
  ASSUME NEW want, NEW prune, NEW cur, NEW pick
  PROVE  LET j == Begun(want, prune, cur, pick) IN
         /\ j.at = "run" /\ j.want = want /\ j.prune = prune /\ j.cur = cur
         /\ j.todo = Plan(cur, want, prune, pick) /\ j.missed = (cur # remote)
<1> DEFINE plan == Plan(cur, want, prune, pick)
           cut == cur # remote
           j == [NoApply EXCEPT !.at = "run", !.want = want, !.prune = prune, !.cur = cur,
                                !.todo = plan, !.missed = cut]
<1>1. /\ j.at = "run" /\ j.want = want /\ j.prune = prune /\ j.cur = cur
      /\ j.todo = plan /\ j.missed = cut
  <2> HIDE DEF plan, cut
  <2> QED BY DEF NoApply
<1> QED BY <1>1 DEF Begun

LEMMA StartBegins ==
  ASSUME TypeOK, NEW p \in Applies, NEW want, NEW prune, NEW cur, StartApply(p, want, prune, cur)
  PROVE  /\ UNCHANGED <<remote, minted, edits>>
         /\ applies' = applies + 1 /\ failures' \in {failures, failures + 1}
         /\ \E pick \in Picks(cur, want) :
              ap' = [ap EXCEPT ![p] = Begun(want, prune, cur, pick)]
BY Zenon DEF StartApply, Begun

\* A listing holds nothing but what is there.
LEMMA ListingFits ==
  ASSUME TypeOK, NEW cur \in Listings
  PROVE  /\ cur \in Records /\ Present(cur) \subseteq Present(remote)
         /\ \A r \in Present(cur) : cur[r] = remote[r]
BY DataAssumption DEF TypeOK, Listings, Records, Present

LEMMA WithoutType ==
  ASSUME TypeOK, NEW p \in Applies, NEW c
  PROVE  /\ Without(p, c) \in [Applies -> Job]
         /\ [Without(p, c) EXCEPT ![p].refused = TRUE] \in [Applies -> Job]
         /\ [Without(p, c) EXCEPT ![p].missed = TRUE] \in [Applies -> Job]
<1> DEFINE j == [ap[p] EXCEPT !.todo = ap[p].todo \ {c}]
<1>1. ap \in [Applies -> Job] /\ ap[p] \in Job
  BY DEF TypeOK
<1>2. j \in Job /\ [j EXCEPT !.refused = TRUE] \in Job /\ [j EXCEPT !.missed = TRUE] \in Job
  BY <1>1 DEF Job
<1>3. Without(p, c) = [ap EXCEPT ![p] = j]
  BY <1>1 DEF Without
<1> HIDE DEF j
<1> QED BY <1>1, <1>2, <1>3

LEMMA StoreType ==
  ASSUME TypeOK, NEW p, NEW job \in [Applies -> Job], NEW r \in Rids, NEW d \in Data \cup {None},
         Store(p, job, r, d)
  PROVE  remote' \in Records /\ ap' \in [Applies -> Job]
BY NoticedType DEF Store, TypeOK, Records

\* The desired record of a create or an update.
LEMMA WantType ==
  ASSUME TypeOK, NEW p \in Applies, NEW c \in ap[p].todo
  PROVE  /\ c \in Calls
         /\ c.op # "delete" => ap[p].want[c.i] \in Data
         /\ c.op # "create" => c.rid \in Rids
<1>1. ap[p] \in Job
  BY DEF TypeOK
<1>2. ap[p].want \in Seq(Data) /\ c \in Calls /\ (c.op # "delete" => c.i \in DOMAIN ap[p].want)
  BY <1>1 DEF Job
<1> QED BY <1>2 DEF Calls

\* Every variable keeps its type.
THEOREM TypeCorrect == Spec => []TypeOK
<1>1. Init => TypeOK
  BY WrittenType, NoApplyType DEF Init, TypeOK, Listed, Records, Present
<1>2. TypeOK /\ [Next]_vars => TypeOK'
  <2> SUFFICES ASSUME TypeOK, [Next]_vars PROVE TypeOK'
    OBVIOUS
  <2> USE DEF counters
  <2>1. CASE UNCHANGED vars
    BY <2>1 DEF vars, TypeOK
  <2>2. ASSUME NEW r \in Rids, NEW d \in Listed \cup {None}, RemoteChange(r, d) PROVE TypeOK'
    <3>1. d \in Data \cup {None}
      BY WrittenType DEF Listed
    <3> QED BY <2>2, <3>1, StoreType DEF RemoteChange, TypeOK
  <2>3. ASSUME NEW cur \in Listings, NEW p \in Applies, NEW want \in Wants,
               NEW prune \in BOOLEAN, StartApply(p, want, prune, cur)
        PROVE  TypeOK'
    <3>1. PICK pick \in Picks(cur, want) :
            ap' = [ap EXCEPT ![p] = Begun(want, prune, cur, pick)]
      BY <2>3, StartBegins
    <3>2. want \in Seq(Data) /\ cur \in Records
      BY DataAssumption, ListingFits
    <3> DEFINE plan == Plan(cur, want, prune, pick)
               cut == cur # remote
               new == [NoApply EXCEPT !.at = "run", !.want = want, !.prune = prune,
                                      !.cur = cur, !.todo = plan, !.missed = cut]
    <3>3. plan \subseteq Calls /\ \A c \in plan : c.op # "delete" => c.i \in DOMAIN want
      BY <3>2, PlanType
    <3>4. new \in Job
      <4>1. "run" \in {"idle", "run"} /\ cut \in BOOLEAN
        OBVIOUS
      <4> HIDE DEF plan, cut
      <4> QED BY <3>2, <3>3, <4>1, NoApplyType DEF Job
    <3>5. Begun(want, prune, cur, pick) \in Job
      BY <3>4 DEF Begun
    <3> HIDE DEF new
    <3>6. ap' \in [Applies -> Job]
      BY <3>1, <3>5 DEF TypeOK
    <3> QED BY <2>3, <3>6, StartBegins DEF TypeOK
  <2>4. ASSUME NEW p \in Applies, Work(p) PROVE TypeOK'
    <3>1. ASSUME NEW c \in ap[p].todo, NEW r \in Rids, Create(p, c, r) PROVE TypeOK'
      <4>1. Written(ap[p].want[c.i]) \in Data
        BY <3>1, WantType, WrittenType DEF Create
      <4> QED BY <3>1, <4>1, WithoutType, StoreType DEF Create, TypeOK
    <3>2. ASSUME NEW c \in ap[p].todo, Update(p, c) PROVE TypeOK'
      <4>1. Written(ap[p].want[c.i]) \in Data /\ c.rid \in Rids
        BY <3>2, WantType, WrittenType DEF Update
      <4> QED BY <3>2, <4>1, WithoutType, StoreType DEF Update, TypeOK
    <3>3. ASSUME NEW c \in ap[p].todo, Delete(p, c) PROVE TypeOK'
      <4>1. c.rid \in Rids
        BY <3>3, WantType DEF Delete
      <4>2. Without(p, c) \in [Applies -> Job]
        BY WithoutType
      <4>3. remote' \in Records /\ ap' \in [Applies -> Job]
        <5>1. Store(p, Without(p, c), c.rid, None) /\ None \in Data \cup {None}
          BY <3>3 DEF Delete
        <5> QED BY <4>1, <4>2, <5>1, StoreType
      <4> QED BY <3>3, <4>3 DEF Delete, TypeOK
    <3>4. ASSUME NEW c \in ap[p].todo, Refused(p, c) \/ CallFails(p, c) PROVE TypeOK'
      <4>1. /\ [Without(p, c) EXCEPT ![p].refused = TRUE] \in [Applies -> Job]
            /\ [Without(p, c) EXCEPT ![p].missed = TRUE] \in [Applies -> Job]
        BY WithoutType
      <4>2. CASE Refused(p, c)
        BY <4>1, <4>2 DEF Refused, TypeOK
      <4>3. CASE CallFails(p, c)
        BY <4>1, <4>3 DEF CallFails, TypeOK
      <4> QED BY <3>4, <4>2, <4>3
    <3>5. CASE Finish(p)
      BY <3>5, NoApplyType DEF Finish, TypeOK
    <3> QED BY <2>4, <3>1, <3>2, <3>3, <3>4, <3>5 DEF Work, Execute
  <2>5. ASSUME NEW p \in Applies, Abandon(p) PROVE TypeOK'
    BY <2>5, NoApplyType DEF Abandon, TypeOK
  <2> QED BY <2>1, <2>2, <2>3, <2>4, <2>5 DEF Next
<1> QED BY <1>1, <1>2, PTL DEF Spec
-----------------------------------------------------------------------------
\* Changes, as jobs see them.

\* The work of an apply goes on as it was.
Goes(old, new) ==
  /\ new.at = old.at /\ new.want = old.want /\ new.prune = old.prune
  /\ new.todo = old.todo /\ new.cur = old.cur

LEMMA NoticedFields ==
  ASSUME NEW job \in [Applies -> Job], NEW p, NEW r \in Rids, NEW d, NEW q \in Applies
  PROVE  LET old == job[q]  new == Noticed(job, p, r, d)[q] IN
         /\ Goes(old, new)
         /\ old.moved \subseteq new.moved
         /\ p = q => new = old
         /\ old.at # "idle" /\ p # q =>
              (remote[r] # None /\ d # None /\ remote[r].group # d.group => r \in new.moved)
<1> DEFINE old == job[q]
           moved == IF remote[r] # None /\ d # None /\ remote[r].group # d.group
                    THEN old.moved \cup {r} ELSE old.moved
           chg == [old EXCEPT !.disturbed = TRUE, !.moved = moved]
<1>1. old \in Job
  OBVIOUS
<1>2. /\ chg.at = old.at /\ chg.want = old.want /\ chg.prune = old.prune
      /\ chg.todo = old.todo /\ chg.cur = old.cur /\ chg.moved = moved
  <2> HIDE DEF old, moved
  <2> QED BY <1>1 DEF Job
<1>3. Noticed(job, p, r, d)[q] = IF old.at = "idle" \/ p = q THEN old ELSE chg
  BY DEF Noticed
<1>4. /\ old.moved \subseteq moved
      /\ remote[r] # None /\ d # None /\ remote[r].group # d.group => r \in moved
  OBVIOUS
<1> HIDE DEF old, moved, chg
<1> QED BY <1>2, <1>3, <1>4 DEF old, Goes

\* job is what the applies are once p has made call c.
Advanced(job, p, c) ==
  \A q \in Applies :
    /\ job[q].at = ap[q].at /\ job[q].want = ap[q].want /\ job[q].prune = ap[q].prune
    /\ job[q].todo = IF q = p THEN ap[q].todo \ {c} ELSE ap[q].todo
    /\ job[q].cur = ap[q].cur /\ job[q].moved = ap[q].moved

LEMMA WithoutFields ==
  ASSUME TypeOK, NEW p \in Applies, NEW c
  PROVE  /\ Advanced(Without(p, c), p, c)
         /\ Advanced([Without(p, c) EXCEPT ![p].refused = TRUE], p, c)
         /\ Advanced([Without(p, c) EXCEPT ![p].missed = TRUE], p, c)
<1> SUFFICES ASSUME NEW job,
                    \/ job = Without(p, c)
                    \/ job = [Without(p, c) EXCEPT ![p].refused = TRUE]
                    \/ job = [Without(p, c) EXCEPT ![p].missed = TRUE]
             PROVE  Advanced(job, p, c)
  BY Zenon
<1> SUFFICES ASSUME NEW q \in Applies
             PROVE  /\ job[q].at = ap[q].at /\ job[q].want = ap[q].want
                    /\ job[q].prune = ap[q].prune
                    /\ job[q].todo = IF q = p THEN ap[q].todo \ {c} ELSE ap[q].todo
                    /\ job[q].cur = ap[q].cur /\ job[q].moved = ap[q].moved
  BY DEF Advanced
<1> DEFINE j == [ap[p] EXCEPT !.todo = ap[p].todo \ {c}]
<1>1. ap \in [Applies -> Job] /\ ap[p] \in Job
  BY DEF TypeOK
<1>2. Without(p, c) = [ap EXCEPT ![p] = j]
  BY <1>1 DEF Without
<1>3. j \in Job
  BY <1>1 DEF Job
<1>4. j.at = ap[p].at /\ j.want = ap[p].want /\ j.prune = ap[p].prune
      /\ j.todo = ap[p].todo \ {c} /\ j.cur = ap[p].cur
      /\ j.moved = ap[p].moved
  BY <1>1 DEF Job
<1> HIDE DEF j
<1>5. job[p] \in {j, [j EXCEPT !.refused = TRUE], [j EXCEPT !.missed = TRUE]}
  BY <1>1, <1>2
<1>6. q # p => job[q] = ap[q]
  BY <1>1, <1>2
<1>7. job[p].at = j.at /\ job[p].want = j.want /\ job[p].prune = j.prune
      /\ job[p].todo = j.todo /\ job[p].cur = j.cur
      /\ job[p].moved = j.moved
  BY <1>3, <1>5 DEF Job
<1> QED BY <1>4, <1>6, <1>7
-----------------------------------------------------------------------------
\* The scope of an apply.

\* A plan changes and deletes what the listing has in scope.
LEMMA PlanScope ==
  ASSUME NEW cur \in Records, NEW want \in Seq(Data), NEW prune \in BOOLEAN,
         NEW pick \in Picks(cur, want), NEW c \in Plan(cur, want, prune, pick), c.op # "create"
  PROVE  /\ c.rid \in Present(cur)
         /\ cur[c.rid].group \in Declared(want) \/ Prunes(want, prune, cur[c.rid].group)
         /\ c.op = "update" => want[c.i].group = cur[c.rid].group
<1>1. CASE \E r \in Surplus(cur, want, prune) : c = [op |-> "delete", i |-> 0, rid |-> r]
  BY <1>1 DEF Surplus
<1>2. CASE \E i \in DOMAIN want : pick[i] # None /\ c = UpdateCall(i, pick[i])
  <2>1. PICK i \in DOMAIN want : pick[i] # None /\ c = UpdateCall(i, pick[i])
    BY <1>2
  <2>2. pick[i] \in Same(cur, want[i])
    BY <2>1 DEF Picks
  <2>3. c.i = i /\ c.rid = pick[i]
    BY <2>1 DEF UpdateCall
  <2> QED BY <2>2, <2>3 DEF Same, Declared
<1> QED BY <1>1, <1>2 DEF Plan

LEMMA StorePlan ==
  ASSUME TypeOK, PlanFits, NEW p, NEW job \in [Applies -> Job], NEW r \in Rids, NEW d,
         Store(p, job, r, d), minted' = minted \cup {r}, r \in minted => remote[r] # None,
         \A q \in Applies :
           /\ job[q].at = ap[q].at /\ job[q].want = ap[q].want /\ job[q].prune = ap[q].prune
           /\ job[q].cur = ap[q].cur /\ job[q].moved = ap[q].moved
           /\ job[q].todo \subseteq ap[q].todo,
         p \in Applies => d = None \/ remote[r] = None \/ d.group = remote[r].group \/ r \in ap[p].moved
  PROVE  PlanFits'
<1>1. remote' = [remote EXCEPT ![r] = d] /\ ap' = Noticed(job, p, r, d)
  BY DEF Store
<1>2. \A s \in Rids \ {r} : remote'[s] = remote[s]
  BY <1>1 DEF TypeOK, Records
<1>3. remote'[r] = d
  BY <1>1 DEF TypeOK, Records
<1>4. (Present(remote) \subseteq minted)'
  BY <1>2 DEF PlanFits, Present
<1>5. ASSUME NEW q \in Applies, ap'[q].at = "run", NEW c \in ap'[q].todo, c.op # "create"
      PROVE  c.rid \in minted' /\ CallFits(ap'[q], c, remote'[c.rid])
  <2> DEFINE new == Noticed(job, p, r, d)[q]
             old == ap[q].cur[c.rid]
  <2>1. /\ new.at = job[q].at /\ new.want = job[q].want /\ new.prune = job[q].prune
        /\ new.todo = job[q].todo /\ new.cur = job[q].cur /\ job[q].moved \subseteq new.moved
    <3>1. Goes(job[q], new)
      BY NoticedFields, Zenon
    <3>2. job[q].moved \subseteq new.moved
      BY NoticedFields, Zenon
    <3> HIDE DEF new
    <3> QED BY <3>1, <3>2 DEF Goes
  <2>2. job[q].at # "idle" /\ p # q /\ remote[r] # None /\ d # None /\ remote[r].group # d.group
          => r \in new.moved
    BY NoticedFields
  <2>3. ap'[q] = new
    BY <1>1
  <2> HIDE DEF new
  <2>4. /\ new.want = ap[q].want /\ new.prune = ap[q].prune /\ new.cur = ap[q].cur
        /\ ap[q].moved \subseteq new.moved /\ ap[q].at = "run" /\ c \in ap[q].todo
    BY <1>5, <2>1, <2>3
  <2>5. c.rid \in minted /\ CallFits(ap[q], c, remote[c.rid])
    BY <1>5, <2>4 DEF PlanFits
  <2>6. c.rid \in Rids
    BY <1>5, <2>4, WantType
  <2>7. ASSUME remote'[c.rid] # None
        PROVE  remote'[c.rid].group = old.group \/ c.rid \in new.moved
    <3>1. CASE c.rid # r
      BY <1>2, <2>4, <2>5, <2>6, <2>7, <3>1 DEF CallFits
    <3>2. CASE c.rid = r /\ q = p
      BY <1>3, <2>4, <2>5, <2>7, <3>2 DEF CallFits
    <3>3. CASE c.rid = r /\ q # p
      <4>1. remote[r] # None /\ d # None
        BY <1>3, <2>5, <2>7, <3>3
      <4>2. remote[r].group # d.group => r \in new.moved
        BY <2>1, <2>2, <2>4, <3>3, <4>1
      <4> QED BY <1>3, <2>4, <2>5, <3>3, <4>1, <4>2 DEF CallFits
    <3> QED BY <3>1, <3>2, <3>3
  <2>8. CallFits(new, c, remote'[c.rid])
    BY <2>4, <2>5, <2>7 DEF CallFits, InScope
  <2> QED BY <2>3, <2>5, <2>8
<1> QED BY <1>4, <1>5 DEF PlanFits

LEMMA PlanStep == TypeOK /\ TypeOK' /\ PlanFits /\ [Next]_vars => PlanFits'
<1> SUFFICES ASSUME TypeOK, TypeOK', PlanFits, [Next]_vars PROVE PlanFits'
  OBVIOUS
<1> USE DEF counters
<1>1. CASE UNCHANGED vars
  BY <1>1 DEF vars, PlanFits, Present, CallFits, InScope
<1>2. ASSUME NEW r \in Rids, NEW d \in Listed \cup {None}, RemoteChange(r, d) PROVE PlanFits'
  <2>1. /\ Store(None, ap, r, d) /\ ap \in [Applies -> Job] /\ None \notin Applies
        /\ minted' = minted \cup {r} /\ (r \in minted => remote[r] # None)
    BY <1>2, DataAssumption DEF RemoteChange, TypeOK
  <2> QED BY <2>1, StorePlan
<1>3. ASSUME NEW p \in Applies, NEW j, ap' = [ap EXCEPT ![p] = j], j.at # "run",
             UNCHANGED <<remote, minted>>
      PROVE  PlanFits'
  <2>1. \A q \in Applies : ap'[q].at = "run" => ap'[q] = ap[q]
    BY <1>3 DEF TypeOK
  <2> QED BY <1>3, <2>1 DEF PlanFits, Present, CallFits, InScope
<1>4. ASSUME NEW cur \in Listings, NEW p \in Applies, NEW want \in Wants,
             NEW prune \in BOOLEAN, StartApply(p, want, prune, cur)
      PROVE  PlanFits'
  <2>1. PICK pick \in Picks(cur, want) :
          ap' = [ap EXCEPT ![p] = Begun(want, prune, cur, pick)]
    BY <1>4, StartBegins
  <2> DEFINE plan == Plan(cur, want, prune, pick)
             j == Begun(want, prune, cur, pick)
  <2>2. /\ want \in Seq(Data) /\ cur \in Records /\ Present(cur) \subseteq Present(remote)
        /\ \A r \in Present(cur) : cur[r] = remote[r]
    BY DataAssumption, ListingFits
  <2>3. \A c \in plan : c.op # "create" =>
          /\ c.rid \in Present(cur)
          /\ \/ cur[c.rid].group \in Declared(want)
             \/ Prunes(want, prune, cur[c.rid].group)
          /\ c.op = "update" => want[c.i].group = cur[c.rid].group
    BY <2>2, PlanScope
  <2>4. j.want = want /\ j.prune = prune /\ j.cur = cur /\ j.todo = plan
    BY BegunFields
  <2> HIDE DEF plan, j
  <2>5. ap'[p] = j /\ \A q \in Applies \ {p} : ap'[q] = ap[q]
    BY <2>1 DEF TypeOK, j
  <2>6. UNCHANGED <<remote, minted>>
    BY <1>4, StartBegins
  <2>7. ASSUME NEW c \in j.todo, c.op # "create"
        PROVE  c.rid \in minted /\ CallFits(j, c, remote[c.rid])
    <3>1. /\ c.rid \in Present(cur)
          /\ \/ cur[c.rid].group \in Declared(want)
             \/ Prunes(want, prune, cur[c.rid].group)
          /\ c.op = "update" => want[c.i].group = cur[c.rid].group
      BY <2>3, <2>4, <2>7
    <3>2. c.rid \in minted /\ cur[c.rid] = remote[c.rid] /\ cur[c.rid] # None
      BY <2>2, <3>1 DEF PlanFits, Present
    <3> QED BY <2>4, <3>1, <3>2 DEF CallFits, InScope
  <2>8. \A q \in Applies : ap'[q].at = "run" => \A c \in ap'[q].todo : c.op # "create" =>
          c.rid \in minted /\ CallFits(ap'[q], c, remote[c.rid])
    <3> SUFFICES ASSUME NEW q \in Applies, ap'[q].at = "run"
                 PROVE  \A c \in ap'[q].todo : c.op # "create" =>
                          c.rid \in minted /\ CallFits(ap'[q], c, remote[c.rid])
      OBVIOUS
    <3>1. CASE q = p
      BY <2>5, <2>7, <3>1
    <3>2. CASE q # p
      BY <2>5, <3>2 DEF PlanFits
    <3> QED BY <3>1, <3>2
  <2>9. (Present(remote) \subseteq minted)'
    BY <2>6 DEF PlanFits, Present
  <2> QED BY <2>6, <2>8, <2>9 DEF PlanFits
<1>5. ASSUME NEW p \in Applies, NEW c \in ap[p].todo, Turn(p, c), NEW r \in Rids, NEW d,
             Store(p, Without(p, c), r, d), minted' = minted \cup {r},
             r \in minted => remote[r] # None,
             d = None \/ remote[r] = None \/ d.group = remote[r].group \/ r \in ap[p].moved
      PROVE  PlanFits'
  <2>1. Without(p, c) \in [Applies -> Job] /\ Advanced(Without(p, c), p, c)
    BY WithoutType, WithoutFields
  <2>2. \A q \in Applies :
           LET job == Without(p, c) IN
           /\ job[q].at = ap[q].at /\ job[q].want = ap[q].want /\ job[q].prune = ap[q].prune
           /\ job[q].cur = ap[q].cur /\ job[q].moved = ap[q].moved
           /\ job[q].todo \subseteq ap[q].todo
    BY <2>1 DEF Advanced
  <2> QED BY <1>5, <2>1, <2>2, StorePlan
<1>6. ASSUME NEW p \in Applies, Execute(p) PROVE PlanFits'
  <2>1. PICK c \in ap[p].todo :
          \/ \E r \in Rids : Create(p, c, r)
          \/ Update(p, c) \/ Delete(p, c) \/ Refused(p, c) \/ CallFails(p, c)
    BY <1>6 DEF Execute
  <2>2. ASSUME NEW r \in Rids, Create(p, c, r) PROVE PlanFits'
    <3>1. r \notin minted /\ remote[r] = None
      BY <2>2 DEF Create, PlanFits, Present
    <3> QED BY <1>5, <2>2, <3>1 DEF Create
  <2>3. ASSUME Update(p, c) \/ Delete(p, c)
        PROVE  /\ c.rid \in Rids /\ c.rid \in minted /\ remote[c.rid] # None /\ Turn(p, c)
               /\ minted' = minted \cup {c.rid}
    <3>1. /\ Turn(p, c) /\ c.op # "create" /\ remote[c.rid] # None /\ minted' = minted
      BY <2>3 DEF Update, Delete, Accepted
    <3>2. c.rid \in Rids /\ c.rid \in minted
      BY <3>1, WantType DEF PlanFits, Present
    <3> QED BY <3>1, <3>2
  <2>4. CASE Update(p, c)
    <3> DEFINE d == Written(ap[p].want[c.i])
    <3>1. c.op = "update" /\ ap[p].at = "run"
      BY <2>4 DEF Update, Turn
    <3>2. d.group = ap[p].want[c.i].group
      BY <3>1, WantType, WrittenType
    <3>3. d.group = remote[c.rid].group \/ c.rid \in ap[p].moved
      BY <2>3, <2>4, <3>1, <3>2 DEF PlanFits, CallFits
    <3>4. Store(p, Without(p, c), c.rid, d)
      BY <2>4 DEF Update
    <3> QED BY <1>5, <2>3, <2>4, <3>3, <3>4
  <2>5. CASE Delete(p, c)
    BY <1>5, <2>3, <2>5 DEF Delete
  <2>6. CASE Refused(p, c) \/ CallFails(p, c)
    <3>1. Advanced(ap', p, c) /\ UNCHANGED <<remote, minted>>
      BY <2>6, WithoutFields DEF Refused, CallFails
    <3>2. \A q \in Applies :
            /\ ap'[q].at = ap[q].at /\ ap'[q].want = ap[q].want /\ ap'[q].prune = ap[q].prune
            /\ ap'[q].cur = ap[q].cur /\ ap'[q].moved = ap[q].moved
            /\ ap'[q].todo \subseteq ap[q].todo
      BY <3>1 DEF Advanced
    <3> QED BY <3>1, <3>2 DEF PlanFits, Present, CallFits, InScope
  <2> QED BY <2>1, <2>2, <2>4, <2>5, <2>6
<1>7. ASSUME NEW p \in Applies, Finish(p) \/ Abandon(p) PROVE PlanFits'
  <2>1. NoApply.at # "run"
    BY DEF NoApply
  <2>2. ap' = [ap EXCEPT ![p] = NoApply] /\ UNCHANGED <<remote, minted>>
    BY <1>7 DEF Finish, Abandon
  <2> QED BY <1>3, <2>1, <2>2
<1> QED BY <1>1, <1>2, <1>4, <1>6, <1>7 DEF Next, Work

\* What an apply has yet to change or delete was in its scope, and is unless moved.
THEOREM PlanCorrect == Spec => []PlanFits
<1>1. Init => PlanFits
  <2> SUFFICES ASSUME Init PROVE PlanFits
    OBVIOUS
  <2>1. \A p \in Applies : ap[p].at = "idle"
    BY DEF Init, NoApply
  <2> QED BY <2>1 DEF Init, PlanFits
<1> QED BY <1>1, PlanStep, TypeCorrect, PTL DEF Spec

\* An execution alters or removes no record outside its scope, but for one that
\* somebody moved to another group after the listing.
THEOREM OthersCorrect == Spec => OthersSpared
<1> DEFINE Spared ==
      \A p \in Applies, r \in Rids :
        Execute(p) /\ remote[r] # None /\ remote'[r] # remote[r] =>
          InScope(ap[p], remote[r].group) \/ r \in ap[p].moved
<1>1. TypeOK /\ PlanFits /\ [Next]_vars => [Spared]_vars
  <2> SUFFICES ASSUME TypeOK, PlanFits, NEW p \in Applies, NEW r \in Rids,
                      Execute(p), remote[r] # None, remote'[r] # remote[r]
               PROVE  InScope(ap[p], remote[r].group) \/ r \in ap[p].moved
    OBVIOUS
  <2>1. PICK c \in ap[p].todo :
          \/ \E s \in Rids : Create(p, c, s)
          \/ Update(p, c) \/ Delete(p, c) \/ Refused(p, c) \/ CallFails(p, c)
    BY DEF Execute
  <2>2. ~ \E s \in Rids : Create(p, c, s)
    <3> SUFFICES ASSUME NEW s \in Rids, Create(p, c, s) PROVE FALSE
      OBVIOUS
    <3>1. remote[s] = None
      BY DEF Create, PlanFits, Present
    <3>2. remote'[r] = remote[r]
      BY <3>1 DEF Create, Store, TypeOK, Records
    <3> QED BY <3>2
  <2>3. Update(p, c) \/ Delete(p, c)
    BY <2>1, <2>2 DEF Refused, CallFails
  <2>4. c.op # "create" /\ ap[p].at = "run" /\ r = c.rid
    BY <2>3 DEF Update, Delete, Turn, Store, TypeOK, Records
  <2> QED BY <2>4 DEF PlanFits, CallFits
<1> QED BY <1>1, PlanCorrect, TypeCorrect, PTL DEF Spec, OthersSpared
-----------------------------------------------------------------------------
\* What an execution arrives at.

\* The end of a plan that is on track: group by group as desired.
LEMMA TrackEnds ==
  ASSUME TypeOK, NEW p \in Applies, ap[p].todo = {}, OnTrack(ap[p], remote),
         Consistent(ap[p].want)
  PROVE  Reached(p)
<1> DEFINE want == ap[p].want
           cur == ap[p].cur
           prune == ap[p].prune
<1>1. want \in Seq(Data) /\ cur \in Records /\ remote \in Records
  BY DEF TypeOK, Job
<1>2. \A i \in DOMAIN want : /\ want[i] \in Data /\ Written(want[i]) \in Data
                             /\ Written(want[i]).group = want[i].group
  BY <1>1, WrittenType
<1>3. \A i \in DOMAIN want : Same(cur, want[i]) = {} =>
        \E r \in Rids \ Present(cur) : remote[r] = Written(want[i])
  BY DEF OnTrack
<1>4. \A r \in Rids \ Present(cur) :
        remote[r] # None => \E i \in DOMAIN want : remote[r] = Written(want[i])
  BY DEF OnTrack
<1>5. \A r \in Surplus(cur, want, prune) : remote[r] = None
  BY DEF OnTrack
<1>6. \A r \in Present(cur) \ Surplus(cur, want, prune) :
        IF cur[r].group \notin Declared(want) THEN remote[r] = cur[r]
        ELSE \E i \in DOMAIN want : r \in Same(cur, want[i]) /\ remote[r] = Written(want[i])
  BY DEF OnTrack
<1>7. \A i, j \in DOMAIN want :
        want[i].group = want[j].group /\ want[i].content = want[j].content => want[i] = want[j]
  BY DEF Consistent
<1> HIDE DEF want, cur, prune
\* Whatever is in the zone is either desired or was there, in a group not declared.
<1>8. ASSUME NEW r \in Rids, remote[r] # None
      PROVE  \/ \E i \in DOMAIN want : remote[r] = Written(want[i])
             \/ /\ r \in Present(cur) \ Surplus(cur, want, prune)
                /\ remote[r] = cur[r] /\ cur[r].group \notin Declared(want)
  <2>1. CASE r \notin Present(cur)
    BY <1>4, <1>8, <2>1
  <2>2. CASE r \in Present(cur)
    BY <1>5, <1>6, <1>8, <2>2
  <2> QED BY <2>1, <2>2
<1>9. ASSUME NEW g \in Declared(want)
      PROVE  Values(remote, g)
               = {Written(want[i]) : i \in {j \in DOMAIN want : want[j].group = g}}
  <2>1. ASSUME NEW r \in Present(remote), remote[r].group = g
        PROVE  \E i \in DOMAIN want : want[i].group = g /\ remote[r] = Written(want[i])
    BY <1>2, <1>8, <1>9, <2>1 DEF Present
  <2>2. ASSUME NEW i \in DOMAIN want, want[i].group = g
        PROVE  \E r \in Present(remote) : remote[r].group = g /\ remote[r] = Written(want[i])
    <3>1. \E r \in Rids : remote[r] = Written(want[i])
      <4>1. CASE Same(cur, want[i]) = {}
        BY <1>3, <4>1
      <4>2. CASE Same(cur, want[i]) # {}
        <5>1. PICK r \in Present(cur) :
                cur[r].group = want[i].group /\ cur[r].content = want[i].content
          BY <4>2 DEF Same
        <5>2. r \notin Surplus(cur, want, prune) /\ cur[r].group \in Declared(want)
          BY <5>1, <2>2, <1>9 DEF Surplus, Wanted, Declared, Prunes
        <5>3. PICK j \in DOMAIN want : r \in Same(cur, want[j]) /\ remote[r] = Written(want[j])
          BY <1>6, <5>2
        <5>4. want[j] = want[i]
          BY <1>7, <5>1, <5>3 DEF Same
        <5> QED BY <5>3, <5>4 DEF Present
      <4> QED BY <4>1, <4>2
    <3> QED BY <1>2, <2>2, <3>1, DataAssumption DEF Present
  <2> QED BY <2>1, <2>2 DEF Values
<1>10. ASSUME NEW g \in Groups, g \notin Declared(want)
       PROVE  Holds(remote, g) = IF Prunes(want, prune, g) THEN {} ELSE Holds(cur, g)
  <2>1. ASSUME NEW r \in Present(remote), remote[r].group = g
        PROVE  r \in Present(cur) /\ cur[r] = remote[r] /\ ~Prunes(want, prune, g)
    <3>1. ~ \E i \in DOMAIN want : remote[r] = Written(want[i])
      BY <1>2, <1>10, <2>1 DEF Declared
    <3>2. r \in Present(cur) \ Surplus(cur, want, prune) /\ remote[r] = cur[r]
      BY <1>8, <3>1 DEF Present
    <3> QED BY <2>1, <3>2 DEF Surplus
  <2>2. ASSUME NEW r \in Present(cur), cur[r].group = g, ~Prunes(want, prune, g)
        PROVE  r \in Present(remote) /\ remote[r] = cur[r]
    <3>1. r \notin Surplus(cur, want, prune)
      BY <1>10, <2>2 DEF Surplus
    <3> QED BY <1>6, <1>10, <2>2, <3>1 DEF Present
  <2>3. CASE Prunes(want, prune, g)
    BY <2>1, <2>3 DEF Holds
  <2>4. CASE ~Prunes(want, prune, g)
    <3>1. \A r \in Rids : r \in Present(remote) /\ remote[r].group = g
                            <=> r \in Present(cur) /\ cur[r].group = g
      BY <2>1, <2>2, <2>4
    <3>2. \A r \in Present(remote) : remote[r].group = g => remote[r] = cur[r]
      BY <2>1
    <3>3. {s \in Present(remote) : remote[s].group = g} = {s \in Present(cur) : cur[s].group = g}
      BY <3>1 DEF Present
    <3> QED BY <2>4, <3>2, <3>3 DEF Holds
  <2> QED BY <2>3, <2>4
<1> QED BY <1>9, <1>10 DEF Reached, want, cur, prune

\* Where the desired state has been reached, there is nothing to plan.
LEMMA NothingLeft ==
  ASSUME TypeOK, NEW p \in Applies, Reached(p), Consistent(ap[p].want), Lasting(ap[p].want),
         NEW pick \in Picks(remote, ap[p].want)
  PROVE  Plan(remote, ap[p].want, ap[p].prune, pick) = {}
<1> DEFINE want == ap[p].want
           prune == ap[p].prune
<1>1. want \in Seq(Data) /\ remote \in Records
  BY DEF TypeOK, Job
<1>2. \A i \in DOMAIN want : want[i] \in Data /\ Written(want[i]) = want[i]
  BY <1>1 DEF Lasting
<1>3. \A g \in Declared(want) :
        Values(remote, g) = {Written(want[i]) : i \in {j \in DOMAIN want : want[j].group = g}}
  <2>1. Declared(want) \subseteq Groups
    BY <1>2 DEF Declared, Data
  <2> QED BY <2>1 DEF Reached
<1>4. \A g \in Groups : g \notin Declared(want) /\ Prunes(want, prune, g) => Holds(remote, g) = {}
  BY DEF Reached
<1>5. \A i, j \in DOMAIN want :
        want[i].group = want[j].group /\ want[i].content = want[j].content => want[i] = want[j]
  BY DEF Consistent
<1> HIDE DEF want, prune
<1>6. pick \in [DOMAIN want -> Rids \cup {None}]
      /\ \A i \in DOMAIN want : IF Same(remote, want[i]) = {} THEN pick[i] = None
                                ELSE pick[i] \in Same(remote, want[i])
  BY DEF Picks, want
\* A record in a declared group is one of the desired ones.
<1>7. ASSUME NEW r \in Present(remote), remote[r].group \in Declared(want)
      PROVE  \E i \in DOMAIN want : remote[r] = want[i]
  <2>1. remote[r] \in Values(remote, remote[r].group)
    BY DEF Values
  <2> QED BY <1>2, <1>3, <1>7, <2>1
<1>8. ASSUME NEW i \in DOMAIN want PROVE pick[i] # None /\ remote[pick[i]].attr = want[i].attr
  <2>1. want[i].group \in Declared(want)
    BY DEF Declared
  <2>2. want[i] \in Values(remote, want[i].group)
    BY <1>2, <1>3, <2>1
  <2>3. Same(remote, want[i]) # {}
    BY <2>2 DEF Values, Same
  <2>4. pick[i] \in Same(remote, want[i])
    BY <1>6, <2>3
  <2>5. PICK j \in DOMAIN want : remote[pick[i]] = want[j]
    BY <1>7, <2>1, <2>4 DEF Same
  <2>6. want[j] = want[i]
    BY <1>5, <2>4, <2>5 DEF Same
  <2> QED BY <2>4, <2>5, <2>6, DataAssumption, <1>6 DEF Same, Present
<1>9. Surplus(remote, want, prune) = {}
  <2> SUFFICES ASSUME NEW r \in Surplus(remote, want, prune) PROVE FALSE
    OBVIOUS
  <2>1. r \in Present(remote) /\ remote[r] \in Data
    BY <1>1 DEF Surplus, Present, Records
  <2>2. CASE remote[r].group \in Declared(want)
    BY <1>7, <2>1, <2>2 DEF Surplus, Wanted, Prunes
  <2>3. CASE remote[r].group \notin Declared(want)
    <3>1. Prunes(want, prune, remote[r].group) /\ remote[r].group \in Groups
      BY <2>1, <2>3 DEF Surplus, Data
    <3> QED BY <1>4, <2>1, <2>3, <3>1 DEF Holds
  <2> QED BY <2>2, <2>3
<1> QED BY <1>8, <1>9 DEF Plan, want, prune

-----------------------------------------------------------------------------
\* Executions stay on track.

\* All of a job but what is left of its plan and what its history says.
LEMMA NoticedOther ==
  ASSUME NEW job \in [Applies -> Job], NEW p, NEW r \in Rids, NEW d, NEW q \in Applies,
         p # q, job[q].at # "idle"
  PROVE  Noticed(job, p, r, d)[q].disturbed
<1> DEFINE old == job[q]
           moved == IF remote[r] # None /\ d # None /\ remote[r].group # d.group
                    THEN old.moved \cup {r} ELSE old.moved
           chg == [old EXCEPT !.disturbed = TRUE, !.moved = moved]
<1>1. chg.disturbed = TRUE
  <2> HIDE DEF moved
  <2> QED BY DEF Job
<1>2. Noticed(job, p, r, d)[q] = chg
  BY DEF Noticed
<1> HIDE DEF chg
<1> QED BY <1>1, <1>2

\* The job of an apply that has made call c.
After(p, c) == [ap[p] EXCEPT !.todo = ap[p].todo \ {c}]

LEMMA AfterFields ==
  ASSUME TypeOK, NEW p \in Applies, NEW c
  PROVE  /\ After(p, c).at = ap[p].at /\ After(p, c).want = ap[p].want
         /\ After(p, c).prune = ap[p].prune /\ After(p, c).cur = ap[p].cur
         /\ After(p, c).todo = ap[p].todo \ {c}
         /\ Smooth(After(p, c)) <=> Smooth(ap[p])
         /\ Without(p, c) = [ap EXCEPT ![p] = After(p, c)]
<1>1. ap[p] \in Job /\ ap \in [Applies -> Job]
  BY DEF TypeOK
<1>2. /\ After(p, c).at = ap[p].at /\ After(p, c).want = ap[p].want
      /\ After(p, c).prune = ap[p].prune /\ After(p, c).cur = ap[p].cur
      /\ After(p, c).todo = ap[p].todo \ {c}
  BY <1>1 DEF After, Job
<1>3. /\ After(p, c).disturbed = ap[p].disturbed /\ After(p, c).missed = ap[p].missed
      /\ After(p, c).refused = ap[p].refused
  BY <1>1 DEF After, Job
<1> QED BY <1>1, <1>2, <1>3 DEF Smooth, Without, After

\* A change by somebody else disturbs a job, and leaves its plan as it is.
LEMMA StoreOther ==
  ASSUME TypeOK, NEW job \in [Applies -> Job], NEW p, NEW r \in Rids, NEW d,
         Store(p, job, r, d), minted \subseteq minted',
         NEW q \in Applies, q # p, job[q] = ap[q], ap'[q].at = "run",
         ap[q].at = "run" => RunFits(ap[q], remote, minted)
  PROVE  RunFits(ap'[q], remote', minted')
<1>1. ap'[q] = Noticed(job, p, r, d)[q]
  BY DEF Store
<1>2. Goes(job[q], ap'[q])
  <2>1. Goes(job[q], Noticed(job, p, r, d)[q])
    BY NoticedFields, Zenon
  <2> QED BY <1>1, <2>1
<1>3. ap[q].at = "run" /\ ap'[q].disturbed
  BY <1>1, <1>2, NoticedOther DEF Goes
<1> QED BY <1>2, <1>3 DEF RunFits, Smooth, Goes

\* A call of a smooth execution makes one record as desired.
LEMMA CreateTrack ==
  ASSUME TypeOK, NEW p \in Applies, NEW c \in ap[p].todo, c.op = "create",
         OnTrack(ap[p], remote), NEW r \in Rids, remote[r] = None, r \notin Present(ap[p].cur),
         remote' = [remote EXCEPT ![r] = Written(ap[p].want[c.i])]
  PROVE  OnTrack(After(p, c), remote')
<1> DEFINE want == ap[p].want
           cur == ap[p].cur
<1>1. /\ After(p, c).want = want /\ After(p, c).cur = cur /\ After(p, c).prune = ap[p].prune
      /\ After(p, c).todo = ap[p].todo \ {c}
  BY AfterFields
<1>2. c.i \in DOMAIN want /\ Written(want[c.i]) # None
  <2>1. want[c.i] \in Data /\ c.i \in DOMAIN want
    BY WantType DEF TypeOK, Job
  <2> QED BY <2>1, WrittenType, DataAssumption
<1>3. remote'[r] = Written(want[c.i]) /\ \A s \in Rids \ {r} : remote'[s] = remote[s]
  BY DEF TypeOK, Records
<1> HIDE DEF want, cur
<1>4. ASSUME NEW i \in DOMAIN want, Same(cur, want[i]) = {}
      PROVE  \/ \E e \in ap[p].todo \ {c} : e.op = "create" /\ e.i = i
             \/ \E s \in Rids \ Present(cur) : remote'[s] = Written(want[i])
  <2>1. CASE c.i = i
    BY <1>3, <2>1 DEF cur
  <2>2. CASE \E e \in ap[p].todo \ {c} : e.op = "create" /\ e.i = i
    BY <2>2
  <2>3. CASE \E s \in Rids \ Present(cur) : remote[s] = Written(want[i])
    <3>1. PICK s \in Rids \ Present(cur) : remote[s] = Written(want[i])
      BY <2>3
    <3>2. Written(want[i]) # None
      BY WrittenType, DataAssumption DEF want, TypeOK, Job
    <3> QED BY <1>3, <3>1, <3>2
  <2> QED BY <1>4, <2>1, <2>2, <2>3 DEF OnTrack, want, cur
<1>5. ASSUME NEW s \in Rids \ Present(cur), remote'[s] # None
      PROVE  \E i \in DOMAIN want : remote'[s] = Written(want[i])
  BY <1>2, <1>3, <1>5 DEF OnTrack, want, cur
<1>6. \A s \in Present(cur) : remote'[s] = remote[s]
  BY <1>3 DEF cur, Present
<1>7. ASSUME NEW s \in Surplus(cur, want, ap[p].prune)
      PROVE  remote'[s] = None \/ \E e \in ap[p].todo \ {c} : e.op = "delete" /\ e.rid = s
  BY <1>6 DEF OnTrack, want, cur, Surplus
<1>8. ASSUME NEW s \in Present(cur) \ Surplus(cur, want, ap[p].prune)
      PROVE  IF cur[s].group \notin Declared(want) THEN remote'[s] = cur[s]
             ELSE \E i \in DOMAIN want : s \in Same(cur, want[i]) /\
                    (\/ remote'[s] = Written(want[i])
                     \/ \E e \in ap[p].todo \ {c} : e.op = "update" /\ e.rid = s)
  <2>1. IF cur[s].group \notin Declared(want) THEN remote[s] = cur[s]
        ELSE \E i \in DOMAIN want : s \in Same(cur, want[i]) /\
               (\/ remote[s] = Written(want[i])
                \/ \E e \in ap[p].todo : e.op = "update" /\ e.rid = s)
    BY DEF OnTrack, want, cur
  <2> QED BY <1>6, <2>1
<1> QED BY <1>1, <1>4, <1>5, <1>7, <1>8 DEF OnTrack

LEMMA UpdateTrack ==
  ASSUME TypeOK, NEW p \in Applies, NEW c \in ap[p].todo, c.op = "update",
         OnTrack(ap[p], remote), c.rid \in Same(ap[p].cur, ap[p].want[c.i]),
         remote' = [remote EXCEPT ![c.rid] = Written(ap[p].want[c.i])]
  PROVE  OnTrack(After(p, c), remote')
<1> DEFINE want == ap[p].want
           cur == ap[p].cur
<1>1. /\ After(p, c).want = want /\ After(p, c).cur = cur /\ After(p, c).prune = ap[p].prune
      /\ After(p, c).todo = ap[p].todo \ {c}
  BY AfterFields
<1>2. c.i \in DOMAIN want
  BY WantType DEF TypeOK, Job
<1>3. /\ c.rid \in Present(cur) /\ cur[c.rid].group = want[c.i].group
      /\ cur[c.rid].content = want[c.i].content
  BY DEF Same
<1>4. remote'[c.rid] = Written(want[c.i]) /\ \A s \in Rids \ {c.rid} : remote'[s] = remote[s]
  BY <1>3 DEF TypeOK, Records, Present
<1> HIDE DEF want, cur
<1>5. c.rid \notin Surplus(cur, want, ap[p].prune) /\ cur[c.rid].group \in Declared(want)
  BY <1>2, <1>3 DEF Surplus, Wanted, Declared, Prunes
<1>6. ASSUME NEW i \in DOMAIN want, Same(cur, want[i]) = {}
      PROVE  \/ \E e \in ap[p].todo \ {c} : e.op = "create" /\ e.i = i
             \/ \E s \in Rids \ Present(cur) : remote'[s] = Written(want[i])
  BY <1>3, <1>4, <1>6 DEF OnTrack, want, cur
<1>7. ASSUME NEW s \in Rids \ Present(cur), remote'[s] # None
      PROVE  \E i \in DOMAIN want : remote'[s] = Written(want[i])
  BY <1>3, <1>4, <1>7 DEF OnTrack, want, cur
<1>8. ASSUME NEW s \in Surplus(cur, want, ap[p].prune)
      PROVE  remote'[s] = None \/ \E e \in ap[p].todo \ {c} : e.op = "delete" /\ e.rid = s
  <2>1. s # c.rid /\ s \in Rids
    BY <1>5 DEF Surplus, Present
  <2> QED BY <1>4, <2>1 DEF OnTrack, want, cur
<1>9. ASSUME NEW s \in Present(cur) \ Surplus(cur, want, ap[p].prune)
      PROVE  IF cur[s].group \notin Declared(want) THEN remote'[s] = cur[s]
             ELSE \E i \in DOMAIN want : s \in Same(cur, want[i]) /\
                    (\/ remote'[s] = Written(want[i])
                     \/ \E e \in ap[p].todo \ {c} : e.op = "update" /\ e.rid = s)
  <2>1. IF cur[s].group \notin Declared(want) THEN remote[s] = cur[s]
        ELSE \E i \in DOMAIN want : s \in Same(cur, want[i]) /\
               (\/ remote[s] = Written(want[i])
                \/ \E e \in ap[p].todo : e.op = "update" /\ e.rid = s)
    BY DEF OnTrack, want, cur
  <2>2. CASE s = c.rid
    <3>1. s \in Same(cur, want[c.i])
      BY <1>3, <2>2 DEF Same
    <3> QED BY <1>2, <1>4, <1>5, <2>2, <3>1
  <2>3. CASE s # c.rid
    <3>1. remote'[s] = remote[s]
      BY <1>4, <2>3 DEF Present
    <3> QED BY <2>1, <2>3, <3>1
  <2> QED BY <2>2, <2>3
<1> QED BY <1>1, <1>6, <1>7, <1>8, <1>9 DEF OnTrack

LEMMA DeleteTrack ==
  ASSUME TypeOK, NEW p \in Applies, NEW c \in ap[p].todo, c.op = "delete",
         OnTrack(ap[p], remote), c.rid \in Surplus(ap[p].cur, ap[p].want, ap[p].prune),
         remote' = [remote EXCEPT ![c.rid] = None]
  PROVE  OnTrack(After(p, c), remote')
<1> DEFINE want == ap[p].want
           cur == ap[p].cur
<1>1. /\ After(p, c).want = want /\ After(p, c).cur = cur /\ After(p, c).prune = ap[p].prune
      /\ After(p, c).todo = ap[p].todo \ {c}
  BY AfterFields
<1>2. c.rid \in Present(cur)
  BY DEF Surplus
<1>3. remote'[c.rid] = None /\ \A s \in Rids \ {c.rid} : remote'[s] = remote[s]
  BY <1>2 DEF TypeOK, Records, Present
<1> HIDE DEF want, cur
<1>4. ASSUME NEW i \in DOMAIN want, Same(cur, want[i]) = {}
      PROVE  \/ \E e \in ap[p].todo \ {c} : e.op = "create" /\ e.i = i
             \/ \E s \in Rids \ Present(cur) : remote'[s] = Written(want[i])
  BY <1>2, <1>3, <1>4 DEF OnTrack, want, cur
<1>5. ASSUME NEW s \in Rids \ Present(cur), remote'[s] # None
      PROVE  \E i \in DOMAIN want : remote'[s] = Written(want[i])
  BY <1>2, <1>3, <1>5 DEF OnTrack, want, cur
<1>6. ASSUME NEW s \in Surplus(cur, want, ap[p].prune)
      PROVE  remote'[s] = None \/ \E e \in ap[p].todo \ {c} : e.op = "delete" /\ e.rid = s
  <2>1. s \in Rids
    BY DEF Surplus, Present
  <2> QED BY <1>3, <2>1 DEF OnTrack, want, cur
<1>7. ASSUME NEW s \in Present(cur) \ Surplus(cur, want, ap[p].prune)
      PROVE  IF cur[s].group \notin Declared(want) THEN remote'[s] = cur[s]
             ELSE \E i \in DOMAIN want : s \in Same(cur, want[i]) /\
                    (\/ remote'[s] = Written(want[i])
                     \/ \E e \in ap[p].todo \ {c} : e.op = "update" /\ e.rid = s)
  <2>1. IF cur[s].group \notin Declared(want) THEN remote[s] = cur[s]
        ELSE \E i \in DOMAIN want : s \in Same(cur, want[i]) /\
               (\/ remote[s] = Written(want[i])
                \/ \E e \in ap[p].todo : e.op = "update" /\ e.rid = s)
    BY DEF OnTrack, want, cur
  <2>2. s # c.rid /\ s \in Rids
    BY DEF want, cur, Present
  <2> QED BY <1>3, <2>1, <2>2
<1> QED BY <1>1, <1>4, <1>5, <1>6, <1>7 DEF OnTrack

\* A smooth plan begins on track, for what is not as desired is in it.
LEMMA PlanTrack ==
  ASSUME TypeOK, remote \in [Rids -> Listed \cup {None}], NEW want \in Seq(Data),
         NEW prune \in BOOLEAN, NEW pick \in Picks(remote, want),
         NEW j, j.want = want, j.prune = prune, j.cur = remote,
         j.todo = Plan(remote, want, prune, pick), Smooth(j)
  PROVE  OnTrack(j, remote)
<1> DEFINE plan == Plan(remote, want, prune, pick)
           sur == Surplus(remote, want, prune)
<1>1. \A i \in DOMAIN want : IF Same(remote, want[i]) = {} THEN pick[i] = None
                             ELSE pick[i] \in Same(remote, want[i])
  BY DEF Picks
<1>2. ASSUME NEW i \in DOMAIN want, Same(remote, want[i]) = {}
      PROVE  \E c \in plan : c.op = "create" /\ c.i = i
  <2>1. [op |-> "create", i |-> i, rid |-> None] \in plan
    BY <1>1, <1>2 DEF Plan
  <2> QED BY <2>1
<1>3. ASSUME NEW r \in sur PROVE \E c \in plan : c.op = "delete" /\ c.rid = r
  <2>1. [op |-> "delete", i |-> 0, rid |-> r] \in plan
    BY DEF Plan
  <2> QED BY <2>1
<1>4. ASSUME NEW r \in Present(remote) \ sur, remote[r].group \in Declared(want)
      PROVE  \E i \in DOMAIN want : r \in Same(remote, want[i]) /\
               (remote[r] = Written(want[i]) \/ \E c \in plan : c.op = "update" /\ c.rid = r)
  <2>1. PICK i \in DOMAIN want :
          want[i].group = remote[r].group /\ want[i].content = remote[r].content
    BY <1>4 DEF Surplus, Wanted
  <2>2. r \in Same(remote, want[i])
    BY <2>1 DEF Same
  <2>3. pick[i] = r
    BY <1>1, <2>1, <2>2 DEF Same, Smooth, Distinct
  <2>4. remote[r] \in Data /\ want[i] \in Data /\ r # None /\ Written(remote[r]) = remote[r]
    <3>1. remote[r] \in Listed /\ r \in Rids
      BY DEF Present
    <3>2. PICK d \in Data : remote[r] = Written(d)
      BY <3>1 DEF Listed
    <3> QED BY <3>1, <3>2, DataAssumption DEF Written
  <2>5. CASE remote[r].attr = want[i].attr
    <3>1. remote[r] = want[i]
      BY <2>1, <2>4, <2>5 DEF Data
    <3> QED BY <2>2, <2>4, <3>1
  <2>6. CASE remote[r].attr # want[i].attr
    <3>1. UpdateCall(i, r) \in plan
      BY <2>3, <2>4, <2>6 DEF Plan
    <3> QED BY <2>2, <3>1 DEF UpdateCall
  <2> QED BY <2>5, <2>6
<1> HIDE DEF plan
<1> QED BY <1>2, <1>3, <1>4 DEF OnTrack, plan, Present

\* A plan updates and deletes what the listing has for it.
LEMMA PlanNames ==
  ASSUME NEW cur, NEW want, NEW prune, NEW pick \in Picks(cur, want),
         NEW c \in Plan(cur, want, prune, pick)
  PROVE  /\ c.op = "update" => c.rid \in Same(cur, want[c.i])
         /\ c.op = "delete" => c.rid \in Surplus(cur, want, prune)
<1>1. CASE \E i \in DOMAIN want : c = [op |-> "create", i |-> i, rid |-> None]
  BY <1>1
<1>2. CASE \E r \in Surplus(cur, want, prune) : c = [op |-> "delete", i |-> 0, rid |-> r]
  BY <1>2
<1>3. CASE \E i \in DOMAIN want : pick[i] # None /\ c = UpdateCall(i, pick[i])
  <2>1. PICK i \in DOMAIN want : pick[i] # None /\ c = UpdateCall(i, pick[i])
    BY <1>3
  <2>2. pick[i] \in Same(cur, want[i])
    BY <2>1 DEF Picks
  <2> QED BY <2>1, <2>2 DEF UpdateCall
<1> QED BY <1>1, <1>2, <1>3 DEF Plan

\* A call of p that is carried out.
LEMMA CallReach ==
  ASSUME TypeOK, ReachInv, NEW p \in Applies, NEW c \in ap[p].todo, ap[p].at = "run",
         NEW r \in Rids, NEW d \in Listed \cup {None}, Store(p, Without(p, c), r, d),
         minted' = minted \cup {r},
         Smooth(ap[p]) => OnTrack(After(p, c), remote')
  PROVE  ReachInv'
<1>1. remote' = [remote EXCEPT ![r] = d] /\ ap' = Noticed(Without(p, c), p, r, d)
  BY DEF Store
<1>2. remote' \in [Rids -> Listed \cup {None}]
  BY <1>1 DEF ReachInv
<1>3. Present(remote') \subseteq minted'
  BY <1>1 DEF ReachInv, Present
<1>4. Without(p, c) \in [Applies -> Job] /\ Without(p, c) = [ap EXCEPT ![p] = After(p, c)]
  BY WithoutType, AfterFields
<1>5. ASSUME NEW q \in Applies, q # p, ap'[q].at = "run"
      PROVE  RunFits(ap'[q], remote', minted')
  <2>1. Without(p, c)[q] = ap[q]
    BY <1>4, <1>5 DEF TypeOK
  <2>2. ap[q].at = "run" => RunFits(ap[q], remote, minted)
    BY DEF ReachInv
  <2>3. minted \subseteq minted'
    OBVIOUS
  <2> QED BY <1>4, <1>5, <2>1, <2>2, <2>3, StoreOther
<1>6. ap'[p] = After(p, c)
  <2>1. Noticed(Without(p, c), p, r, d)[p] = Without(p, c)[p]
    BY Zenon DEF Noticed
  <2> QED BY <1>1, <1>4, <2>1 DEF TypeOK
<1>7. RunFits(After(p, c), remote', minted')
  <2>1. RunFits(ap[p], remote, minted)
    BY DEF ReachInv
  <2>2. /\ After(p, c).want = ap[p].want /\ After(p, c).prune = ap[p].prune
        /\ After(p, c).cur = ap[p].cur /\ After(p, c).todo \subseteq ap[p].todo
        /\ Smooth(After(p, c)) <=> Smooth(ap[p])
    BY AfterFields
  <2> QED BY <2>1, <2>2 DEF RunFits
<1> QED BY <1>2, <1>3, <1>5, <1>6, <1>7 DEF ReachInv

LEMMA ReachStep == TypeOK /\ TypeOK' /\ ReachInv /\ [Next]_vars => ReachInv'
<1> SUFFICES ASSUME TypeOK, TypeOK', ReachInv, [Next]_vars PROVE ReachInv'
  OBVIOUS
<1> USE DEF counters
\* The zone as it was, and all running jobs as they were.
<1>1. ASSUME UNCHANGED <<remote, minted>>,
             \A q \in Applies : ap'[q].at = "run" => ap'[q] = ap[q]
      PROVE  ReachInv'
  BY <1>1 DEF ReachInv
<1>2. CASE UNCHANGED vars
  BY <1>1, <1>2 DEF vars
<1>3. ASSUME NEW p \in Applies, NEW j, ap' = [ap EXCEPT ![p] = j], j.at # "run",
             UNCHANGED <<remote, minted>>
      PROVE  ReachInv'
  BY <1>1, <1>3 DEF TypeOK
<1>4. ASSUME NEW r \in Rids, NEW d \in Listed \cup {None}, RemoteChange(r, d) PROVE ReachInv'
  <2>1. /\ Store(None, ap, r, d) /\ minted' = minted \cup {r}
        /\ remote' = [remote EXCEPT ![r] = d]
    BY <1>4 DEF RemoteChange, Store
  <2>2. remote' \in [Rids -> Listed \cup {None}] /\ Present(remote') \subseteq minted'
    BY <2>1 DEF ReachInv, Present
  <2>3. ASSUME NEW q \in Applies, ap'[q].at = "run" PROVE RunFits(ap'[q], remote', minted')
    <3>1. ap \in [Applies -> Job] /\ q # None /\ minted \subseteq minted'
      BY <2>1, DataAssumption DEF TypeOK
    <3>2. ap[q].at = "run" => RunFits(ap[q], remote, minted)
      BY DEF ReachInv
    <3> QED BY <2>1, <2>3, <3>1, <3>2, StoreOther
  <2> QED BY <2>2, <2>3 DEF ReachInv
<1>5. ASSUME NEW cur \in Listings, NEW p \in Applies, NEW want \in Wants,
             NEW prune \in BOOLEAN, StartApply(p, want, prune, cur)
      PROVE  ReachInv'
  <2>1. PICK pick \in Picks(cur, want) :
          ap' = [ap EXCEPT ![p] = Begun(want, prune, cur, pick)]
    BY <1>5, StartBegins
  <2> DEFINE plan == Plan(cur, want, prune, pick)
             j == Begun(want, prune, cur, pick)
  <2>2. /\ j.want = want /\ j.prune = prune /\ j.cur = cur /\ j.todo = plan
        /\ j.missed = (cur # remote)
    BY BegunFields
  <2>3. \A c \in plan : /\ c.op = "update" => c.rid \in Same(cur, want[c.i])
                        /\ c.op = "delete" => c.rid \in Surplus(cur, want, prune)
    BY PlanNames
  <2>4. Smooth(j) => OnTrack(j, remote)
    <3>1. want \in Seq(Data) /\ remote \in [Rids -> Listed \cup {None}]
      BY DataAssumption DEF ReachInv
    <3>2. Smooth(j) => cur = remote
      BY <2>2 DEF Smooth
    <3> HIDE DEF j
    <3> QED BY <2>2, <3>1, <3>2, PlanTrack
  <2> HIDE DEF plan, j
  <2>5. ap'[p] = j /\ \A q \in Applies \ {p} : ap'[q] = ap[q]
    BY <2>1 DEF TypeOK, j
  <2>6. UNCHANGED <<remote, minted>>
    BY <1>5, StartBegins
  <2>7. Present(cur) \subseteq minted
    BY ListingFits DEF ReachInv
  <2>8. RunFits(j, remote, minted)
    BY <2>2, <2>3, <2>4, <2>7 DEF RunFits
  <2> QED BY <2>5, <2>6, <2>8 DEF ReachInv
<1>6. ASSUME NEW p \in Applies, Execute(p) PROVE ReachInv'
  <2>1. PICK c \in ap[p].todo :
          \/ \E r \in Rids : Create(p, c, r)
          \/ Update(p, c) \/ Delete(p, c) \/ Refused(p, c) \/ CallFails(p, c)
    BY <1>6 DEF Execute
  <2>2. ASSUME ap[p].at = "run" PROVE RunFits(ap[p], remote, minted)
    BY <2>2 DEF ReachInv
  <2>3. c.op # "delete" => Written(ap[p].want[c.i]) \in Listed
    BY WantType DEF Listed
  <2>4. ASSUME NEW r \in Rids, Create(p, c, r) PROVE ReachInv'
    <3>1. /\ ap[p].at = "run" /\ c.op = "create" /\ r \notin minted /\ minted' = minted \cup {r}
          /\ Store(p, Without(p, c), r, Written(ap[p].want[c.i]))
      BY <2>4 DEF Create, Turn
    <3>2. remote[r] = None /\ r \notin Present(ap[p].cur)
      BY <2>2, <3>1 DEF ReachInv, RunFits, Present
    <3>3. Smooth(ap[p]) => OnTrack(After(p, c), remote')
      BY <2>2, <3>1, <3>2, CreateTrack DEF RunFits, Store
    <3> QED BY <2>3, <3>1, <3>3, CallReach
  <2>5. CASE Update(p, c)
    <3>1. /\ ap[p].at = "run" /\ c.op = "update" /\ remote[c.rid] # None /\ minted' = minted
          /\ Store(p, Without(p, c), c.rid, Written(ap[p].want[c.i]))
      BY <2>5 DEF Update, Turn, Accepted
    <3>2. c.rid \in Rids /\ minted' = minted \cup {c.rid}
      BY <3>1, WantType DEF ReachInv, Present
    <3>3. c.rid \in Same(ap[p].cur, ap[p].want[c.i])
      BY <2>2, <3>1 DEF RunFits
    <3>4. Smooth(ap[p]) => OnTrack(After(p, c), remote')
      BY <2>2, <3>1, <3>3, UpdateTrack DEF RunFits, Store
    <3> QED BY <2>3, <3>1, <3>2, <3>4, CallReach
  <2>6. CASE Delete(p, c)
    <3>1. /\ ap[p].at = "run" /\ c.op = "delete" /\ remote[c.rid] # None /\ minted' = minted
          /\ Store(p, Without(p, c), c.rid, None)
      BY <2>6 DEF Delete, Turn, Accepted
    <3>2. c.rid \in Rids /\ minted' = minted \cup {c.rid}
      BY <3>1, WantType DEF ReachInv, Present
    <3>3. c.rid \in Surplus(ap[p].cur, ap[p].want, ap[p].prune)
      BY <2>2, <3>1 DEF RunFits
    <3>4. Smooth(ap[p]) => OnTrack(After(p, c), remote')
      BY <2>2, <3>1, <3>3, DeleteTrack DEF RunFits, Store
    <3> QED BY <3>1, <3>2, <3>4, CallReach
  <2>7. CASE Refused(p, c) \/ CallFails(p, c)
    <3> DEFINE new == ap'[p]
    <3>1. /\ UNCHANGED <<remote, minted>> /\ Turn(p, c)
          /\ \/ ap' = [Without(p, c) EXCEPT ![p].refused = TRUE]
             \/ ap' = [Without(p, c) EXCEPT ![p].missed = TRUE]
      BY <2>7 DEF Refused, CallFails
    <3>2. Without(p, c) = [ap EXCEPT ![p] = After(p, c)] /\ Without(p, c) \in [Applies -> Job]
      BY WithoutType, AfterFields
    <3>3. \A q \in Applies \ {p} : ap'[q] = ap[q]
      BY <3>1, <3>2 DEF TypeOK
    <3>4. new \in {[After(p, c) EXCEPT !.refused = TRUE], [After(p, c) EXCEPT !.missed = TRUE]}
      BY <3>1, <3>2 DEF TypeOK
    <3>5. After(p, c) \in Job
      BY <3>2 DEF TypeOK
    <3>6. /\ new.want = After(p, c).want /\ new.prune = After(p, c).prune
          /\ new.cur = After(p, c).cur /\ new.todo = After(p, c).todo
          /\ new.refused \/ new.missed
      <4> HIDE DEF new
      <4> QED BY <3>4, <3>5 DEF Job
    <3>7. RunFits(new, remote, minted)
      <4>1. RunFits(ap[p], remote, minted)
        BY <2>2, <3>1 DEF Turn
      <4>2. /\ new.want = ap[p].want /\ new.prune = ap[p].prune
            /\ new.cur = ap[p].cur /\ new.todo \subseteq ap[p].todo
        BY <3>6, AfterFields
      <4> HIDE DEF new
      <4> QED BY <3>6, <4>1, <4>2 DEF RunFits, Smooth
    <3> QED BY <3>1, <3>3, <3>7 DEF ReachInv
  <2> QED BY <2>1, <2>4, <2>5, <2>6, <2>7
<1>7. ASSUME NEW p \in Applies, Finish(p) \/ Abandon(p) PROVE ReachInv'
  <2>1. NoApply.at # "run"
    BY DEF NoApply
  <2>2. ap' = [ap EXCEPT ![p] = NoApply] /\ UNCHANGED <<remote, minted>>
    BY <1>7 DEF Finish, Abandon
  <2> QED BY <1>3, <2>1, <2>2
<1> QED BY <1>2, <1>4, <1>5, <1>6, <1>7 DEF Next, Work

\* What a smooth execution has not yet made as desired is still in its plan.
THEOREM TrackCorrect == Spec => []ReachInv
<1>1. Init => ReachInv
  <2> SUFFICES ASSUME Init PROVE ReachInv
    OBVIOUS
  <2>1. \A p \in Applies : ap[p].at = "idle"
    BY DEF Init, NoApply
  <2> QED BY <2>1 DEF Init, ReachInv
<1> QED BY <1>1, ReachStep, TypeCorrect, PTL DEF Spec

\* An apply with a whole listing whose calls were all accepted, with nobody else at
\* work, has made the zone what was asked for.
THEOREM ReachCorrect == Spec => []ApplyReaches
<1>1. TypeOK /\ ReachInv => ApplyReaches
  BY TrackEnds DEF ApplyReaches, ReachInv, RunFits, Smooth, Calm, Executed
<1> QED BY <1>1, TrackCorrect, TypeCorrect, PTL

\* Doing it again would change nothing, if the provider lists the desired records
\* as they were written.
THEOREM IdempotentCorrect == Spec => []ApplyIdempotent
<1>1. TypeOK /\ ApplyReaches => ApplyIdempotent
  BY NothingLeft DEF ApplyReaches, ApplyIdempotent
<1> QED BY <1>1, ReachCorrect, TypeCorrect, PTL
=============================================================================
