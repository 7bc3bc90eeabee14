--------------------------- MODULE Service_proofs ---------------------------
(***************************************************************************)
(* Proofs about Service, for any number of requests, retries, records on a *)
(* page, changes of the zone and of the dock.                              *)
(***************************************************************************)
EXTENDS Service, SequenceTheorems, TLAPS

-----------------------------------------------------------------------------
\* The inductive invariants.

Counted == \A r \in Reqs : call[r].at = "pause" => call[r].tries < MaxRetries

Asked(r) == call[r].at \in {"ask", "pause"}
SendsOnce ==
  /\ AtMostOnce
  /\ \A r \in Reqs :
       /\ call[r].at \in {"idle", "ask", "pause"} => arrived[r] = 0
       /\ Asked(r) /\ call[r].page = 0 => type = "cloudflare"

Early == {"none", "verify", "member", "access", "read", "refused"}
GateHolds ==
  \A r \in Reqs :
    /\ AtGate(r) => member \subseteq req[r].was /\ enabled \subseteq req[r].had
    /\ req[r].at \in Early => call[r].at = "idle" /\ ~req[r].stored
    /\ req[r].at \in {"none", "verify", "member"} => req[r].ws = Personal
    /\ req[r].at \notin {"none", "verify", "member", "refused"} =>
         req[r].ws = Personal \/ req[r].ws \in req[r].was
    /\ req[r].at \notin Early \ {"read"} => req[r].ws \in req[r].had

DrainHolds ==
  /\ CutOnlyLate
  /\ \A r \in Reqs :
       /\ phase = "start" => req[r].at = "none"
       /\ req[r].at = "ok" => req[r].stored
       /\ req[r].at \in Early => call[r].at = "idle"
       /\ Asked(r) => req[r].at = "call"

\* How much of the zone a listing has been through, and what is to come.
Past(r) == IF call[r].page = 0 THEN 0 ELSE (call[r].page - 1) * PerPage
Rest(z, n) == {z[i] : i \in {j \in DOMAIN z : j > n}}
PagesFit ==
  /\ ~Twice(zone)
  /\ ListingSound
  /\ \A r \in Reqs : Listing(r) =>
       /\ ~call[r].left => call[r].stayed \subseteq ToSet(call[r].got) \cup Rest(zone, Past(r))
       /\ ~call[r].came => ~Twice(call[r].got) /\ Rest(zone, Past(r)) \cap ToSet(call[r].got) = {}
       /\ ~call[r].cut
LEMMA RemoveFacts ==
  ASSUME NEW s \in Seq(Records), NEW i \in 1..Len(s)
  PROVE  /\ RemoveAt(s, i) \in Seq(Records)
         /\ Len(RemoveAt(s, i)) = Len(s) - 1
         /\ \A j \in 1..Len(s) - 1 : RemoveAt(s, i)[j] = s[IF j < i THEN j ELSE j + 1]
<1> DEFINE a == SubSeq(s, 1, i - 1)
           b == SubSeq(s, i + 1, Len(s))
<1>1. /\ a \in Seq(Records) /\ Len(a) = i - 1
      /\ \A j \in 1..i - 1 : a[j] = s[j]
  BY SubSeqProperties
<1>2. /\ b \in Seq(Records) /\ Len(b) = Len(s) - i
      /\ \A j \in 1..Len(s) - i : b[j] = s[i + j]
  BY SubSeqProperties
<1> HIDE DEF a, b
<1>3. /\ a \o b \in Seq(Records) /\ Len(a \o b) = Len(a) + Len(b)
      /\ \A j \in 1..Len(a) + Len(b) : (a \o b)[j] = IF j <= Len(a) THEN a[j] ELSE b[j - Len(a)]
  BY <1>1, <1>2, ConcatProperties
<1>4. ASSUME NEW j \in 1..Len(s) - 1 PROVE (a \o b)[j] = s[IF j < i THEN j ELSE j + 1]
  BY <1>1, <1>2, <1>3
<1>5. RemoveAt(s, i) = a \o b
  BY DEF RemoveAt, a, b
<1>6. Len(a) + Len(b) = Len(s) - 1
  BY <1>1, <1>2
<1> QED
  BY <1>3, <1>4, <1>5, <1>6

LEMMA InsertFacts ==
  ASSUME NEW s \in Seq(Records), NEW i \in 1..Len(s) + 1, NEW x \in Records
  PROVE  /\ InsertAt(s, i, x) \in Seq(Records)
         /\ Len(InsertAt(s, i, x)) = Len(s) + 1
         /\ \A j \in 1..Len(s) + 1 :
              InsertAt(s, i, x)[j] = IF j < i THEN s[j] ELSE IF j = i THEN x ELSE s[j - 1]
<1> DEFINE a == SubSeq(s, 1, i - 1)
           b == SubSeq(s, i, Len(s))
           ax == a \o <<x>>
<1>1. /\ a \in Seq(Records) /\ Len(a) = i - 1
      /\ \A j \in 1..i - 1 : a[j] = s[j]
  BY SubSeqProperties
<1>2. /\ b \in Seq(Records) /\ Len(b) = Len(s) - i + 1
      /\ \A j \in 1..Len(s) - i + 1 : b[j] = s[i + j - 1]
  BY SubSeqProperties
<1> HIDE DEF a, b
<1>3. <<x>> \in Seq(Records) /\ Len(<<x>>) = 1 /\ <<x>>[1] = x
  OBVIOUS
<1>4. /\ ax \in Seq(Records) /\ Len(ax) = i
      /\ \A j \in 1..i : ax[j] = IF j <= i - 1 THEN a[j] ELSE x
  BY <1>1, <1>3, ConcatProperties
<1> HIDE DEF ax
<1>5. /\ ax \o b \in Seq(Records) /\ Len(ax \o b) = Len(s) + 1
      /\ \A j \in 1..Len(s) + 1 : (ax \o b)[j] = IF j <= i THEN ax[j] ELSE b[j - i]
  BY <1>2, <1>4, ConcatProperties
<1>6. ASSUME NEW j \in 1..Len(s) + 1
      PROVE  (ax \o b)[j] = IF j < i THEN s[j] ELSE IF j = i THEN x ELSE s[j - 1]
  BY <1>1, <1>2, <1>4, <1>5
<1>7. InsertAt(s, i, x) = ax \o b
  BY DEF InsertAt, a, b, ax
<1> QED
  BY <1>5, <1>6, <1>7

LEMMA PageFacts ==
  ASSUME ClientTypeOK, NEW n \in Nat \ {0}
  PROVE  OnPage(n) \in Seq(Records)
<1>1. n * PerPage \in Nat /\ (n - 1) * PerPage \in Nat
  BY ClientAssumption
<1>2. CASE IsLast(n)
  BY <1>1, <1>2 DEF OnPage, ClientTypeOK
<1>3. CASE ~IsLast(n)
  BY <1>1, <1>3 DEF OnPage, IsLast, ClientTypeOK
<1> QED
  BY <1>2, <1>3

\* The steps of a call leave it well formed.
LEMMA ExchangeType ==
  ASSUME ClientTypeOK, NEW r \in Reqs, Exchange(r), Counted
  PROVE  ClientTypeOK' /\ Counted'
<1>0. call[r] \in Call /\ call \in [Reqs -> Call] /\ arrived \in [Reqs -> Nat]
  BY DEF ClientTypeOK
<1>a. ASSUME NEW c \in Call, call' = [call EXCEPT ![r] = c], arrived' \in [Reqs -> Nat],
             UNCHANGED <<type, zone, edits>>, c.at = "pause" => c.tries < MaxRetries
      PROVE  ClientTypeOK' /\ Counted'
  BY <1>a, <1>0 DEF ClientTypeOK, Counted
<1>b. OnlyCall => arrived' \in [Reqs -> Nat] /\ UNCHANGED <<type, zone, edits>>
  BY <1>0 DEF OnlyCall
<1>z. 0 \in 0..MaxRetries /\ <<>> \in Seq(Records)
  BY ClientAssumption
<1>c. Errs(r) => \E c \in Call : call' = [call EXCEPT ![r] = c] /\ c.at = "err"
  <2> DEFINE c == [NoCall EXCEPT !.at = "err", !.op = call[r].op]
  <2>1. c \in Call /\ c.at = "err"
    BY <1>0, <1>z DEF Call, NoCall
  <2> HIDE DEF c
  <2>2. Errs(r) => call' = [call EXCEPT ![r] = c]
    BY DEF Errs, c
  <2> QED
    BY <2>1, <2>2
<1>d. Arrives(r) => arrived' \in [Reqs -> Nat] /\ UNCHANGED <<type, zone, edits>>
  BY <1>0 DEF Arrives
<1>e. Performed(r) => ClientTypeOK' /\ Counted'
  <2>1. [call[r] EXCEPT !.at = "ok"] \in Call
    BY <1>0 DEF Call
  <2>2. Performed(r) => arrived' \in [Reqs -> Nat]
    BY <1>0 DEF Performed
  <2> QED
    BY <2>1, <2>2, <1>0, <1>a DEF Performed, Call
<1>1. CASE Name(r)
  <2>1. [call[r] EXCEPT !.page = 1, !.tries = 0] \in Call
    BY <1>0, <1>z DEF Call
  <2> QED
    BY <2>1, <1>1, <1>a, <1>b, <1>0 DEF Name, Asking, Call
<1>2. CASE Page(r)
  <2> DEFINE n == call[r].page
             a == IF Stops(n) THEN "ok" ELSE "ask"
             m == IF Stops(n) THEN n ELSE n + 1
             g == call[r].got \o OnPage(n)
             c == [call[r] EXCEPT !.got = g, !.tries = 0, !.at = a, !.page = m]
  <2>1. n \in Nat \ {0}
    BY <1>0, <1>2 DEF Page, Call
  <2>2. call[r].got \o OnPage(n) \in Seq(Records)
    BY <2>1, <1>0, PageFacts DEF Call
  <2>4. call' = [call EXCEPT ![r] = c]
    BY <1>2 DEF Page
  <2>5. g \in Seq(Records) /\ a \in {"ok", "ask"} /\ m \in Nat
    BY <2>1, <2>2
  <2> HIDE DEF g, a, m
  <2>3. c \in Call /\ c.at # "pause"
    BY <2>5, <1>0, <1>z DEF Call
  <2> HIDE DEF c
  <2> QED
    BY <2>3, <2>4, <1>2, <1>a, <1>b DEF Page
<1>3. CASE BodyLost(r)
  <2>1. [call[r] EXCEPT !.cut = TRUE, !.at = "ok"] \in Call
    BY <1>0 DEF Call
  <2> QED
    BY <2>1, <1>3, <1>a, <1>b, <1>e, <1>0 DEF BodyLost, Call
<1>4. CASE Fail(r)
  <2> DEFINE c == [call[r] EXCEPT !.at = "pause"]
  <2>1. c \in Call /\ (Repeats(r) => c.tries < MaxRetries)
    BY <1>0 DEF Call, Repeats
  <2>2. Repeats(r) => call' = [call EXCEPT ![r] = c]
    BY <1>4 DEF Fail
  <2> HIDE DEF c
  <2>3. ~Repeats(r) => Errs(r)
    BY <1>4 DEF Fail
  <2> QED
    BY <2>1, <2>2, <2>3, <1>4, <1>a, <1>c, <1>d DEF Fail
<1>5. CASE Resume(r)
  <2>1. call[r].tries < MaxRetries
    BY <1>5 DEF Resume, Counted
  <2>2. call[r].tries + 1 \in 0..MaxRetries
    BY <2>1, <1>0, ClientAssumption DEF Call
  <2>3. [call[r] EXCEPT !.at = "ask", !.tries = @ + 1] \in Call
    BY <1>0, <2>2 DEF Call
  <2> QED
    BY <2>3, <1>5, <1>a, <1>b, <1>0 DEF Resume, Call
<1>6. CASE Write(r)
  BY <1>6, <1>e DEF Write
<1>7. CASE GiveUp(r)
  BY <1>7, <1>a, <1>c, <1>d DEF GiveUp
<1> QED
  BY <1>1, <1>2, <1>3, <1>4, <1>5, <1>6, <1>7 DEF Exchange

LEMMA TypeInit == Init => TypeOK /\ Counted
<1> SUFFICES ASSUME Init PROVE TypeOK /\ Counted
  OBVIOUS
<1>1. NoCall \in Call /\ NoCall.at = "idle"
  BY ClientAssumption DEF NoCall, Call
<1>2. NoReq \in Req
  BY GateAssumption DEF NoReq, Req
<1>3. ClientTypeOK /\ Counted
  BY <1>1, ListingAssumption DEF Init, ClientInit, ClientTypeOK, Counted
<1> QED
  BY <1>2, <1>3 DEF Init, TypeOK

\* What others do at the provider leaves the calls well formed.
LEMMA OthersType ==
  ASSUME ClientTypeOK, Counted, Others
  PROVE  ClientTypeOK' /\ Counted'
<1>1. ASSUME NEW i \in DOMAIN zone, Leave(i) PROVE ClientTypeOK' /\ Counted'
  <2>0. zone \in Seq(Records) /\ i \in 1..Len(zone)
    BY DEF ClientTypeOK
  <2>1. zone' \in Seq(Records)
    BY <2>0, <1>1, RemoveFacts DEF Leave
  <2>2. \A r \in Reqs : [call[r] EXCEPT !.stayed = @ \ {zone[i]}, !.left = TRUE] \in Call
    <3> DEFINE gone == {zone[i]}
    <3> HIDE DEF gone
    <3>1. \A c \in Call : [c EXCEPT !.stayed = @ \ gone, !.left = TRUE] \in Call
      BY DEF Call
    <3> QED
      BY <3>1 DEF ClientTypeOK, gone
  <2>3. call' \in [Reqs -> Call] /\ Counted'
    <3> DEFINE c(r) == [call[r] EXCEPT !.stayed = @ \ {zone[i]}, !.left = TRUE]
    <3>0. \A d \in Call : \A e : /\ [d EXCEPT !.stayed = e, !.left = TRUE].at = d.at
                                /\ [d EXCEPT !.stayed = e, !.left = TRUE].tries = d.tries
      BY DEF Call
    <3>1. \A r \in Reqs : c(r) \in Call /\ c(r).at = call[r].at /\ c(r).tries = call[r].tries
      BY <2>2, <3>0 DEF ClientTypeOK
    <3>2. call' = [r \in Reqs |-> IF Listing(r) THEN c(r) ELSE call[r]]
      BY <1>1 DEF Leave
    <3> HIDE DEF c
    <3> QED
      BY <3>1, <3>2 DEF ClientTypeOK, Counted
  <2>5. edits \in Nat
    BY DEF ClientTypeOK
  <2>6. edits' = edits + 1 /\ UNCHANGED <<type, arrived>>
    BY <1>1 DEF Leave
  <2>4. edits' \in Nat /\ UNCHANGED <<type, arrived>>
    BY <2>5, <2>6
  <2> QED
    BY <2>1, <2>3, <2>4 DEF ClientTypeOK
<1>2. ASSUME NEW i \in 1..Len(zone) + 1, NEW x \in Records, Come(i, x)
      PROVE  ClientTypeOK' /\ Counted'
  <2>0. zone \in Seq(Records)
    BY DEF ClientTypeOK
  <2>1. zone' \in Seq(Records)
    BY <2>0, <1>2, InsertFacts DEF Come
  <2>2. \A r \in Reqs : [call[r] EXCEPT !.came = TRUE] \in Call
    BY DEF ClientTypeOK, Call
  <2>3. call' \in [Reqs -> Call] /\ Counted'
    BY <2>2, <1>2 DEF Come, ClientTypeOK, Counted, Call
  <2>5. edits \in Nat
    BY DEF ClientTypeOK
  <2>6. edits' = edits + 1 /\ UNCHANGED <<type, arrived>>
    BY <1>2 DEF Come
  <2>4. edits' \in Nat /\ UNCHANGED <<type, arrived>>
    BY <2>5, <2>6
  <2> QED
    BY <2>1, <2>3, <2>4 DEF ClientTypeOK
<1> QED
  BY <1>1, <1>2 DEF Others

LEMMA BeginType ==
  ASSUME ClientTypeOK, Counted, NEW r \in Reqs, NEW op \in {"list", "write"}, BeginCall(r, op)
  PROVE  ClientTypeOK' /\ Counted'
<1>1. PICK page \in {0, 1} :
        call' = [call EXCEPT ![r] = [NoCall EXCEPT !.at = "ask", !.op = op, !.page = page,
                                   !.stayed = IF op = "list" THEN ToSet(zone) ELSE {}]]
  BY DEF BeginCall
<1>2. (IF op = "list" THEN ToSet(zone) ELSE {}) \in SUBSET Records
  BY DEF ClientTypeOK, ToSet
<1> DEFINE S == IF op = "list" THEN ToSet(zone) ELSE {}
           c == [NoCall EXCEPT !.at = "ask", !.op = op, !.page = page, !.stayed = S]
<1>3. call' = [call EXCEPT ![r] = c]
  BY <1>1
<1>4. S \in SUBSET Records
  BY <1>2
<1> HIDE DEF S
<1>6. 0 \in 0..MaxRetries /\ <<>> \in Seq(Records)
  BY ClientAssumption
<1>7. NoCall \in Call
  BY <1>6 DEF NoCall, Call
<1>8. page \in Nat /\ op \in {"list", "write"}
  OBVIOUS
<1>5. c \in Call /\ c.at = "ask"
  BY <1>4, <1>7, <1>8 DEF Call
<1> HIDE DEF c
<1> QED
  BY <1>3, <1>5 DEF BeginCall, ClientTypeOK, Counted

LEMMA TypeStep == TypeOK /\ Counted /\ [Next]_vars => TypeOK' /\ Counted'
<1> SUFFICES ASSUME TypeOK, Counted, [Next]_vars PROVE TypeOK' /\ Counted'
  OBVIOUS
<1>0. ClientTypeOK /\ req \in [Reqs -> Req]
  BY DEF TypeOK
<1>a. UNCHANGED client => ClientTypeOK' /\ Counted'
  BY <1>0 DEF client, ClientTypeOK, Counted
<1>1. CASE UNCHANGED vars
  BY <1>1, <1>a DEF vars, server, TypeOK
<1>2. CASE Main \/ Signal
  BY <1>2, <1>a DEF Main, Start, Shutdown, Exit, Signal, TypeOK
<1>3. ASSUME NEW m \in SUBSET Workspaces, NEW e \in SUBSET Workspaces, Dock(m, e)
      PROVE  TypeOK' /\ Counted'
  <2>1. \A r \in Reqs : [req[r] EXCEPT !.was = @ \cup m, !.had = @ \cup e] \in Req
    <3>1. \A q \in Req, s \in SUBSET Workspaces, t \in SUBSET Workspaces :
            [q EXCEPT !.was = s, !.had = t] \in Req
      BY DEF Req
    <3>2. \A r \in Reqs : req[r] \in Req /\ req[r].was \cup m \in SUBSET Workspaces
                                      /\ req[r].had \cup e \in SUBSET Workspaces
      BY <1>0 DEF Req
    <3> QED
      BY <3>1, <3>2
  <2>2. req' \in [Reqs -> Req]
    BY <1>0, <2>1, <1>3 DEF Dock
  <2>3. member' \in SUBSET Workspaces /\ enabled' \in SUBSET Workspaces
    BY <1>3 DEF Dock
  <2>6. grants \in Nat
    BY DEF TypeOK
  <2>7. grants' = grants + 1
    BY <1>3 DEF Dock
  <2>5. grants' \in Nat
    BY <2>6, <2>7
  <2>4. UNCHANGED <<phase, late>> /\ UNCHANGED client
    BY <1>3 DEF Dock
  <2> QED
    BY <2>2, <2>3, <2>4, <2>5, <1>a DEF TypeOK
<1>4. ASSUME NEW w \in Workspaces, Rejoin(w) \/ Regrant(w) PROVE TypeOK' /\ Counted'
  BY <1>4, <1>3 DEF Rejoin, Regrant, Toggled, TypeOK
<1>5. ASSUME NEW r \in Reqs, NEW q \in Req, req' = [req EXCEPT ![r] = q], OnlyReq
      PROVE  TypeOK' /\ Counted'
  BY <1>5, <1>a, <1>0 DEF OnlyReq, TypeOK
<1>6. ASSUME NEW r \in Reqs, NEW op \in {"list", "write"}, NEW w \in Workspaces, Accept(r, op, w)
      PROVE  TypeOK' /\ Counted'
  <2>1. [NoReq EXCEPT !.at = "verify", !.op = op, !.want = w, !.was = member, !.had = enabled]
          \in Req
    BY GateAssumption DEF NoReq, Req, TypeOK
  <2> QED
    BY <2>1, <1>5, <1>6 DEF Accept
<1>7. ASSUME NEW r \in Reqs, Serve(r) PROVE TypeOK' /\ Counted'
  <2>0. req[r] \in Req
    BY <1>0
  <2>1. \A a \in {"verify", "member", "access", "read", "call", "store", "ok", "error", "refused"} :
          [req[r] EXCEPT !.at = a] \in Req
    BY <2>0 DEF Req
  <2>2. CASE Verify(r)
    BY <2>1, <2>2, <1>5 DEF Verify, Goes
  <2>3. CASE ResolveWorkspace(r)
    <3>1. \A w \in Workspaces : [req[r] EXCEPT !.at = "access", !.ws = w] \in Req
      BY <2>0 DEF Req
    <3>2. req[r].want \in Workspaces
      BY <2>0 DEF Req
    <3>3. PICK w \in Workspaces :
            req' = [req EXCEPT ![r] = [req[r] EXCEPT !.at = "access", !.ws = w]] /\ OnlyReq
      BY <3>2, <2>3, GateAssumption DEF ResolveWorkspace
    <3> QED
      BY <3>1, <3>3, <1>5
  <2>4. CASE CheckAccess(r)
    BY <2>1, <2>4, <1>5 DEF CheckAccess, Goes
  <2>5. CASE ReadRows(r)
    <3>1. req' \in [Reqs -> Req]
      BY <2>1, <2>5, <1>0 DEF ReadRows, Goes
    <3>2. ClientTypeOK' /\ Counted'
      BY <2>5, <2>0, <1>0, <1>a, BeginType DEF ReadRows, Req
    <3> QED
      BY <3>1, <3>2, <2>5 DEF ReadRows, TypeOK
  <2>6. CASE Exchange(r) /\ UNCHANGED server
    BY <2>6, <1>0, ExchangeType DEF server, TypeOK
  <2>7. CASE CallEnds(r)
    BY <2>1, <2>7, <1>5 DEF CallEnds, Goes
  <2>8. CASE Store(r)
    <3>1. [req[r] EXCEPT !.at = "ok", !.stored = TRUE] \in Req
      BY <2>0 DEF Req
    <3> QED
      BY <3>1, <2>8, <1>5 DEF Store
  <2>9. CASE StoreFails(r)
    <3> DEFINE f == DbOpen
    <3>1. f \in BOOLEAN
      BY DEF DbOpen
    <3>2. req' = [req EXCEPT ![r] = [req[r] EXCEPT !.at = "error", !.failed = f]] /\ OnlyReq
      BY <2>9 DEF StoreFails
    <3> HIDE DEF f
    <3>3. [req[r] EXCEPT !.at = "error", !.failed = f] \in Req
      BY <2>0, <3>1 DEF Req
    <3> QED
      BY <3>2, <3>3, <1>5
  <2> QED
    BY <1>7, <2>2, <2>3, <2>4, <2>5, <2>6, <2>7, <2>8, <2>9 DEF Serve
<1>8. CASE Others /\ UNCHANGED server
  BY <1>8, <1>0, OthersType DEF server, TypeOK
<1> QED
  BY <1>1, <1>2, <1>4, <1>6, <1>7, <1>8 DEF Next

\* The state of the server and of its clients stays well formed, and no GET is
\* repeated more often than MaxRetries: Service!TypeOK.
THEOREM TypeCorrect == Spec => []TypeOK
<1>1. Spec => [](TypeOK /\ Counted)
  BY TypeInit, TypeStep, PTL DEF Spec
<1> QED
  BY <1>1, PTL
-----------------------------------------------------------------------------
\* The steps of a call r concern nothing but that call.
LEMMA ExchangeFrame ==
  ASSUME ClientTypeOK, NEW r \in Reqs, Exchange(r)
  PROVE  /\ Asked(r)
         /\ UNCHANGED <<type, zone, edits>>
         /\ \A q \in Reqs \ {r} : call'[q] = call[q] /\ arrived'[q] = arrived[q]
BY DEF Exchange, Name, Page, BodyLost, Fail, Resume, Write, GiveUp, Asking, Asked, Performed, Errs,
       Arrives, OnlyCall, ClientTypeOK

LEMMA SendsInit == Init => SendsOnce
BY DEF Init, ClientInit, NoCall, SendsOnce, AtMostOnce, Asked, Done

LEMMA SendsStep == TypeOK /\ SendsOnce /\ [Next]_vars => SendsOnce'
<1> SUFFICES ASSUME TypeOK, SendsOnce, [Next]_vars PROVE SendsOnce'
  OBVIOUS
<1>0. ClientTypeOK /\ req \in [Reqs -> Req] /\ call \in [Reqs -> Call] /\ arrived \in [Reqs -> Nat]
  BY DEF TypeOK, ClientTypeOK
<1>a. UNCHANGED client => SendsOnce'
  BY DEF client, SendsOnce, AtMostOnce, Asked, Done
<1>1. CASE UNCHANGED vars
  BY <1>1, <1>a DEF vars
<1>2. CASE Main \/ Signal
  BY <1>2, <1>a DEF Main, Start, Shutdown, Exit, Signal
<1>3. ASSUME NEW w \in Workspaces, Rejoin(w) \/ Regrant(w) PROVE SendsOnce'
  BY <1>3, <1>a DEF Rejoin, Regrant, Dock
<1>4. ASSUME NEW r \in Reqs, NEW op \in {"list", "write"}, NEW w \in Workspaces, Accept(r, op, w)
      PROVE  SendsOnce'
  BY <1>4, <1>a DEF Accept, OnlyReq
<1>5. ASSUME NEW r \in Reqs, Serve(r) PROVE SendsOnce'
  <2>1. CASE ReadRows(r)
    <3>1. CASE BeginCall(r, req[r].op)
      <4>1. PICK page \in IF type = "cloudflare" THEN {0, 1} ELSE {1} :
              /\ call'[r].at = "ask" /\ call'[r].page = page
              /\ \A q \in Reqs \ {r} : call'[q] = call[q]
        BY <3>1, <1>0 DEF BeginCall, Call, NoCall
      <4>2. call[r].at = "idle" /\ UNCHANGED <<type, arrived>>
        BY <3>1 DEF BeginCall
      <4> QED
        BY <4>1, <4>2 DEF SendsOnce, AtMostOnce, Asked, Done
    <3> QED
      BY <3>1, <2>1, <1>a DEF ReadRows
  <2>2. CASE Exchange(r)
    <3>1. /\ Asked(r) /\ UNCHANGED <<type, zone, edits>>
          /\ \A q \in Reqs \ {r} : call'[q] = call[q] /\ arrived'[q] = arrived[q]
      BY <2>2, <1>0, ExchangeFrame
    <3>2. arrived[r] = 0 /\ (call[r].page = 0 => type = "cloudflare")
      BY <3>1 DEF SendsOnce, Asked
    <3>3. /\ arrived'[r] <= 1
          /\ call'[r].at \in {"idle", "ask", "pause"} => arrived'[r] = 0
          /\ call'[r].at = "ok" /\ call'[r].op = "write" => arrived'[r] = 1
          /\ call'[r].at \in {"ask", "pause"} /\ call'[r].page = 0 => type = "cloudflare"
      <4>a. Errs(r) => call'[r].at = "err"
        BY <1>0 DEF Errs, NoCall
      <4>b. Arrives(r) => arrived'[r] \in {0, 1} /\ (IsGet(r) => arrived'[r] = 0)
        BY <3>2, <1>0 DEF Arrives
      <4>1. CASE Name(r)
        BY <4>1, <3>2, <1>0 DEF Name, OnlyCall, Call, Asking
      <4>2. CASE Page(r)
        <5>1. call'[r].page # 0 /\ call'[r].op = "list" /\ call'[r].at \in {"ok", "ask"}
          BY <4>2, <1>0 DEF Page, Call
        <5> QED
          BY <5>1, <4>2, <3>2 DEF Page, OnlyCall
      <4>3. CASE BodyLost(r)
        <5>1. CASE IsGet(r)
          <6>1. call' = [call EXCEPT ![r].cut = TRUE, ![r].at = "ok"] /\ arrived' = arrived
            BY <5>1, <4>3 DEF BodyLost, OnlyCall
          <6>2. call[r].op = "list"
            BY <5>1, <4>3, <3>2 DEF BodyLost, IsGet
          <6>3. call'[r].at = "ok" /\ call'[r].op = "list"
            BY <6>1, <6>2, <1>0 DEF Call
          <6> QED
            BY <6>1, <6>3, <3>2
        <5>2. CASE ~IsGet(r)
          <6>1. /\ call' = [call EXCEPT ![r].at = "ok"]
                /\ arrived' = [arrived EXCEPT ![r] = @ + 1]
            BY <5>2, <4>3 DEF BodyLost, Performed
          <6>2. call'[r].at = "ok" /\ arrived'[r] = 1
            BY <6>1, <3>2, <1>0 DEF Call
          <6> QED
            BY <6>2
        <5> QED
          BY <5>1, <5>2
      <4>4. CASE Fail(r)
        <5>1. CASE Repeats(r)
          <6>1. call'[r].at = "pause" /\ call'[r].page = call[r].page
            BY <5>1, <4>4, <1>0 DEF Fail, Call
          <6>2. arrived'[r] = 0
            BY <5>1, <4>4, <4>b DEF Fail, Repeats
          <6> QED
            BY <6>1, <6>2, <3>2
        <5>2. CASE ~Repeats(r)
          BY <5>2, <4>4, <4>a, <4>b DEF Fail
        <5> QED
          BY <5>1, <5>2
      <4>5. CASE Resume(r)
        BY <4>5, <3>2, <1>0 DEF Resume, OnlyCall, Call
      <4>6. CASE Write(r)
        <5>1. call' = [call EXCEPT ![r].at = "ok"] /\ arrived' = [arrived EXCEPT ![r] = @ + 1]
          BY <4>6 DEF Write, Performed
        <5>2. call'[r].at = "ok" /\ arrived'[r] = 1
          BY <5>1, <3>2, <1>0 DEF Call
        <5> QED
          BY <5>2
      <4>7. CASE GiveUp(r)
        BY <4>7, <4>a, <4>b DEF GiveUp
      <4> QED
        BY <2>2, <4>1, <4>2, <4>3, <4>4, <4>5, <4>6, <4>7 DEF Exchange
    <3> QED
      BY <3>1, <3>3 DEF SendsOnce, AtMostOnce, Asked, Done
  <2> QED
    BY <1>5, <1>a, <2>1, <2>2
    DEF Serve, Verify, ResolveWorkspace, CheckAccess, CallEnds, Store, StoreFails, OnlyReq
<1>6. CASE Others /\ UNCHANGED server
  <2>1. /\ UNCHANGED <<type, arrived>>
        /\ \A r \in Reqs : call'[r].at = call[r].at /\ call'[r].op = call[r].op
                             /\ call'[r].page = call[r].page
    <3>1. ASSUME NEW i, Leave(i) PROVE <2>1!2
      BY <3>1, <1>0 DEF Leave, Call
    <3>2. ASSUME NEW i, NEW x, Come(i, x) PROVE <2>1!2
      BY <3>2, <1>0 DEF Come, Call
    <3> QED
      BY <3>1, <3>2, <1>6 DEF Others, Leave, Come
  <2> QED
    BY <2>1 DEF SendsOnce, AtMostOnce, Asked, Done
<1> QED
  BY <1>1, <1>2, <1>3, <1>4, <1>5, <1>6 DEF Next

\* A write reaches the provider at most once, however often a handler's GETs are
\* repeated and whatever is lost or cancelled: retryTransport, Service!AtMostOnce.
THEOREM WritesOnce == Spec => []AtMostOnce
<1>1. Spec => [](TypeOK /\ Counted)
  BY TypeInit, TypeStep, PTL DEF Spec
<1>2. SendsOnce => AtMostOnce
  BY DEF SendsOnce
<1> QED
  BY <1>1, <1>2, SendsInit, SendsStep, PTL DEF Spec
-----------------------------------------------------------------------------
\* What others do at the provider leaves every call where it stands.
LEMMA OthersFrame ==
  ASSUME ClientTypeOK, Others
  PROVE  \A r \in Reqs : call'[r].at = call[r].at /\ call'[r].op = call[r].op
<1>0. call \in [Reqs -> Call]
  BY DEF ClientTypeOK
<1> SUFFICES ASSUME NEW r \in Reqs
             PROVE  call'[r].at = call[r].at /\ call'[r].op = call[r].op
  OBVIOUS
<1>1. ASSUME NEW i, Leave(i) PROVE call'[r].at = call[r].at /\ call'[r].op = call[r].op
  BY <1>1, <1>0 DEF Leave, Call
<1>2. ASSUME NEW i, NEW x, Come(i, x) PROVE call'[r].at = call[r].at /\ call'[r].op = call[r].op
  BY <1>2, <1>0 DEF Come, Call
<1> QED
  BY <1>1, <1>2 DEF Others

LEMMA GateInit == Init => GateHolds
BY DEF Init, ClientInit, NoCall, NoReq, GateHolds, AtGate, Early

LEMMA GateStep == TypeOK /\ GateHolds /\ [Next]_vars => GateHolds'
<1> SUFFICES ASSUME TypeOK, GateHolds, [Next]_vars PROVE GateHolds'
  OBVIOUS
<1>0. ClientTypeOK /\ req \in [Reqs -> Req] /\ call \in [Reqs -> Call]
  BY DEF TypeOK, ClientTypeOK
<1> DEFINE Fine(r, q, c) ==
             /\ q.at \in {"verify", "member", "access"} =>
                  member' \subseteq q.was /\ enabled' \subseteq q.had
             /\ q.at \in Early => c.at = "idle" /\ ~q.stored
             /\ q.at \in {"none", "verify", "member"} => q.ws = Personal
             /\ q.at \notin {"none", "verify", "member", "refused"} =>
                  q.ws = Personal \/ q.ws \in q.was
             /\ q.at \notin Early \ {"read"} => q.ws \in q.had
<1>a. (\A r \in Reqs : Fine(r, req'[r], call'[r])) => GateHolds'
  BY DEF GateHolds, AtGate
<1>b. UNCHANGED <<member, enabled>> => \A r \in Reqs : Fine(r, req[r], call[r])
  BY DEF GateHolds, AtGate
<1> HIDE DEF Fine
<1>1. CASE UNCHANGED vars
  BY <1>1, <1>a, <1>b DEF vars, server, client
<1>2. CASE Main \/ Signal
  BY <1>2, <1>a, <1>b DEF Main, Start, Shutdown, Exit, Signal, client
<1>3. ASSUME NEW m, NEW e, Dock(m, e) PROVE GateHolds'
  <2>1. SUFFICES ASSUME NEW r \in Reqs PROVE Fine(r, req'[r], call[r])
    BY <1>3, <1>a DEF Dock, client
  <2>2. CASE AtGate(r)
    <3>1. req'[r] = [req[r] EXCEPT !.was = @ \cup m, !.had = @ \cup e]
      BY <2>2, <1>3, <1>0 DEF Dock
    <3>2. req[r] \in Req
      BY <1>0
    <3>3. /\ req'[r].at = req[r].at /\ req'[r].ws = req[r].ws /\ req'[r].stored = req[r].stored
          /\ req'[r].was = req[r].was \cup m /\ req'[r].had = req[r].had \cup e
      BY <3>1, <3>2 DEF Req
    <3>4. member' = m /\ enabled' = e
      BY <1>3 DEF Dock
    <3> QED
      BY <3>3, <3>4, <2>2 DEF Fine, GateHolds, AtGate, Early
  <2>3. CASE ~AtGate(r)
    BY <2>3, <1>3, <1>0 DEF Dock, Fine, GateHolds, AtGate
  <2> QED
    BY <2>2, <2>3
<1>4. ASSUME NEW w \in Workspaces, Rejoin(w) \/ Regrant(w) PROVE GateHolds'
  BY <1>4, <1>3 DEF Rejoin, Regrant
<1>5. ASSUME NEW r \in Reqs, NEW q, req' = [req EXCEPT ![r] = q],
             UNCHANGED <<member, enabled>>, Fine(r, q, call'[r]),
             \A s \in Reqs \ {r} : call'[s] = call[s]
      PROVE  GateHolds'
  BY <1>5, <1>a, <1>b, <1>0
<1>6. ASSUME NEW r \in Reqs, NEW op \in {"list", "write"}, NEW w \in Workspaces, Accept(r, op, w)
      PROVE  GateHolds'
  <2> DEFINE q == [NoReq EXCEPT !.at = "verify", !.op = op, !.want = w, !.was = member, !.had = enabled]
  <2>1. call[r].at = "idle"
    BY <1>6 DEF Accept, GateHolds, Early
  <2>2. /\ q.at = "verify" /\ q.ws = Personal /\ q.stored = FALSE /\ q.was = member
        /\ q.had = enabled
    BY DEF NoReq
  <2>3. req' = [req EXCEPT ![r] = q] /\ UNCHANGED <<member, enabled>> /\ call' = call
    BY <1>6 DEF Accept, OnlyReq, client
  <2> HIDE DEF q
  <2>4. Fine(r, q, call'[r])
    BY <2>1, <2>2, <2>3 DEF Fine, Early
  <2> QED
    BY <2>3, <2>4, <1>5
<1>7. ASSUME NEW r \in Reqs, Serve(r) PROVE GateHolds'
  <2>0. req[r] \in Req
    BY <1>0
  \* One field, at, moves on.
  <2>a. ASSUME NEW a, Goes(r, a), UNCHANGED <<member, enabled>>,
               \A s \in Reqs \ {r} : call'[s] = call[s],
               Fine(r, [req[r] EXCEPT !.at = a], call'[r])
        PROVE  GateHolds'
    BY <2>a, <1>5 DEF Goes
  <2>b. \A a : /\ [req[r] EXCEPT !.at = a].at = a
             /\ [req[r] EXCEPT !.at = a].ws = req[r].ws
             /\ [req[r] EXCEPT !.at = a].stored = req[r].stored
             /\ [req[r] EXCEPT !.at = a].was = req[r].was
             /\ [req[r] EXCEPT !.at = a].had = req[r].had
    BY <2>0 DEF Req
  <2>2. CASE Verify(r)
    <3>1. PICK a \in {"refused", "access", "member"} : Goes(r, a)
      BY <2>2 DEF Verify
    <3>2. UNCHANGED <<member, enabled>> /\ call' = call
      BY <2>2 DEF Verify, OnlyReq, client
    <3>3. Fine(r, [req[r] EXCEPT !.at = a], call[r])
      BY <2>2, <2>b DEF Verify, Fine, GateHolds, AtGate, Early, OnlyReq
    <3> QED
      BY <3>1, <3>2, <3>3, <2>a
  <2>3. CASE ResolveWorkspace(r)
    <3>1. PICK answered \in BOOLEAN :
            req' = [req EXCEPT ![r] = [req[r] EXCEPT !.at = "access",
                      !.ws = IF Belongs(r, answered) THEN req[r].want ELSE Personal]]
      BY <2>3 DEF ResolveWorkspace
    <3> DEFINE w == IF Belongs(r, answered) THEN req[r].want ELSE Personal
               q == [req[r] EXCEPT !.at = "access", !.ws = w]
    <3>2. w = Personal \/ w \in member
      BY DEF Belongs
    <3> HIDE DEF w
    <3>3. /\ q.at = "access" /\ q.ws = w /\ q.stored = req[r].stored /\ q.was = req[r].was
          /\ q.had = req[r].had
      BY <2>0 DEF Req
    <3>4. req' = [req EXCEPT ![r] = q]
      BY <3>1 DEF w
    <3> HIDE DEF q
    <3>5. UNCHANGED <<member, enabled>> /\ call' = call /\ req[r].at = "member"
      BY <2>3 DEF ResolveWorkspace, OnlyReq, client
    <3>6. Fine(r, q, call'[r])
      BY <3>2, <3>3, <3>5 DEF Fine, GateHolds, AtGate, Early
    <3> QED
      BY <3>4, <3>5, <3>6, <1>5
  <2>4. CASE CheckAccess(r)
    <3>1. PICK a \in {"read", "refused"} : Goes(r, a) /\ (a = "read" => req[r].ws \in enabled)
      BY <2>4 DEF CheckAccess, Granted
    <3>2. UNCHANGED <<member, enabled>> /\ call' = call /\ req[r].at = "access"
      BY <2>4 DEF CheckAccess, OnlyReq, client
    <3>3. Fine(r, [req[r] EXCEPT !.at = a], call[r])
      BY <3>1, <3>2, <2>b DEF Fine, GateHolds, AtGate, Early
    <3> QED
      BY <3>1, <3>2, <3>3, <2>a
  <2>5. CASE ReadRows(r)
    <3>1. PICK a \in {"call", "error"} : Goes(r, a)
      BY <2>5 DEF ReadRows
    <3>2. UNCHANGED <<member, enabled>> /\ req[r].at = "read"
      BY <2>5 DEF ReadRows
    <3>3. \A s \in Reqs \ {r} : call'[s] = call[s]
      BY <2>5, <1>0 DEF ReadRows, BeginCall, client
    <3>4. Fine(r, [req[r] EXCEPT !.at = a], call'[r])
      BY <3>1, <3>2, <2>b DEF Fine, GateHolds, AtGate, Early
    <3> QED
      BY <3>1, <3>2, <3>3, <3>4, <2>a
  <2>6. CASE Exchange(r) /\ UNCHANGED server
    <3>1. Asked(r) /\ \A s \in Reqs \ {r} : call'[s] = call[s]
      BY <2>6, <1>0, ExchangeFrame
    <3>2. req[r].at \notin Early
      BY <3>1 DEF Asked, GateHolds
    <3>3. Fine(r, req[r], call'[r])
      BY <2>6, <3>2 DEF Fine, GateHolds, AtGate, Early, server
    <3> QED
      BY <2>6, <3>1, <3>3, <1>a, <1>b DEF server
  <2>7. CASE CallEnds(r)
    <3>1. PICK a \in {"store", "error"} : Goes(r, a)
      BY <2>7 DEF CallEnds
    <3>2. UNCHANGED <<member, enabled>> /\ call' = call /\ req[r].at = "call"
      BY <2>7 DEF CallEnds, OnlyReq, client
    <3>3. Fine(r, [req[r] EXCEPT !.at = a], call[r])
      BY <3>1, <3>2, <2>b DEF Fine, GateHolds, AtGate, Early
    <3> QED
      BY <3>1, <3>2, <3>3, <2>a
  <2>8. CASE Store(r) \/ StoreFails(r)
    <3>1. UNCHANGED <<member, enabled>> /\ call' = call /\ req[r].at = "store"
      BY <2>8 DEF Store, StoreFails, OnlyReq, client
    <3>2. ASSUME NEW q, req' = [req EXCEPT ![r] = q], q.at \in {"ok", "error"},
                 q.ws = req[r].ws, q.was = req[r].was, q.had = req[r].had
          PROVE  GateHolds'
      <4>1. Fine(r, q, call[r])
        BY <3>1, <3>2 DEF Fine, GateHolds, AtGate, Early
      <4> QED
        BY <3>1, <3>2, <4>1, <1>5
    <3>3. CASE Store(r)
      <4> DEFINE q == [req[r] EXCEPT !.at = "ok", !.stored = TRUE]
      <4>1. q.at = "ok" /\ q.ws = req[r].ws /\ q.was = req[r].was /\ q.had = req[r].had
        BY <2>0 DEF Req
      <4>2. req' = [req EXCEPT ![r] = q]
        BY <3>3 DEF Store
      <4> HIDE DEF q
      <4> QED
        BY <4>1, <4>2, <3>2
    <3>4. CASE StoreFails(r)
      <4> DEFINE d == DbOpen
                 q == [req[r] EXCEPT !.at = "error", !.failed = d]
      <4>2. req' = [req EXCEPT ![r] = q]
        BY <3>4 DEF StoreFails
      <4> HIDE DEF d
      <4>1. q.at = "error" /\ q.ws = req[r].ws /\ q.was = req[r].was /\ q.had = req[r].had
        BY <2>0 DEF Req
      <4> HIDE DEF q
      <4> QED
        BY <4>1, <4>2, <3>2
    <3> QED
      BY <2>8, <3>3, <3>4
  <2> QED
    BY <1>7, <2>2, <2>3, <2>4, <2>5, <2>6, <2>7, <2>8 DEF Serve
<1>8. CASE Others /\ UNCHANGED server
  <2>1. \A r \in Reqs : call'[r].at = call[r].at
    BY <1>8, <1>0, OthersFrame
  <2>2. UNCHANGED <<member, enabled, req>>
    BY <1>8 DEF server
  <2>3. \A r \in Reqs : Fine(r, req'[r], call'[r])
    BY <2>1, <2>2, <1>b DEF Fine
  <2> QED
    BY <2>3, <1>a
<1> QED
  BY <1>1, <1>2, <1>4, <1>6, <1>7, <1>8 DEF Next

\* Whatever reaches the provider or the cache is the user's own, or of a workspace
\* that the user belonged to, with a grant, at the gate: Service!ActsWhereAllowed.
THEOREM StaysInWorkspace == Spec => []ActsWhereAllowed
<1>1. Spec => [](TypeOK /\ Counted)
  BY TypeInit, TypeStep, PTL DEF Spec
<1>2. GateHolds => ActsWhereAllowed
  BY DEF GateHolds, ActsWhereAllowed, Early
<1> QED
  BY <1>1, <1>2, GateInit, GateStep, PTL DEF Spec
-----------------------------------------------------------------------------
LEMMA DrainInit == Init => DrainHolds
BY DEF Init, ClientInit, NoCall, NoReq, DrainHolds, CutOnlyLate, Pending, Done, Early, Asked

LEMMA DrainStep == TypeOK /\ DrainHolds /\ [Next]_vars => DrainHolds'
<1> SUFFICES ASSUME TypeOK, DrainHolds, [Next]_vars PROVE DrainHolds'
  OBVIOUS
<1>0. ClientTypeOK /\ req \in [Reqs -> Req] /\ call \in [Reqs -> Call]
  BY DEF TypeOK, ClientTypeOK
<1> DEFINE Waits(q) == q.at \in {"verify", "member", "access", "read", "call", "store"}
           Fine(q, c) ==
             /\ phase' \in {"closed", "exit"} /\ ~late' => ~Waits(q)
             /\ c.at = "ok" /\ ~late' => q.stored \/ q.at \in {"call", "store"} \/ q.failed
             /\ phase' = "start" => q.at = "none"
             /\ q.at = "ok" => q.stored
             /\ q.at \in Early => c.at = "idle"
             /\ c.at \in {"ask", "pause"} => q.at = "call"
<1>a. (\A r \in Reqs : Fine(req'[r], call'[r])) => DrainHolds'
  BY DEF DrainHolds, CutOnlyLate, Pending, Done, Asked
<1>b. UNCHANGED <<phase, late>> => \A r \in Reqs : Fine(req[r], call[r])
  BY DEF DrainHolds, CutOnlyLate, Pending, Done, Asked
<1>1. CASE UNCHANGED vars
  <2>1. UNCHANGED <<phase, late, req, call>>
    BY <1>1 DEF vars, server, client
  <2> QED
    BY <2>1, <1>a, <1>b
<1>2. CASE Main \/ Signal
  <2>1. UNCHANGED <<req, call>> /\ phase' # "start"
    BY <1>2 DEF Main, Start, Shutdown, Exit, Signal, client
  <2>2. phase' \in {"closed", "exit"} /\ ~late' => \A r \in Reqs : ~Pending(r)
    BY <1>2 DEF Main, Start, Shutdown, Exit, Signal, Drained, DrainHolds, CutOnlyLate, Pending
  <2>3. ~late' => ~late
    BY <1>2 DEF Main, Start, Shutdown, Exit, Signal, TypeOK
  <2> QED
    BY <2>1, <2>2, <2>3 DEF DrainHolds, CutOnlyLate, Pending, Done, Asked
<1>3. ASSUME NEW m, NEW e, Dock(m, e) PROVE DrainHolds'
  <2>1. SUFFICES ASSUME NEW r \in Reqs PROVE Fine(req'[r], call[r])
    BY <1>3, <1>a DEF Dock, client
  <2>2. req[r] \in Req
    BY <1>0
  <2>3. /\ req'[r].at = req[r].at /\ req'[r].stored = req[r].stored
        /\ req'[r].failed = req[r].failed
    BY <2>2, <1>3, <1>0 DEF Dock, Req
  <2>4. Fine(req[r], call[r])
    BY <1>3, <1>b DEF Dock
  <2> QED
    BY <2>3, <2>4
<1>4. ASSUME NEW w \in Workspaces, Rejoin(w) \/ Regrant(w) PROVE DrainHolds'
  BY <1>4, <1>3 DEF Rejoin, Regrant
<1> HIDE DEF Fine
<1>5. ASSUME NEW r \in Reqs, NEW q, req' = [req EXCEPT ![r] = q],
             UNCHANGED <<phase, late>>, Fine(q, call'[r]),
             \A s \in Reqs \ {r} : call'[s] = call[s]
      PROVE  DrainHolds'
  BY <1>5, <1>a, <1>b, <1>0
<1>6. ASSUME NEW r \in Reqs, NEW op \in {"list", "write"}, NEW w \in Workspaces, Accept(r, op, w)
      PROVE  DrainHolds'
  <2> DEFINE q == [NoReq EXCEPT !.at = "verify", !.op = op, !.want = w, !.was = member, !.had = enabled]
  <2>1. call[r].at = "idle" /\ phase = "serve"
    BY <1>6 DEF Accept, DrainHolds, Early
  <2>2. q.at = "verify" /\ q.stored = FALSE
    BY DEF NoReq
  <2>3. req' = [req EXCEPT ![r] = q] /\ UNCHANGED <<phase, late>> /\ call' = call
    BY <1>6 DEF Accept, OnlyReq, client
  <2> HIDE DEF q
  <2>4. Fine(q, call'[r])
    BY <2>1, <2>2, <2>3 DEF Fine, Early
  <2> QED
    BY <2>3, <2>4, <1>5
<1>7. ASSUME NEW r \in Reqs, Serve(r) PROVE DrainHolds'
  <2>0. req[r] \in Req /\ call[r] \in Call
    BY <1>0
  <2>a. ASSUME NEW a, Goes(r, a), UNCHANGED <<phase, late>>,
               \A s \in Reqs \ {r} : call'[s] = call[s],
               Fine([req[r] EXCEPT !.at = a], call'[r])
        PROVE  DrainHolds'
    BY <2>a, <1>5 DEF Goes
  <2>b. \A a : /\ [req[r] EXCEPT !.at = a].at = a
               /\ [req[r] EXCEPT !.at = a].stored = req[r].stored
               /\ [req[r] EXCEPT !.at = a].failed = req[r].failed
    BY <2>0 DEF Req
  \* A request in flight is served only while nobody counts on its end.
  <2>c. UNCHANGED <<phase, late>> /\ Pending(r) => phase' # "start" /\ (phase' \in {"closed", "exit"} => late')
    BY DEF DrainHolds, CutOnlyLate, Pending, TypeOK
  <2>2. CASE Verify(r) \/ CheckAccess(r)
    <3>1. PICK a \in {"refused", "access", "member", "read"} : Goes(r, a)
      BY <2>2 DEF Verify, CheckAccess
    <3>2. UNCHANGED <<phase, late>> /\ call' = call /\ Pending(r) /\ call[r].at = "idle"
      BY <2>2 DEF Verify, CheckAccess, OnlyReq, client, Pending, DrainHolds, Early
    <3>3. Fine([req[r] EXCEPT !.at = a], call'[r])
      BY <3>1, <3>2, <2>b, <2>c DEF Fine
    <3> QED
      BY <3>1, <3>2, <3>3, <2>a
  <2>3. CASE ResolveWorkspace(r)
    <3>1. PICK answered \in BOOLEAN :
            req' = [req EXCEPT ![r] = [req[r] EXCEPT !.at = "access",
                      !.ws = IF Belongs(r, answered) THEN req[r].want ELSE Personal]]
      BY <2>3 DEF ResolveWorkspace
    <3> DEFINE w == IF Belongs(r, answered) THEN req[r].want ELSE Personal
               q == [req[r] EXCEPT !.at = "access", !.ws = w]
    <3>4. req' = [req EXCEPT ![r] = q]
      BY <3>1
    <3> HIDE DEF w
    <3>3. q.at = "access"
      BY <2>0 DEF Req
    <3> HIDE DEF q
    <3>5. UNCHANGED <<phase, late>> /\ call' = call /\ Pending(r) /\ call[r].at = "idle"
      BY <2>3 DEF ResolveWorkspace, OnlyReq, client, Pending, DrainHolds, Early
    <3>6. Fine(q, call'[r])
      BY <3>3, <3>5, <2>c DEF Fine
    <3> QED
      BY <3>4, <3>5, <3>6, <1>5
  <2>5. CASE ReadRows(r)
    <3>2. UNCHANGED <<phase, late>> /\ Pending(r) /\ call[r].at = "idle"
      BY <2>5 DEF ReadRows, Pending, DrainHolds, Early
    <3>3. \A s \in Reqs \ {r} : call'[s] = call[s]
      BY <2>5, <1>0 DEF ReadRows, BeginCall, client
    <3>4. CASE Goes(r, "call") /\ BeginCall(r, req[r].op)
      <4>1. call'[r].at = "ask"
        BY <3>4, <1>0 DEF BeginCall, NoCall
      <4>2. Fine([req[r] EXCEPT !.at = "call"], call'[r])
        BY <4>1, <3>2, <2>b, <2>c DEF Fine, Early
      <4> QED
        BY <3>2, <3>3, <3>4, <4>2, <2>a
    <3>5. CASE Goes(r, "error") /\ UNCHANGED client
      <4>1. call'[r].at = "idle"
        BY <3>2, <3>5 DEF client
      <4>2. Fine([req[r] EXCEPT !.at = "error"], call'[r])
        BY <4>1, <3>2, <2>b, <2>c DEF Fine, Early
      <4> QED
        BY <3>2, <3>3, <3>5, <4>2, <2>a
    <3> QED
      BY <2>5, <3>4, <3>5 DEF ReadRows
  <2>6. CASE Exchange(r) /\ UNCHANGED server
    <3>1. Asked(r) /\ \A s \in Reqs \ {r} : call'[s] = call[s]
      BY <2>6, <1>0, ExchangeFrame
    <3>2. req[r].at = "call" /\ Pending(r) /\ UNCHANGED <<phase, late, req>>
      BY <3>1, <2>6 DEF DrainHolds, Pending, server
    <3>3. Fine(req[r], call'[r])
      BY <3>2, <2>c DEF Fine, Early
    <3> QED
      BY <3>1, <3>2, <3>3, <1>a, <1>b
  <2>7. CASE CallEnds(r)
    <3>1. PICK a \in {"store", "error"} : Goes(r, a) /\ (call[r].at = "ok" => a = "store")
      BY <2>7 DEF CallEnds
    <3>2. UNCHANGED <<phase, late>> /\ call' = call /\ Pending(r) /\ call[r].at \in {"ok", "err"}
      BY <2>7 DEF CallEnds, OnlyReq, client, Pending
    <3>3. Fine([req[r] EXCEPT !.at = a], call'[r])
      BY <3>1, <3>2, <2>b, <2>c DEF Fine, Early
    <3> QED
      BY <3>1, <3>2, <3>3, <2>a
  <2>8. CASE Store(r) \/ StoreFails(r)
    <3>1. /\ UNCHANGED <<phase, late>> /\ call' = call /\ Pending(r) /\ Up
          /\ req[r].at = "store" /\ ~Asked(r)
      BY <2>8 DEF Store, StoreFails, OnlyReq, client, Pending, DrainHolds
    <3>3. CASE Store(r)
      <4> DEFINE q == [req[r] EXCEPT !.at = "ok", !.stored = TRUE]
      <4>1. q.at = "ok" /\ q.stored = TRUE
        BY <2>0 DEF Req
      <4>2. req' = [req EXCEPT ![r] = q]
        BY <3>3 DEF Store
      <4> HIDE DEF q
      <4>3. Fine(q, call'[r])
        BY <4>1, <3>1, <2>c DEF Fine, Early, Asked
      <4> QED
        BY <4>2, <4>3, <3>1, <1>5
    <3>4. CASE StoreFails(r)
      <4> DEFINE d == DbOpen
                 q == [req[r] EXCEPT !.at = "error", !.failed = d]
      <4>2. req' = [req EXCEPT ![r] = q]
        BY <3>4 DEF StoreFails
      <4>4. d \/ late'
        BY <3>1, <2>c DEF DbOpen, Up, TypeOK
      <4> HIDE DEF d
      <4>1. q.at = "error" /\ q.failed = d
        BY <2>0 DEF Req
      <4> HIDE DEF q
      <4>3. Fine(q, call'[r])
        BY <4>1, <4>4, <3>1, <2>c DEF Fine, Early, Asked
      <4> QED
        BY <4>2, <4>3, <3>1, <1>5
    <3> QED
      BY <2>8, <3>3, <3>4
  <2> QED
    BY <1>7, <2>2, <2>3, <2>5, <2>6, <2>7, <2>8 DEF Serve
<1>8. CASE Others /\ UNCHANGED server
  <2>1. \A r \in Reqs : call'[r].at = call[r].at
    BY <1>8, <1>0, OthersFrame
  <2>2. UNCHANGED <<phase, late, req>>
    BY <1>8 DEF server
  <2>3. \A r \in Reqs : Fine(req'[r], call'[r])
    BY <2>1, <2>2, <1>b DEF Fine
  <2> QED
    BY <2>3, <1>a
<1> QED
  BY <1>1, <1>2, <1>4, <1>6, <1>7, <1>8 DEF Next

\* But for a Shutdown that has run out of time, no request loses the database that
\* it is waiting for: Service!CutOnlyLate.
THEOREM DrainsFirst == Spec => []CutOnlyLate
<1>1. Spec => [](TypeOK /\ Counted)
  BY TypeInit, TypeStep, PTL DEF Spec
<1>2. DrainHolds => CutOnlyLate
  BY DEF DrainHolds
<1> QED
  BY <1>1, <1>2, DrainInit, DrainStep, PTL DEF Spec
-----------------------------------------------------------------------------
\* A piece of a listing, from after place q to place e.
LEMMA PieceFacts ==
  ASSUME NEW s \in Seq(Records), NEW q \in Nat, NEW e \in 0..Len(s), ~Twice(s),
         q <= e \/ e = Len(s)
  PROVE  /\ SubSeq(s, q + 1, e) \in Seq(Records)
         /\ ~Twice(SubSeq(s, q + 1, e))
         /\ Rest(s, q) = ToSet(SubSeq(s, q + 1, e)) \cup Rest(s, e)
         /\ Rest(s, e) \cap ToSet(SubSeq(s, q + 1, e)) = {}
<1> DEFINE b == SubSeq(s, q + 1, e)
<1>1. \A i \in q + 1..e : s[i] \in Records
  OBVIOUS
<1>2. /\ b \in Seq(Records)
      /\ Len(b) = IF q + 1 <= e THEN e - q ELSE 0
      /\ \A i \in 1..e - q : b[i] = s[q + i]
  BY <1>1, SubSeqProperties
<1> HIDE DEF b
<1>3. ~Twice(b)
  <2>1. SUFFICES ASSUME NEW i \in 1..Len(b), NEW j \in 1..Len(b), i # j, b[i] = b[j] PROVE FALSE
    BY <1>2 DEF Twice
  <2>2. i \in 1..e - q /\ j \in 1..e - q
    BY <1>2
  <2>3. q + i \in DOMAIN s /\ q + j \in DOMAIN s /\ q + i # q + j
    BY <2>1, <2>2
  <2>4. s[q + i] = s[q + j]
    BY <1>2, <2>1, <2>2
  <2> QED
    BY <2>3, <2>4 DEF Twice
<1>4. ToSet(b) = {s[i] : i \in {j \in DOMAIN s : q < j /\ j <= e}}
  <2>1. ASSUME NEW i \in 1..Len(b) PROVE q + i \in {j \in DOMAIN s : q < j /\ j <= e} /\ b[i] = s[q + i]
    BY <1>2
  <2>2. ASSUME NEW j \in DOMAIN s, q < j, j <= e PROVE j - q \in 1..Len(b) /\ b[j - q] = s[j]
    BY <1>2, <2>2
  <2>3. DOMAIN b = 1..Len(b)
    BY <1>2
  <2> QED
    BY <2>1, <2>2, <2>3 DEF ToSet
<1>5. Rest(s, q) = ToSet(b) \cup Rest(s, e)
  <2>1. {j \in DOMAIN s : j > q} =
          {j \in DOMAIN s : q < j /\ j <= e} \cup {j \in DOMAIN s : j > e}
    OBVIOUS
  <2> QED
    BY <1>4, <2>1 DEF Rest
<1>6. Rest(s, e) \cap ToSet(b) = {}
  <2>1. SUFFICES ASSUME NEW i \in DOMAIN s, NEW j \in DOMAIN s, i > e, j <= e, s[i] = s[j] PROVE FALSE
    BY <1>4 DEF Rest
  <2> QED
    BY <2>1 DEF Twice
<1> QED
  BY <1>2, <1>3, <1>5, <1>6 DEF b

\* Two lists without duplicates that have nothing in common make one.
LEMMA JoinFacts ==
  ASSUME NEW a \in Seq(Records), NEW b \in Seq(Records)
  PROVE  /\ ToSet(a \o b) = ToSet(a) \cup ToSet(b)
         /\ ~Twice(a) /\ ~Twice(b) /\ ToSet(a) \cap ToSet(b) = {} => ~Twice(a \o b)
<1>1. /\ a \o b \in Seq(Records) /\ Len(a \o b) = Len(a) + Len(b)
      /\ \A i \in 1..Len(a) + Len(b) : (a \o b)[i] = IF i <= Len(a) THEN a[i] ELSE b[i - Len(a)]
  BY ConcatProperties
<1> DEFINE c == a \o b
<1> HIDE DEF c
<1>0. DOMAIN a = 1..Len(a) /\ DOMAIN b = 1..Len(b) /\ DOMAIN c = 1..Len(a) + Len(b)
  BY <1>1 DEF c
<1>2. \A i \in DOMAIN a : i \in DOMAIN c /\ c[i] = a[i]
  BY <1>0, <1>1 DEF c
<1>3. \A i \in DOMAIN b : Len(a) + i \in DOMAIN c /\ c[Len(a) + i] = b[i]
  BY <1>0, <1>1 DEF c
<1>4. \A i \in DOMAIN c : \/ i \in DOMAIN a /\ c[i] = a[i]
                          \/ i - Len(a) \in DOMAIN b /\ c[i] = b[i - Len(a)]
  BY <1>0, <1>1 DEF c
<1>5. ToSet(c) = ToSet(a) \cup ToSet(b)
  BY <1>2, <1>3, <1>4 DEF ToSet
<1>6. ASSUME ~Twice(a), ~Twice(b), ToSet(a) \cap ToSet(b) = {} PROVE ~Twice(c)
  <2>1. SUFFICES ASSUME NEW i \in DOMAIN c, NEW j \in DOMAIN c, i # j, c[i] = c[j] PROVE FALSE
    BY DEF Twice
  <2>2. i \in Int /\ j \in Int /\ Len(a) \in Nat
    BY <1>0
  <2>3. i - Len(a) # j - Len(a)
    BY <2>1, <2>2
  <2>4. \A k, l : k \in DOMAIN a /\ l \in DOMAIN b => a[k] # b[l]
    BY <1>6 DEF ToSet
  <2> QED
    BY <1>4, <1>6, <2>1, <2>3, <2>4 DEF Twice
<1> QED
  BY <1>5, <1>6 DEF c

\* What is to come after place n, when a record goes or comes.
LEMMA LeaveFacts ==
  ASSUME NEW s \in Seq(Records), NEW i \in 1..Len(s), ~Twice(s)
  PROVE  ~Twice(RemoveAt(s, i)) /\ \A n \in Nat : Rest(RemoveAt(s, i), n) \subseteq Rest(s, n)
<1> DEFINE z == RemoveAt(s, i)
           at(j) == IF j < i THEN j ELSE j + 1
<1>1. z \in Seq(Records) /\ Len(z) = Len(s) - 1 /\ \A j \in 1..Len(s) - 1 : z[j] = s[at(j)]
  BY RemoveFacts
<1> HIDE DEF z
<1>2. \A j \in DOMAIN z : at(j) \in DOMAIN s /\ z[j] = s[at(j)] /\ at(j) >= j
  BY <1>1
<1>3. \A j, k \in DOMAIN z : j # k => at(j) # at(k)
  BY <1>1
<1>4. ~Twice(z)
  BY <1>2, <1>3 DEF Twice
<1>5. ASSUME NEW n \in Nat PROVE Rest(z, n) \subseteq Rest(s, n)
  <2>1. \A j \in DOMAIN z : j > n => at(j) > n
    BY <1>1
  <2> QED
    BY <2>1, <1>2 DEF Rest
<1> QED
  BY <1>4, <1>5 DEF z

LEMMA ComeFacts ==
  ASSUME NEW s \in Seq(Records), NEW i \in 1..Len(s) + 1, NEW x \in Records, ~Twice(s),
         x \notin ToSet(s)
  PROVE  /\ ~Twice(InsertAt(s, i, x))
         /\ \A n \in Nat : Rest(s, n) \subseteq Rest(InsertAt(s, i, x), n)
<1> DEFINE z == InsertAt(s, i, x)
           from(j) == IF j < i THEN j ELSE j - 1
           to(j) == IF j < i THEN j ELSE j + 1
<1>1. /\ z \in Seq(Records) /\ Len(z) = Len(s) + 1
      /\ \A j \in 1..Len(s) + 1 : z[j] = IF j < i THEN s[j] ELSE IF j = i THEN x ELSE s[j - 1]
  BY InsertFacts
<1> HIDE DEF z
<1>2. \A j \in DOMAIN z : j # i => from(j) \in DOMAIN s /\ z[j] = s[from(j)]
  BY <1>1
<1>3. \A j, k \in DOMAIN z : j # k /\ j # i /\ k # i => from(j) # from(k)
  BY <1>1
<1>4. z[i] = x /\ \A j \in DOMAIN s : s[j] # x
  BY <1>1 DEF ToSet
<1>5. ~Twice(z)
  <2> SUFFICES ASSUME NEW j \in DOMAIN z, NEW k \in DOMAIN z, j # k, z[j] = z[k] PROVE FALSE
    BY DEF Twice
  <2>1. CASE j = i
    BY <2>1, <1>2, <1>4
  <2>2. CASE k = i
    BY <2>2, <1>2, <1>4
  <2>3. CASE j # i /\ k # i
    BY <2>3, <1>2, <1>3 DEF Twice
  <2> QED
    BY <2>1, <2>2, <2>3
<1>6. ASSUME NEW n \in Nat PROVE Rest(s, n) \subseteq Rest(z, n)
  <2>1. \A j \in DOMAIN s : j > n => to(j) \in DOMAIN z /\ z[to(j)] = s[j] /\ to(j) > n
    BY <1>1
  <2> QED
    BY <2>1 DEF Rest
<1> QED
  BY <1>5, <1>6 DEF z
-----------------------------------------------------------------------------
LEMMA PagesInit == Init => PagesFit
<1> SUFFICES ASSUME Init PROVE PagesFit
  OBVIOUS
<1>1. ~Twice(zone)
  BY ListingAssumption DEF Init, ClientInit
<1>2. \A r \in Reqs : call[r] = NoCall
  BY DEF Init, ClientInit
<1> QED
  BY <1>1, <1>2 DEF PagesFit, ListingSound, Done, Listing, NoCall

\* The page that is read next goes where the last one ended.
LEMMA NextPage ==
  ASSUME ClientTypeOK, ~Twice(zone), NEW r \in Reqs, call[r].page > 0
  PROVE  LET n == call[r].page
             e == IF IsLast(n) THEN Len(zone) ELSE n * PerPage
         IN  /\ OnPage(n) \in Seq(Records) /\ ~Twice(OnPage(n))
             /\ Rest(zone, Past(r)) = ToSet(OnPage(n)) \cup Rest(zone, e)
             /\ Rest(zone, e) \cap ToSet(OnPage(n)) = {}
             /\ IsLast(n) => Rest(zone, e) = {}
<1> DEFINE n == call[r].page
           q == (n - 1) * PerPage
           e == IF IsLast(n) THEN Len(zone) ELSE n * PerPage
<1>1. n \in Nat \ {0} /\ zone \in Seq(Records) /\ PerPage \in Nat \ {0}
  BY ClientAssumption DEF ClientTypeOK, Call
<1>2. q \in Nat /\ n * PerPage \in Nat /\ q <= n * PerPage
  <2>1. \A m \in Int, p \in Int : (m - 1) * p = m * p - p
    OBVIOUS
  <2>2. \A m \in Nat, p \in Nat : m * p \in Nat
    OBVIOUS
  <2>3. q = n * PerPage - PerPage
    BY <1>1, <2>1
  <2>4. n - 1 \in Nat
    BY <1>1
  <2>5. q \in Nat /\ n * PerPage \in Nat
    BY <1>1, <2>2, <2>4
  <2> HIDE DEF q
  <2> QED
    BY <1>1, <2>3, <2>5
<1>3. e \in 0..Len(zone) /\ (q <= e \/ e = Len(zone))
  BY <1>1, <1>2 DEF IsLast
<1>4. Past(r) = q
  BY <1>1 DEF Past
<1>5. OnPage(n) = SubSeq(zone, q + 1, e)
  BY DEF OnPage
<1>6. IsLast(n) => Rest(zone, e) = {}
  BY <1>1 DEF Rest
<1> HIDE DEF n, q, e
<1> DEFINE b == SubSeq(zone, q + 1, e)
<1>8. /\ b \in Seq(Records) /\ ~Twice(b)
      /\ Rest(zone, q) = ToSet(b) \cup Rest(zone, e)
      /\ Rest(zone, e) \cap ToSet(b) = {}
  BY <1>1, <1>2, <1>3, PieceFacts, ZenonT(30)
<1> HIDE DEF b
<1>7. /\ OnPage(n) \in Seq(Records) /\ ~Twice(OnPage(n))
      /\ Rest(zone, q) = ToSet(OnPage(n)) \cup Rest(zone, e)
      /\ Rest(zone, e) \cap ToSet(OnPage(n)) = {}
  BY <1>5, <1>8 DEF b
<1> QED
  BY <1>4, <1>6, <1>7 DEF n, e

LEMMA PagesStep == TypeOK /\ PagesFit /\ [Next]_vars => PagesFit'
<1> SUFFICES ASSUME TypeOK, PagesFit, [Next]_vars PROVE PagesFit'
  OBVIOUS
<1>0. ClientTypeOK /\ call \in [Reqs -> Call] /\ zone \in Seq(Records) /\ ~Twice(zone)
  BY DEF TypeOK, ClientTypeOK, PagesFit
<1> DEFINE Done1(c) ==
             c.at = "ok" /\ c.op = "list" =>
               /\ ~c.left /\ ~c.cut => c.stayed \subseteq ToSet(c.got)
               /\ ~c.came => ~Twice(c.got)
           P(c) == IF c.page = 0 THEN 0 ELSE (c.page - 1) * PerPage
           Fits(c, z) ==
             c.op = "list" /\ c.at \in {"ask", "pause"} =>
               /\ ~c.left => c.stayed \subseteq ToSet(c.got) \cup Rest(z, P(c))
               /\ ~c.came => ~Twice(c.got) /\ Rest(z, P(c)) \cap ToSet(c.got) = {}
               /\ ~c.cut
<1>a. ~Twice(zone') /\ (\A r \in Reqs : Done1(call'[r]) /\ Fits(call'[r], zone')) => PagesFit'
  BY DEF PagesFit, ListingSound, Done, Listing, Past
<1>b. \A r \in Reqs : Done1(call[r]) /\ Fits(call[r], zone)
  BY DEF PagesFit, ListingSound, Done, Listing, Past
<1>c. \A r \in Reqs : P(call[r]) = Past(r)
  BY DEF Past
<1>d. \A r \in Reqs : P(call[r]) \in Nat
  <2>1. \A m \in Nat, p \in Nat : m * p \in Nat
    OBVIOUS
  <2>2. ASSUME NEW r \in Reqs PROVE call[r].page \in Nat /\ (call[r].page # 0 => call[r].page - 1 \in Nat)
    BY <1>0 DEF Call
  <2> QED
    BY <2>1, <2>2, ClientAssumption
<1>e. UNCHANGED client => PagesFit'
  BY <1>a, <1>b, <1>0 DEF client
<1>f. ASSUME NEW r \in Reqs, NEW c, call' = [call EXCEPT ![r] = c], zone' = zone,
             Done1(c), Fits(c, zone)
      PROVE  PagesFit'
  <2> HIDE DEF Done1, Fits
  <2> QED
    BY <1>f, <1>a, <1>b, <1>0
<1>1. CASE UNCHANGED vars
  BY <1>1, <1>e DEF vars
<1>2. CASE Main \/ Signal
  BY <1>2, <1>e DEF Main, Start, Shutdown, Exit, Signal
<1>3. ASSUME NEW w \in Workspaces, Rejoin(w) \/ Regrant(w) PROVE PagesFit'
  BY <1>3, <1>e DEF Rejoin, Regrant, Dock
<1>4. ASSUME NEW r \in Reqs, NEW op \in {"list", "write"}, NEW w \in Workspaces, Accept(r, op, w)
      PROVE  PagesFit'
  BY <1>4, <1>e DEF Accept, OnlyReq
<1>5. ASSUME NEW r \in Reqs, Serve(r) PROVE PagesFit'
  <2>0. call[r] \in Call
    BY <1>0
  <2>1. CASE ReadRows(r)
    <3>1. CASE BeginCall(r, req[r].op)
      <4>1. PICK page \in {0, 1} :
              call' = [call EXCEPT ![r] = [NoCall EXCEPT !.at = "ask", !.op = req[r].op,
                !.page = page, !.stayed = IF req[r].op = "list" THEN ToSet(zone) ELSE {}]]
        BY <3>1 DEF BeginCall
      <4> DEFINE o == req[r].op
                 S == IF o = "list" THEN ToSet(zone) ELSE {}
                 c == [NoCall EXCEPT !.at = "ask", !.op = o, !.page = page, !.stayed = S]
      <4>2. call' = [call EXCEPT ![r] = c] /\ zone' = zone
        BY <3>1, <4>1 DEF BeginCall
      <4>3. o = "list" => S = ToSet(zone)
        OBVIOUS
      <4> HIDE DEF o, S
      <4>4. /\ c.at = "ask" /\ c.op = o /\ c.page = page /\ c.stayed = S /\ c.got = <<>>
            /\ c.left = FALSE /\ c.came = FALSE /\ c.cut = FALSE
        BY DEF NoCall
      <4> HIDE DEF c
      <4>5. P(c) = 0
        BY <4>4, ClientAssumption
      <4>6. ToSet(zone) \subseteq Rest(zone, 0)
        BY <1>0 DEF ToSet, Rest
      <4>7. ToSet(<<>>) = {} /\ ~Twice(<<>>)
        BY DEF ToSet, Twice
      <4>8. Done1(c)
        BY <4>4
      <4> HIDE DEF P
      <4>9. Fits(c, zone)
        BY <4>3, <4>4, <4>5, <4>6, <4>7
      <4> HIDE DEF Fits, Done1
      <4> QED
        BY <4>2, <4>8, <4>9, <1>f
    <3> QED
      BY <2>1, <3>1, <1>e DEF ReadRows
  <2>2. CASE Exchange(r)
    <3>0. zone' = zone
      BY <2>2, <1>0, ExchangeFrame
    <3>b. Done1(call[r]) /\ Fits(call[r], zone)
      BY <1>b
    <3>e. Errs(r) => PagesFit'
      <4> SUFFICES ASSUME Errs(r) PROVE PagesFit'
        OBVIOUS
      <4> DEFINE o == call[r].op
                 c == [NoCall EXCEPT !.at = "err", !.op = o]
      <4>1. call' = [call EXCEPT ![r] = c]
        BY DEF Errs
      <4> HIDE DEF o
      <4>2. c.at = "err"
        BY DEF NoCall
      <4> HIDE DEF c
      <4>3. Done1(c) /\ Fits(c, zone)
        BY <4>2
      <4> HIDE DEF Fits, Done1
      <4> QED
        BY <4>1, <4>3, <3>0, <1>f
    <3>p. Performed(r) /\ ~IsGet(r) => PagesFit'
      <4> SUFFICES ASSUME Performed(r), ~IsGet(r) PROVE PagesFit'
        OBVIOUS
      <4> DEFINE c == [call[r] EXCEPT !.at = "ok"]
      <4>1. call' = [call EXCEPT ![r] = c]
        BY DEF Performed
      <4>2. c.at = "ok" /\ c.op # "list"
        BY <2>0 DEF IsGet, Call
      <4> HIDE DEF c
      <4>3. Done1(c) /\ Fits(c, zone)
        BY <4>2
      <4> HIDE DEF Fits, Done1
      <4> QED
        BY <4>1, <4>3, <3>0, <1>f
    \* The call waits, or asks again: what it has read is as it was.
    <3>w. ASSUME Asked(r),
                 NEW c, call' = [call EXCEPT ![r] = c], c.at \in {"ask", "pause"}, P(c) = P(call[r]),
                 c.op = call[r].op, c.got = call[r].got, c.stayed = call[r].stayed,
                 c.left = call[r].left, c.came = call[r].came, c.cut = call[r].cut
          PROVE  PagesFit'
      <4> HIDE DEF P
      <4>1. Fits(c, zone)
        BY <3>w, <3>b DEF Asked
      <4>2. Done1(c)
        BY <3>w
      <4> HIDE DEF Fits, Done1
      <4> QED
        BY <3>w, <4>1, <4>2, <3>0, <1>f
    <3>1. CASE Name(r)
      <4> DEFINE c == [call[r] EXCEPT !.page = 1, !.tries = 0]
      <4>1. call' = [call EXCEPT ![r] = c] /\ Asked(r) /\ call[r].page = 0 /\ call[r].at = "ask"
        BY <3>1 DEF Name, Asking, Asked
      <4>2. /\ c.at = call[r].at /\ c.op = call[r].op /\ c.got = call[r].got
            /\ c.stayed = call[r].stayed /\ c.left = call[r].left /\ c.came = call[r].came
            /\ c.cut = call[r].cut /\ c.page = 1
        BY <2>0 DEF Call
      <4> HIDE DEF c
      <4>3. P(c) = P(call[r])
        BY <4>1, <4>2, ClientAssumption
      <4> HIDE DEF P
      <4> QED
        BY <4>1, <4>2, <4>3, <3>w
    <3>2. CASE Page(r)
      <4> DEFINE n == call[r].page
                 e == IF IsLast(n) THEN Len(zone) ELSE n * PerPage
                 b == OnPage(n)
                 g == call[r].got \o b
                 a == IF Stops(n) THEN "ok" ELSE "ask"
                 m == IF Stops(n) THEN n ELSE n + 1
                 c == [call[r] EXCEPT !.got = g, !.tries = 0, !.at = a, !.page = m]
      <4>1. call' = [call EXCEPT ![r] = c]
        BY <3>2 DEF Page
      <4>2. n > 0 /\ n \in Nat /\ call[r].op = "list" /\ call[r].at = "ask"
        BY <3>2, <2>0 DEF Page, Asking, Call
      <4>3. /\ b \in Seq(Records) /\ ~Twice(b)
            /\ Rest(zone, Past(r)) = ToSet(b) \cup Rest(zone, e)
            /\ Rest(zone, e) \cap ToSet(b) = {}
            /\ IsLast(n) => Rest(zone, e) = {}
        BY <4>2, <1>0, NextPage
      <4>4. a \in {"ok", "ask"} /\ (a = "ok" <=> IsLast(n)) /\ m \in Nat
            /\ (a = "ask" => m = n + 1 /\ e = n * PerPage)
        BY <4>2 DEF Stops
      <4>5. call[r].got \in Seq(Records)
        BY <2>0 DEF Call
      <4> HIDE DEF b
      <4>6. /\ ToSet(g) = ToSet(call[r].got) \cup ToSet(b)
            /\ ~Twice(call[r].got) /\ ToSet(call[r].got) \cap ToSet(b) = {} => ~Twice(g)
        BY <4>3, <4>5, JoinFacts
      <4> HIDE DEF g, a, m
      <4>7. /\ c.at = a /\ c.op = "list" /\ c.got = g /\ c.page = m
            /\ c.stayed = call[r].stayed /\ c.left = call[r].left /\ c.came = call[r].came
            /\ c.cut = call[r].cut
        BY <2>0, <4>2 DEF Call
      <4> HIDE DEF c
      <4>8. a = "ask" => P(c) = e
        BY <4>2, <4>4, <4>7
      <4>9. P(call[r]) = Past(r)
        BY <1>c
      <4> HIDE DEF P, e, n
      <4>10. /\ ~call[r].left => call[r].stayed \subseteq ToSet(g) \cup Rest(zone, e)
             /\ ~call[r].came => ~Twice(g) /\ Rest(zone, e) \cap ToSet(g) = {}
             /\ ~call[r].cut
        <5>1. /\ ~call[r].left => call[r].stayed \subseteq ToSet(call[r].got) \cup Rest(zone, Past(r))
              /\ ~call[r].came => /\ ~Twice(call[r].got)
                                  /\ Rest(zone, Past(r)) \cap ToSet(call[r].got) = {}
              /\ ~call[r].cut
          BY <3>b, <4>2, <4>9
        <5> QED
          BY <5>1, <4>3, <4>6
      <4>11. Fits(c, zone)
        BY <4>7, <4>8, <4>10, <4>4
      <4>12. Done1(c)
        BY <4>7, <4>10, <4>4, <4>3
      <4> HIDE DEF Fits, Done1
      <4> QED
        BY <4>1, <4>11, <4>12, <3>0, <1>f
    <3>3. CASE BodyLost(r)
      <4>1. CASE ~IsGet(r)
        BY <3>3, <4>1, <3>p DEF BodyLost
      <4>2. CASE IsGet(r)
        <5> DEFINE c == [call[r] EXCEPT !.cut = TRUE, !.at = "ok"]
        <5>1. call' = [call EXCEPT ![r] = c] /\ call[r].at = "ask"
          BY <3>3, <4>2 DEF BodyLost, Asking
        <5>2. /\ c.at = "ok" /\ c.op = call[r].op /\ c.got = call[r].got /\ c.cut = TRUE
              /\ c.came = call[r].came
          BY <2>0 DEF Call
        <5> HIDE DEF c, P
        <5>3. Done1(c)
          BY <5>1, <5>2, <3>b
        <5>4. Fits(c, zone)
          BY <5>2
        <5> HIDE DEF Fits, Done1
        <5> QED
          BY <5>1, <5>3, <5>4, <3>0, <1>f
      <4> QED
        BY <4>1, <4>2
    <3>4. CASE Fail(r) \/ Resume(r)
      <4>1. CASE Fail(r) /\ ~Repeats(r)
        BY <4>1, <3>e DEF Fail
      <4>2. CASE Fail(r) /\ Repeats(r)
        <5> DEFINE c == [call[r] EXCEPT !.at = "pause"]
        <5>1. call' = [call EXCEPT ![r] = c] /\ Asked(r)
          BY <4>2 DEF Fail, Asking, Asked
        <5>2. /\ c.at = "pause" /\ c.op = call[r].op /\ c.got = call[r].got
              /\ c.stayed = call[r].stayed /\ c.left = call[r].left /\ c.came = call[r].came
              /\ c.cut = call[r].cut /\ c.page = call[r].page
          BY <2>0 DEF Call
        <5> HIDE DEF c
        <5>3. P(c) = P(call[r])
          BY <5>2
        <5> HIDE DEF P
        <5> QED
          BY <5>1, <5>2, <5>3, <3>w
      <4>3. CASE Resume(r)
        <5> DEFINE t == call[r].tries + 1
                   c == [call[r] EXCEPT !.at = "ask", !.tries = t]
        <5>1. call' = [call EXCEPT ![r] = c] /\ Asked(r)
          BY <4>3 DEF Resume, Asked
        <5> HIDE DEF t
        <5>2. /\ c.at = "ask" /\ c.op = call[r].op /\ c.got = call[r].got
              /\ c.stayed = call[r].stayed /\ c.left = call[r].left /\ c.came = call[r].came
              /\ c.cut = call[r].cut /\ c.page = call[r].page
          BY <2>0 DEF Call
        <5> HIDE DEF c
        <5>3. P(c) = P(call[r])
          BY <5>2
        <5> HIDE DEF P
        <5> QED
          BY <5>1, <5>2, <5>3, <3>w
      <4> QED
        BY <3>4, <4>1, <4>2, <4>3
    <3>5. CASE Write(r)
      BY <3>5, <3>p DEF Write
    <3>6. CASE GiveUp(r)
      BY <3>6, <3>e DEF GiveUp
    <3> QED
      BY <2>2, <3>1, <3>2, <3>3, <3>4, <3>5, <3>6 DEF Exchange
  <2> QED
    BY <1>5, <1>e, <2>1, <2>2
    DEF Serve, Verify, ResolveWorkspace, CheckAccess, CallEnds, Store, StoreFails, OnlyReq
<1>6. CASE Others /\ UNCHANGED server
  <2>1. ASSUME NEW i \in DOMAIN zone, Leave(i) PROVE PagesFit'
    <3>1. zone' = RemoveAt(zone, i)
      BY <2>1 DEF Leave
    <3>2. ~Twice(zone')
      BY <3>1, <1>0, LeaveFacts
    <3>3. ASSUME NEW r \in Reqs PROVE Done1(call'[r]) /\ Fits(call'[r], zone')
      <4>0. call[r] \in Call /\ Done1(call[r]) /\ Fits(call[r], zone)
        BY <1>0, <1>b
      <4>1. CASE ~Listing(r)
        <5>1. call'[r] = call[r]
          BY <4>1, <2>1, <1>0 DEF Leave
        <5> HIDE DEF P
        <5> QED
          BY <5>1, <4>0, <4>1 DEF Listing
      <4>2. CASE Listing(r)
        <5> DEFINE S == call[r].stayed \ {zone[i]}
                   c == [call[r] EXCEPT !.stayed = S, !.left = TRUE]
        <5>1. call'[r] = c
          BY <4>2, <2>1, <1>0 DEF Leave
        <5> HIDE DEF S
        <5>2. /\ c.at = call[r].at /\ c.op = call[r].op /\ c.got = call[r].got
              /\ c.left = TRUE /\ c.came = call[r].came
              /\ c.cut = call[r].cut /\ c.page = call[r].page
          BY <4>0 DEF Call
        <5> HIDE DEF c
        <5>3. P(c) = P(call[r]) /\ P(call[r]) \in Nat
          BY <5>2, <1>d
        <5> HIDE DEF P
        <5>4. Rest(zone', P(call[r])) \subseteq Rest(zone, P(call[r]))
          BY <5>3, <3>1, <1>0, LeaveFacts
        <5>5. Done1(c)
          BY <5>2, <4>2 DEF Listing
        <5>6. Fits(c, zone')
          BY <5>2, <5>3, <5>4, <4>0, <4>2 DEF Listing
        <5> HIDE DEF Fits, Done1
        <5> QED
          BY <5>1, <5>5, <5>6
      <4> QED
        BY <4>1, <4>2
    <3> HIDE DEF Fits, Done1
    <3> QED
      BY <3>2, <3>3, <1>a
  <2>2. ASSUME NEW i \in 1..Len(zone) + 1, NEW x \in Records, Come(i, x) PROVE PagesFit'
    <3>1. zone' = InsertAt(zone, i, x) /\ x \notin ToSet(zone)
      BY <2>2 DEF Come
    <3>2. ~Twice(zone')
      BY <3>1, <1>0, ComeFacts
    <3>3. ASSUME NEW r \in Reqs PROVE Done1(call'[r]) /\ Fits(call'[r], zone')
      <4>0. call[r] \in Call /\ Done1(call[r]) /\ Fits(call[r], zone)
        BY <1>0, <1>b
      <4>1. CASE ~Listing(r)
        <5>1. call'[r] = call[r]
          BY <4>1, <2>2, <1>0 DEF Come
        <5> HIDE DEF P
        <5> QED
          BY <5>1, <4>0, <4>1 DEF Listing
      <4>2. CASE Listing(r)
        <5> DEFINE c == [call[r] EXCEPT !.came = TRUE]
        <5>1. call'[r] = c
          BY <4>2, <2>2, <1>0 DEF Come
        <5>2. /\ c.at = call[r].at /\ c.op = call[r].op /\ c.got = call[r].got
              /\ c.stayed = call[r].stayed /\ c.left = call[r].left /\ c.came = TRUE
              /\ c.cut = call[r].cut /\ c.page = call[r].page
          BY <4>0 DEF Call
        <5> HIDE DEF c
        <5>3. P(c) = P(call[r]) /\ P(call[r]) \in Nat
          BY <5>2, <1>d
        <5> HIDE DEF P
        <5>4. Rest(zone, P(call[r])) \subseteq Rest(zone', P(call[r]))
          BY <5>3, <3>1, <1>0, ComeFacts
        <5>5. Done1(c)
          BY <5>2, <4>2 DEF Listing
        <5>6. Fits(c, zone')
          BY <5>2, <5>3, <5>4, <4>0, <4>2 DEF Listing
        <5> HIDE DEF Fits, Done1
        <5> QED
          BY <5>1, <5>5, <5>6
      <4> QED
        BY <4>1, <4>2
    <3> HIDE DEF Fits, Done1
    <3> QED
      BY <3>2, <3>3, <1>a
  <2> QED
    BY <2>1, <2>2, <1>6 DEF Others
<1> QED
  BY <1>1, <1>2, <1>3, <1>4, <1>5, <1>6 DEF Next

\* A listing that is gone on with misses nothing unless a record left or a body was
\* lost meanwhile, and has nothing twice unless one came, for pages of any size and
\* any number of changes and repetitions: Service!ListingSound.
THEOREM ListsAll == Spec => []ListingSound
<1>1. Spec => [](TypeOK /\ Counted)
  BY TypeInit, TypeStep, PTL DEF Spec
<1>2. PagesFit => ListingSound
  BY DEF PagesFit
<1> QED
  BY <1>1, <1>2, PagesInit, PagesStep, PTL DEF Spec
=============================================================================
