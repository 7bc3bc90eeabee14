---------------------------- MODULE ProviderClient ----------------------------
(***************************************************************************)
(* The HTTP clients of Cloudflare and Name.com (provider.go,               *)
(* provider_cloudflare.go, provider_namecom.go), one call of a handler at  *)
(* a time: a listing is read page by page while others change the zone, a  *)
(* GET that fails for the moment is repeated after a pause, a write is     *)
(* sent once.  The state and the steps; Service gives them their callers.  *)
(***************************************************************************)
EXTENDS Integers, FiniteSets, SequencesExt

CONSTANTS
  Reqs,        \* requests of the service, each with one call
  Records,     \* records of a zone
  Listings,    \* how the zone may be listed to begin with
  PerPage,     \* records on a page
  MaxRetries,  \* rt.max: how often a GET is repeated
  MaxEdits     \* bound: changes to the zone by others

Twice(s) == \E i, j \in DOMAIN s : i # j /\ s[i] = s[j]

ASSUME ClientAssumption == PerPage \in Nat \ {0} /\ MaxRetries \in Nat /\ MaxEdits \in Nat
ASSUME ListingAssumption == Listings \subseteq Seq(Records) /\ \A s \in Listings : ~Twice(s)

VARIABLES
  type,      \* which provider the account has
  zone,      \* the provider's records, in the order it lists them
  edits,     \* changes so far, up to MaxEdits
  call,      \* call[r]: where the call of request r stands
  arrived    \* history: how often the write of r has reached the provider

client == <<type, zone, edits, call, arrived>>

\* page 0 looks up the name of the zone, as Cloudflare's records need it.
\* tries counts the repetitions of one GET.  History: stayed are the records in
\* the zone since the listing began; left and came say that one has gone or been
\* added since, cut that a body was lost on the way.
NoCall == [at |-> "idle", op |-> "list", page |-> 0, tries |-> 0, got |-> <<>>,
           stayed |-> {}, left |-> FALSE, came |-> FALSE, cut |-> FALSE]
Call == [at : {"idle", "ask", "pause", "ok", "err"}, op : {"list", "write"}, page : Nat,
         tries : 0..MaxRetries, got : Seq(Records), stayed : SUBSET Records,
         left : BOOLEAN, came : BOOLEAN, cut : BOOLEAN]

ClientTypeOK ==
  /\ type \in {"cloudflare", "namecom"}
  /\ zone \in Seq(Records)
  /\ edits \in Nat
  /\ call \in [Reqs -> Call]
  /\ arrived \in [Reqs -> Nat]

ClientInit ==
  /\ type \in {"cloudflare", "namecom"}
  /\ zone \in Listings
  /\ edits = 0
  /\ call = [r \in Reqs |-> NoCall]
  /\ arrived = [r \in Reqs |-> 0]
-----------------------------------------------------------------------------
Listing(r) == call[r].op = "list" /\ call[r].at \in {"ask", "pause"}

\* Others at the provider; a record is listed wherever the provider likes.
Leave(i) ==
  /\ edits < MaxEdits /\ edits' = edits + 1
  /\ zone' = RemoveAt(zone, i)
  /\ call' = [r \in Reqs |-> IF Listing(r)
                 THEN [call[r] EXCEPT !.stayed = @ \ {zone[i]}, !.left = TRUE] ELSE call[r]]
  /\ UNCHANGED <<type, arrived>>

Come(i, x) ==
  /\ edits < MaxEdits /\ edits' = edits + 1
  /\ x \notin ToSet(zone)
  /\ zone' = InsertAt(zone, i, x)
  /\ call' = [r \in Reqs |-> IF Listing(r) THEN [call[r] EXCEPT !.came = TRUE] ELSE call[r]]
  /\ UNCHANGED <<type, arrived>>
-----------------------------------------------------------------------------
BeginCall(r, op) ==
  /\ call[r].at = "idle"
  /\ \E page \in IF type = "cloudflare" THEN {0, 1} ELSE {1} :
       call' = [call EXCEPT ![r] = [NoCall EXCEPT !.at = "ask", !.op = op, !.page = page,
                            !.stayed = IF op = "list" THEN ToSet(zone) ELSE {}]]
  /\ UNCHANGED <<type, zone, edits, arrived>>

Asking(r) == call[r].at = "ask"
IsGet(r)  == call[r].op = "list" \/ call[r].page = 0
Errs(r)   == call' = [call EXCEPT ![r] = [NoCall EXCEPT !.at = "err", !.op = call[r].op]]
OnlyCall  == UNCHANGED <<type, zone, edits, arrived>>

\* zoneName
Name(r) ==
  /\ Asking(r) /\ call[r].page = 0
  /\ call' = [call EXCEPT ![r].page = 1, ![r].tries = 0]
  /\ OnlyCall

\* Cloudflare counts pages, Name.com names the next one: both stop at the last.
IsLast(n) == n * PerPage >= Len(zone)
StopsEarly(n) == (n + 1) * PerPage >= Len(zone)
Stops(n) == IsLast(n)
OnPage(n) == SubSeq(zone, (n - 1) * PerPage + 1, IF IsLast(n) THEN Len(zone) ELSE n * PerPage)

Page(r) ==
  /\ Asking(r) /\ call[r].op = "list" /\ call[r].page > 0
  /\ LET n == call[r].page IN
     call' = [call EXCEPT ![r].got = @ \o OnPage(n), ![r].tries = 0,
                          ![r].at = IF Stops(n) THEN "ok" ELSE "ask",
                          ![r].page = IF Stops(n) THEN n ELSE n + 1]
  /\ OnlyCall

\* retryTransport.RoundTrip: only a GET is repeated, and not for ever.
RepeatsAll(r) == call[r].tries < MaxRetries
RepeatsOnceMore(r) == IsGet(r) /\ call[r].tries <= MaxRetries
Repeats(r) == IsGet(r) /\ call[r].tries < MaxRetries

\* A write may have arrived although its call fails.
Arrives(r) ==
  /\ \E hit \in IF IsGet(r) THEN {0} ELSE {0, 1} : arrived' = [arrived EXCEPT ![r] = @ + hit]
  /\ UNCHANGED <<type, zone, edits>>

\* A network error, 429 or 5xx.
Fail(r) ==
  /\ Asking(r)
  /\ IF Repeats(r) THEN call' = [call EXCEPT ![r].at = "pause"] ELSE Errs(r)
  /\ Arrives(r)

ResumeUncounted(r) ==
  /\ call[r].at = "pause"
  /\ call' = [call EXCEPT ![r].at = "ask"]
  /\ OnlyCall
Resume(r) ==
  /\ call[r].at = "pause"
  /\ call' = [call EXCEPT ![r].at = "ask", ![r].tries = @ + 1]
  /\ OnlyCall

Performed(r) ==
  /\ call' = [call EXCEPT ![r].at = "ok"]
  /\ arrived' = [arrived EXCEPT ![r] = @ + 1]
  /\ UNCHANGED <<type, zone, edits>>
Write(r) == Asking(r) /\ ~IsGet(r) /\ Performed(r)

\* The connection or the client's time ends between header and body.  The error of
\* reading the body is ignored: without a body there is no success for Cloudflare,
\* but for Name.com a page with nothing on it and none after it, or a write that
\* is answered by an empty record.
BodyLost(r) ==
  /\ Asking(r) /\ type = "namecom"
  /\ \/ IsGet(r) /\ call' = [call EXCEPT ![r].cut = TRUE, ![r].at = "ok"] /\ OnlyCall
     \/ ~IsGet(r) /\ Performed(r)

\* Any other status; or a body that cannot be read; or the client's 15 seconds,
\* which run through pauses and repetitions, are over; or the request is cancelled.
GiveUp(r) ==
  /\ call[r].at \in {"ask", "pause"}
  /\ Errs(r)
  /\ Arrives(r)

Exchange(r) ==
  \/ Name(r) \/ Page(r) \/ BodyLost(r) \/ Fail(r) \/ Resume(r) \/ Write(r) \/ GiveUp(r)

Others == \/ \E i \in DOMAIN zone : Leave(i)
          \/ \E i \in 1..Len(zone) + 1, x \in Records : Come(i, x)
=============================================================================
