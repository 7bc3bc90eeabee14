------------------------------- MODULE Service -------------------------------
(***************************************************************************)
(* A run of the service: main and New, the gate that every API request     *)
(* passes (auth.go), a handler that calls the provider and then stores,    *)
(* and the way down: a signal, up to ten seconds for the requests in       *)
(* flight, the database closed, exit.                                      *)
(***************************************************************************)
EXTENDS ProviderClient

CONSTANTS
  Workspaces,
  Personal,    \* the user's own workspace
  MaxGrants    \* bound: changes of memberships and plugin grants

ASSUME GateAssumption == Personal \in Workspaces /\ MaxGrants \in Nat

VARIABLES
  phase,     \* where main is
  late,      \* Shutdown has given up waiting
  member,    \* dock: the workspaces the user belongs to, besides Personal
  enabled,   \* dock: the workspaces that have been granted the plugin
  grants,    \* changes so far, up to MaxGrants
  req        \* req[r]: where request r stands

server == <<phase, late, member, enabled, grants, req>>
vars == <<server, client>>

\* want is X-Workspace-Id, ws the workspace the handler works in.  History: was
\* and had are the workspaces the user belonged to, and those with a grant, at
\* some time while the request was at the gate; failed says that its transaction was
\* refused by the database.
NoReq == [at |-> "none", op |-> "list", want |-> Personal, ws |-> Personal, stored |-> FALSE,
          failed |-> FALSE, was |-> {}, had |-> {}]
Req == [at : {"none", "verify", "member", "access", "read", "call", "store",
              "ok", "error", "refused"},
        op : {"list", "write"}, want : Workspaces, ws : Workspaces, stored : BOOLEAN,
        failed : BOOLEAN, was : SUBSET Workspaces, had : SUBSET Workspaces]

TypeOK ==
  /\ ClientTypeOK
  /\ phase \in {"start", "serve", "drain", "closed", "exit"}
  /\ late \in BOOLEAN
  /\ member \in SUBSET Workspaces /\ enabled \in SUBSET Workspaces
  /\ grants \in Nat
  /\ req \in [Reqs -> Req]

Init ==
  /\ ClientInit
  /\ phase = "start" /\ late = FALSE
  /\ member \in SUBSET (Workspaces \ {Personal}) /\ enabled \in SUBSET Workspaces
  /\ grants = 0
  /\ req = [r \in Reqs |-> NoReq]

Up == phase # "exit"
DbOpen == phase \in {"serve", "drain"}
Pending(r) == req[r].at \in {"verify", "member", "access", "read", "call", "store"}
AtGate(r)  == req[r].at \in {"verify", "member", "access"}
Goes(r, at) == req' = [req EXCEPT ![r].at = at]
OnlyReq == UNCHANGED <<phase, late, member, enabled, grants, client>>
-----------------------------------------------------------------------------
\* New pings the database and the dock, and gives up if either does not answer.
Start ==
  /\ phase = "start"
  /\ phase' \in {"serve", "exit"}
  /\ UNCHANGED <<late, member, enabled, grants, req, client>>

Signal ==
  /\ phase = "serve" /\ phase' = "drain"
  /\ UNCHANGED <<late, member, enabled, grants, req, client>>

\* srv.Shutdown: no new requests, and those in flight are waited for, but not for
\* more than ten seconds.  They are not cancelled.
NotWaited == TRUE
Drained == \A r \in Reqs : ~Pending(r)
Shutdown ==
  /\ phase = "drain" /\ phase' = "closed"
  /\ \/ Drained /\ UNCHANGED late
     \/ ~Drained /\ late' = TRUE
  /\ UNCHANGED <<member, enabled, grants, req, client>>

\* plugin.Close is the last but one of the deferred calls, then main returns.
Exit ==
  /\ phase = "closed" /\ phase' = "exit"
  /\ UNCHANGED <<late, member, enabled, grants, req, client>>
-----------------------------------------------------------------------------
\* The dock: people join and leave workspaces, the plugin is granted and revoked.
Toggled(S, w) == IF w \in S THEN S \ {w} ELSE S \cup {w}
Dock(m, e) ==
  /\ Up /\ grants < MaxGrants /\ grants' = grants + 1
  /\ member' = m /\ enabled' = e
  /\ req' = [r \in Reqs |-> IF AtGate(r)
                            THEN [req[r] EXCEPT !.was = @ \cup m, !.had = @ \cup e] ELSE req[r]]
  /\ UNCHANGED <<phase, late, client>>
Rejoin(w)  == w # Personal /\ Dock(Toggled(member, w), enabled)
Regrant(w) == Dock(member, Toggled(enabled, w))

Accept(r, op, w) ==
  /\ phase = "serve" /\ req[r].at = "none"
  /\ req' = [req EXCEPT ![r] = [NoReq EXCEPT !.at = "verify", !.op = op, !.want = w,
                                             !.was = member, !.had = enabled]]
  /\ OnlyReq

\* AuthVerifyWS: who the token belongs to, and the user's own workspace.
Verify(r) ==
  /\ Up /\ req[r].at = "verify"
  /\ \/ Goes(r, "refused")
     \/ Goes(r, IF req[r].want = Personal THEN "access" ELSE "member")
  /\ OnlyReq

\* resolveWorkspaceID: the workspace asked for, if the dock says that the user
\* belongs to it; when it says no, or nothing, the user's own.
BelongsOpen(r, answered) == answered => req[r].want \in member
Belongs(r, answered) == answered /\ req[r].want \in member
ResolveWorkspace(r) ==
  /\ Up /\ req[r].at = "member"
  /\ \E answered \in BOOLEAN :
       req' = [req EXCEPT ![r].at = "access",
                          ![r].ws = IF Belongs(r, answered) THEN req[r].want ELSE Personal]
  /\ OnlyReq

\* WorkspacePluginAccess; no answer counts as no.
Granted(r, answered) == answered /\ req[r].ws \in enabled
CheckAccess(r) ==
  /\ Up /\ req[r].at = "access"
  /\ \E answered \in BOOLEAN : Goes(r, IF Granted(r, answered) THEN "read" ELSE "refused")
  /\ OnlyReq
-----------------------------------------------------------------------------
\* A handler reads what it needs, calls the provider and stores what came of it.
\* The database may fail it at any time, and does when it is closed.
ReadRows(r) ==
  /\ Up /\ req[r].at = "read"
  /\ \/ DbOpen /\ Goes(r, "call") /\ BeginCall(r, req[r].op)
     \/ Goes(r, "error") /\ UNCHANGED client
  /\ UNCHANGED <<phase, late, member, enabled, grants>>

CallEnds(r) ==
  /\ Up /\ req[r].at = "call" /\ call[r].at \in {"ok", "err"}
  /\ Goes(r, IF call[r].at = "ok" THEN "store" ELSE "error")
  /\ OnlyReq

Store(r) ==
  /\ Up /\ req[r].at = "store" /\ DbOpen
  /\ req' = [req EXCEPT ![r].at = "ok", ![r].stored = TRUE]
  /\ OnlyReq
StoreFails(r) ==
  /\ Up /\ req[r].at = "store"
  /\ req' = [req EXCEPT ![r].at = "error", ![r].failed = DbOpen]
  /\ OnlyReq

Serve(r) ==
  \/ Verify(r) \/ ResolveWorkspace(r) \/ CheckAccess(r) \/ ReadRows(r)
  \/ Up /\ Exchange(r) /\ UNCHANGED server
  \/ CallEnds(r) \/ Store(r) \/ StoreFails(r)

Main == Start \/ Shutdown \/ Exit

Next ==
  \/ Main \/ Signal
  \/ \E w \in Workspaces : Rejoin(w) \/ Regrant(w)
  \/ \E r \in Reqs, op \in {"list", "write"}, w \in Workspaces : Accept(r, op, w)
  \/ \E r \in Reqs : Serve(r)
  \/ Up /\ Others /\ UNCHANGED server

Spec == Init /\ [][Next]_vars

\* main goes on, and so does every handler: dock, database and provider answer, or
\* a timeout does.
FairSpec == Spec /\ WF_vars(Main) /\ \A r \in Reqs : WF_vars(Serve(r))
-----------------------------------------------------------------------------
Done(r) == call[r].at = "ok"

\* A write reaches the provider at most once, whatever is repeated, lost or
\* cancelled, and it has when the call succeeds (provider.go:103-105).
AtMostOnce ==
  \A r \in Reqs :
    /\ arrived[r] <= 1
    /\ Done(r) /\ call[r].op = "write" => arrived[r] = 1

\* A listing that a handler goes on with has whatever was in the zone all the
\* while, unless a record left meanwhile or the body of a page was lost, and
\* nothing twice, unless one came: pages are counted from the start of the zone as
\* it is when they are asked for (provider_cloudflare.go:192).
ListingSound ==
  \A r \in Reqs : Done(r) /\ call[r].op = "list" =>
    /\ ~call[r].left /\ ~call[r].cut => call[r].stayed \subseteq ToSet(call[r].got)
    /\ ~call[r].came => ~Twice(call[r].got)

\* What reaches the provider or the cache belongs to the user's own workspace, or
\* to one that the user belonged to, and that had a grant, while the request was at
\* the gate, however memberships change and checks fail (auth.go:46-78).
ActsWhereAllowed ==
  \A r \in Reqs : call[r].at # "idle" \/ req[r].stored =>
    /\ req[r].ws = Personal \/ req[r].ws \in req[r].was
    /\ req[r].ws \in req[r].had

\* The database is not closed under a request unless Shutdown has run out of
\* time: but for that, a write that the provider has performed and answered is
\* stored, or is still to be, or the database has refused it (main.go:62-68).
CutOnlyLate ==
  /\ phase \in {"closed", "exit"} /\ ~late => \A r \in Reqs : ~Pending(r)
  /\ \A r \in Reqs : Done(r) /\ ~late =>
       req[r].stored \/ req[r].at \in {"call", "store"} \/ req[r].failed

\* Every request is answered while the service lives (provider.go:119: a GET is not
\* repeated for ever).
Answered == \A r \in Reqs : Pending(r) ~> ~Pending(r) \/ phase = "exit"
-----------------------------------------------------------------------------
\* What a comment says and the code does not do.

\* zones_store.go:86: what replaces the cached records is what the provider holds:
\* a listing that ends well has what was in the zone all the while.
ListingWhole ==
  \A r \in Reqs : Done(r) /\ call[r].op = "list" /\ ~call[r].left =>
    call[r].stayed \subseteq ToSet(call[r].got)
=============================================================================
