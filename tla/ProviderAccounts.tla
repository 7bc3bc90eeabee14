--------------------------- MODULE ProviderAccounts ---------------------------
(***************************************************************************)
(* The provider accounts of one workspace (providers_handlers.go,          *)
(* providers_store.go, crypto.go): requests add, edit and delete accounts  *)
(* whose credentials are sealed with the key of the running service, and   *)
(* the service is restarted, maybe with another key or with none.  An edit *)
(* reads the whole row, and writes the whole row back in a later           *)
(* statement; other requests run in between.                               *)
(***************************************************************************)
EXTENDS Integers

CONSTANTS
  Ids,          \* dp_ ids
  Names,        \* account names
  Types,        \* provider types that are asked for
  Local,        \* the type of the self-hosted provider
  Creds,        \* credentials
  Empty,        \* the credential without any field
  Fits,         \* Fits[t]: the credentials that are complete for type t
  Proxies,      \* proxy urls
  Usable,       \* those of a supported scheme, and the empty one
  Keys,         \* keys the service may be started with
  Requests,     \* requests that can be in flight together
  None,         \* the missing value
  MaxRequests,  \* bound: requests in one behaviour
  MaxRestarts   \* bound: restarts in one behaviour

Cipher  == [key : Keys, cred : Creds]
Given   == [key : Keys \cup {None}, cred : Creds]
Account == [name : Names, type : Types, proxy : Proxies,
            cipher : Cipher \cup {None}, plain : Creds \cup {None}, encrypted : BOOLEAN]

ASSUME TypeAssumption ==
  /\ Empty \in Creds /\ Usable \subseteq Proxies
  /\ Fits \in [Types -> SUBSET (Creds \ {Empty})]
ASSUME NoneAssumption ==
  /\ None \notin Ids /\ None \notin Names /\ None \notin Creds /\ None \notin Proxies
  /\ None \notin Keys /\ None \notin Given /\ None \notin Account
ASSUME BoundAssumption == MaxRequests \in Nat /\ MaxRestarts \in Nat

VARIABLES
  key,        \* DNS_CRED_KEY of the running service; None when there is none
  accounts,   \* dns_provider: accounts[i] is a row or None
  job,        \* job[r]: where request r stands
  audit,      \* <<operation, id>> logged
  requests, restarts,   \* counters, up to their bounds
  born,       \* history: ids that have been drawn
  done,       \* history: <<operation, id>> committed
  given,      \* history: the credential last given for an id, and the key then
  lapped      \* history: ids an edit has since written an older credential to

counters == <<requests, restarts>>
history  == <<born, done, given, lapped>>
vars == <<key, accounts, job, audit, counters, history>>

\* "rotate" is an update that names a credential.
Ops == {"add", "update", "rotate", "delete"}

\* A request that has done its checks writes, then logs.  late: the account's
\* credential has been rotated since the request read it.
Idle == [at |-> "idle", op |-> None, id |-> None, row |-> None, cred |-> None, late |-> FALSE]
Stages == {"write", "log"}
Job ==
  [at : Stages, op : Ops, id : Ids, row : Account \cup {None},
   cred : Creds \cup {None}, late : BOOLEAN]

TypeOK ==
  /\ key \in Keys \cup {None}
  /\ accounts \in [Ids -> Account \cup {None}]
  /\ job \in [Requests -> Job \cup {Idle}]
  /\ audit \in SUBSET (Ops \X Ids)
  /\ requests \in Nat /\ restarts \in Nat
  /\ born \in SUBSET Ids
  /\ done \in SUBSET (Ops \X Ids)
  /\ given \in [Ids -> Given \cup {None}]
  /\ lapped \in SUBSET Ids
-----------------------------------------------------------------------------
\* Credentials.

\* sealCredential: the three columns a credential is stored in.
SealPartly(row, c) ==
  IF key = None THEN [row EXCEPT !.cipher = None, !.plain = c, !.encrypted = FALSE]
                ELSE [row EXCEPT !.cipher = [key |-> key, cred |-> c], !.encrypted = TRUE]
SealNoKey(row, c) ==
  [row EXCEPT !.cipher = [key |-> key, cred |-> c], !.plain = None, !.encrypted = TRUE]
Seal(row, c) ==
  IF key = None THEN [row EXCEPT !.cipher = None, !.plain = c, !.encrypted = FALSE]
                ELSE [row EXCEPT !.cipher = [key |-> key, cred |-> c], !.plain = None,
                                 !.encrypted = TRUE]

\* openCredential by a service with key k: None when it cannot.
Open(row, k) ==
  IF ~row.encrypted THEN row.plain
  ELSE IF k # None /\ row.cipher # None /\ row.cipher.key = k THEN row.cipher.cred
  ELSE None

\* NewProvider: the type is known, the credential complete, the proxy usable.
Valid(t, c, x) == t = Local \/ (c \in Fits[t] /\ x \in Usable)

\* What handleProviderCreate lets through; a request that is turned down changes
\* nothing.
Admitted(t, c, x) == c # Empty /\ Valid(t, c, x)
-----------------------------------------------------------------------------
Init ==
  /\ key \in Keys \cup {None}
  /\ accounts = [i \in Ids |-> None]
  /\ job = [r \in Requests |-> Idle]
  /\ audit = {}
  /\ requests = 0 /\ restarts = 0
  /\ born = {} /\ done = {} /\ lapped = {}
  /\ given = [i \in Ids |-> None]

Begun(op, i, row, c) ==
  [at |-> "write", op |-> op, id |-> i, row |-> row, cred |-> c, late |-> FALSE]
Ready(r) == job[r] = Idle /\ requests < MaxRequests /\ requests' = requests + 1
Await(r, j) ==
  /\ job' = [job EXCEPT ![r] = j]
  /\ UNCHANGED <<key, accounts, audit, restarts, done, given, lapped>>

\* handleProviderCreate, up to its insert.
Add(r, i, n, t, c, x) ==
  /\ Ready(r)
  /\ Admitted(t, c, x)
  /\ i \notin born /\ born' = born \cup {i}
  /\ LET row == [name |-> n, type |-> t, proxy |-> x,
                 cipher |-> None, plain |-> None, encrypted |-> FALSE]
     IN  Await(r, Begun("add", i, Seal(row, c), c))

\* handleProviderUpdate: the row is read and edited.  n, x: the name and the proxy
\* asked for, None when they are not; c: the credential asked for, empty or not.
Effective(row, c) == IF c = Empty THEN Open(row, key) ELSE c
Edited(row, n, x) ==
  [row EXCEPT !.name = IF n = None THEN @ ELSE n, !.proxy = IF x = None THEN @ ELSE x]
Resealed(row, c) == Seal(row, c)
Columns(row, c) == IF c = Empty THEN row ELSE Seal(row, c)
Update(r, i, n, x, c) ==
  /\ Ready(r)
  /\ accounts[i] # None
  /\ LET row == Edited(accounts[i], n, x) IN
     /\ Effective(row, c) # None
     /\ Valid(row.type, Effective(row, c), row.proxy)
     /\ Await(r, IF c = Empty THEN Begun("update", i, Columns(row, c), None)
                              ELSE Begun("rotate", i, Columns(row, c), c))
  /\ UNCHANGED born

Delete(r, i) ==
  /\ Ready(r)
  /\ i \in born
  /\ Await(r, Begun("delete", i, None, None))
  /\ UNCHANGED born
-----------------------------------------------------------------------------
\* The statement goes through when its row is there (or new) and its name free;
\* otherwise the answer is 404 or 409.
NameFree(i, n) == \A k \in Ids \ {i} : accounts[k] # None => accounts[k].name # n
Upserted(j) == j.op = "delete" => accounts[j.id] # None
Matches(j) ==
  /\ j.op # "add" => accounts[j.id] # None
  /\ j.op # "delete" => NameFree(j.id, j.row.name)

\* A rotation overtakes the requests that have read the account before it.
Overtaken(r) ==
  [q \in Requests |->
     IF job[r].op = "rotate" /\ q # r /\ job[q].at = "write" /\ job[q].id = job[r].id
       THEN [job[q] EXCEPT !.late = TRUE] ELSE job[q]]

Write(r) ==
  /\ job[r].at = "write" /\ Matches(job[r])
  /\ LET i == job[r].id  c == job[r].cred IN
     /\ accounts' = [accounts EXCEPT ![i] = job[r].row]
     /\ done' = done \cup {<<job[r].op, i>>}
     /\ given' = IF c = None THEN given ELSE [given EXCEPT ![i] = [key |-> key, cred |-> c]]
     /\ lapped' = IF c # None THEN lapped \ {i}
                  ELSE IF job[r].late THEN lapped \cup {i} ELSE lapped
  /\ job' = [Overtaken(r) EXCEPT ![r].at = "log"]
  /\ UNCHANGED <<key, audit, counters, born>>

\* The row is gone, the name taken, or the statement fails.
Forgiven(r) ==
  /\ job[r].at = "write"
  /\ job' = [job EXCEPT ![r].at = "log"]
  /\ UNCHANGED <<key, accounts, audit, counters, history>>
WriteFails(r) ==
  /\ job[r].at = "write"
  /\ job' = [job EXCEPT ![r] = Idle]
  /\ UNCHANGED <<key, accounts, audit, counters, history>>

\* writeAudit is best effort.
WriteAudit(r) ==
  /\ job[r].at = "log"
  /\ audit' \in {audit, audit \cup {<<job[r].op, job[r].id>>}}
  /\ job' = [job EXCEPT ![r] = Idle]
  /\ UNCHANGED <<key, accounts, counters, history>>

\* The service stops, whatever it is doing, and starts with key k.
Restart(k) ==
  /\ restarts < MaxRestarts /\ restarts' = restarts + 1
  /\ key' = k
  /\ job' = [r \in Requests |-> Idle]
  /\ UNCHANGED <<accounts, audit, requests, history>>
-----------------------------------------------------------------------------
Ask(r) ==
  \/ \E n \in Names, t \in Types, c \in Creds, x \in Proxies :
       \E i \in Ids : Add(r, i, n, t, c, x)
  \/ \E i \in Ids, n \in Names \cup {None}, x \in Proxies \cup {None}, c \in Creds :
       Update(r, i, n, x, c)
  \/ \E i \in Ids : Delete(r, i)

Next ==
  \/ \E r \in Requests :
       Ask(r) \/ Write(r) \/ WriteFails(r) \/ WriteAudit(r)
  \/ \E k \in Keys \cup {None} : Restart(k)

Spec == Init /\ [][Next]_vars
-----------------------------------------------------------------------------
\* Unless an overtaken edit has written over it, an account holds the credential
\* that was last given for it, as stored by the key of that time, through any
\* edits, failures and restarts.
RotationHolds ==
  \A i \in Ids \ lapped :
    accounts[i] # None => Open(accounts[i], given[i].key) = given[i].cred

\* A row says truly whether it is encrypted, and keeps no plain copy if so; a
\* credential given under a key is encrypted (dev-plan.md:211).
NoPlainCopy ==
  \A i \in Ids : accounts[i] # None =>
    /\ accounts[i].encrypted <=> accounts[i].plain = None
    /\ accounts[i].encrypted <=> accounts[i].cipher # None
    /\ i \notin lapped /\ given[i].key # None => accounts[i].encrypted

\* Whatever edits race, a stored account has a credential and a proxy its type
\* accepts: whoever has its key can build the provider.
Stored(row) == IF row.encrypted THEN row.cipher.cred ELSE row.plain
Buildable ==
  \A i \in Ids : accounts[i] # None =>
    Valid(accounts[i].type, Stored(accounts[i]), accounts[i].proxy)

\* The log tells of nothing that did not happen: no edit of an account that was
\* deleted under it, no account that lost the race for its name.
AuditTruth == audit \subseteq done

\* A deleted account stays deleted, though edits that read it are still to write.
GoneForGood == \A i \in Ids : <<"delete", i>> \in done => accounts[i] = None
=============================================================================
