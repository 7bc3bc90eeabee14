------------------------ MODULE ProviderAccounts_proofs ------------------------
(***************************************************************************)
(* What the provider accounts keep, for any accounts, keys and number of   *)
(* requests in flight: types, the credential last given, the audit log,    *)
(* and deletions.                                                          *)
(***************************************************************************)
EXTENDS ProviderAccounts, TLAPS

-----------------------------------------------------------------------------
\* The inductive invariants.

\* An id that has not been drawn names nothing.
Fresh(i) == accounts[i] = None /\ given[i] = None /\ \A op \in Ops : <<op, i>> \notin done

\* What job j is about to write, when the key is k, g was last given for its id and
\* l says whether the id has lapsed.
Carries(j, k, g, l) ==
  /\ j.op = "delete" <=> j.row = None
  /\ j.op \in {"add", "rotate"} => j.cred # None /\ Open(j.row, k) = j.cred
  /\ j.op \in {"update", "delete"} => j.cred = None
  /\ j.op = "update" => g # None /\ (j.late \/ l \/ Open(j.row, g.key) = g.cred)
Writing(r) == job[r].at = "write"
Founded(r) ==
  LET i == job[r].id IN
  /\ i \in born /\ Carries(job[r], key, given[i], i \in lapped)
  /\ job[r].op = "add" => Fresh(i)
OneAdd ==
  \A q, r \in Requests :
    Writing(q) /\ Writing(r) /\ job[q].op = "add" /\ job[r].op = "add" /\ q # r =>
      job[q].id # job[r].id
Logged == \A r \in Requests : job[r].at = "log" => <<job[r].op, job[r].id>> \in done

AccountInv ==
  /\ \A i \in Ids : i \notin born => Fresh(i)
  /\ \A r \in Requests : Writing(r) => Founded(r)
  /\ OneAdd /\ Logged
  /\ \A i \in Ids : accounts[i] # None => given[i] # None
  /\ RotationHolds /\ AuditTruth /\ GoneForGood

\* A row that is stored, or about to be, is properly sealed and can be built; and it
\* is encrypted if the credential was given under a key.
Proper(row) ==
  /\ row.encrypted <=> row.plain = None
  /\ row.encrypted <=> row.cipher # None
  /\ Valid(row.type, Stored(row), row.proxy)
Hidden(row, i) == i \in lapped \/ given[i].key = None \/ row.encrypted

SealedInv ==
  /\ \A i \in Ids : accounts[i] # None => Proper(accounts[i]) /\ Hidden(accounts[i], i)
  /\ \A r \in Requests : Writing(r) /\ job[r].row # None =>
       /\ Proper(job[r].row)
       /\ IF job[r].op = "update" THEN job[r].late \/ Hidden(job[r].row, job[r].id)
          ELSE key = None \/ job[r].row.encrypted
-----------------------------------------------------------------------------
\* Credentials and jobs.

LEMMA SealType ==
  ASSUME key \in Keys \cup {None}, NEW row \in Account, NEW c \in Creds
  PROVE  Seal(row, c) \in Account /\ Seal(row, c) # None
<1>1. CASE key = None
  BY <1>1, NoneAssumption DEF Seal, Account
<1>2. CASE key # None
  <2> DEFINE sealed == [key |-> key, cred |-> c]
  <2>1. sealed \in Cipher
    BY <1>2 DEF Cipher
  <2> HIDE DEF sealed
  <2>2. [row EXCEPT !.cipher = sealed, !.plain = None, !.encrypted = TRUE] \in Account
    BY <2>1 DEF Account
  <2> QED BY <1>2, <2>2, NoneAssumption DEF Seal, sealed
<1> QED BY <1>1, <1>2

\* What is sealed under the key of the service opens with it.
LEMMA SealOpens ==
  ASSUME key \in Keys \cup {None}, NEW row \in Account, NEW c \in Creds
  PROVE  Open(Seal(row, c), key) = c
<1>1. CASE key = None
  BY <1>1 DEF Seal, Open, Account
<1>2. CASE key # None
  <2> DEFINE sealed == [key |-> key, cred |-> c]
             new == [row EXCEPT !.cipher = sealed, !.plain = None, !.encrypted = TRUE]
  <2>1. sealed \in Cipher /\ sealed # None /\ sealed.key = key /\ sealed.cred = c
    BY <1>2, NoneAssumption DEF Cipher, Given
  <2>2. new.encrypted /\ new.cipher = sealed
    <3> HIDE DEF sealed
    <3> QED BY DEF Account
  <2>3. Seal(row, c) = new
    BY <1>2 DEF Seal
  <2> HIDE DEF new, sealed
  <2> QED BY <1>2, <2>1, <2>2, <2>3 DEF Open
<1> QED BY <1>1, <1>2

LEMMA EditedType ==
  ASSUME NEW row \in Account, NEW n \in Names \cup {None}, NEW x \in Proxies \cup {None}
  PROVE  /\ Edited(row, n, x) \in Account
         /\ \A k : Open(Edited(row, n, x), k) = Open(row, k)
<1> DEFINE name == IF n = None THEN row.name ELSE n
           proxy == IF x = None THEN row.proxy ELSE x
           new == [row EXCEPT !.name = name, !.proxy = proxy]
<1>1. name \in Names /\ proxy \in Proxies
  BY DEF Account
<1>2. new = Edited(row, n, x)
  BY DEF Edited, Account
<1>3. /\ new \in Account
      /\ new.cipher = row.cipher /\ new.plain = row.plain /\ new.encrypted = row.encrypted
  <2> HIDE DEF name, proxy
  <2> QED BY <1>1 DEF Account
<1> HIDE DEF new
<1> QED BY <1>2, <1>3 DEF Open

LEMMA BegunType ==
  ASSUME NEW op \in Ops, NEW i \in Ids, NEW row \in Account \cup {None}, NEW c \in Creds \cup {None}
  PROVE  Begun(op, i, row, c) \in Job
BY DEF Begun, Job, Stages

\* A request at some stage is a job, not idle.
LEMMA JobAt ==
  ASSUME TypeOK, NEW r \in Requests, job[r].at \in Stages
  PROVE  job[r] \in Job
BY DEF TypeOK, Idle, Stages

\* After the write of r: r has to log, and the requests it overtook know it.
LEMMA WriteJobs ==
  ASSUME TypeOK, NEW r \in Requests, Write(r)
  PROVE  /\ job' \in [Requests -> Job \cup {Idle}]
         /\ job'[r] = [job[r] EXCEPT !.at = "log"]
         /\ \A q \in Requests \ {r} :
              \/ job'[q] = job[q] /\ ~ (job[r].op = "rotate" /\ Writing(q) /\ job[q].id = job[r].id)
              \/ job'[q] = [job[q] EXCEPT !.late = TRUE] /\ Writing(q)
<1>1. job[r] \in Job /\ job[r].at = "write"
  BY JobAt DEF Write, Stages
<1>2. Overtaken(r)[r] = job[r] /\ Overtaken(r) \in [Requests -> Job \cup {Idle}]
  <2>1. ASSUME NEW q \in Requests, job[q].at = "write" PROVE [job[q] EXCEPT !.late = TRUE] \in Job
    <3>1. job[q] \in Job
      BY <2>1, JobAt DEF Stages
    <3> QED BY <3>1 DEF Job
  <2> QED BY <2>1 DEF Overtaken, TypeOK
<1>3. [job[r] EXCEPT !.at = "log"] \in Job
  BY <1>1 DEF Job, Stages
<1>4. job' = [Overtaken(r) EXCEPT ![r] = [job[r] EXCEPT !.at = "log"]]
  BY <1>2 DEF Write
<1>5. \A q \in Requests \ {r} : job'[q] = Overtaken(r)[q]
  BY <1>2, <1>4
<1> QED BY <1>2, <1>3, <1>4, <1>5 DEF Overtaken, Writing
-----------------------------------------------------------------------------
\* The kinds of steps.

\* A request begins: only its job changes (and born, for an add).
Begins(r, j) ==
  /\ job' = [job EXCEPT ![r] = j] /\ job[r] = Idle
  /\ UNCHANGED <<key, accounts, audit, restarts, done, given, lapped>>

LEMMA AskBegins ==
  ASSUME TypeOK, NEW r \in Requests, Ask(r)
  PROVE  /\ requests' \in Nat
         /\ \/ \E i \in Ids, row \in Account, c \in Creds :
                 /\ i \notin born /\ born' = born \cup {i} /\ row # None
                 /\ Open(row, key) = c
                 /\ Begins(r, Begun("add", i, row, c))
            \/ \E i \in Ids, row \in Account :
                 /\ born' = born /\ accounts[i] # None /\ row # None
                 /\ \A k : Open(row, k) = Open(accounts[i], k)
                 /\ Begins(r, Begun("update", i, row, None))
            \/ \E i \in Ids, row \in Account, c \in Creds :
                 /\ born' = born /\ accounts[i] # None /\ row # None /\ Open(row, key) = c
                 /\ Begins(r, Begun("rotate", i, row, c))
            \/ \E i \in born :
                 born' = born /\ Begins(r, Begun("delete", i, None, None))
<1>1. requests' \in Nat
  <2>1. Ready(r)
    BY DEF Ask, Add, Update, Delete
  <2> QED BY <2>1 DEF Ready, TypeOK
<1> USE DEF Ready, Await, Begins
<1>2. ASSUME NEW n \in Names, NEW t \in Types, NEW c \in Creds, NEW x \in Proxies, NEW i \in Ids,
             Add(r, i, n, t, c, x)
      PROVE  \E row \in Account :
               /\ i \notin born /\ born' = born \cup {i} /\ row # None /\ Open(row, key) = c
               /\ Begins(r, Begun("add", i, row, c))
  <2> DEFINE row == [name |-> n, type |-> t, proxy |-> x,
                     cipher |-> None, plain |-> None, encrypted |-> FALSE]
  <2>1. row \in Account
    BY DEF Account
  <2>2. /\ i \notin born /\ born' = born \cup {i}
        /\ Begins(r, Begun("add", i, Seal(row, c), c))
    BY <1>2 DEF Add
  <2> HIDE DEF row
  <2> QED BY <2>1, <2>2, SealType, SealOpens DEF TypeOK
<1>4. ASSUME NEW i \in Ids, NEW n \in Names \cup {None}, NEW x \in Proxies \cup {None},
             NEW c \in Creds, Update(r, i, n, x, c)
      PROVE  \E row \in Account :
               /\ born' = born /\ accounts[i] # None /\ row # None
               /\ \/ /\ \A k : Open(row, k) = Open(accounts[i], k)
                     /\ Begins(r, Begun("update", i, row, None))
                  \/ /\ Open(row, key) = c
                     /\ Begins(r, Begun("rotate", i, row, c))
  <2> DEFINE row == Edited(accounts[i], n, x)
  <2>1. accounts[i] \in Account /\ accounts[i] # None
    BY <1>4 DEF Update, TypeOK
  <2>2. row \in Account /\ \A k : Open(row, k) = Open(accounts[i], k)
    BY <2>1, EditedType
  <2>3. /\ born' = born
        /\ IF c = Empty THEN Begins(r, Begun("update", i, row, None))
                        ELSE Begins(r, Begun("rotate", i, Seal(row, c), c))
    BY <1>4 DEF Update, Columns
  <2> HIDE DEF row
  <2>4. CASE c = Empty
    BY <2>1, <2>2, <2>3, <2>4, NoneAssumption
  <2>5. CASE c # Empty
    BY <2>1, <2>2, <2>3, <2>5, SealType, SealOpens DEF TypeOK
  <2> QED BY <2>4, <2>5
<1>5. ASSUME NEW i \in Ids, Delete(r, i)
      PROVE  /\ i \in born /\ born' = born
             /\ Begins(r, Begun("delete", i, None, None))
  BY <1>5 DEF Delete
<1> HIDE DEF Ready, Await, Begins
<1> QED BY <1>1, <1>2, <1>4, <1>5 DEF Ask
-----------------------------------------------------------------------------
\* Types hold throughout.
THEOREM TypeCorrect == Spec => []TypeOK
<1>1. Init => TypeOK
  BY DEF Init, TypeOK
<1>2. TypeOK /\ [Next]_vars => TypeOK'
  <2> SUFFICES ASSUME TypeOK, [Next]_vars PROVE TypeOK'
    OBVIOUS
  <2> USE DEF counters, history
  <2>1. CASE UNCHANGED vars
    BY <2>1 DEF vars, TypeOK
  <2>2. ASSUME NEW r \in Requests, NEW j \in Job \cup {Idle}
        PROVE  [job EXCEPT ![r] = j] \in [Requests -> Job \cup {Idle}]
    BY DEF TypeOK
  <2>3. ASSUME NEW r \in Requests, NEW j \in Job, Begins(r, j), requests' \in Nat,
               born' \in SUBSET Ids
        PROVE  TypeOK'
    BY <2>2, <2>3 DEF Begins, TypeOK
  <2>4. ASSUME NEW r \in Requests, Ask(r) PROVE TypeOK'
    <3> USE DEF Stages, Ops
    <3>1. requests' \in Nat
      BY <2>4, AskBegins
    <3>2. ASSUME NEW i \in Ids, NEW row \in Account, NEW c \in Creds, born' = born \cup {i},
                 Begins(r, Begun("add", i, row, c))
          PROVE  TypeOK'
      <4>1. born' \in SUBSET Ids
        BY <3>2 DEF TypeOK
      <4> QED BY <2>3, <3>1, <3>2, <4>1, BegunType, NoneAssumption
    <3>3. ASSUME born' = born PROVE born' \in SUBSET Ids
      BY <3>3 DEF TypeOK
    <3>5. ASSUME NEW i \in Ids, NEW row \in Account, born' = born,
                 Begins(r, Begun("update", i, row, None))
          PROVE  TypeOK'
      BY <2>3, <3>1, <3>3, <3>5, BegunType, NoneAssumption
    <3>6. ASSUME NEW i \in Ids, NEW row \in Account, NEW c \in Creds, born' = born,
                 Begins(r, Begun("rotate", i, row, c))
          PROVE  TypeOK'
      BY <2>3, <3>1, <3>3, <3>6, BegunType, NoneAssumption
    <3>7. ASSUME NEW i \in born, born' = born,
                 Begins(r, Begun("delete", i, None, None))
          PROVE  TypeOK'
      <4>1. i \in Ids
        BY DEF TypeOK
      <4> QED BY <2>3, <3>1, <3>3, <3>7, <4>1, BegunType, NoneAssumption
    <3> QED BY <2>4, <3>2, <3>5, <3>6, <3>7, AskBegins
  <2>5. ASSUME NEW r \in Requests, Write(r) PROVE TypeOK'
    <3> DEFINE i == job[r].id
               c == job[r].cred
               g == [key |-> key, cred |-> c]
    <3>1. job[r] \in Job /\ job[r].at = "write"
      BY <2>5, JobAt DEF Write, Stages
    <3>2. i \in Ids \cup {None} /\ job[r].row \in Account \cup {None} /\ job[r].op \in Ops
          /\ c \in Creds \cup {None}
      BY <3>1 DEF Job
    <3>3. accounts' \in [Ids -> Account \cup {None}]
      BY <2>5, <3>2 DEF Write, TypeOK
    <3>4. c # None => g \in Given
      BY <3>2 DEF TypeOK, Given
    <3>5. given' = IF c = None THEN given ELSE [given EXCEPT ![i] = g]
      BY <2>5 DEF Write
    <3>6. given' \in [Ids -> Given \cup {None}]
      <4> HIDE DEF g
      <4> QED BY <3>4, <3>5 DEF TypeOK
    <3>7. i \in Ids /\ done' = done \cup {<<job[r].op, i>>}
      BY <2>5, <3>1, <3>2 DEF Write, Job
    <3>8. done' \in SUBSET (Ops \X Ids) /\ lapped' \in SUBSET Ids
      BY <2>5, <3>2, <3>7 DEF Write, TypeOK
    <3>9. UNCHANGED <<key, audit, requests, restarts, born>>
      BY <2>5 DEF Write
    <3> QED BY <2>5, <3>3, <3>6, <3>8, <3>9, WriteJobs DEF TypeOK
  <2>6. ASSUME NEW r \in Requests, WriteFails(r) PROVE TypeOK'
    BY <2>2, <2>6 DEF WriteFails, TypeOK
  <2>7. ASSUME NEW r \in Requests, WriteAudit(r) PROVE TypeOK'
    <3>1. job[r] \in Job
      BY <2>7, JobAt DEF WriteAudit, Stages
    <3> QED BY <2>2, <2>7, <3>1 DEF WriteAudit, TypeOK, Job
  <2>8. ASSUME NEW k \in Keys \cup {None}, Restart(k) PROVE TypeOK'
    BY <2>8 DEF Restart, TypeOK
  <2> QED BY <2>1, <2>4, <2>5, <2>6, <2>7, <2>8 DEF Next
<1> QED BY <1>1, <1>2, PTL DEF Spec
-----------------------------------------------------------------------------
\* The inductive invariant.

\* A request that begins: what it carries is founded, and the rest is as it was.
LEMMA BeginKeeps ==
  ASSUME TypeOK, AccountInv, NEW r \in Requests, NEW j, Begins(r, j),
         born' \in {born, born \cup {j.id}}, j.at # "log",
         j.at = "write" =>
           /\ j.id \in born' /\ j.id \in Ids /\ Carries(j, key, given[j.id], j.id \in lapped)
           /\ j.op = "add" => j.id \notin born
  PROVE  AccountInv'
<1>1. /\ job'[r] = j /\ \A q \in Requests \ {r} : job'[q] = job[q]
      /\ UNCHANGED <<key, accounts, audit, done, given, lapped>>
  BY DEF Begins, TypeOK
<1>2. ASSUME NEW i \in Ids, i \notin born' PROVE Fresh(i)'
  BY <1>1, <1>2 DEF AccountInv, Fresh
<1>3. ASSUME NEW q \in Requests, Writing(q)' PROVE Founded(q)'
  <2>1. CASE q = r
    <3>1. j.op = "add" => Fresh(j.id)
      BY <1>1, <1>3, <2>1 DEF AccountInv, Writing
    <3> QED BY <1>1, <1>3, <2>1, <3>1 DEF Founded, Writing, Fresh
  <2>2. CASE q # r
    BY <1>1, <1>3, <2>2 DEF AccountInv, Founded, Writing, Fresh
  <2> QED BY <2>1, <2>2
<1>4. OneAdd'
  <2>1. ASSUME NEW q \in Requests, Writing(q), job[q].op = "add" PROVE job[q].id \in born
    BY <2>1 DEF AccountInv, Founded
  <2> QED BY <1>1, <2>1 DEF AccountInv, OneAdd, Writing
<1>5. Logged'
  BY <1>1 DEF AccountInv, Logged
<1> QED BY <1>1, <1>2, <1>3, <1>4, <1>5
        DEF AccountInv, RotationHolds, AuditTruth, GoneForGood

\* A request that ends without having written.
LEMMA EndKeeps ==
  ASSUME TypeOK, AccountInv, NEW r \in Requests, job' = [job EXCEPT ![r] = Idle],
         UNCHANGED <<key, accounts, history>>, AuditTruth'
  PROVE  AccountInv'
<1> USE DEF history
<1>1. job'[r] = Idle /\ \A q \in Requests \ {r} : job'[q] = job[q]
  BY DEF TypeOK
<1>2. Idle.at = "idle"
  BY DEF Idle
<1>3. ASSUME NEW q \in Requests, Writing(q)' PROVE Founded(q)'
  BY <1>1, <1>2, <1>3 DEF AccountInv, Founded, Writing, Fresh
<1>4. OneAdd' /\ Logged'
  BY <1>1, <1>2 DEF AccountInv, OneAdd, Logged, Writing
<1> QED BY <1>1, <1>3, <1>4 DEF AccountInv, Fresh, RotationHolds, AuditTruth, GoneForGood

\* The write: the row is stored, what was given for it and what has lapsed is
\* noted, and requests that were overtaken know it.
LEMMA WriteKeeps ==
  ASSUME TypeOK, AccountInv, NEW r \in Requests, Write(r)
  PROVE  AccountInv'
<1> DEFINE i == job[r].id
           op == job[r].op
           c == job[r].cred
<1>1. job[r] \in Job /\ job[r].at = "write" /\ Matches(job[r]) /\ Founded(r)
  BY JobAt DEF Write, Stages, AccountInv, Writing
<1>2. i \in Ids /\ i \in born /\ op \in Ops
  BY <1>1 DEF Job, Founded
<1>3. /\ accounts' = [accounts EXCEPT ![i] = job[r].row]
      /\ done' = done \cup {<<op, i>>}
      /\ given' = IF c = None THEN given ELSE [given EXCEPT ![i] = [key |-> key, cred |-> c]]
      /\ lapped' = IF c # None THEN lapped \ {i}
                   ELSE IF job[r].late THEN lapped \cup {i} ELSE lapped
      /\ UNCHANGED <<key, audit, born>>
  BY DEF Write
<1>4. /\ accounts'[i] = job[r].row /\ \A k \in Ids \ {i} : accounts'[k] = accounts[k]
      /\ \A k \in Ids \ {i} : given'[k] = given[k] /\ (k \in lapped' <=> k \in lapped)
      /\ IF c = None THEN given'[i] = given[i]
                     ELSE /\ given'[i].key = key /\ given'[i].cred = c /\ given'[i] # None
                          /\ i \notin lapped'
  <2>1. c # None => [key |-> key, cred |-> c] # None
    BY NoneAssumption, <1>1 DEF TypeOK, Job, Given
  <2> QED BY <1>2, <1>3, <2>1 DEF TypeOK
<1>5. /\ op = "delete" <=> job[r].row = None
      /\ op \in {"add", "rotate"} => c # None /\ Open(job[r].row, key) = c
      /\ op \in {"update", "delete"} => c = None
      /\ op = "update" =>
           /\ given[i] # None
           /\ job[r].late \/ i \in lapped \/ Open(job[r].row, given[i].key) = given[i].cred
      /\ op = "add" => Fresh(i)
  BY <1>1 DEF Founded, Carries
<1>6. op # "add" => accounts[i] # None
  BY <1>1 DEF Matches
<1>7. RotationHolds' /\ \A k \in Ids : accounts'[k] # None => given'[k] # None
  <2>1. ASSUME NEW k \in Ids, accounts'[k] # None
        PROVE  /\ given'[k] # None
               /\ k \notin lapped' => Open(accounts'[k], given'[k].key) = given'[k].cred
    <3>1. CASE k # i
      BY <1>4, <2>1, <3>1 DEF AccountInv, RotationHolds
    <3>2. CASE k = i /\ op \in {"add", "rotate"}
      BY <1>4, <1>5, <3>2
    <3>3. CASE k = i /\ op = "update"
      BY <1>3, <1>4, <1>5, <1>6, <3>3 DEF AccountInv
    <3>4. op # "delete" \/ k # i
      BY <1>4, <1>5, <2>1
    <3> QED BY <1>2, <3>1, <3>2, <3>3, <3>4 DEF Ops
  <2> QED BY <2>1 DEF RotationHolds
<1>8. GoneForGood'
  <2> SUFFICES ASSUME NEW k \in Ids, <<"delete", k>> \in done' PROVE accounts'[k] = None
    BY DEF GoneForGood
  <2>1. CASE <<"delete", k>> \in done
    <3>1. accounts[k] = None
      BY <2>1 DEF AccountInv, GoneForGood
    <3>2. k # i
      <4>1. CASE op = "add"
        BY <1>5, <2>1, <4>1 DEF Fresh, Ops
      <4> QED BY <1>6, <3>1, <4>1
    <3> QED BY <1>4, <3>1, <3>2
  <2>2. CASE op = "delete" /\ k = i
    BY <1>4, <1>5, <2>2
  <2> QED BY <1>3, <2>1, <2>2
<1>9. AuditTruth'
  BY <1>3 DEF AccountInv, AuditTruth
<1>10. \A k \in Ids \ {i} : Fresh(k) => Fresh(k)'
  BY <1>3, <1>4 DEF Fresh
<1>11. /\ job'[r].at = "log" /\ job'[r].op = op /\ job'[r].id = i
  BY <1>1, WriteJobs DEF Job
<1>12. \A q \in Requests \ {r} :
        /\ job'[q].at = job[q].at /\ job'[q].op = job[q].op /\ job'[q].id = job[q].id
        /\ job'[q].row = job[q].row /\ job'[q].cred = job[q].cred
        /\ job[q].late => job'[q].late
        /\ op = "rotate" /\ Writing(q) /\ job[q].id = i => job'[q].late
  <2> SUFFICES ASSUME NEW q \in Requests \ {r}
               PROVE  /\ job'[q].at = job[q].at /\ job'[q].op = job[q].op
                      /\ job'[q].id = job[q].id
                      /\ job'[q].row = job[q].row /\ job'[q].cred = job[q].cred
                      /\ job[q].late => job'[q].late
                      /\ op = "rotate" /\ Writing(q) /\ job[q].id = i => job'[q].late
    OBVIOUS
  <2>1. CASE job'[q] = job[q]
             /\ ~ (op = "rotate" /\ Writing(q) /\ job[q].id = job[r].id)
    BY <2>1
  <2>2. CASE job'[q] = [job[q] EXCEPT !.late = TRUE] /\ Writing(q)
    <3>1. job[q] \in Job
      BY <2>2, JobAt DEF Writing, Stages
    <3> QED BY <2>2, <3>1 DEF Job
  <2> QED BY <2>1, <2>2, WriteJobs
<1>13. Logged'
  BY <1>3, <1>11, <1>12 DEF AccountInv, Logged
<1>14. OneAdd'
  BY <1>11, <1>12 DEF AccountInv, OneAdd, Writing
<1>15. ASSUME NEW q \in Requests, Writing(q)' PROVE Founded(q)'
  <2>1. q # r /\ Writing(q) /\ Founded(q)
    BY <1>11, <1>12, <1>15 DEF AccountInv, Writing
  <2> DEFINE k == job[q].id
  <2>2. job[q] \in Job /\ k \in Ids
    BY <2>1, JobAt DEF Writing, Stages, Job
  <2>3. job[q].op = "add" => k # i
    <3>1. CASE op = "add"
      BY <2>1, <1>1, <3>1 DEF AccountInv, OneAdd, Writing
    <3>2. CASE op # "add"
      BY <1>6, <2>1, <3>2 DEF Founded, Fresh
    <3> QED BY <3>1, <3>2
  <2>4. Carries(job'[q], key', given'[k], k \in lapped')
    <3>1. Carries(job[q], key, given[k], k \in lapped)
      BY <2>1 DEF Founded
    <3>2. CASE k # i
      BY <1>3, <1>4, <1>12, <2>1, <2>2, <3>1, <3>2 DEF Carries
    <3>3. CASE k = i /\ op = "rotate"
      BY <1>3, <1>4, <1>5, <1>12, <2>1, <3>1, <3>3 DEF Carries
    <3>4. CASE k = i /\ op # "rotate"
      <4>1. op = "add" => job[q].op # "update"
        BY <1>5, <3>1, <3>4 DEF Carries, Fresh
      <4>2. op # "add" => c = None
        BY <1>2, <1>5, <3>4 DEF Ops
      <4>3. c = None => given'[k] = given[k] /\ (k \in lapped => k \in lapped')
        BY <1>3, <1>4, <3>4
      <4>4. /\ job'[q].op = job[q].op /\ job'[q].row = job[q].row /\ job'[q].cred = job[q].cred
            /\ job[q].late => job'[q].late
        BY <1>12, <2>1
      <4>5. key' = key
        BY <1>3
      <4> HIDE DEF k
      <4> QED BY <3>1, <4>1, <4>2, <4>3, <4>4, <4>5 DEF Carries
    <3> QED BY <3>2, <3>3, <3>4
  <2> QED BY <1>3, <1>10, <1>12, <2>1, <2>2, <2>3, <2>4 DEF Founded
<1>16. \A k \in Ids : k \notin born' => Fresh(k)'
  BY <1>2, <1>3, <1>10 DEF AccountInv
<1> HIDE DEF i, op, c
<1> QED BY <1>7, <1>8, <1>9, <1>13, <1>14, <1>15, <1>16 DEF AccountInv

LEMMA AccountStep == TypeOK /\ AccountInv /\ [Next]_vars => AccountInv'
<1> SUFFICES ASSUME TypeOK, AccountInv, [Next]_vars PROVE AccountInv'
  OBVIOUS
<1> USE DEF counters, history
<1>1. CASE UNCHANGED vars
  BY <1>1 DEF vars, AccountInv, Fresh, Writing, Founded, OneAdd, Logged, RotationHolds,
              AuditTruth, GoneForGood
<1>2. ASSUME NEW r \in Requests, Ask(r) PROVE AccountInv'
  <2> USE DEF Stages, Ops
  <2>1. ASSUME NEW i \in Ids, NEW row \in Account, NEW c \in Creds, i \notin born,
               born' = born \cup {i}, row # None, Open(row, key) = c,
               Begins(r, Begun("add", i, row, c))
        PROVE  AccountInv'
    <3> DEFINE j == Begun("add", i, row, c)
    <3>1. j.at = "write" /\ j.op = "add" /\ j.id = i /\ j.row = row /\ j.cred = c
      BY DEF Begun
    <3>2. Begins(r, j) /\ c # None
      BY <2>1, NoneAssumption
    <3> HIDE DEF j
    <3> QED BY <2>1, <3>1, <3>2, BeginKeeps DEF Carries
  <2>3. ASSUME NEW i \in Ids, accounts[i] # None PROVE i \in born /\ given[i] # None
    BY <2>3 DEF AccountInv, Fresh
  <2>4. ASSUME NEW i \in Ids, NEW row \in Account, born' = born, accounts[i] # None, row # None,
               \A k : Open(row, k) = Open(accounts[i], k),
               Begins(r, Begun("update", i, row, None))
        PROVE  AccountInv'
    <3> DEFINE j == Begun("update", i, row, None)
    <3>1. j.at = "write" /\ j.op = "update" /\ j.id = i /\ j.row = row /\ j.cred = None
      BY DEF Begun
    <3>2. Begins(r, j)
      BY <2>4
    <3>3. i \in lapped \/ Open(row, given[i].key) = given[i].cred
      BY <2>4 DEF AccountInv, RotationHolds
    <3> HIDE DEF j
    <3> QED BY <2>3, <2>4, <3>1, <3>2, <3>3, BeginKeeps DEF Carries
  <2>5. ASSUME NEW i \in Ids, NEW row \in Account, NEW c \in Creds, born' = born,
               accounts[i] # None, row # None, Open(row, key) = c,
               Begins(r, Begun("rotate", i, row, c))
        PROVE  AccountInv'
    <3> DEFINE j == Begun("rotate", i, row, c)
    <3>1. j.at = "write" /\ j.op = "rotate" /\ j.id = i /\ j.row = row /\ j.cred = c
      BY DEF Begun
    <3>2. Begins(r, j) /\ c # None
      BY <2>5, NoneAssumption
    <3> HIDE DEF j
    <3> QED BY <2>3, <2>5, <3>1, <3>2, BeginKeeps DEF Carries
  <2>6. ASSUME NEW i \in born, born' = born, Begins(r, Begun("delete", i, None, None))
        PROVE  AccountInv'
    <3> DEFINE j == Begun("delete", i, None, None)
    <3>1. j.at = "write" /\ j.op = "delete" /\ j.id = i /\ j.row = None /\ j.cred = None
      BY DEF Begun
    <3>2. Begins(r, j) /\ i \in Ids
      BY <2>6 DEF TypeOK
    <3> HIDE DEF j
    <3> QED BY <2>6, <3>1, <3>2, BeginKeeps DEF Carries
  <2> QED BY <1>2, <2>1, <2>4, <2>5, <2>6, AskBegins
<1>3. ASSUME NEW r \in Requests, WriteFails(r) PROVE AccountInv'
  <2>1. job' = [job EXCEPT ![r] = Idle] /\ UNCHANGED <<key, accounts, audit, history>>
    BY <1>3 DEF WriteFails
  <2>2. AuditTruth'
    BY <2>1 DEF AccountInv, AuditTruth
  <2> QED BY <2>1, <2>2, EndKeeps
<1>4. ASSUME NEW r \in Requests, WriteAudit(r) PROVE AccountInv'
  <2>1. /\ job' = [job EXCEPT ![r] = Idle] /\ UNCHANGED <<key, accounts, history>>
        /\ audit' \subseteq audit \cup {<<job[r].op, job[r].id>>}
    BY <1>4 DEF WriteAudit
  <2>2. <<job[r].op, job[r].id>> \in done
    BY <1>4 DEF WriteAudit, AccountInv, Logged
  <2>3. AuditTruth'
    BY <2>1, <2>2 DEF AccountInv, AuditTruth
  <2> QED BY <2>1, <2>3, EndKeeps
<1>5. ASSUME NEW k \in Keys \cup {None}, Restart(k) PROVE AccountInv'
  <2>1. (\A r \in Requests : job'[r] = Idle) /\ UNCHANGED <<accounts, audit, history>>
    BY <1>5 DEF Restart
  <2>2. Idle.at = "idle"
    BY DEF Idle
  <2> QED BY <2>1, <2>2 DEF AccountInv, Fresh, Writing, OneAdd, Logged, RotationHolds,
                            AuditTruth, GoneForGood
<1> QED BY <1>1, <1>2, <1>3, <1>4, <1>5, WriteKeeps DEF Next

LEMMA AccountsKept == Spec => []AccountInv
<1>1. Init => AccountInv
  <2>1. Idle.at = "idle"
    BY DEF Idle
  <2> QED BY <2>1 DEF Init, AccountInv, Fresh, Writing, OneAdd, Logged, RotationHolds,
                      AuditTruth, GoneForGood
<1> QED BY <1>1, AccountStep, TypeCorrect, PTL DEF Spec

\* The credential last given is there, under the key of that time, unless an edit
\* that a rotation overtook has been written since.
THEOREM RotationCorrect == Spec => []RotationHolds
<1>1. AccountInv => RotationHolds
  BY DEF AccountInv
<1> QED BY <1>1, AccountsKept, PTL

\* The log tells of nothing that did not happen.
THEOREM AuditCorrect == Spec => []AuditTruth
<1>1. AccountInv => AuditTruth
  BY DEF AccountInv
<1> QED BY <1>1, AccountsKept, PTL

\* A deleted account stays deleted, whatever was in flight.
THEOREM DeletionCorrect == Spec => []GoneForGood
<1>1. AccountInv => GoneForGood
  BY DEF AccountInv
<1> QED BY <1>1, AccountsKept, PTL
-----------------------------------------------------------------------------
\* What is stored can be built, and is no plain copy.

LEMMA SealProper ==
  ASSUME key \in Keys \cup {None}, NEW row \in Account, NEW c \in Creds, Valid(row.type, c, row.proxy)
  PROVE  Proper(Seal(row, c)) /\ (key = None \/ Seal(row, c).encrypted)
<1>1. CASE key = None
  <2> DEFINE new == [row EXCEPT !.cipher = None, !.plain = c, !.encrypted = FALSE]
  <2>1. /\ new.cipher = None /\ new.plain = c /\ new.encrypted = FALSE
        /\ new.type = row.type /\ new.proxy = row.proxy
    BY DEF Account
  <2>2. Seal(row, c) = new
    BY <1>1 DEF Seal
  <2> HIDE DEF new
  <2> QED BY <1>1, <2>1, <2>2, NoneAssumption DEF Proper, Stored
<1>2. CASE key # None
  <2> DEFINE sealed == [key |-> key, cred |-> c]
             new == [row EXCEPT !.cipher = sealed, !.plain = None, !.encrypted = TRUE]
  <2>1. sealed # None /\ sealed.cred = c
    BY <1>2, NoneAssumption DEF Given
  <2>2. Seal(row, c) = new
    BY <1>2 DEF Seal
  <2> HIDE DEF sealed
  <2>3. /\ new.cipher = sealed /\ new.plain = None /\ new.encrypted = TRUE
        /\ new.type = row.type /\ new.proxy = row.proxy
    BY DEF Account
  <2> HIDE DEF new
  <2> QED BY <2>1, <2>2, <2>3 DEF Proper, Stored
<1> QED BY <1>1, <1>2

\* An edit that names no credential keeps what is stored, and is let through only
\* if the new proxy goes with it.
LEMMA EditProper ==
  ASSUME NEW row \in Account, Proper(row), NEW n \in Names \cup {None}, NEW x \in Proxies \cup {None},
         Open(row, key) # None, Valid(row.type, Open(row, key), Edited(row, n, x).proxy)
  PROVE  Proper(Edited(row, n, x)) /\ Edited(row, n, x).encrypted = row.encrypted
<1> DEFINE name == IF n = None THEN row.name ELSE n
           proxy == IF x = None THEN row.proxy ELSE x
           new == [row EXCEPT !.name = name, !.proxy = proxy]
<1>1. new = Edited(row, n, x)
  BY DEF Edited, Account
<1>2. /\ new.cipher = row.cipher /\ new.plain = row.plain /\ new.encrypted = row.encrypted
      /\ new.type = row.type
  <2> HIDE DEF name, proxy
  <2> QED BY DEF Account
<1>3. Open(row, key) = Stored(row)
  BY DEF Open, Stored
<1> HIDE DEF new
<1> QED BY <1>1, <1>2, <1>3 DEF Proper, Stored

\* What a request sets out to write is fit to be stored.
FitsJob(j) ==
  j.at = "write" /\ j.row # None =>
    /\ Proper(j.row)
    /\ IF j.op = "update" THEN Hidden(j.row, j.id) ELSE key = None \/ j.row.encrypted

LEMMA AskSealed ==
  ASSUME TypeOK, SealedInv, NEW r \in Requests, Ask(r)
  PROVE  \E j : Begins(r, j) /\ FitsJob(j)
<1>1. ASSUME NEW n \in Names, NEW t \in Types, NEW c \in Creds, NEW x \in Proxies, NEW i \in Ids,
             Add(r, i, n, t, c, x)
      PROVE  \E j : Begins(r, j) /\ FitsJob(j)
  <2> DEFINE row == [name |-> n, type |-> t, proxy |-> x,
                     cipher |-> None, plain |-> None, encrypted |-> FALSE]
             j == Begun("add", i, Seal(row, c), c)
  <2>1. row \in Account /\ row.type = t /\ row.proxy = x
    BY DEF Account
  <2>2. Begins(r, j) /\ Valid(t, c, x)
    BY <1>1 DEF Add, Begins, Ready, Await, Admitted
  <2> HIDE DEF row
  <2>3. Proper(Seal(row, c)) /\ (key = None \/ Seal(row, c).encrypted)
    BY <2>1, <2>2, SealProper DEF TypeOK
  <2>4. j.op = "add" /\ j.row = Seal(row, c)
    BY DEF Begun
  <2> HIDE DEF j
  <2> QED BY <2>2, <2>3, <2>4 DEF FitsJob
<1>2. ASSUME NEW i \in Ids, NEW n \in Names \cup {None}, NEW x \in Proxies \cup {None},
             NEW c \in Creds, Update(r, i, n, x, c)
      PROVE  \E j : Begins(r, j) /\ FitsJob(j)
  <2> DEFINE row == Edited(accounts[i], n, x)
  <2>1. accounts[i] \in Account /\ Proper(accounts[i]) /\ Hidden(accounts[i], i)
    BY <1>2 DEF Update, TypeOK, SealedInv
  <2>2. row \in Account /\ Open(row, key) = Open(accounts[i], key)
    BY <2>1, EditedType
  <2>3. row.type = accounts[i].type
    BY <2>1 DEF Edited, Account
  <2>4. Effective(row, c) # None /\ Valid(row.type, Effective(row, c), row.proxy)
    BY <1>2 DEF Update
  <2>5. CASE c = Empty
    <3> DEFINE j == Begun("update", i, row, None)
    <3>1. Begins(r, j)
      BY <1>2, <2>5 DEF Update, Begins, Ready, Await, Columns
    <3>2. Effective(row, c) = Open(accounts[i], key)
      BY <2>2, <2>5 DEF Effective
    <3>3. Proper(row) /\ row.encrypted = accounts[i].encrypted
      BY <2>1, <2>3, <2>4, <3>2, EditProper
    <3>4. j.op = "update" /\ j.row = row /\ j.id = i
      BY DEF Begun
    <3> HIDE DEF j, row
    <3> QED BY <2>1, <3>1, <3>3, <3>4 DEF FitsJob, Hidden
  <2>6. CASE c # Empty
    <3> DEFINE j == Begun("rotate", i, Seal(row, c), c)
    <3>1. Begins(r, j)
      BY <1>2, <2>6 DEF Update, Begins, Ready, Await, Columns
    <3>2. Effective(row, c) = c
      BY <2>6 DEF Effective
    <3> HIDE DEF row
    <3>3. Proper(Seal(row, c)) /\ (key = None \/ Seal(row, c).encrypted)
      BY <2>2, <2>4, <3>2, SealProper DEF TypeOK
    <3>4. j.op = "rotate" /\ j.row = Seal(row, c)
      BY DEF Begun
    <3> HIDE DEF j
    <3> QED BY <3>1, <3>3, <3>4 DEF FitsJob
  <2> QED BY <2>5, <2>6
<1>3. ASSUME NEW i \in Ids, Delete(r, i) PROVE \E j : Begins(r, j) /\ FitsJob(j)
  <2>1. Begins(r, Begun("delete", i, None, None))
    BY <1>3 DEF Delete, Begins, Ready, Await
  <2>2. FitsJob(Begun("delete", i, None, None))
    BY DEF Begun, FitsJob
  <2> QED BY <2>1, <2>2
<1> QED BY <1>1, <1>2, <1>3 DEF Ask

LEMMA SealedStep == TypeOK /\ AccountInv /\ SealedInv /\ [Next]_vars => SealedInv'
<1> SUFFICES ASSUME TypeOK, AccountInv, SealedInv, [Next]_vars PROVE SealedInv'
  OBVIOUS
<1> USE DEF counters, history
<1>1. CASE UNCHANGED vars
  BY <1>1 DEF vars, SealedInv, Hidden, Writing
<1>2. ASSUME NEW r \in Requests, Ask(r) PROVE SealedInv'
  <2>1. PICK j : Begins(r, j) /\ FitsJob(j)
    BY <1>2, AskSealed
  <2>2. /\ job'[r] = j /\ \A q \in Requests \ {r} : job'[q] = job[q]
        /\ UNCHANGED <<key, accounts, given, lapped>>
    BY <2>1 DEF Begins, TypeOK
  <2> QED BY <2>1, <2>2 DEF SealedInv, FitsJob, Hidden, Writing
<1>3. ASSUME NEW r \in Requests, Write(r) PROVE SealedInv'
  <2> DEFINE i == job[r].id
             row == job[r].row
  <2>1. job[r] \in Job /\ job[r].at = "write" /\ Writing(r) /\ Founded(r)
    BY <1>3, JobAt DEF Write, Stages, AccountInv, Writing
  <2>2. i \in Ids /\ i \in born /\ job[r].op \in Ops
    BY <2>1 DEF Job, Founded
  <2>3. /\ accounts'[i] = row /\ \A k \in Ids \ {i} : accounts'[k] = accounts[k]
        /\ \A k \in Ids \ {i} : given'[k] = given[k] /\ (k \in lapped' <=> k \in lapped)
        /\ IF job[r].cred = None
           THEN given'[i] = given[i] /\ (i \in lapped' <=> i \in lapped \/ job[r].late)
           ELSE given'[i].key = key /\ i \notin lapped'
        /\ key' = key
    BY <1>3, <2>2 DEF Write, TypeOK
  <2>4. /\ job[r].op \in {"add", "rotate"} => job[r].cred # None
        /\ job[r].op \in {"update", "delete"} => job[r].cred = None
        /\ job[r].op = "delete" <=> row = None
    BY <2>1 DEF Founded, Carries
  <2>5. row # None => Proper(row) /\ (i \in lapped' \/ given'[i].key = None \/ row.encrypted)
    BY <2>1, <2>2, <2>3, <2>4 DEF SealedInv, Hidden, Ops
  <2>6. \A k \in Ids : accounts'[k] # None => Proper(accounts'[k]) /\ Hidden(accounts[k], k)'
    BY <2>2, <2>3, <2>5 DEF SealedInv, Hidden
  <2>7. ASSUME NEW q \in Requests, Writing(q)', job'[q].row # None
        PROVE  /\ Proper(job'[q].row)
               /\ IF job'[q].op = "update" THEN job'[q].late \/ Hidden(job[q].row, job[q].id)'
                  ELSE key = None \/ job'[q].row.encrypted
    <3>1. q # r
      BY <2>1, <2>7, <1>3, WriteJobs DEF Writing, Job
    <3>2. /\ Writing(q) /\ job'[q].row = job[q].row /\ job'[q].op = job[q].op /\ job'[q].id = job[q].id
          /\ job[q].late => job'[q].late
          /\ job[r].op = "rotate" /\ job[q].id = i => job'[q].late
      <4>1. CASE job'[q] = job[q] /\ ~ (job[r].op = "rotate" /\ Writing(q) /\ job[q].id = i)
        BY <2>7, <4>1 DEF Writing
      <4>2. CASE job'[q] = [job[q] EXCEPT !.late = TRUE] /\ Writing(q)
        <5>1. job[q] \in Job
          BY <4>2, JobAt DEF Writing, Stages
        <5> QED BY <4>2, <5>1 DEF Job
      <4> QED BY <4>1, <4>2, <3>1, <1>3, WriteJobs
    <3>3. /\ Proper(job[q].row)
          /\ IF job[q].op = "update" THEN job[q].late \/ Hidden(job[q].row, job[q].id)
             ELSE key = None \/ job[q].row.encrypted
      BY <3>2, <2>7 DEF SealedInv
    <3>4. job[q].id \in Ids
      <4>1. job[q] \in Job
        BY <3>2, JobAt DEF Writing, Stages
      <4> QED BY <4>1 DEF Job
    <3>5. ASSUME job[q].op = "update", ~job'[q].late, Hidden(job[q].row, job[q].id)
          PROVE  Hidden(job[q].row, job[q].id)'
      \* What is given for the account changes with a rotation, which is noticed, or
      \* with the account's creation, before which there is no edit.
      <4>1. CASE job[q].id # i
        BY <4>1, <3>2, <3>4, <3>5, <2>3 DEF Hidden
      <4>2. CASE job[q].id = i
        <5>1. given[i] # None
          BY <3>2, <3>5, <4>2 DEF AccountInv, Founded, Carries
        <5>2. job[r].op # "add"
          BY <2>1, <5>1 DEF Founded, Fresh
        <5> QED BY <5>2, <4>2, <3>2, <3>5, <2>2, <2>3, <2>4 DEF Hidden, Ops
      <4> QED BY <4>1, <4>2
    <3> QED BY <3>2, <3>3, <3>5
  <2> QED BY <2>3, <2>6, <2>7 DEF SealedInv
<1>4. ASSUME NEW r \in Requests, WriteFails(r) \/ WriteAudit(r) PROVE SealedInv'
  <2>1. job' = [job EXCEPT ![r] = Idle] /\ UNCHANGED <<key, accounts, history>>
    BY <1>4 DEF WriteFails, WriteAudit
  <2>2. job'[r] = Idle /\ Idle.at = "idle" /\ \A q \in Requests \ {r} : job'[q] = job[q]
    BY <2>1 DEF Idle, TypeOK
  <2> QED BY <2>1, <2>2 DEF SealedInv, Hidden, Writing
<1>5. ASSUME NEW k \in Keys \cup {None}, Restart(k) PROVE SealedInv'
  <2>1. (\A r \in Requests : job'[r] = Idle) /\ UNCHANGED <<accounts, history>>
    BY <1>5 DEF Restart
  <2>2. Idle.at = "idle"
    BY DEF Idle
  <2> QED BY <2>1, <2>2 DEF SealedInv, Hidden, Writing
<1> QED BY <1>1, <1>2, <1>3, <1>4, <1>5 DEF Next

LEMMA SealedKept == Spec => []SealedInv
<1>1. Init => SealedInv
  <2>1. Idle.at = "idle"
    BY DEF Idle
  <2> QED BY <2>1 DEF Init, SealedInv, Writing
<1> QED BY <1>1, SealedStep, TypeCorrect, AccountsKept, PTL DEF Spec

\* No credential lies in the clear beside its cipher, nor one given under a key:
\* ProviderAccounts!NoPlainCopy.
THEOREM NoPlainCopyCorrect == Spec => []NoPlainCopy
<1>1. SealedInv => NoPlainCopy
  BY DEF SealedInv, NoPlainCopy, Proper, Hidden
<1> QED BY <1>1, SealedKept, PTL

\* Whatever edits race, a stored account can be built by whoever has its key:
\* ProviderAccounts!Buildable.
THEOREM BuildableCorrect == Spec => []Buildable
<1>1. SealedInv => Buildable
  BY DEF SealedInv, Buildable, Proper
<1> QED BY <1>1, SealedKept, PTL
=============================================================================
