----------------------------- MODULE JobProofs -----------------------------
(***************************************************************************)
(* The job table shared by any number of clients, with any number of calls *)
(* and any interleaving of their statements (infrastructure/repositories.py*)
(* and db.py): the invariant IInv of JobProperties is inductive, records   *)
(* are kept, and the table implements the in-memory repository.            *)
(***************************************************************************)
EXTENDS JobProperties, TLAPS

(* What a request carries.                                                 *)
LEMMA RequestTypes ==
    ASSUME NEW q \in Requests
    PROVE  /\ q # None
           /\ q.op = "create" => q \in Creates /\ q.key \in Keys /\ q.payload \in Payloads
           /\ q.op = "update" => q \in Updates /\ q.id \in JobIds
           /\ q.op \in {"create", "update"}
BY RequestAssumption, FreshAssumption DEF Creates, Updates

LEMMA NewJobType ==
    ASSUME NEW k \in Keys, NEW p \in Payloads
    PROVE  NewJob(k, p) \in JobRecord /\ NewJob(k, p).key = k
BY DEF NewJob, JobRecord, JobStatus

(* An update keeps the key and the payload of a job, and what was recorded.*)
LEMMA UpdatedType ==
    ASSUME NEW j \in JobRecord, NEW u \in Updates
    PROVE  Updated(j, u) \in JobRecord /\ Kept(j, Updated(j, u))
<1>1. /\ u.status \in JobStatus
      /\ u.result \in Results \cup {None} /\ u.error \in Errors \cup {None}
      /\ j.result \in Results \cup {None} /\ j.error \in Errors \cup {None}
      /\ j.key \in Keys /\ j.payload \in Payloads
  BY DEF Updates, JobRecord
<1> DEFINE new == Updated(j, u)
<1>2. /\ new \in JobRecord /\ new.key = j.key /\ new.payload = j.payload
      /\ new.result = Coalesce(u.result, j.result)
      /\ new.error = Coalesce(u.error, j.error)
  BY <1>1 DEF Updated, JobRecord, Coalesce
<1> QED
  BY <1>1, <1>2 DEF Kept, Coalesce

-----------------------------------------------------------------------------
(* The invariant holds at first and is kept by every step.                 *)

LEMMA InitIInv == Init => IInv
<1> SUFFICES ASSUME Init PROVE IInv
  OBVIOUS
<1>1. TypeOK
  BY DEF Init, TypeOK
<1>2. LockOwner /\ IdleHasNoCall /\ OneJobPerKey /\ UpdateFindsRow
  BY FreshAssumption DEF Init, LockOwner, IdleHasNoCall, OneJobPerKey, UpdateFindsRow
<1>3. PendingIsNext /\ CreatedOnce
  BY DEF Init, PendingIsNext, CreatedOnce, Given
<1> QED
  BY <1>1, <1>2, <1>3 DEF IInv

LEMMA BeginKeepsIInv ==
    ASSUME IInv, NEW c \in Clients, NEW op \in Requests, Begin(c, op)
    PROVE  IInv'
<1>1. TypeOK'
  BY RequestTypes, FreshAssumption DEF IInv, TypeOK, Begin
<1>2. LockOwner'
  BY RequestTypes, FreshAssumption DEF IInv, LockOwner, IdleHasNoCall, TypeOK, Begin
<1>3. IdleHasNoCall'
  BY RequestTypes, FreshAssumption DEF IInv, IdleHasNoCall, LockOwner, TypeOK, Begin
<1>4. OneJobPerKey'
  BY RequestTypes, FreshAssumption DEF IInv, OneJobPerKey, TypeOK, Begin
<1>5. PendingIsNext'
  BY RequestTypes, FreshAssumption DEF IInv, PendingIsNext, LockOwner, JobsOf, TypeOK, Begin
<1>6. UpdateFindsRow'
  BY RequestTypes, FreshAssumption DEF IInv, UpdateFindsRow, TypeOK, Begin
<1>7. CreatedOnce'
  BY RequestTypes, FreshAssumption DEF IInv, CreatedOnce, Given, OneJobPerKey, JobsOf, TypeOK, Begin
<1> QED
  BY <1>1, <1>2, <1>3, <1>4, <1>5, <1>6, <1>7 DEF IInv

LEMMA SelectOfCreateKeepsIInv ==
    ASSUME IInv, NEW c \in Clients, SelectOfCreate(c)
    PROVE  IInv'
<1>1. TypeOK'
  BY RequestTypes, FreshAssumption DEF IInv, TypeOK, SelectOfCreate, Return, GoTo
<1>2. LockOwner'
  BY RequestTypes, FreshAssumption DEF IInv, LockOwner, IdleHasNoCall, TypeOK, SelectOfCreate, Return, GoTo
<1>3. IdleHasNoCall'
  BY RequestTypes, FreshAssumption DEF IInv, IdleHasNoCall, LockOwner, TypeOK, SelectOfCreate, Return, GoTo
<1>4. OneJobPerKey'
  BY RequestTypes, FreshAssumption DEF IInv, OneJobPerKey, TypeOK, SelectOfCreate, Return, GoTo
<1>5. PendingIsNext'
  BY RequestTypes, FreshAssumption DEF IInv, PendingIsNext, LockOwner, JobsOf, TypeOK, SelectOfCreate, Return, GoTo
<1>6. UpdateFindsRow'
  BY RequestTypes, FreshAssumption DEF IInv, UpdateFindsRow, TypeOK, SelectOfCreate, Return, GoTo
<1>7. CreatedOnce'
  BY RequestTypes, FreshAssumption DEF IInv, CreatedOnce, Given, OneJobPerKey, JobsOf, TypeOK, SelectOfCreate, Return, GoTo
<1> QED
  BY <1>1, <1>2, <1>3, <1>4, <1>5, <1>6, <1>7 DEF IInv

LEMMA SelectOfUpdateKeepsIInv ==
    ASSUME IInv, NEW c \in Clients, SelectOfUpdate(c)
    PROVE  IInv'
<1>1. TypeOK'
  BY RequestTypes, FreshAssumption DEF IInv, TypeOK, SelectOfUpdate, Return, GoTo
<1>2. LockOwner'
  BY RequestTypes, FreshAssumption DEF IInv, LockOwner, IdleHasNoCall, TypeOK, SelectOfUpdate, Return, GoTo
<1>3. IdleHasNoCall'
  BY RequestTypes, FreshAssumption DEF IInv, IdleHasNoCall, LockOwner, TypeOK, SelectOfUpdate, Return, GoTo
<1>4. OneJobPerKey'
  BY RequestTypes, FreshAssumption DEF IInv, OneJobPerKey, TypeOK, SelectOfUpdate, Return, GoTo
<1>5. PendingIsNext'
  BY RequestTypes, FreshAssumption DEF IInv, PendingIsNext, LockOwner, JobsOf, TypeOK, SelectOfUpdate, Return, GoTo
<1>6. UpdateFindsRow'
  BY RequestTypes, FreshAssumption DEF IInv, UpdateFindsRow, TypeOK, SelectOfUpdate, Return, GoTo
<1>7. CreatedOnce'
  BY RequestTypes, FreshAssumption DEF IInv, CreatedOnce, Given, OneJobPerKey, JobsOf, TypeOK, SelectOfUpdate, Return, GoTo
<1> QED
  BY <1>1, <1>2, <1>3, <1>4, <1>5, <1>6, <1>7 DEF IInv

LEMMA InsertKeepsIInv ==
    ASSUME IInv, NEW c \in Clients, Insert(c)
    PROVE  IInv'
<1> DEFINE q == call[c]
<1>a. /\ q \in Creates /\ q \in Requests /\ q.key \in Keys /\ q.payload \in Payloads
      /\ step[c] = "write"
  BY RequestTypes DEF IInv, TypeOK, Insert
<1>b. ASSUME KeyIsFree(q.key) PROVE TypeOK' /\ PendingIsNext'
  <2>1. PICK id \in JobIds \ DOMAIN jobs : pending' = [id |-> id, row |-> NewJob(q.key, q.payload)]
    BY <1>b DEF Insert
  <2>2. /\ lock' = c /\ step' = [step EXCEPT ![c] = "commit"]
        /\ UNCHANGED <<call, seen, jobs, calls>>
    BY <1>b DEF Insert, GoTo
  <2>3. NewJob(q.key, q.payload) \in JobRecord
    BY <1>a, NewJobType
  <2>4. TypeOK'
    BY <2>1, <2>2, <2>3 DEF IInv, TypeOK
  <2>5. PendingIsNext'
    <3> SUFFICES ASSUME NEW d \in Clients, step'[d] = "commit"
                 PROVE  d = c /\ pending' # None /\ pending'.id \notin DOMAIN jobs
                        /\ pending'.row = NewJob(q.key, q.payload)
      BY <1>a, <1>b, <2>2 DEF PendingIsNext, KeyIsFree, JobsOf, Creates
    <3> QED
      BY <2>1, <2>2, <2>3, FreshAssumption DEF IInv, TypeOK, LockOwner, Insert
  <2> QED
    BY <2>4, <2>5
<1>c. ASSUME ~ KeyIsFree(q.key) PROVE TypeOK' /\ PendingIsNext'
  <2>1. /\ call' = [call EXCEPT ![c] = None] /\ step' = [step EXCEPT ![c] = "idle"]
        /\ seen' = [seen EXCEPT ![c] = [op |-> call[c], id |-> None]]
        /\ UNCHANGED <<jobs, lock, pending, calls>>
    BY <1>c DEF Insert, Return
  <2>2. TypeOK'
    BY <2>1 DEF IInv, TypeOK
  <2>3. PendingIsNext'
    BY <2>1 DEF IInv, TypeOK, PendingIsNext, JobsOf
  <2> QED
    BY <2>2, <2>3
<1>1. TypeOK'
  BY <1>b, <1>c
<1>2. LockOwner'
  BY RequestTypes, FreshAssumption DEF IInv, LockOwner, IdleHasNoCall, TypeOK, Insert, Return, GoTo
<1>3. IdleHasNoCall'
  BY RequestTypes, FreshAssumption DEF IInv, IdleHasNoCall, LockOwner, TypeOK, Insert, Return, GoTo
<1>4. OneJobPerKey'
  BY RequestTypes, FreshAssumption DEF IInv, OneJobPerKey, TypeOK, Insert, Return, GoTo
<1>5. PendingIsNext'
  BY <1>b, <1>c
<1>6. UpdateFindsRow'
  BY RequestTypes, FreshAssumption DEF IInv, UpdateFindsRow, TypeOK, Insert, Return, GoTo
<1>7. CreatedOnce'
  BY RequestTypes, FreshAssumption DEF IInv, CreatedOnce, Given, OneJobPerKey, JobsOf, TypeOK, Insert, Return, GoTo
<1> QED
  BY <1>1, <1>2, <1>3, <1>4, <1>5, <1>6, <1>7 DEF IInv

LEMMA UpdateKeepsIInv ==
    ASSUME IInv, NEW c \in Clients, Update(c)
    PROVE  IInv'
<1> DEFINE q == call[c]
<1>a. /\ q \in Updates /\ q \in Requests /\ q.id \in JobIds /\ q.id \in DOMAIN jobs
      /\ jobs[q.id] \in JobRecord /\ q.op = "update"
  BY RequestTypes DEF IInv, TypeOK, UpdateFindsRow, Update
<1>b. Updated(jobs[q.id], q) \in JobRecord
  BY <1>a, UpdatedType
<1>1. TypeOK'
  BY <1>a, <1>b DEF IInv, TypeOK, Update, GoTo
<1>2. LockOwner'
  BY RequestTypes, FreshAssumption DEF IInv, LockOwner, IdleHasNoCall, TypeOK, Update, Return, GoTo
<1>3. IdleHasNoCall'
  BY RequestTypes, FreshAssumption DEF IInv, IdleHasNoCall, LockOwner, TypeOK, Update, Return, GoTo
<1>4. OneJobPerKey'
  BY RequestTypes, FreshAssumption DEF IInv, OneJobPerKey, TypeOK, Update, Return, GoTo
<1>5. PendingIsNext'
  <2>1. /\ pending' = [id |-> q.id, row |-> Updated(jobs[q.id], q)]
        /\ step' = [step EXCEPT ![c] = "commit"] /\ lock = None
        /\ UNCHANGED <<jobs, call>>
    BY DEF Update, GoTo
  <2> SUFFICES ASSUME NEW d \in Clients, step'[d] = "commit"
               PROVE  d = c /\ pending' # None
    BY <1>a, <2>1 DEF PendingIsNext
  <2> QED
    BY <1>a, <1>b, <2>1, FreshAssumption DEF IInv, TypeOK, LockOwner
<1>6. UpdateFindsRow'
  BY RequestTypes, FreshAssumption DEF IInv, UpdateFindsRow, TypeOK, Update, Return, GoTo
<1>7. CreatedOnce'
  BY RequestTypes, FreshAssumption DEF IInv, CreatedOnce, Given, OneJobPerKey, JobsOf, TypeOK, Update, Return, GoTo
<1> QED
  BY <1>1, <1>2, <1>3, <1>4, <1>5, <1>6, <1>7 DEF IInv

LEMMA LockedKeepsIInv ==
    ASSUME IInv, NEW c \in Clients, Locked(c)
    PROVE  IInv'
<1>1. TypeOK'
  BY RequestTypes, FreshAssumption DEF IInv, TypeOK, Locked, Return
<1>2. LockOwner'
  BY RequestTypes, FreshAssumption DEF IInv, LockOwner, IdleHasNoCall, TypeOK, Locked, Return
<1>3. IdleHasNoCall'
  BY RequestTypes, FreshAssumption DEF IInv, IdleHasNoCall, LockOwner, TypeOK, Locked, Return
<1>4. OneJobPerKey'
  BY RequestTypes, FreshAssumption DEF IInv, OneJobPerKey, TypeOK, Locked, Return
<1>5. PendingIsNext'
  BY RequestTypes, FreshAssumption DEF IInv, PendingIsNext, LockOwner, JobsOf, TypeOK, Locked, Return
<1>6. UpdateFindsRow'
  BY RequestTypes, FreshAssumption DEF IInv, UpdateFindsRow, TypeOK, Locked, Return
<1>7. CreatedOnce'
  BY RequestTypes, FreshAssumption DEF IInv, CreatedOnce, Given, OneJobPerKey, JobsOf, TypeOK, Locked, Return
<1> QED
  BY <1>1, <1>2, <1>3, <1>4, <1>5, <1>6, <1>7 DEF IInv

LEMMA CommitKeepsIInv ==
    ASSUME IInv, NEW c \in Clients, Commit(c)
    PROVE  IInv'
<1> DEFINE q == call[c]
<1>a. /\ q \in Requests /\ step[c] = "commit" /\ q.op \in {"create", "update"}
      /\ pending \in [id : JobIds, row : JobRecord]
  BY RequestTypes DEF IInv, TypeOK, IdleHasNoCall, PendingIsNext, Commit
<1>b. q.op = "create" => /\ pending.id \notin DOMAIN jobs /\ JobsOf(q.key) = {}
                         /\ pending.row.key = q.key
  BY <1>a, RequestTypes, NewJobType DEF IInv, PendingIsNext
<1>c. q.op = "update" => /\ pending.id \in DOMAIN jobs
                         /\ pending.row.key = jobs[pending.id].key
  BY <1>a, RequestTypes, UpdatedType DEF IInv, TypeOK, PendingIsNext, Kept
<1>d. /\ DOMAIN jobs' = DOMAIN jobs \cup {pending.id} /\ jobs'[pending.id] = pending.row
      /\ \A id \in DOMAIN jobs : jobs'[id].key = jobs[id].key
      /\ \A id \in DOMAIN jobs : id # pending.id => jobs'[id] = jobs[id]
  BY <1>a, <1>b, <1>c DEF Commit
<1>1. TypeOK'
  BY <1>a, <1>d DEF IInv, TypeOK, Commit, Return
<1>2. LockOwner'
  BY RequestTypes, FreshAssumption DEF IInv, LockOwner, IdleHasNoCall, TypeOK, Commit, Return
<1>3. IdleHasNoCall'
  BY RequestTypes, FreshAssumption DEF IInv, IdleHasNoCall, LockOwner, TypeOK, Commit, Return
<1>4. OneJobPerKey'
  <2> SUFFICES ASSUME NEW i \in DOMAIN jobs', NEW j \in DOMAIN jobs', jobs'[i].key = jobs'[j].key
               PROVE  i = j
    BY DEF OneJobPerKey
  <2>1. CASE q.op = "create"
    BY <1>b, <1>d, <2>1 DEF IInv, OneJobPerKey, JobsOf
  <2>2. CASE q.op = "update"
    BY <1>c, <1>d, <2>2 DEF IInv, OneJobPerKey
  <2> QED
    BY <1>a, <2>1, <2>2
<1>5. PendingIsNext'
  BY RequestTypes, FreshAssumption DEF IInv, PendingIsNext, LockOwner, JobsOf, TypeOK, Commit, Return
<1>6. UpdateFindsRow'
  BY RequestTypes, FreshAssumption DEF IInv, UpdateFindsRow, TypeOK, Commit, Return
<1>7. CreatedOnce'
  <2>1. seen' = [seen EXCEPT ![c] = [op |-> q, id |-> pending.id]]
    BY DEF Commit, Return
  <2>2. ASSUME NEW d \in Clients, d # c, Given(d)'
        PROVE  /\ Given(d) /\ seen'[d] = seen[d]
               /\ seen[d].id \in DOMAIN jobs' /\ jobs'[seen[d].id].key = seen[d].op.key
    BY <1>d, <2>1, <2>2 DEF IInv, TypeOK, CreatedOnce, Given
  <2>3. Given(c)' => /\ q.op = "create" /\ seen'[c].id = pending.id /\ seen'[c].op = q
                     /\ jobs'[pending.id].key = q.key
    BY <1>b, <1>d, <2>1 DEF IInv, TypeOK, Given
  <2>4. \A d \in Clients : Given(d)' =>
            seen'[d].id \in DOMAIN jobs' /\ jobs'[seen'[d].id].key = seen'[d].op.key
    BY <1>d, <2>2, <2>3
  <2>5. OneJobPerKey'
    BY <1>4
  <2> QED
    BY <2>4, <2>5 DEF CreatedOnce, OneJobPerKey, Given
<1> QED
  BY <1>1, <1>2, <1>3, <1>4, <1>5, <1>6, <1>7 DEF IInv

LEMMA StopKeepsIInv ==
    ASSUME IInv, NEW c \in Clients, Stop(c)
    PROVE  IInv'
<1>1. TypeOK'
  BY RequestTypes, FreshAssumption DEF IInv, TypeOK, Stop, Released
<1>2. LockOwner'
  BY RequestTypes, FreshAssumption DEF IInv, LockOwner, IdleHasNoCall, TypeOK, Stop, Released
<1>3. IdleHasNoCall'
  BY RequestTypes, FreshAssumption DEF IInv, IdleHasNoCall, LockOwner, TypeOK, Stop, Released
<1>4. OneJobPerKey'
  BY RequestTypes, FreshAssumption DEF IInv, OneJobPerKey, TypeOK, Stop, Released
<1>5. PendingIsNext'
  BY RequestTypes, FreshAssumption DEF IInv, PendingIsNext, LockOwner, JobsOf, TypeOK, Stop, Released
<1>6. UpdateFindsRow'
  BY RequestTypes, FreshAssumption DEF IInv, UpdateFindsRow, TypeOK, Stop, Released
<1>7. CreatedOnce'
  BY RequestTypes, FreshAssumption DEF IInv, CreatedOnce, Given, OneJobPerKey, JobsOf, TypeOK, Stop, Released
<1> QED
  BY <1>1, <1>2, <1>3, <1>4, <1>5, <1>6, <1>7 DEF IInv

-----------------------------------------------------------------------------
(* The theorems.                                                           *)

LEMMA NextKeepsIInv == IInv /\ [Next]_vars => IInv'
<1> SUFFICES ASSUME IInv, [Next]_vars PROVE IInv'
  OBVIOUS
<1>1. CASE UNCHANGED vars
  BY <1>1 DEF IInv, vars, TypeOK, LockOwner, IdleHasNoCall, OneJobPerKey, PendingIsNext,
              UpdateFindsRow, CreatedOnce, Given, JobsOf
<1>2. ASSUME NEW c \in Clients, NEW op \in Requests, Begin(c, op) PROVE IInv'
  BY <1>2, BeginKeepsIInv
<1>3. ASSUME NEW c \in Clients, Statement(c) PROVE IInv'
  BY <1>3, SelectOfCreateKeepsIInv, SelectOfUpdateKeepsIInv, InsertKeepsIInv,
     UpdateKeepsIInv, LockedKeepsIInv, CommitKeepsIInv DEF Statement
<1>4. ASSUME NEW c \in Clients, Stop(c) PROVE IInv'
  BY <1>4, StopKeepsIInv
<1> QED
  BY <1>1, <1>2, <1>3, <1>4 DEF Next

(* For any clients, calls and interleaving of their statements, also when  *)
(* processes stop in the middle, the invariant IInv always holds.          *)
(* (repositories.py, db.py)                                                *)
THEOREM Invariance == Spec => []IInv
<1>1. Init => IInv
  BY InitIInv
<1>2. IInv /\ [Next]_vars => IInv'
  BY NextKeepsIInv
<1> QED
  BY <1>1, <1>2, PTL DEF Spec

(* Every variable always has its type.                                     *)
THEOREM TypeCorrect == Spec => []TypeOK
<1>1. IInv => TypeOK
  BY DEF IInv
<1> QED
  BY <1>1, Invariance, PTL

(* Whoever was given a job for a key was given the one job of that key     *)
(* that is in the table.  (repositories.py: create_once)                   *)
THEOREM GivenTheSameJob == Spec => []CreatedOnce
<1>1. IInv => CreatedOnce
  BY DEF IInv
<1> QED
  BY <1>1, Invariance, PTL

(* What the call of a client commits: the row of a job that was not there, *)
(* or the update of one that was, of the version it read.                  *)
LEMMA CommitOfCall ==
    ASSUME IInv, NEW c \in Clients, Commit(c)
    PROVE  \/ /\ call[c] \in Creates /\ pending.id \in JobIds \ DOMAIN jobs
              /\ JobsOf(call[c].key) = {}
              /\ pending.row = NewJob(call[c].key, call[c].payload)
           \/ /\ call[c] \in Updates /\ pending.id = call[c].id
              /\ pending.id \in DOMAIN jobs /\ jobs[pending.id] \in JobRecord
              /\ pending.row = Updated(jobs[pending.id], call[c])
<1>1. /\ call[c] \in Requests /\ step[c] = "commit"
      /\ pending \in [id : JobIds, row : JobRecord]
  BY DEF IInv, TypeOK, IdleHasNoCall, PendingIsNext, Commit
<1>2. CASE call[c].op = "create"
  BY <1>1, <1>2, RequestTypes DEF IInv, PendingIsNext
<1>3. CASE call[c].op = "update"
  BY <1>1, <1>3, RequestTypes DEF IInv, TypeOK, PendingIsNext
<1> QED
  BY <1>1, <1>2, <1>3, RequestTypes

(* Every other step leaves the table alone.                                *)
LEMMA OnlyCommitWrites ==
    ASSUME [Next]_vars
    PROVE  UNCHANGED jobs \/ \E c \in Clients : Commit(c)
BY DEF Next, vars, Begin, Statement, SelectOfCreate, SelectOfUpdate, Insert, Update,
       Locked, Stop

(* No step loses a job, its key, its payload, or a result or an error that *)
(* was recorded.  (repositories.py: update_status)                         *)
THEOREM RecordsKept == Spec => RecordsAreKept
<1> DEFINE Step == \A id \in DOMAIN jobs : id \in DOMAIN jobs' /\ Kept(jobs[id], jobs'[id])
<1>1. IInv /\ [Next]_vars => Step
  <2> SUFFICES ASSUME IInv, [Next]_vars, NEW id \in DOMAIN jobs
               PROVE  id \in DOMAIN jobs' /\ Kept(jobs[id], jobs'[id])
    OBVIOUS
  <2>1. CASE UNCHANGED jobs
    BY <2>1 DEF Kept
  <2>2. ASSUME NEW c \in Clients, Commit(c)
        PROVE  id \in DOMAIN jobs' /\ Kept(jobs[id], jobs'[id])
    <3>1. jobs' = [i \in DOMAIN jobs \cup {pending.id} |->
                      IF i = pending.id THEN pending.row ELSE jobs[i]]
      BY <2>2 DEF Commit
    <3>2. CASE id # pending.id
      BY <3>1, <3>2 DEF Kept
    <3>3. CASE id = pending.id
      BY <2>2, <3>1, <3>3, CommitOfCall, UpdatedType
    <3> QED
      BY <3>2, <3>3
  <2> QED
    BY <2>1, <2>2, OnlyCommitWrites
<1>2. IInv /\ [Next]_vars => [Step]_vars
  BY <1>1
<1> QED
  BY <1>2, Invariance, PTL DEF Spec, RecordsAreKept

-----------------------------------------------------------------------------
(* The table implements the in-memory repository.                          *)

(* The index of the table: defined at the keys of its jobs, and at the key *)
(* of a job it is that job.                                                *)
LEMMA IndexFindsJob ==
    ASSUME OneJobPerKey
    PROVE  /\ DOMAIN IndexOfTable = {jobs[id].key : id \in DOMAIN jobs}
           /\ \A id \in DOMAIN jobs : IndexOfTable[jobs[id].key] = id
<1> SUFFICES ASSUME NEW id \in DOMAIN jobs PROVE IndexOfTable[jobs[id].key] = id
  BY DEF IndexOfTable
<1> DEFINE found == CHOOSE i \in DOMAIN jobs : jobs[i].key = jobs[id].key
<1>1. found \in DOMAIN jobs /\ jobs[found].key = jobs[id].key
  OBVIOUS
<1>2. found = id
  BY <1>1 DEF OneJobPerKey
<1> QED
  BY <1>2 DEF IndexOfTable

(* The same of the next state.                                             *)
LEMMA IndexFindsJobNext ==
    ASSUME OneJobPerKey'
    PROVE  /\ DOMAIN IndexOfTable' = {jobs'[id].key : id \in DOMAIN jobs'}
           /\ \A id \in DOMAIN jobs' : IndexOfTable'[jobs'[id].key] = id
<1> SUFFICES ASSUME NEW id \in DOMAIN jobs' PROVE IndexOfTable'[jobs'[id].key] = id
  BY DEF IndexOfTable
<1> DEFINE found == CHOOSE i \in DOMAIN jobs' : jobs'[i].key = jobs'[id].key
<1>1. found \in DOMAIN jobs' /\ jobs'[found].key = jobs'[id].key
  OBVIOUS
<1>2. found = id
  BY <1>1 DEF OneJobPerKey
<1> QED
  BY <1>2 DEF IndexOfTable

LEMMA InitIsLedgerInit == Init => Ledger!Init
BY DEF Init, IndexOfTable, Ledger!Init, Ledger!Empty

(* The commit of a creation is Create of the repository.                   *)
LEMMA CommitIsCreate ==
    ASSUME IInv, IInv', NEW c \in Clients, Commit(c), call[c] \in Creates,
           pending.id \in JobIds \ DOMAIN jobs, JobsOf(call[c].key) = {},
           pending.row = NewJob(call[c].key, call[c].payload)
    PROVE  Ledger!Create(pending.id, call[c].key, call[c].payload)
<1> DEFINE id == pending.id
           key == call[c].key
           payload == call[c].payload
<1>1. /\ jobs' = [i \in DOMAIN jobs \cup {id} |->
                      IF i = id THEN NewJob(key, payload) ELSE jobs[i]]
      /\ NewJob(key, payload).key = key
  BY DEF Commit, NewJob
<1>2. /\ OneJobPerKey /\ OneJobPerKey'
      /\ key \notin {jobs[i].key : i \in DOMAIN jobs}
  BY DEF IInv, JobsOf
<1>3. /\ DOMAIN IndexOfTable = {jobs[i].key : i \in DOMAIN jobs}
      /\ \A i \in DOMAIN jobs : IndexOfTable[jobs[i].key] = i
      /\ DOMAIN IndexOfTable' = {jobs'[i].key : i \in DOMAIN jobs'}
      /\ \A i \in DOMAIN jobs' : IndexOfTable'[jobs'[i].key] = i
  BY <1>2, IndexFindsJob, IndexFindsJobNext
<1>4. DOMAIN IndexOfTable' = DOMAIN IndexOfTable \cup {key}
  <2>1. /\ DOMAIN jobs' = DOMAIN jobs \cup {id} /\ jobs'[id].key = key
        /\ \A i \in DOMAIN jobs : jobs'[i].key = jobs[i].key
    BY <1>1
  <2> HIDE DEF id, key
  <2>2. {jobs'[i].key : i \in DOMAIN jobs'} = {jobs[i].key : i \in DOMAIN jobs} \cup {key}
    BY <2>1
  <2> QED
    BY <1>3, <2>2
<1>5. ASSUME NEW k \in DOMAIN IndexOfTable \cup {key}
      PROVE  IndexOfTable'[k] = IF k = key THEN id ELSE IndexOfTable[k]
  <2>1. CASE k = key
    BY <1>1, <1>3, <2>1
  <2>2. CASE k # key
    <3>1. PICK i \in DOMAIN jobs : k = jobs[i].key
      BY <1>3, <2>2
    <3>2. IndexOfTable[k] = i /\ jobs'[i] = jobs[i] /\ i \in DOMAIN jobs'
      BY <1>1, <1>3, <3>1
    <3> QED
      BY <1>3, <2>2, <3>1, <3>2
  <2> QED
    BY <2>1, <2>2
<1>6. IndexOfTable' = [k \in DOMAIN IndexOfTable \cup {key} |->
                          IF k = key THEN id ELSE IndexOfTable[k]]
  <2>1. IndexOfTable' = [k \in DOMAIN IndexOfTable' |-> IndexOfTable'[k]]
    BY DEF IndexOfTable
  <2> HIDE DEF id, key
  <2> QED
    BY <1>4, <1>5, <2>1
<1>7. jobs' = [i \in DOMAIN jobs \cup {id} |->
                  IF i = id THEN Ledger!NewJob(key, payload) ELSE jobs[i]]
  BY <1>1 DEF NewJob, Ledger!NewJob
<1> QED
  BY <1>2, <1>3, <1>6, <1>7 DEF Ledger!Create

(* The commit of an update is UpdateStatus of the repository.              *)
LEMMA CommitIsUpdate ==
    ASSUME IInv, IInv', NEW c \in Clients, Commit(c), call[c] \in Updates,
           pending.id = call[c].id, pending.id \in DOMAIN jobs,
           jobs[pending.id] \in JobRecord,
           pending.row = Updated(jobs[pending.id], call[c])
    PROVE  Ledger!UpdateStatus(call[c].id, call[c].status, call[c].result, call[c].error)
<1> DEFINE id == call[c].id
           new == Updated(jobs[id], call[c])
<1>1. /\ id \in DOMAIN jobs
      /\ jobs' = [i \in DOMAIN jobs |-> IF i = id THEN new ELSE jobs[i]]
  BY DEF Commit
<1>2. new.key = jobs[id].key
  BY UpdatedType DEF Kept
<1>3. new = Ledger!Updated(jobs[id], call[c].status, call[c].result, call[c].error)
  BY DEF Updated, Coalesce, Ledger!Updated, Ledger!Coalesce
<1>4. /\ DOMAIN jobs' = DOMAIN jobs
      /\ \A i \in DOMAIN jobs : jobs'[i].key = jobs[i].key
  <2> HIDE DEF new
  <2> QED
    BY <1>1, <1>2
<1>5. /\ DOMAIN IndexOfTable = {jobs[i].key : i \in DOMAIN jobs}
      /\ \A i \in DOMAIN jobs : IndexOfTable[jobs[i].key] = i
      /\ DOMAIN IndexOfTable' = {jobs'[i].key : i \in DOMAIN jobs'}
      /\ \A i \in DOMAIN jobs' : IndexOfTable'[jobs'[i].key] = i
  BY IndexFindsJob, IndexFindsJobNext DEF IInv
<1>6. /\ DOMAIN IndexOfTable' = DOMAIN IndexOfTable
      /\ \A k \in DOMAIN IndexOfTable : IndexOfTable'[k] = IndexOfTable[k]
  BY <1>4, <1>5
<1>7. UNCHANGED IndexOfTable
  <2>1. /\ IndexOfTable = [k \in DOMAIN IndexOfTable |-> IndexOfTable[k]]
        /\ IndexOfTable' = [k \in DOMAIN IndexOfTable' |-> IndexOfTable'[k]]
    BY DEF IndexOfTable
  <2> QED
    BY <1>6, <2>1
<1>8. jobs' = [jobs EXCEPT ![id] =
                  Ledger!Updated(@, call[c].status, call[c].result, call[c].error)]
  <2> HIDE DEF new
  <2> QED
    BY <1>1, <1>3
<1> QED
  BY <1>1, <1>7, <1>8 DEF Ledger!UpdateStatus

(* Several processes over one file behave as the repository in the memory  *)
(* of one process: every commit is one of its operations, every other      *)
(* statement, failure or stop leaves it alone.                             *)
(* (repositories.py against jobs.py)                                       *)
THEOREM TableImplementsLedger == Spec => ImplementsLedger
<1>1. Init => Ledger!Init
  BY InitIsLedgerInit
<1>2. IInv /\ IInv' /\ [Next]_vars => [Ledger!Next]_(Ledger!vars)
  <2> SUFFICES ASSUME IInv, IInv', [Next]_vars PROVE [Ledger!Next]_(Ledger!vars)
    OBVIOUS
  <2>1. CASE UNCHANGED jobs
    BY <2>1 DEF Ledger!vars, IndexOfTable
  <2>2. ASSUME NEW c \in Clients, Commit(c) PROVE Ledger!Next
    <3>1. CASE call[c] \in Creates /\ pending.row = NewJob(call[c].key, call[c].payload)
               /\ pending.id \in JobIds \ DOMAIN jobs /\ JobsOf(call[c].key) = {}
      <4>1. Ledger!Create(pending.id, call[c].key, call[c].payload)
        BY <2>2, <3>1, CommitIsCreate
      <4>2. pending.id \in JobIds /\ call[c].key \in Keys /\ call[c].payload \in Payloads
        BY <3>1 DEF Creates
      <4> QED
        BY <4>1, <4>2 DEF Ledger!Next
    <3>2. CASE call[c] \in Updates /\ pending.id = call[c].id /\ pending.id \in DOMAIN jobs
               /\ jobs[pending.id] \in JobRecord
               /\ pending.row = Updated(jobs[pending.id], call[c])
      <4>1. Ledger!UpdateStatus(call[c].id, call[c].status, call[c].result, call[c].error)
        BY <2>2, <3>2, CommitIsUpdate
      <4>2. /\ call[c].id \in JobIds /\ call[c].status \in Ledger!JobStatus
            /\ call[c].result \in Results \cup {None} /\ call[c].error \in Errors \cup {None}
        BY <3>2 DEF Updates, JobStatus, Ledger!JobStatus
      <4> QED
        BY <4>1, <4>2 DEF Ledger!Next
    <3> QED
      BY <2>2, <3>1, <3>2, CommitOfCall
  <2> QED
    BY <2>1, <2>2, OnlyCommitWrites
<1> QED
  BY <1>1, <1>2, Invariance, PTL DEF Spec, ImplementsLedger, Ledger!Spec
=============================================================================
