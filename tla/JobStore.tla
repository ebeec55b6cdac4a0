------------------------------ MODULE JobStore ------------------------------
(***************************************************************************)
(* SqlJobRepository: the jobs table of a SQLite file, used by several      *)
(* processes, each with a connection of its own per call.  The SELECT of a *)
(* call runs by itself; its INSERT or UPDATE opens a transaction, for which*)
(* the connection needs the write lock of the file, and the call ends with *)
(* a commit, or with a rollback when an exception leaves the block.  A     *)
(* process may stop at any point; SQLite then discards what it had not     *)
(* committed.                                                              *)
(***************************************************************************)
EXTENDS Naturals

CONSTANTS
    Clients,
    JobIds,     \* job identifiers, drawn afresh by uuid4
    Keys,       \* pairs of job type and idempotency key
    Payloads,
    Results,
    Errors,
    Requests,   \* the calls the clients make
    MaxCalls,   \* bound: calls, over all clients
    None

JobStatus == {"PENDING", "RUNNING", "COMPLETED", "FAILED", "CANCELLED"}

JobRecord == [key : Keys, status : JobStatus, payload : Payloads,
              result : Results \cup {None}, error : Errors \cup {None}]

Creates == [op : {"create"}, key : Keys, payload : Payloads]
Updates == [op : {"update"}, id : JobIds, status : JobStatus,
            result : Results \cup {None}, error : Errors \cup {None}]

ASSUME RequestAssumption == Requests \subseteq Creates \cup Updates
ASSUME FreshAssumption ==
    /\ None \notin JobIds \cup Results \cup Errors \cup Clients \cup Requests
    /\ None \notin [id : JobIds, row : JobRecord]

VARIABLES
    jobs,       \* the committed rows, by job_id
    lock,       \* the client in a write transaction, or None
    pending,    \* its uncommitted row: a job id and the row, or None
    call,       \* what a client is executing, or None
    step,       \* the statement it is at
    seen,       \* the identifier the last call of a client returned, or None
    calls       \* calls so far

client == <<call, step, seen>>
vars == <<jobs, lock, pending, call, step, seen, calls>>

(* A plausible bug: the status is left to the worker that takes the job. *)
NewJob_NoStatus(key, payload) ==
    [key |-> key, status |-> None, payload |-> payload, result |-> None, error |-> None]

NewJob(key, payload) ==
    [key |-> key, status |-> "PENDING", payload |-> payload, result |-> None, error |-> None]

Coalesce(new, old) == IF new # None THEN new ELSE old

(* A plausible bug: SET result_json = ? without COALESCE. *)
Updated_Overwrites(job, u) ==
    [job EXCEPT !.status = u.status, !.result = u.result, !.error = u.error]

Updated(job, u) ==
    [job EXCEPT !.status = u.status,
                !.result = Coalesce(u.result, @), !.error = Coalesce(u.error, @)]

JobsOf(key) == {id \in DOMAIN jobs : jobs[id].key = key}

Begin(c, op) ==
    /\ call[c] = None /\ calls < MaxCalls
    /\ calls' = calls + 1
    /\ call' = [call EXCEPT ![c] = op]
    /\ step' = [step EXCEPT ![c] = "select"]
    /\ UNCHANGED <<jobs, lock, pending, seen>>

(* The call returns the job id, or raises: None. *)
Return(c, id) ==
    /\ call' = [call EXCEPT ![c] = None]
    /\ step' = [step EXCEPT ![c] = "idle"]
    /\ seen' = [seen EXCEPT ![c] = [op |-> call[c], id |-> id]]

GoTo(c, s) == step' = [step EXCEPT ![c] = s] /\ UNCHANGED <<call, seen>>

SelectOfCreate(c) ==
    /\ call[c] # None /\ call[c].op = "create" /\ step[c] = "select"
    /\ \/ \E id \in JobsOf(call[c].key) : Return(c, id)
       \/ JobsOf(call[c].key) = {} /\ GoTo(c, "write")
    /\ UNCHANGED <<jobs, lock, pending, calls>>

SelectOfUpdate(c) ==
    /\ call[c] # None /\ call[c].op = "update" /\ step[c] = "select"
    /\ IF call[c].id \in DOMAIN jobs THEN GoTo(c, "write") ELSE Return(c, None)
    /\ UNCHANGED <<jobs, lock, pending, calls>>

(* A plausible bug: the unique constraint on type and key is missing. *)
KeyIsFree_Unchecked(key) == TRUE

KeyIsFree(key) == JobsOf(key) = {}

(* INSERT: takes the write lock and writes the row, or fails on the unique *)
(* constraint, which rolls the transaction back.                           *)
Insert(c) ==
    /\ call[c] # None /\ call[c].op = "create" /\ step[c] = "write" /\ lock = None
    /\ \/ /\ KeyIsFree(call[c].key)
          /\ \E id \in JobIds \ DOMAIN jobs :
                pending' = [id |-> id, row |-> NewJob(call[c].key, call[c].payload)]
          /\ lock' = c
          /\ GoTo(c, "commit")
       \/ /\ ~KeyIsFree(call[c].key)
          /\ Return(c, None)
          /\ UNCHANGED <<lock, pending>>
    /\ UNCHANGED <<jobs, calls>>

(* UPDATE: takes the write lock; the row is read again afterwards. *)
Update(c) ==
    /\ call[c] # None /\ call[c].op = "update" /\ step[c] = "write" /\ lock = None
    /\ pending' = [id |-> call[c].id, row |-> Updated(jobs[call[c].id], call[c])]
    /\ lock' = c
    /\ GoTo(c, "commit")
    /\ UNCHANGED <<jobs, calls>>

(* The write lock was not released within the timeout of the connection.   *)
Locked(c) ==
    /\ step[c] = "write" /\ lock # None
    /\ Return(c, None)
    /\ UNCHANGED <<jobs, lock, pending, calls>>

Commit(c) ==
    /\ step[c] = "commit"
    /\ jobs' = [i \in DOMAIN jobs \cup {pending.id} |->
                    IF i = pending.id THEN pending.row ELSE jobs[i]]
    /\ lock' = None /\ pending' = None
    /\ Return(c, pending.id)
    /\ UNCHANGED calls

(* A plausible bug: a connection that is not closed keeps its transaction. *)
Released_Kept(c) == UNCHANGED <<lock, pending>>

(* What the file releases when a connection goes away. *)
Released(c) ==
    IF lock = c THEN lock' = None /\ pending' = None ELSE UNCHANGED <<lock, pending>>

(* The process stops in the middle of a call.  *)
Stop(c) ==
    /\ call[c] # None
    /\ call' = [call EXCEPT ![c] = None]
    /\ step' = [step EXCEPT ![c] = "idle"]
    /\ Released(c)
    /\ UNCHANGED <<jobs, seen, calls>>

Init ==
    /\ jobs = [i \in {} |-> None]
    /\ lock = None /\ pending = None
    /\ call = [c \in Clients |-> None]
    /\ step = [c \in Clients |-> "idle"]
    /\ seen = [c \in Clients |-> None]
    /\ calls = 0

Statement(c) ==
    \/ SelectOfCreate(c) \/ SelectOfUpdate(c)
    \/ Insert(c) \/ Update(c) \/ Locked(c) \/ Commit(c)

Next ==
    \E c \in Clients :
        \/ \E op \in Requests : Begin(c, op)
        \/ Statement(c)
        \/ Stop(c)

Spec == Init /\ [][Next]_vars

(* A call that is not interrupted goes on: SQLite grants the lock once it  *)
(* is free, or the timeout of the connection ends the wait.                *)
FairSpec == Spec /\ \A c \in Clients : WF_vars(Statement(c))
=============================================================================
