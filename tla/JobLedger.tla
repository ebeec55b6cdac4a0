----------------------------- MODULE JobLedger -----------------------------
(***************************************************************************)
(* JobRepository as its in-memory implementation behaves: each operation   *)
(* is one step.  A job is created once per type and idempotency key, and   *)
(* any status may follow any other.                                        *)
(***************************************************************************)
CONSTANTS
    JobIds,     \* job identifiers, drawn afresh
    Keys,       \* pairs of job type and idempotency key
    Payloads,
    Results,
    Errors,
    None

JobStatus == {"PENDING", "RUNNING", "COMPLETED", "FAILED", "CANCELLED"}

JobRecord == [key : Keys, status : JobStatus, payload : Payloads,
              result : Results \cup {None}, error : Errors \cup {None}]

VARIABLES
    jobs,       \* _jobs_by_id
    index       \* _index: the job of a key

vars == <<jobs, index>>

NewJob(key, payload) ==
    [key |-> key, status |-> "PENDING", payload |-> payload, result |-> None, error |-> None]

Coalesce(new, old) == IF new # None THEN new ELSE old

Updated(job, status, result, error) ==
    [job EXCEPT !.status = status,
                !.result = Coalesce(result, @), !.error = Coalesce(error, @)]

(* create_once of a key that has no job; with one, nothing changes. *)
Create(id, key, payload) ==
    /\ key \notin DOMAIN index /\ id \notin DOMAIN jobs
    /\ jobs' = [i \in DOMAIN jobs \cup {id} |->
                    IF i = id THEN NewJob(key, payload) ELSE jobs[i]]
    /\ index' = [k \in DOMAIN index \cup {key} |-> IF k = key THEN id ELSE index[k]]

UpdateStatus(id, status, result, error) ==
    /\ id \in DOMAIN jobs
    /\ jobs' = [jobs EXCEPT ![id] = Updated(@, status, result, error)]
    /\ UNCHANGED index

Empty == [x \in {} |-> None]

Init == jobs = Empty /\ index = Empty

Next ==
    \/ \E id \in JobIds, key \in Keys, payload \in Payloads : Create(id, key, payload)
    \/ \E id \in JobIds, status \in JobStatus,
          result \in Results \cup {None}, error \in Errors \cup {None} :
            UpdateStatus(id, status, result, error)

Spec == Init /\ [][Next]_vars
=============================================================================
