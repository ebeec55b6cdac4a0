--------------------------- MODULE JobProperties ---------------------------
(***************************************************************************)
(* What the job table promises to clients that share it.                   *)
(***************************************************************************)
EXTENDS JobStore, FiniteSets

(* Every variable has its type.                                            *)
TypeOK ==
    /\ DOMAIN jobs \subseteq JobIds
    /\ \A id \in DOMAIN jobs : jobs[id] \in JobRecord
    /\ lock \in Clients \cup {None}
    /\ pending \in [id : JobIds, row : JobRecord] \cup {None}
    /\ call \in [Clients -> Requests \cup {None}]
    /\ step \in [Clients -> {"idle", "select", "write", "commit"}]
    /\ DOMAIN seen = Clients
    /\ calls \in Nat

(* Two clients that were given a job for the same key were given the same  *)
(* job, and it is in the table, with a payload one of the calls carried,   *)
(* however their statements interleave and whoever stops in between.       *)
(* (repositories.py: create_once)                                          *)
Given(c) == seen[c] # None /\ seen[c].op.op = "create" /\ seen[c].id # None

CreatedOnce ==
    /\ \A c \in Clients : Given(c) =>
          seen[c].id \in DOMAIN jobs /\ jobs[seen[c].id].key = seen[c].op.key
    /\ \A c, d \in Clients :
          Given(c) /\ Given(d) /\ seen[c].op.key = seen[d].op.key => seen[c].id = seen[d].id

(* The table is the in-memory repository: every commit is one of its       *)
(* operations, and nothing else changes the jobs.                          *)
(* (repositories.py against jobs.py)                                       *)
IndexOfTable ==
    [k \in {jobs[id].key : id \in DOMAIN jobs} |-> CHOOSE id \in DOMAIN jobs : jobs[id].key = k]

Ledger == INSTANCE JobLedger WITH index <- IndexOfTable

ImplementsLedger == Ledger!Spec

(* A result or an error that was recorded is not lost by a later update    *)
(* that carries none, and a job keeps its key and payload.                 *)
(* (repositories.py: update_status)                                        *)
Kept(old, new) ==
    /\ new.key = old.key /\ new.payload = old.payload
    /\ old.result # None => new.result # None
    /\ old.error # None => new.error # None

RecordsAreKept == [][\A id \in DOMAIN jobs : id \in DOMAIN jobs' /\ Kept(jobs[id], jobs'[id])]_vars

(* The write lock is always given back, also when the process that holds   *)
(* it stops in the middle of its transaction, so a job created by a dead   *)
(* client can be created by the next.  (db.py: transaction)                *)
LockIsReleased == \A c \in Clients : (lock = c) ~> (lock # c)

-----------------------------------------------------------------------------
(* The inductive invariant.                                                *)

LockOwner == \A c \in Clients : (lock = c) <=> (step[c] = "commit")

IdleHasNoCall == \A c \in Clients : (step[c] = "idle") <=> (call[c] = None)

OneJobPerKey == \A i, j \in DOMAIN jobs : jobs[i].key = jobs[j].key => i = j

PendingIsNext ==
    \A c \in Clients : step[c] = "commit" =>
        /\ pending # None
        /\ call[c].op = "create" =>
              /\ pending.id \notin DOMAIN jobs /\ JobsOf(call[c].key) = {}
              /\ pending.row = NewJob(call[c].key, call[c].payload)
        /\ call[c].op = "update" =>
              /\ pending.id = call[c].id /\ pending.id \in DOMAIN jobs
              /\ pending.row = Updated(jobs[pending.id], call[c])

UpdateFindsRow ==
    \A c \in Clients : step[c] = "write" /\ call[c].op = "update" => call[c].id \in DOMAIN jobs

IInv ==
    /\ TypeOK /\ LockOwner /\ IdleHasNoCall /\ OneJobPerKey
    /\ PendingIsNext /\ UpdateFindsRow /\ CreatedOnce
=============================================================================
