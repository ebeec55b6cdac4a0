----------------------------- MODULE Ingestion -----------------------------
(***************************************************************************)
(* IngestionService over a provider and a directory of raw snapshots: an   *)
(* ingestion fetches rows, again after a rate limit, and stores them in a  *)
(* file named by their content.  Writing such a file takes two steps,      *)
(* opening it, which leaves it short, and filling it; other ingestions may *)
(* run in between and the process may stop.                                *)
(*                                                                         *)
(* A payload is the set of rows fetched; it stands for its own hash.       *)
(***************************************************************************)
EXTENDS Naturals

CONSTANTS
    Processes,
    Prices, Actions, Filings,   \* the rows of the provider's source files
    MissingFiles,               \* the datasets whose source file is missing
    Jobs,                       \* the ingestions that may be asked for
    MaxRetries,                 \* max_retries
    RateLimits,                 \* how often the provider refuses at first
    MaxJobs,                    \* bound: ingestions
    MaxStops,                   \* bound: processes stopped
    None, Short

Row == [symbol : STRING, day : Nat]
Datasets == {"prices", "actions", "fundamentals"}
Job == [dataset : Datasets, symbols : SUBSET STRING, from : Nat, to : Nat]

ASSUME SourceAssumption == Prices \cup Actions \cup Filings \subseteq Row
ASSUME BoundAssumption ==
    /\ MaxRetries \in Nat /\ RateLimits \in Nat /\ MaxJobs \in Nat /\ MaxStops \in Nat
ASSUME MissingAssumption == MissingFiles \subseteq Datasets

(* The rows of the symbols asked for, all symbols if none is named. *)
RowsOf(source, job) ==
    {row \in source : (job.symbols = {} \/ row.symbol \in job.symbols)
                      /\ job.from <= row.day /\ row.day <= job.to}

FetchEod(job) == RowsOf(Prices, job)
FetchActions(job) == RowsOf(Actions, job)
FetchFundamentals(job) == RowsOf(Filings, job)

Fetch(job) ==
    CASE job.dataset = "prices"       -> FetchEod(job)
      [] job.dataset = "actions"      -> FetchActions(job)
      [] job.dataset = "fundamentals" -> FetchFundamentals(job)

(* LocalArtifactStore: a file per kind and content hash. *)
PathOf(job, payload) == <<job.dataset, payload>>

Paths == {PathOf(job, Fetch(job)) : job \in Jobs}

(* None and Short are no payload. *)
ASSUME FreshAssumption == None # Short /\ \A j \in Jobs : Fetch(j) # None

VARIABLES
    file,       \* the content of each path: None, Short, or the payload
    refusals,   \* _failures_remaining
    job,        \* the ingestion a process runs, or None
    step,       \* where it is
    attempt,    \* attempts it has made
    outcome,    \* the result its last ingestion returned, or None
    started,    \* ingestions so far
    stops       \* processes stopped so far

process == <<job, step, attempt, outcome>>
vars == <<file, refusals, process, started, stops>>

Target(p) == PathOf(job[p], Fetch(job[p]))

At(p, s) == job[p] # None /\ step[p] = s

GoTo(p, s) == step' = [step EXCEPT ![p] = s] /\ UNCHANGED <<job, attempt, outcome>>

Finish(p, status) ==
    /\ outcome' = [outcome EXCEPT ![p] =
                      [status |-> status, job |-> job[p], rows |-> Fetch(job[p])]]
    /\ job' = [job EXCEPT ![p] = None]
    /\ step' = [step EXCEPT ![p] = "idle"]
    /\ attempt' = [attempt EXCEPT ![p] = 0]

Begin(p, j) ==
    /\ job[p] = None /\ started < MaxJobs
    /\ started' = started + 1
    /\ job' = [job EXCEPT ![p] = j]
    /\ step' = [step EXCEPT ![p] = "fetch"]
    /\ UNCHANGED <<file, refusals, attempt, outcome, stops>>

IngestEod(p) == \E j \in Jobs : j.dataset = "prices" /\ Begin(p, j)
IngestActions(p) == \E j \in Jobs : j.dataset = "actions" /\ Begin(p, j)
IngestFundamentals(p) == \E j \in Jobs : j.dataset = "fundamentals" /\ Begin(p, j)

(* A plausible bug: an attempt less. *)
MayRetry_Early(p) == attempt[p] + 1 < MaxRetries

(* A plausible bug: the last attempt is followed by another. *)
MayRetry_Late(p) == attempt[p] <= MaxRetries

MayRetry(p) == attempt[p] < MaxRetries

(* _check_simulated_rate_limit, inside retry_with_backoff. *)
Refused(p) ==
    /\ At(p, "fetch") /\ refusals > 0
    /\ refusals' = refusals - 1
    /\ \/ /\ MayRetry(p)
          /\ attempt' = [attempt EXCEPT ![p] = @ + 1]
          /\ UNCHANGED <<job, step, outcome>>
       \/ ~MayRetry(p) /\ Finish(p, "FAILED")
    /\ UNCHANGED <<file, started, stops>>

Fetched(p) ==
    /\ At(p, "fetch") /\ refusals = 0
    /\ IF job[p].dataset \in MissingFiles THEN Finish(p, "FAILED") ELSE GoTo(p, "look")
    /\ UNCHANGED <<file, refusals, started, stops>>

(* put_bytes: target_path.exists(). *)
Look(p) ==
    /\ At(p, "look")
    /\ GoTo(p, IF file[Target(p)] = None THEN "open" ELSE "compare")
    /\ UNCHANGED <<file, refusals, started, stops>>

(* A plausible bug: a file that is there is taken for the right one. *)
SameContent_Assumed(path) == file[path] # None

SameContent(path) == file[path] = path[2]

Compare(p) ==
    /\ At(p, "compare")
    /\ Finish(p, IF SameContent(Target(p)) THEN "SUCCESS" ELSE "FAILED")
    /\ UNCHANGED <<file, refusals, started, stops>>

(* write_bytes: the file is opened and cut, then filled and closed. *)
Open(p) ==
    /\ At(p, "open")
    /\ file' = [file EXCEPT ![Target(p)] = Short]
    /\ GoTo(p, "fill")
    /\ UNCHANGED <<refusals, started, stops>>

Fill(p) ==
    /\ At(p, "fill")
    /\ file' = [file EXCEPT ![Target(p)] = Fetch(job[p])]
    /\ Finish(p, "SUCCESS")
    /\ UNCHANGED <<refusals, started, stops>>

(* get_verified: the content, if it has the recorded hash.  *)
GetVerified(path) == IF file[path] = path[2] THEN path[2] ELSE None

(* The process stops; another takes its place. *)
Stop(p) ==
    /\ job[p] # None /\ stops < MaxStops
    /\ stops' = stops + 1
    /\ job' = [job EXCEPT ![p] = None]
    /\ step' = [step EXCEPT ![p] = "idle"]
    /\ attempt' = [attempt EXCEPT ![p] = 0]
    /\ outcome' = [outcome EXCEPT ![p] = None]
    /\ UNCHANGED <<file, refusals, started>>

Init ==
    /\ file = [path \in Paths |-> None]
    /\ refusals = RateLimits
    /\ job = [p \in Processes |-> None]
    /\ step = [p \in Processes |-> "idle"]
    /\ attempt = [p \in Processes |-> 0]
    /\ outcome = [p \in Processes |-> None]
    /\ started = 0 /\ stops = 0

Step(p) == Refused(p) \/ Fetched(p) \/ Look(p) \/ Compare(p) \/ Open(p) \/ Fill(p)

Next ==
    \E p \in Processes :
        \/ IngestEod(p) \/ IngestActions(p) \/ IngestFundamentals(p)
        \/ Step(p)
        \/ Stop(p)

Spec == Init /\ [][Next]_vars

-----------------------------------------------------------------------------
(* What an ingestion and its stored snapshot promise.                      *)

Steps == {"idle", "fetch", "look", "compare", "open", "fill"}

(* Every variable has its type; an ingestion makes at most one attempt     *)
(* more than the retries allow.                                            *)
TypeOK ==
    /\ DOMAIN file = Paths
    /\ \A path \in Paths : file[path] \in {None, Short, path[2]}
    /\ refusals \in 0 .. RateLimits
    /\ job \in [Processes -> Jobs \cup {None}]
    /\ step \in [Processes -> Steps]
    /\ attempt \in [Processes -> 0 .. MaxRetries]
    /\ DOMAIN outcome = Processes
    /\ started \in 0 .. MaxJobs /\ stops \in 0 .. MaxStops

(* A snapshot that is reported as stored can be read back verified, then   *)
(* and later, except from the moment another ingestion of the same content *)
(* that had looked before the file was there writes it once more; a file   *)
(* cut short by a stopped process is never reported as stored.             *)
(* (artifacts.py: put_bytes, get_verified; ingestion.py)                   *)
Readable(path) == GetVerified(path) = path[2]

Writing(path) == \E p \in Processes : step[p] = "fill" /\ Target(p) = path

Ends(p, status) ==
    outcome'[p] # outcome[p] /\ outcome'[p] # None /\ outcome'[p].status = status

StoredIsReadable ==
    [][\A path \in Paths :
          \/ Readable(path)
          \/ \E p \in Processes : Ends(p, "SUCCESS") /\ path = Target(p)
          => Readable(path)' \/ Writing(path)']_vars

(* An ingestion reports failure only when the provider refused more often  *)
(* than it retries, its source file is missing, or the file of its content *)
(* is short; a refused attempt that may be repeated is no failure.         *)
(* (providers.py: retry_with_backoff; artifacts.py: put_bytes)             *)
FailuresHaveAReason ==
    [][\A p \in Processes : Ends(p, "FAILED") =>
          \/ RateLimits - refusals' > MaxRetries
          \/ job[p].dataset \in MissingFiles
          \/ file[Target(p)] = Short]_vars

-----------------------------------------------------------------------------
(* The inductive invariant.                                                *)

(* Every attempt beyond the first follows a refusal. *)
AttemptsFollowRefusals == \A p \in Processes : attempt[p] <= RateLimits - refusals

(* Snapshots are not removed: a file that was seen is still there. *)
ComparedIsThere == \A p \in Processes : At(p, "compare") => file[Target(p)] # None

IInv == TypeOK /\ AttemptsFollowRefusals /\ ComparedIsThere
=============================================================================
