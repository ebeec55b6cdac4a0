--------------------------- MODULE IngestionProofs ---------------------------
(***************************************************************************)
(* Ingestions by any number of processes over one directory of snapshots,  *)
(* for any data, retries, interleaving and stops (data/ingestion.py,       *)
(* data/providers.py, infrastructure/artifacts.py).                        *)
(***************************************************************************)
EXTENDS Ingestion, Integers, TLAPS

(* The path an ingestion at work writes to.                                *)
LEMMA TargetIsPath ==
    ASSUME TypeOK, NEW p \in Processes, job[p] # None
    PROVE  /\ job[p] \in Jobs /\ Target(p) \in Paths
           /\ Target(p)[2] = Fetch(job[p]) /\ Fetch(job[p]) # None
<1>1. job[p] \in Jobs
  BY DEF TypeOK
<1>2. Target(p) \in Paths
  BY <1>1 DEF Target, Paths
<1>3. Target(p)[2] = Fetch(job[p])
  BY DEF Target, PathOf
<1> QED
  BY <1>1, <1>2, <1>3, FreshAssumption

-----------------------------------------------------------------------------
(* The invariant holds at first and is kept by every step.                 *)

LEMMA InitIInv == Init => IInv
<1> SUFFICES ASSUME Init PROVE IInv
  OBVIOUS
<1>1. TypeOK
  BY BoundAssumption DEF Init, TypeOK, Steps
<1>2. AttemptsFollowRefusals /\ ComparedIsThere
  BY BoundAssumption DEF Init, AttemptsFollowRefusals, ComparedIsThere, At
<1> QED
  BY <1>1, <1>2 DEF IInv

(* Where a process is changes what is asked of that process only.          *)
LEMMA BeginKeepsIInv ==
    ASSUME IInv, NEW p \in Processes, NEW j \in Jobs, Begin(p, j)
    PROVE  IInv'
<1>1. TypeOK'
  BY BoundAssumption DEF IInv, TypeOK, Steps, Begin
<1>2. AttemptsFollowRefusals'
  BY DEF IInv, AttemptsFollowRefusals, Begin
<1>3. ComparedIsThere'
  BY DEF IInv, TypeOK, ComparedIsThere, Begin, At, Target
<1> QED
  BY <1>1, <1>2, <1>3 DEF IInv

LEMMA RefusedKeepsIInv ==
    ASSUME IInv, NEW p \in Processes, Refused(p)
    PROVE  IInv'
<1>1. TypeOK'
  BY BoundAssumption DEF IInv, TypeOK, Steps, Refused, MayRetry, Finish
<1>2. AttemptsFollowRefusals'
  BY BoundAssumption DEF IInv, TypeOK, AttemptsFollowRefusals, Refused, Finish
<1>3. ComparedIsThere'
  BY DEF IInv, TypeOK, ComparedIsThere, Refused, Finish, At, Target
<1> QED
  BY <1>1, <1>2, <1>3 DEF IInv

LEMMA FetchedKeepsIInv ==
    ASSUME IInv, NEW p \in Processes, Fetched(p)
    PROVE  IInv'
<1>1. TypeOK'
  BY BoundAssumption DEF IInv, TypeOK, Steps, Fetched, Finish, GoTo
<1>2. AttemptsFollowRefusals'
  BY BoundAssumption DEF IInv, TypeOK, AttemptsFollowRefusals, Fetched, Finish, GoTo
<1>3. ComparedIsThere'
  BY DEF IInv, TypeOK, ComparedIsThere, Fetched, Finish, GoTo, At, Target
<1> QED
  BY <1>1, <1>2, <1>3 DEF IInv

LEMMA LookKeepsIInv ==
    ASSUME IInv, NEW p \in Processes, Look(p)
    PROVE  IInv'
<1>1. TypeOK'
  BY DEF IInv, TypeOK, Steps, Look, GoTo
<1>2. AttemptsFollowRefusals'
  BY DEF IInv, AttemptsFollowRefusals, Look, GoTo
<1>3. ComparedIsThere'
  BY DEF IInv, TypeOK, ComparedIsThere, Look, GoTo, At, Target
<1> QED
  BY <1>1, <1>2, <1>3 DEF IInv

LEMMA CompareKeepsIInv ==
    ASSUME IInv, NEW p \in Processes, Compare(p)
    PROVE  IInv'
<1>1. TypeOK'
  BY BoundAssumption DEF IInv, TypeOK, Steps, Compare, Finish
<1>2. AttemptsFollowRefusals'
  BY BoundAssumption DEF IInv, TypeOK, AttemptsFollowRefusals, Compare, Finish
<1>3. ComparedIsThere'
  BY DEF IInv, TypeOK, ComparedIsThere, Compare, Finish, At, Target
<1> QED
  BY <1>1, <1>2, <1>3 DEF IInv

LEMMA OpenKeepsIInv ==
    ASSUME IInv, NEW p \in Processes, Open(p)
    PROVE  IInv'
<1>1. Target(p) \in Paths
  BY TargetIsPath DEF IInv, Open, At
<1>2. TypeOK'
  BY <1>1 DEF IInv, TypeOK, Steps, Open, GoTo
<1>3. AttemptsFollowRefusals'
  BY DEF IInv, AttemptsFollowRefusals, Open, GoTo
<1>4. ComparedIsThere'
  <2> SUFFICES ASSUME NEW q \in Processes, At(q, "compare")'
               PROVE  (file[Target(q)] # None)'
    BY DEF ComparedIsThere
  <2>1. At(q, "compare") /\ Target(q)' = Target(q) /\ file[Target(q)] # None
    BY DEF IInv, TypeOK, ComparedIsThere, Open, GoTo, At, Target
  <2>2. Target(q) \in Paths
    BY <2>1, TargetIsPath DEF IInv, At
  <2> QED
    BY <1>1, <2>1, <2>2, FreshAssumption DEF IInv, TypeOK, Open
<1> QED
  BY <1>2, <1>3, <1>4 DEF IInv

LEMMA FillKeepsIInv ==
    ASSUME IInv, NEW p \in Processes, Fill(p)
    PROVE  IInv'
<1>1. /\ Target(p) \in Paths /\ Target(p)[2] = Fetch(job[p])
      /\ Fetch(job[p]) # None
  BY TargetIsPath DEF IInv, Fill, At
<1>2. TypeOK'
  BY <1>1, BoundAssumption DEF IInv, TypeOK, Steps, Fill, Finish
<1>3. AttemptsFollowRefusals'
  BY BoundAssumption DEF IInv, TypeOK, AttemptsFollowRefusals, Fill, Finish
<1>4. ComparedIsThere'
  <2> SUFFICES ASSUME NEW q \in Processes, At(q, "compare")'
               PROVE  (file[Target(q)] # None)'
    BY DEF ComparedIsThere
  <2>1. At(q, "compare") /\ Target(q)' = Target(q) /\ file[Target(q)] # None
    BY DEF IInv, TypeOK, ComparedIsThere, Fill, Finish, At, Target
  <2>2. Target(q) \in Paths
    BY <2>1, TargetIsPath DEF IInv, At
  <2> QED
    BY <1>1, <2>1, <2>2 DEF IInv, TypeOK, Fill
<1> QED
  BY <1>2, <1>3, <1>4 DEF IInv

LEMMA StopKeepsIInv ==
    ASSUME IInv, NEW p \in Processes, Stop(p)
    PROVE  IInv'
<1>1. TypeOK'
  BY BoundAssumption DEF IInv, TypeOK, Steps, Stop
<1>2. AttemptsFollowRefusals'
  BY BoundAssumption DEF IInv, TypeOK, AttemptsFollowRefusals, Stop
<1>3. ComparedIsThere'
  BY DEF IInv, TypeOK, ComparedIsThere, Stop, At, Target
<1> QED
  BY <1>1, <1>2, <1>3 DEF IInv

LEMMA NextKeepsIInv == IInv /\ [Next]_vars => IInv'
<1> SUFFICES ASSUME IInv, [Next]_vars PROVE IInv'
  OBVIOUS
<1>1. CASE UNCHANGED vars
  BY <1>1 DEF IInv, TypeOK, AttemptsFollowRefusals, ComparedIsThere, At, Target, vars, process
<1>2. ASSUME NEW p \in Processes, IngestEod(p) \/ IngestActions(p) \/ IngestFundamentals(p)
      PROVE  IInv'
  BY <1>2, BeginKeepsIInv DEF IngestEod, IngestActions, IngestFundamentals
<1>3. ASSUME NEW p \in Processes, Step(p) PROVE IInv'
  BY <1>3, RefusedKeepsIInv, FetchedKeepsIInv, LookKeepsIInv, CompareKeepsIInv,
     OpenKeepsIInv, FillKeepsIInv DEF Step
<1>4. ASSUME NEW p \in Processes, Stop(p) PROVE IInv'
  BY <1>4, StopKeepsIInv
<1> QED
  BY <1>1, <1>2, <1>3, <1>4 DEF Next

-----------------------------------------------------------------------------
(* The theorems.                                                           *)

(* The invariant always holds, for any processes and any interleaving of   *)
(* the steps of their ingestions.                                          *)
THEOREM Invariance == Spec => []IInv
<1>1. Init => IInv
  BY InitIInv
<1>2. IInv /\ [Next]_vars => IInv'
  BY NextKeepsIInv
<1> QED
  BY <1>1, <1>2, PTL DEF Spec

(* Every variable always has its type; no ingestion makes more attempts    *)
(* than its retries allow (providers.py: retry_with_backoff).              *)
THEOREM TypeCorrect == Spec => []TypeOK
<1>1. IInv => TypeOK
  BY DEF IInv
<1> QED
  BY <1>1, Invariance, PTL

(* The step of one process ends the ingestion of no other.                 *)
LEMMA OnlyOwnEnds ==
    ASSUME TypeOK, NEW p \in Processes, NEW q \in Processes, NEW status,
           Step(p) \/ Stop(p) \/ (\E j \in Jobs : Begin(p, j)), Ends(q, status)
    PROVE  /\ q = p
           /\ outcome'[p] = [status |-> outcome'[p].status, job |-> job[p], rows |-> Fetch(job[p])]
           /\ Step(p)
BY DEF TypeOK, Ends, Step, Stop, Begin, Refused, Fetched, Look, Compare, Open, Fill, Finish, GoTo

(* A snapshot that was stored stays readable, except while it is written   *)
(* again (artifacts.py: put_bytes, get_verified).                          *)
THEOREM StoredStaysReadable == Spec => StoredIsReadable
<1> DEFINE Kept(path) ==
        \/ Readable(path)
        \/ \E p \in Processes : Ends(p, "SUCCESS") /\ path = Target(p)
        => Readable(path)' \/ Writing(path)'
<1>1. ASSUME IInv, Next, NEW path \in Paths,
             Readable(path) \/ \E p \in Processes : Ends(p, "SUCCESS") /\ path = Target(p)
      PROVE  Readable(path)' \/ Writing(path)'
  <2>1. PICK p \in Processes : Step(p) \/ Stop(p) \/ (\E j \in Jobs : Begin(p, j))
    BY <1>1 DEF Next, IngestEod, IngestActions, IngestFundamentals
  <2>2. CASE UNCHANGED file /\ Readable(path)
    BY <2>2 DEF Readable, GetVerified
  <2>3. CASE UNCHANGED file /\ ~ Readable(path) /\ ~ Fill(p)
    <3>1. Step(p) /\ Ends(p, "SUCCESS") /\ path = Target(p)
      BY <1>1, <2>1, <2>3, OnlyOwnEnds DEF IInv
    <3>2. Compare(p) /\ SameContent(Target(p))
      BY <1>1, <2>3, <3>1 DEF IInv, TypeOK, Step, Refused, Fetched, Look, Compare, Open, Fill,
         Finish, GoTo, Ends, At
    <3> QED
      BY <2>3, <3>1, <3>2 DEF SameContent, Readable, GetVerified
  <2>4. CASE Open(p)
    <3>1. Target(p) \in Paths /\ Target(p)' = Target(p) /\ step'[p] = "fill"
      BY <1>1, <2>4, TargetIsPath DEF IInv, TypeOK, Open, GoTo, At, Target
    <3>2. ~ Ends(p, "SUCCESS") /\ \A q \in Processes : ~ Ends(q, "SUCCESS")
      BY <2>4 DEF Open, GoTo, Ends
    <3>3. CASE path = Target(p)
      BY <3>1, <3>3 DEF Writing
    <3>4. CASE path # Target(p)
      BY <1>1, <2>4, <3>2, <3>4 DEF IInv, TypeOK, Open, Readable, GetVerified
    <3> QED
      BY <3>3, <3>4
  <2>5. CASE Fill(p)
    <3>1. Target(p) \in Paths /\ Target(p)[2] = Fetch(job[p])
      BY <1>1, <2>5, TargetIsPath DEF IInv, Fill, At
    <3>2. CASE path = Target(p)
      BY <1>1, <2>5, <3>1, <3>2 DEF IInv, TypeOK, Fill, Readable, GetVerified
    <3>3. CASE path # Target(p)
      <4>1. Readable(path)
        BY <1>1, <2>1, <3>3, OnlyOwnEnds DEF IInv
      <4> QED
        BY <1>1, <2>5, <3>3, <4>1 DEF IInv, TypeOK, Fill, Readable, GetVerified
    <3> QED
      BY <3>2, <3>3
  <2>6. UNCHANGED file \/ Open(p) \/ Fill(p)
    BY <2>1 DEF Step, Stop, Begin, Refused, Fetched, Look, Compare
  <2> QED
    BY <2>2, <2>3, <2>4, <2>5, <2>6
<1>2. IInv /\ [Next]_vars => [\A path \in Paths : Kept(path)]_vars
  BY <1>1
<1> QED
  BY <1>2, Invariance, PTL DEF Spec, StoredIsReadable

(* A failure is reported only for a reason: too many refusals, a missing   *)
(* source file, or a file another process left short (providers.py:        *)
(* retry_with_backoff; artifacts.py: put_bytes).                           *)
THEOREM FailuresAreExplained == Spec => FailuresHaveAReason
<1> DEFINE Explained(p) ==
        Ends(p, "FAILED") =>
          \/ RateLimits - refusals' > MaxRetries
          \/ job[p].dataset \in MissingFiles
          \/ file[Target(p)] = Short
<1>1. ASSUME IInv, Next, NEW q \in Processes, Ends(q, "FAILED")
      PROVE  \/ RateLimits - refusals' > MaxRetries
             \/ job[q].dataset \in MissingFiles
             \/ file[Target(q)] = Short
  <2>1. PICK p \in Processes : Step(p) \/ Stop(p) \/ (\E j \in Jobs : Begin(p, j))
    BY <1>1 DEF Next, IngestEod, IngestActions, IngestFundamentals
  <2>2. q = p /\ Step(p)
    BY <1>1, <2>1, OnlyOwnEnds DEF IInv
  <2>3. CASE Refused(p)
    <3>1. ~ MayRetry(p) /\ refusals' = refusals - 1
      BY <1>1, <2>2, <2>3 DEF Refused, Ends
    <3> QED
      BY <1>1, <3>1, BoundAssumption DEF IInv, TypeOK, AttemptsFollowRefusals, MayRetry
  <2>4. CASE Fetched(p)
    BY <1>1, <2>2, <2>4 DEF Fetched, GoTo, Ends
  <2>5. CASE Compare(p)
    <3>1. Target(p) \in Paths /\ file[Target(p)] # None
      BY <1>1, <2>5, TargetIsPath DEF IInv, ComparedIsThere, Compare, At
    <3>2. ~ SameContent(Target(p))
      BY <1>1, <2>2, <2>5 DEF IInv, TypeOK, Compare, Finish, Ends
    <3> QED
      BY <1>1, <2>2, <3>1, <3>2 DEF IInv, TypeOK, SameContent
  <2>6. ~ Look(p) /\ ~ Open(p) /\ ~ Fill(p)
    BY <1>1, <2>2 DEF IInv, TypeOK, Look, Open, Fill, GoTo, Finish, Ends
  <2> QED
    BY <2>2, <2>3, <2>4, <2>5, <2>6 DEF Step
<1>2. IInv /\ [Next]_vars => [\A p \in Processes : Explained(p)]_vars
  BY <1>1
<1> QED
  BY <1>2, Invariance, PTL DEF Spec, FailuresHaveAReason
=============================================================================
