---------------------------- MODULE WalkForward ----------------------------
(***************************************************************************)
(* PurgedWalkForwardCV.split: which periods of a panel a model is trained  *)
(* on and which it is tested on.  A period is an index into the sorted     *)
(* sessions, from 0; a fold is known by the index its test block starts at.*)
(***************************************************************************)
EXTENDS Integers

CONSTANTS
    Expanding,      \* window_type: TRUE for expanding, FALSE for rolling
    MinTrain,       \* min_train_sessions
    TrainWindow,    \* train_window_sessions, of a rolling window
    TestWindow,     \* test_window_sessions
    StepSize,       \* step_sessions
    Purge           \* purge_sessions

ASSUME WalkForwardAssumption ==
    /\ Expanding \in BOOLEAN
    /\ MinTrain \in Nat \ {0} /\ TrainWindow \in Nat
    /\ TestWindow \in Nat \ {0} /\ StepSize \in Nat \ {0} /\ Purge \in Nat

(* A plausible bug: the training block runs up to the test block.          *)
TrainEnd_NoPurge(t) == t

TrainEnd(t) == t - Purge

TrainStart(t) ==
    IF Expanding \/ TrainEnd(t) < TrainWindow THEN 0 ELSE TrainEnd(t) - TrainWindow

TrainIndices(t) == TrainStart(t) .. TrainEnd(t) - 1

(* A plausible bug: the next block starts one period on.                   *)
TestStarts_ByOne(n) == {t \in MinTrain + Purge .. n - TestWindow : TRUE}

(* Blocks of n periods whose training block is long enough.                *)
TestStarts(n) ==
    {t \in MinTrain + Purge .. n - TestWindow :
        /\ (t - (MinTrain + Purge)) % StepSize = 0
        /\ TrainEnd(t) - TrainStart(t) >= MinTrain}

TestIndices(t) == t .. t + TestWindow - 1
=============================================================================
