--------------------------- MODULE DurableAccount ---------------------------
(***************************************************************************)
(* What the fill ledger promises.  The account goes through a history of   *)
(* values; a growing prefix of the changes is durable; and whatever is     *)
(* recovered after a crash is the value the account had when the last      *)
(* durable change was made.  Nothing between two values, nothing later,    *)
(* nothing that never was.                                                 *)
(***************************************************************************)
EXTENDS Integers, Sequences

CONSTANTS
    InitialAccount,   \* the account before the first change
    NoAccount         \* stands for "nothing recovered"

VARIABLES
    history,          \* every value the account has had, oldest first
    durable,          \* number of changes that survive a crash
    view              \* the recovered account

vars == <<history, durable, view>>

Init ==
    /\ history = <<InitialAccount>>
    /\ durable = 0
    /\ view = NoAccount

(* The live account changes. *)
Change ==
    /\ view = NoAccount
    /\ Len(history') = Len(history) + 1
    /\ SubSeq(history', 1, Len(history)) = history
    /\ UNCHANGED <<durable, view>>

(* The oldest change that is not durable becomes durable. *)
Persist ==
    /\ view = NoAccount
    /\ durable + 1 < Len(history)
    /\ durable' = durable + 1
    /\ UNCHANGED <<history, view>>

Recover ==
    /\ view = NoAccount
    /\ view' = history[durable + 1]
    /\ UNCHANGED <<history, durable>>

(* The recovered account is in memory: a crash takes it away. *)
Lose ==
    /\ view' = NoAccount
    /\ UNCHANGED <<history, durable>>

Next == Change \/ Persist \/ Recover \/ Lose

Spec == Init /\ [][Next]_vars
=============================================================================
