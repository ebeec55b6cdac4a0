------------------------------- MODULE MCJobs -------------------------------
(***************************************************************************)
(* Two clients that each create the jobs of two keys and report on them.   *)
(***************************************************************************)
EXTENDS JobProperties

CONSTANTS J1, J2, k1, k2, p, r, e

CreateOf(key) == [op |-> "create", key |-> key, payload |-> p]
UpdateOf(id, status, result, error) ==
    [op |-> "update", id |-> id, status |-> status, result |-> result, error |-> error]

MCRequests ==
    {CreateOf(k1), CreateOf(k2), UpdateOf(J1, "RUNNING", None, None),
     UpdateOf(J1, "COMPLETED", r, None), UpdateOf(J1, "FAILED", None, e),
     UpdateOf(J2, "FAILED", None, e)}
=============================================================================
