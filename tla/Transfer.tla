------------------------------ MODULE Transfer -----------------------------
(***************************************************************************)
(* What the driver relies on when it runs the migration task (TaskCopy,    *)
(* TaskSucceed and TaskFail of Migrate): while the task runs the copy may  *)
(* hold anything; the task succeeds only with a full copy, and once it has *)
(* a result it leaves the copy alone.                                      *)
(***************************************************************************)
VARIABLES
    result,  \* "running", "succeeded" or "failed"
    copy     \* what the new instance holds: "none", "partial" or "full"

vars == <<result, copy>>

Init ==
    /\ result = "running"
    /\ copy \in {"none", "full"}   \* "full" when there is nothing to copy

Load ==
    /\ result = "running"
    /\ copy' \in {"none", "partial", "full"}
    /\ UNCHANGED result

Succeed ==
    /\ result = "running" /\ copy = "full"
    /\ result' = "succeeded"
    /\ UNCHANGED copy

Fail ==
    /\ result = "running"
    /\ result' = "failed"
    /\ UNCHANGED copy

Next == Load \/ Succeed \/ Fail

Spec == Init /\ [][Next]_vars
=============================================================================
