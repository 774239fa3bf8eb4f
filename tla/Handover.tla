----------------------------- MODULE Handover ------------------------------
(***************************************************************************)
(* What migrating a service instance promises, with no names, calls or     *)
(* failures: README.md says that the data is copied into a new instance    *)
(* which then has the donor's name.  The donor's name leads to the         *)
(* original until some copy is complete, then for a moment nowhere, then   *)
(* to that copy; a copy may be thrown away at any time, but not while the  *)
(* name leads nowhere and not once the name leads to it.                   *)
(***************************************************************************)
CONSTANTS
    Runs,   \* attempts to migrate, each with a copy of its own
    Orig,   \* the original instance
    None    \* no instance

VARIABLES
    serving,  \* the instance behind the donor's name
    copy      \* what has become of each run's copy

vars == <<serving, copy>>

Init ==
    /\ serving = Orig
    /\ copy = [r \in Runs |-> "absent"]

Build(r) ==
    /\ copy[r] = "absent"
    /\ copy' = [copy EXCEPT ![r] = "building"]
    /\ UNCHANGED serving

Complete(r) ==
    /\ copy[r] = "building"
    /\ copy' = [copy EXCEPT ![r] = "complete"]
    /\ UNCHANGED serving

Discard(r) ==
    /\ copy[r] \in {"building", "complete"}
    /\ serving \notin {None, r}
    /\ copy' = [copy EXCEPT ![r] = "gone"]
    /\ UNCHANGED serving

Archive ==
    /\ serving = Orig
    /\ \E r \in Runs : copy[r] = "complete"
    /\ serving' = None
    /\ UNCHANGED copy

Promote(r) ==
    /\ serving = None
    /\ copy[r] = "complete"
    /\ serving' = r
    /\ UNCHANGED copy

Next ==
    \/ Archive
    \/ \E r \in Runs : Build(r) \/ Complete(r) \/ Discard(r) \/ Promote(r)

Spec == Init /\ [][Next]_vars
=============================================================================
