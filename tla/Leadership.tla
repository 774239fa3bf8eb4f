---------------------------- MODULE Leadership -----------------------------
(***************************************************************************)
(* What setting up and switching over promise of two instances, with no    *)
(* calls, plans, keys or failures.  Two new instances lead themselves.     *)
(* Once one follows the other there is one leader at most, and leadership  *)
(* is only handed to a follower: a leader steps down only when the other   *)
(* instance replicates from it, only an instance that has replicated from  *)
(* the last leader takes over, and only while there is none, and an        *)
(* instance begins to follow only a leader.                                *)
(***************************************************************************)
CONSTANTS A, B   \* the two instances

VARIABLES
    leaders,    \* the instances that accept writes
    followers   \* the instances that replicate from the other one

vars == <<leaders, followers>>

Sites    == {A, B}
Other(f) == IF f = A THEN B ELSE A

Init ==
    \/ leaders = Sites /\ followers = {}
    \/ \E f \in Sites : leaders = {f} /\ followers = {Other(f)}

\* A follower gives up what it has written itself.
Follow(f) ==
    /\ Other(f) \in leaders
    /\ leaders' = leaders \ {f}
    /\ followers' = followers \union {f}

StepDown(f) ==
    /\ f \in leaders
    /\ Other(f) \in followers
    /\ leaders' = leaders \ {f}
    /\ UNCHANGED followers

TakeOver(f) ==
    /\ leaders = {}
    /\ f \in followers
    /\ leaders' = {f}
    /\ followers' = followers \ {f}

Next == \E f \in Sites : Follow(f) \/ StepDown(f) \/ TakeOver(f)

Spec == Init /\ [][Next]_vars
=============================================================================
