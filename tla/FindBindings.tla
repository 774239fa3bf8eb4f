---------------------------- MODULE FindBindings ----------------------------
(***************************************************************************)
(* `cf mysql-tools find-bindings`: BindingFinder.FindBindings              *)
(* (find-bindings/finder.go) over the lazily connected client of           *)
(* cf/find_bindings_client.go, and the command that prints what it found.  *)
(*                                                                         *)
(* The finder asks the Cloud Controller one thing after another, and never *)
(* asks again.  Between two answers other people create, update, bind,     *)
(* unbind and delete, and the one token the client was given may expire.   *)
(* A list request is one look at the space, however many pages it takes.   *)
(***************************************************************************)
EXTENDS Naturals

CONSTANTS
    Plans,       \* plans of the service
    Instances,   \* its service instances, now or later
    Apps, Keys,  \* app bindings and service keys, now or later
    Of,          \* the instance each is of
    Services,    \* how many services may carry the label
    MaxChanges,  \* bound: how often others change something
    None

Items == Apps \union Keys

ASSUME FindAssumption ==
    /\ Apps \intersect Keys = {}
    /\ Of \in [Items -> Instances]
    /\ Services \subseteq Nat /\ MaxChanges \in Nat
    /\ None \notin Plans \union Instances

VARIABLES
    plan,     \* the plan of an instance, None when it does not exist
    bound,    \* bindings and keys that exist
    changes,
    token,    \* the client's: none before it has connected, then good or expired
    pc,
    todo,     \* plans whose instances are still to be listed
    left,     \* how often the list of instances still has each
    at,       \* the instance whose bindings or keys are looked up
    queue,    \* those of its bindings or keys still to be looked up
    rows,     \* how often the result has each binding or key
    errs,     \* an error has been collected
    steady,   \* history: what has existed all along, its instance under one plan
    ever,     \* history: what has existed at some time
    lost      \* history: what a failed answer was about

world   == <<plan, bound, changes, steady, ever>>
finder  == <<pc, todo, left, at, queue, rows, errs>>
vars == <<world, token, finder, lost>>

Asking == {"services", "plans", "instances", "apps", "keys"}
Ended  == {"failed", "table", "nothing"}

TypeOK ==
    /\ plan \in [Instances -> Plans \union {None}]
    /\ bound \subseteq Items /\ \A b \in bound : plan[Of[b]] # None
    /\ changes \in 0 .. MaxChanges
    /\ token \in {"none", "good", "expired"}
    /\ pc \in Asking \union Ended
    /\ todo \subseteq Plans
    /\ left \in [Instances -> Nat]
    /\ at \in Instances \union {None}
    /\ queue \subseteq {b \in Items : Of[b] = at}
    /\ rows \in [Items -> Nat]
    /\ errs \in BOOLEAN
    /\ steady \subseteq bound /\ bound \subseteq ever /\ ever \subseteq Items
    /\ lost \subseteq Items

Init ==
    /\ plan \in [Instances -> Plans \union {None}]
    /\ bound \in SUBSET {b \in Items : plan[Of[b]] # None}
    /\ changes = 0
    /\ token = "none"
    /\ pc = "services" /\ todo = {} /\ queue = {} /\ at = None /\ errs = FALSE
    /\ left = [i \in Instances |-> 0]
    /\ rows = [b \in Items |-> 0]
    /\ steady = bound /\ ever = bound /\ lost = {}

-----------------------------------------------------------------------------
(* The Cloud Controller, changed by others *)

Change ==
    /\ changes < MaxChanges /\ changes' = changes + 1
    /\ UNCHANGED <<token, finder, lost>>

Create(i, p) ==
    /\ Change /\ plan[i] = None
    /\ plan' = [plan EXCEPT ![i] = p]
    /\ UNCHANGED <<bound, steady, ever>>

\* `cf update-service -p`: the instance moves from one list to another.
Update(i, p) ==
    /\ Change /\ plan[i] \notin {None, p}
    /\ plan' = [plan EXCEPT ![i] = p]
    /\ steady' = {b \in steady : Of[b] # i}
    /\ UNCHANGED <<bound, ever>>

\* An instance is deleted only when nothing is bound to it.
Delete(i) ==
    /\ Change /\ plan[i] # None
    /\ \A b \in bound : Of[b] # i
    /\ plan' = [plan EXCEPT ![i] = None]
    /\ UNCHANGED <<bound, steady, ever>>

Bind(b) ==
    /\ Change /\ b \notin bound /\ plan[Of[b]] # None
    /\ bound' = bound \union {b} /\ ever' = ever \union {b}
    /\ UNCHANGED <<plan, steady>>

Unbind(b) ==
    /\ Change /\ b \in bound
    /\ bound' = bound \ {b} /\ steady' = steady \ {b}
    /\ UNCHANGED <<plan, ever>>

\* The client was given a token, not the means to renew it.
Expire ==
    /\ token = "good" /\ token' = "expired"
    /\ UNCHANGED <<world, finder, lost>>

-----------------------------------------------------------------------------
(* The client: the first request, and each one until it succeeds, connects *)

Answered == token # "expired" /\ token' = "good"

\* A request fails, or the connection that goes before it.
Refused(S) ==
    /\ token' \in IF token = "none" THEN {"none", "good"} ELSE {token}
    /\ lost' = lost \union S
    /\ UNCHANGED world

-----------------------------------------------------------------------------
(* FindBindings *)

Ask(step) == pc = step /\ UNCHANGED world

\* Without the service or its plans there is no result at all.
GiveUp(S) ==
    /\ Refused(S)
    /\ pc' = "failed" /\ errs' = TRUE
    /\ UNCHANGED <<todo, left, at, queue, rows>>

ListServices ==
    /\ Ask("services")
    /\ \/ \E n \in Services :
            /\ Answered
            /\ IF n = 1 THEN pc' = "plans" /\ UNCHANGED <<errs, lost>>
                        ELSE pc' = "failed" /\ errs' = TRUE /\ lost' = Items
            /\ UNCHANGED <<todo, left, at, queue, rows>>
       \/ GiveUp(Items)

ListPlans ==
    /\ Ask("plans")
    /\ \/ /\ Answered
          /\ todo' = Plans /\ pc' = "instances"
          /\ UNCHANGED <<left, at, queue, rows, errs, lost>>
       \/ GiveUp(Items)

\* Mutant: a plan whose instances could not be listed is tried again.
RetryInstances(p) ==
    /\ Ask("instances") /\ p \in todo
    /\ \/ /\ Answered /\ todo' = todo \ {p}
          /\ left' = [i \in Instances |-> IF plan[i] = p THEN left[i] + 1 ELSE left[i]]
          /\ UNCHANGED <<errs, lost>>
       \/ /\ Refused({}) /\ errs' = TRUE
          /\ UNCHANGED <<todo, left>>
    /\ UNCHANGED <<pc, at, queue, rows>>

\* Mutant: the first plan whose instances cannot be listed ends the listing.
StopAtPlan(p) ==
    /\ Ask("instances") /\ p \in todo
    /\ \/ /\ Answered /\ todo' = todo \ {p}
          /\ left' = [i \in Instances |-> IF plan[i] = p THEN left[i] + 1 ELSE left[i]]
          /\ UNCHANGED <<errs, lost>>
       \/ /\ Refused({b \in Items : plan[Of[b]] = p})
          /\ todo' = {} /\ errs' = TRUE
          /\ UNCHANGED left
    /\ UNCHANGED <<pc, at, queue, rows>>

ListInstances(p) ==
    /\ Ask("instances") /\ p \in todo
    /\ todo' = todo \ {p}
    /\ \/ /\ Answered
          /\ left' = [i \in Instances |-> IF plan[i] = p THEN left[i] + 1 ELSE left[i]]
          /\ UNCHANGED <<errs, lost>>
       \/ /\ Refused({b \in Items : plan[Of[b]] = p})
          /\ errs' = TRUE
          /\ UNCHANGED left
    /\ UNCHANGED <<pc, at, queue, rows>>

\* Mutant: the query for the instance is lost and everybody's bindings come back.
ListAnyItems(i, S) ==
    \/ /\ Answered
       /\ queue' = bound \intersect S
       /\ UNCHANGED <<errs, lost>>
    \/ /\ Refused({b \in S : Of[b] = i})
       /\ errs' = TRUE /\ queue' = {}

\* The bindings or keys of an instance, or an error and none of them.
ListItems(i, S) ==
    \/ /\ Answered
       /\ queue' = {b \in bound \intersect S : Of[b] = i}
       /\ UNCHANGED <<errs, lost>>
    \/ /\ Refused({b \in S : Of[b] = i})
       /\ errs' = TRUE /\ queue' = {}

\* The instance is done with, if there is one, and all plans are.
Ready == pc \in {"instances", "keys"} /\ todo = {} /\ queue = {}

ListBindings(i) ==
    /\ Ready /\ left[i] > 0
    /\ left' = [left EXCEPT ![i] = @ - 1]
    /\ at' = i /\ pc' = "apps"
    /\ ListItems(i, Apps)
    /\ UNCHANGED <<world, todo, rows>>

ListKeys ==
    /\ Ask("apps") /\ queue = {}
    /\ pc' = "keys"
    /\ ListItems(at, Keys)
    /\ UNCHANGED <<todo, left, at, rows>>

ItemFailed(b) ==
    /\ Refused({b})
    /\ errs' = TRUE
    /\ UNCHANGED rows

\* GetAppByGuid for a binding; GetSpaceByGuid and GetOrgByGuid for a key.  The
\* binding itself is not looked at again: it may be gone by now.
LookUpItem(b) ==
    /\ pc \in {"apps", "keys"} /\ b \in queue
    /\ queue' = queue \ {b}
    /\ \/ Answered /\ rows' = [rows EXCEPT ![b] = @ + 1] /\ UNCHANGED <<errs, lost>>
       \/ ItemFailed(b)
    /\ UNCHANGED <<world, pc, todo, left, at>>

\* "No bindings found." takes the place of an empty table.
Report == IF \A b \in Items : rows[b] = 0 THEN "nothing" ELSE "table"

\* Mutant: what was found is printed although something failed.
PrintAnyway ==
    /\ Ready /\ \A i \in Instances : left[i] = 0
    /\ pc' = Report
    /\ UNCHANGED <<world, token, todo, left, at, queue, rows, errs, lost>>

\* FindBindings returns; the command prints the result or the errors.
Return ==
    /\ Ready /\ \A i \in Instances : left[i] = 0
    /\ pc' = IF errs THEN "failed" ELSE Report
    /\ UNCHANGED <<world, token, todo, left, at, queue, rows, errs, lost>>

-----------------------------------------------------------------------------
FindBindings ==
    \/ ListServices \/ ListPlans \/ ListKeys \/ Return
    \/ \E p \in Plans : ListInstances(p)
    \/ \E i \in Instances : ListBindings(i)
    \/ \E b \in Items : LookUpItem(b)

Others ==
    \/ \E i \in Instances, p \in Plans : Create(i, p) \/ Update(i, p)
    \/ \E i \in Instances : Delete(i)
    \/ \E b \in Items : Bind(b) \/ Unbind(b)
    \/ Expire

Next == FindBindings \/ Others

\* The finder takes its next step while the process runs; others need not act.
Spec == Init /\ [][Next]_vars /\ WF_vars(FindBindings)

-----------------------------------------------------------------------------
(* Properties *)

Reported == pc \in {"table", "nothing"}
Shown(b) == IF pc = "table" THEN rows[b] ELSE 0

\* What find-bindings prints, "No bindings found." included, has a row for each
\* binding and key that existed throughout under an instance that kept its plan,
\* exactly one, and none for what never existed: no failed request, expired
\* token or change by others makes it print less.
ReportExact ==
    Reported => \A b \in Items : /\ b \in steady => Shown(b) = 1
                                 /\ b \notin ever => Shown(b) = 0

\* A failed request costs the result nothing but what it was about: the finder
\* goes on with the other plans, instances, bindings and keys.
OthersSurvive == pc \in Ended => \A b \in steady \ lost : rows[b] = 1

\* The finder comes to an end whatever fails and whatever others do.
Ends == <>(pc \in Ended)
=============================================================================
