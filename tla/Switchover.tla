----------------------------- MODULE Switchover ----------------------------
(***************************************************************************)
(* `cf mysql-tools setup-replication` and `switchover`: the two workflows  *)
(* of multisite/ over two foundations, each reached through the handler of *)
(* multisite/foundation, which runs the cf CLI.                            *)
(*                                                                         *)
(* A run is an execution of one of the commands, started anew after it has *)
(* failed.  The workflows are straight lines of calls that stop at the     *)
(* first error, so a run is a position in the list of its calls.  A        *)
(* switchover asks the operator first, unless --force is given.            *)
(* `cf update-service --wait` is two steps of a run: the cloud controller  *)
(* takes the request, the broker carries it out on its own, and the run    *)
(* waits for the result; a run that is killed or loses its connection      *)
(* leaves the request to the broker.                                       *)
(***************************************************************************)
EXTENDS Naturals, Sequences

CONSTANTS
    Runs,         \* numbers of the operators, each giving a command until it succeeds
    A, B,         \* the two foundations, each with one instance of the pair
    Commands,     \* the commands each operator may give
    Paired,       \* TRUE if B follows A at first, FALSE if both are new
    Plans,        \* service plans
    PlanAtFirst,  \* the plan of each instance at first
    Offered,      \* the plans of each foundation's marketplace
    Inside,       \* <<p, q>>: p's name occurs in the marketplace's text about plan q
    Overlap,      \* FALSE if an operator starts after those before it have succeeded,
                  \* TRUE if several may give the same command at the same time
    MaxFailures,  \* how many calls, operations and processes fail in all
    None

Sites    == {A, B}
Other(f) == IF f = A THEN B ELSE A
Command  == [name : {"setup", "switch"}, primary : Sites]

ASSUME SitesAssumption == A # B /\ None \notin Sites
ASSUME CommandsAssumption ==
    /\ Runs \subseteq Nat
    /\ Commands \in [Runs -> SUBSET Command]
    /\ \A r \in Runs : Commands[r] # {}
    /\ Paired \in BOOLEAN /\ Overlap \in BOOLEAN
ASSUME PlansAssumption ==
    /\ None \notin Plans
    /\ PlanAtFirst \in [Sites -> Plans]
    /\ Offered \in [Sites -> SUBSET Plans]
    /\ Inside \subseteq Plans \X Plans
    /\ MaxFailures \in Nat

\* The calls of the workflows, and the side each is made on.
Call(call, side) == [call |-> call, side |-> side]

\* Mutant: the roles of the keys are swapped.
KeysSwapped ==
    <<Call("exists", "primary"), Call("exists", "secondary"),
      Call("hostKey", "primary"), Call("register", "secondary"),
      Call("credKey", "secondary"), Call("follow", "primary")>>

SetupCalls ==
    <<Call("exists", "primary"), Call("exists", "secondary"),
      Call("hostKey", "secondary"), Call("register", "primary"),
      Call("credKey", "primary"), Call("follow", "secondary")>>

\* Mutant: the old leader is not made to follow the new one.
FollowForgotten ==
    <<Call("exists", "primary"), Call("planName", "primary"), Call("planExists", "secondary"),
      Call("exists", "secondary"), Call("planName", "secondary"), Call("planExists", "primary"),
      Call("demote", "primary"), Call("promote", "secondary"),
      Call("hostKey", "primary"), Call("register", "secondary")>>

SwitchCalls ==
    <<Call("exists", "primary"), Call("planName", "primary"), Call("planExists", "secondary"),
      Call("exists", "secondary"), Call("planName", "secondary"), Call("planExists", "primary"),
      Call("demote", "primary"), Call("promote", "secondary"),
      Call("hostKey", "primary"), Call("register", "secondary"),
      Call("credKey", "secondary"), Call("follow", "primary")>>

Updates == {"demote", "promote", "register", "follow"}

VARIABLES
    cmd,       \* the command of each run
    state,     \* whether a run asks, calls or waits, or how it has ended
    step,      \* the position of each run in the list of its calls
    planOf,    \* the plan a run has read on each side
    key,       \* the instance the key a run holds is about
    writable,  \* the instances that accept writes
    follows,   \* the instance each one replicates from
    knows,     \* the follower registered with each instance
    plan,      \* the plan of each instance
    request,   \* the update each instance's broker is carrying out
    result,    \* how the last update of each instance ended
    failures   \* what has failed so far

runVars  == <<cmd, state, step, planOf, key>>
siteVars == <<writable, follows, knows, plan>>
opVars   == <<request, result>>
vars     == <<runVars, siteVars, opVars, failures>>

\* "cancelled" and "done" both end the process with status 0.
States == {"idle", "asking", "calling", "waiting", "done", "cancelled", "failed", "killed"}

Requests == [call : Updates, key : Sites \union {None}, plan : Plans \union {None}]

ASSUME RequestsAssumption == None \notin Requests

TypeOK ==
    /\ cmd \in [Runs -> Command]
    /\ state \in [Runs -> States]
    /\ step \in [Runs -> 1 .. 12]
    /\ planOf \in [Runs -> [{"primary", "secondary"} -> Plans \union {None}]]
    /\ key \in [Runs -> Sites \union {None}]
    /\ writable \in [Sites -> BOOLEAN]
    /\ follows \in [Sites -> Sites \union {None}]
    /\ knows \in [Sites -> Sites \union {None}]
    /\ plan \in [Sites -> Plans]
    /\ request \in [Sites -> Requests \union {None}]
    /\ result \in [Sites -> {"ok", "failed"}]
    /\ failures \in Nat

NoPlans == [side \in {"primary", "secondary"} |-> None]

Init ==
    /\ cmd = [r \in Runs |-> CHOOSE c \in Commands[r] : TRUE]   \* chosen by Start
    /\ state = [r \in Runs |-> "idle"]
    /\ step = [r \in Runs |-> 1]
    /\ planOf = [r \in Runs |-> NoPlans]
    /\ key = [r \in Runs |-> None]
    /\ writable = [f \in Sites |-> ~Paired \/ f = A]
    /\ follows = [f \in Sites |-> IF Paired /\ f = B THEN A ELSE None]
    /\ knows = [f \in Sites |-> IF Paired /\ f = A THEN B ELSE None]
    /\ plan = PlanAtFirst
    /\ request = [f \in Sites |-> None]
    /\ result = [f \in Sites |-> "ok"]
    /\ failures = 0

-----------------------------------------------------------------------------
(* Control flow of a run *)

Calls(r)      == IF cmd[r].name = "setup" THEN SetupCalls ELSE SwitchCalls
Side(r)       == Calls(r)[step[r]].side
Site(r, side) == IF side = "primary" THEN cmd[r].primary ELSE Other(cmd[r].primary)
Here(r)       == Site(r, Side(r))
OtherSide(r)  == IF Side(r) = "primary" THEN "secondary" ELSE "primary"
Active(r)     == state[r] \in {"asking", "calling", "waiting"}

Calling(r, call) == state[r] = "calling" /\ Calls(r)[step[r]].call = call

\* Mutant: the position moves on past the last call.
AdvancePast(r) ==
    /\ step' = [step EXCEPT ![r] = @ + 1]
    /\ state' = [state EXCEPT ![r] = IF step[r] = Len(Calls(r)) THEN "done" ELSE "calling"]

Advance(r) ==
    IF step[r] = Len(Calls(r))
      THEN state' = [state EXCEPT ![r] = "done"] /\ UNCHANGED step
      ELSE /\ state' = [state EXCEPT ![r] = "calling"]
           /\ step' = [step EXCEPT ![r] = @ + 1]

Fail(r) == state' = [state EXCEPT ![r] = "failed"] /\ UNCHANGED step

\* Something outside the plugin goes wrong.
Failure == failures < MaxFailures /\ failures' = failures + 1

\* Whether an operator may give command c now.
MayStart(r, c) ==
    IF Overlap THEN \A q \in Runs \ {r} : Active(q) => cmd[q] = c
               ELSE \A q \in Runs : q < r => state[q] = "done"

\* An operator gives a command, for the first time or again; --force, which only
\* a switchover has, skips the question.
Start(r) ==
    /\ state[r] \in {"idle", "cancelled", "failed", "killed"}
    /\ \E c \in Commands[r] :
         /\ MayStart(r, c)
         /\ cmd' = [cmd EXCEPT ![r] = c]
         /\ \/ c.name = "switch" /\ state' = [state EXCEPT ![r] = "asking"]
            \/ state' = [state EXCEPT ![r] = "calling"]
    /\ step' = [step EXCEPT ![r] = 1]
    /\ planOf' = [planOf EXCEPT ![r] = NoPlans]
    /\ key' = [key EXCEPT ![r] = None]
    /\ UNCHANGED <<siteVars, opVars, failures>>

\* DisplayBoolPrompt: any answer but yes, and one that cannot be read, cancels.
Answer(r) ==
    /\ state[r] = "asking"
    /\ \/ state' = [state EXCEPT ![r] = "calling"] /\ UNCHANGED failures
       \/ Failure /\ state' = [state EXCEPT ![r] = "cancelled"]
    /\ UNCHANGED <<cmd, step, planOf, key, siteVars, opVars>>

Kill(r) ==
    /\ Active(r)
    /\ Failure
    /\ state' = [state EXCEPT ![r] = "killed"]
    /\ UNCHANGED <<cmd, step, planOf, key, siteVars, opVars>>

-----------------------------------------------------------------------------
(* The calls that change nothing at the foundation *)

InstanceExists(r) ==
    /\ Calling(r, "exists")
    /\ \/ Advance(r) /\ UNCHANGED failures
       \/ Failure /\ Fail(r)
    /\ UNCHANGED <<cmd, planOf, key, siteVars, opVars>>

InstancePlanName(r) ==
    /\ Calling(r, "planName")
    /\ \/ /\ Advance(r) /\ UNCHANGED failures
          /\ planOf' = [planOf EXCEPT ![r][Side(r)] = plan[Here(r)]]
       \/ Failure /\ Fail(r) /\ UNCHANGED planOf
    /\ UNCHANGED <<cmd, key, siteVars, opVars>>

\* The plan's name occurs somewhere in the text of the marketplace.
Listed(p, f) == p \in Offered[f] \/ \E q \in Offered[f] : <<p, q>> \in Inside

\* Whether the plan of the instance on the other side exists on this one.
PlanExists(r) ==
    /\ Calling(r, "planExists")
    /\ \/ Listed(planOf[r][OtherSide(r)], Here(r)) /\ Advance(r) /\ UNCHANGED failures
       \/ ~Listed(planOf[r][OtherSide(r)], Here(r)) /\ Fail(r) /\ UNCHANGED failures
       \/ Failure /\ Fail(r)
    /\ UNCHANGED <<cmd, planOf, key, siteVars, opVars>>

\* create-service-key and service-key, for host-info or for credentials.
CreateKey(r, call) ==
    /\ Calling(r, call)
    /\ \/ Advance(r) /\ key' = [key EXCEPT ![r] = Here(r)] /\ UNCHANGED failures
       \/ Failure /\ Fail(r) /\ UNCHANGED key
    /\ UNCHANGED <<cmd, planOf, siteVars, opVars>>

CreateHostInfoKey(r)    == CreateKey(r, "hostKey")
CreateCredentialsKey(r) == CreateKey(r, "credKey")

-----------------------------------------------------------------------------
(* UpdateServiceAndWait *)

\* Mutant: each instance keeps its own plan.
PlansKept(r) ==
    [call |-> Calls(r)[step[r]].call,
     key  |-> IF Calls(r)[step[r]].call \in {"register", "follow"} THEN key[r] ELSE None,
     plan |-> IF Calls(r)[step[r]].call \in {"demote", "promote"} THEN planOf[r][Side(r)] ELSE None]

\* What is asked for: a demotion or promotion also moves the instance to the
\* plan the other one had.
Requested(r) ==
    [call |-> Calls(r)[step[r]].call,
     key  |-> IF Calls(r)[step[r]].call \in {"register", "follow"} THEN key[r] ELSE None,
     plan |-> IF Calls(r)[step[r]].call \in {"demote", "promote"} THEN planOf[r][OtherSide(r)]
              ELSE None]

\* The cloud controller runs one operation at a time and knows its plans.
Acceptable(r) ==
    /\ request[Here(r)] = None
    /\ Requested(r).plan \in Offered[Here(r)] \union {None}

Update(r) ==
    /\ \E call \in Updates : Calling(r, call)
    /\ \/ /\ Acceptable(r)
          /\ request' = [request EXCEPT ![Here(r)] = Requested(r)]
          /\ \/ state' = [state EXCEPT ![r] = "waiting"] /\ UNCHANGED <<step, failures>>
             \/ Failure /\ Fail(r)
       \/ ~Acceptable(r) /\ Fail(r) /\ UNCHANGED <<request, failures>>
       \/ Failure /\ Fail(r) /\ UNCHANGED request
    /\ UNCHANGED <<cmd, planOf, key, siteVars, result>>

\* Mutant: a failed operation counts as done.
AnyResult(f) == TRUE

Succeeded(f) == result[f] = "ok"

\* Mutant: only a success ends the wait.
WaitForSuccess(r) ==
    /\ state[r] = "waiting"
    /\ \/ /\ request[Here(r)] = None /\ UNCHANGED failures
          /\ Succeeded(Here(r)) /\ Advance(r)
       \/ Failure /\ Fail(r)
    /\ UNCHANGED <<cmd, planOf, key, siteVars, opVars>>

Wait(r) ==
    /\ state[r] = "waiting"
    /\ \/ /\ request[Here(r)] = None /\ UNCHANGED failures
          /\ IF Succeeded(Here(r)) THEN Advance(r) ELSE Fail(r)
       \/ Failure /\ Fail(r)
    /\ UNCHANGED <<cmd, planOf, key, siteVars, opVars>>

-----------------------------------------------------------------------------
(* The service broker of a foundation *)

\* Roles change as asked; asking again for what is already so changes nothing.
ChangeRole(f, req) ==
    /\ writable' = [writable EXCEPT ![f] =
                      req.call = "promote" \/ (@ /\ req.call = "register")]
    /\ follows' = [follows EXCEPT ![f] =
                      IF req.call = "promote" THEN None
                      ELSE IF req.call = "follow" THEN req.key ELSE @]
    /\ knows' = [knows EXCEPT ![f] = IF req.call = "register" THEN req.key ELSE @]

\* An operation that fails may have changed the role, but not the plan.
Broker(f) ==
    /\ request[f] # None
    /\ request' = [request EXCEPT ![f] = None]
    /\ \/ /\ ChangeRole(f, request[f])
          /\ plan' = [plan EXCEPT ![f] = IF request[f].plan = None THEN @ ELSE request[f].plan]
          /\ result' = [result EXCEPT ![f] = "ok"]
          /\ UNCHANGED failures
       \/ /\ Failure
          /\ ChangeRole(f, request[f]) \/ UNCHANGED <<writable, follows, knows>>
          /\ result' = [result EXCEPT ![f] = "failed"]
          /\ UNCHANGED plan
    /\ UNCHANGED runVars

-----------------------------------------------------------------------------
Step(r) ==
    \/ Answer(r) \/ InstanceExists(r) \/ InstancePlanName(r) \/ PlanExists(r)
    \/ CreateHostInfoKey(r) \/ CreateCredentialsKey(r)
    \/ Update(r) \/ Wait(r)

Next ==
    \/ \E r \in Runs : Start(r) \/ Kill(r) \/ Step(r)
    \/ \E f \in Sites : Broker(f)

Spec == Init /\ [][Next]_vars

\* A live run goes on, the broker carries out what it has taken, and the
\* operator gives the next command.
Fairness ==
    /\ \A r \in Runs : WF_vars(Step(r)) /\ WF_vars(Start(r))
    /\ \A f \in Sites : WF_vars(Broker(f))

FairSpec == Spec /\ Fairness

-----------------------------------------------------------------------------
(* Properties *)

\* Once one instance follows the other, the two never accept writes at the same
\* time, whichever calls and operations fail and whatever command is given next:
\* the follower is promoted only after the leader has been demoted
\* (multisite/switchover_replication_workflow.go:39-46).
OneWriter == ~(writable[A] /\ writable[B])

Returns(r) == state[r] # "done" /\ state'[r] = "done"

\* "Successfully switched replication roles": when a switchover returns without
\* an error the secondary accepts writes, the primary follows it and is
\* registered with it, and each has the plan the other had when it was read.
SwitchedOver ==
    [][\A r \in Runs : Returns(r) /\ cmd[r].name = "switch" =>
         LET p == cmd[r].primary
             s == Other(p)
         IN  /\ writable[s] /\ ~writable[p]
             /\ follows[s] = None /\ follows[p] = s /\ knows[s] = p
             /\ plan[p] = planOf[r]["secondary"] /\ plan[s] = planOf[r]["primary"]]_vars

\* "Successfully configured replication": the secondary follows the primary and
\* is registered with it, and the primary has accepted writes all along.
SetUp ==
    [][/\ \A r \in Runs : Returns(r) /\ cmd[r].name = "setup" =>
            LET p == cmd[r].primary
            IN  writable[p] /\ follows[Other(p)] = p /\ knows[p] = Other(p)
       /\ \A r \in Runs : cmd[r].name = "setup" /\ Active(r) /\ writable[cmd[r].primary] =>
            writable'[cmd[r].primary]]_vars

\* Giving the same command again until it succeeds is enough: once nothing fails
\* any more it does, whatever the earlier attempts left half done.
RetryCompletes == <>(\A r \in Runs : state[r] = "done")

\* The pair as Leadership sees it.
Leaders   == {f \in Sites : writable[f]}
Followers == {f \in Sites : follows[f] = Other(f)}

Pair == INSTANCE Leadership WITH leaders <- Leaders, followers <- Followers

\* Leadership is handed to a follower: as long as an operator gives the same
\* command until it succeeds, no failed, killed or repeated switchover makes an
\* instance a leader that has not replicated from the last one, takes
\* leadership from one that nobody replicates, or makes one follow a dead end.
HandsOver == Pair!Spec

\* "the plans are switched as expected" (specs/multisite/multisite_test.go:217):
\* the first switchover that succeeds, after whatever attempts that failed, has
\* exchanged the plans the two instances had at first.
PlansExchanged ==
    [][\A r \in Runs : Returns(r) /\ cmd[r].name = "switch" /\ (\A q \in Runs : state[q] # "done")
         => \A f \in Sites : plan[f] = PlanAtFirst[Other(f)]]_vars
=============================================================================
