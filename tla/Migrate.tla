------------------------------ MODULE Migrate ------------------------------
(***************************************************************************)
(* `cf mysql-tools migrate <donor> <plan>`: the driver in                  *)
(* plugin/commands/migrate.go, the steps of migrate/migrate.go it calls    *)
(* and the cf calls of cf/migrator_client.go those make, against one Cloud *)
(* Foundry space.                                                          *)
(*                                                                         *)
(* A run is one execution of the command.  Every run of the model migrates *)
(* the same donor, so all of them use the same three names; an instance    *)
(* is known to the plugin only by the name it has at the time of a call.   *)
(* The space (names, instances, apps, tasks) outlives a run that is killed.*)
(***************************************************************************)
EXTENDS Naturals

CONSTANTS
    Runs,          \* executions of the command; a run also names the instance it creates
    Cleanup,       \* the runs started without --no-cleanup
    Orig,          \* the instance that carries the donor's name at first
    Foreign,       \* an instance somebody else made under one of the other names
    None,          \* no instance
    Overlap,       \* TRUE if a run may start while another is active
    Faults,        \* how a cf call may go wrong: "fail" (no effect), "lost" (effect, then an error)
    TakenAnswers,  \* what create-service says of a name already taken: "error", "ok" or either
    TokenExpires,  \* TRUE if the CLI's access token may expire
    MaxAttempts    \* MigratorClient.MaxAttempts, 3 in the code

ASSUME RunsAssumption ==
    /\ Cleanup \subseteq Runs
    /\ Orig \notin Runs /\ Foreign \notin Runs /\ None \notin Runs
    /\ Orig # Foreign /\ Orig # None /\ Foreign # None

ASSUME EnvironmentAssumption ==
    /\ Overlap \in BOOLEAN /\ TokenExpires \in BOOLEAN
    /\ Faults \subseteq {"fail", "lost"}
    /\ TakenAnswers \subseteq {"error", "ok"} /\ TakenAnswers # {}
    /\ MaxAttempts \in Nat \ {0}

\* <donor>, <donor>-new and <donor>-old.
Names     == {"donor", "new", "old"}
Instances == Runs \union {Orig, Foreign}
Outcomes  == {"ok"} \union Faults
Attempts  == 0 .. MaxAttempts - 1

VARIABLES
    pc,       \* the step a run is at
    err,      \* what a run is returning: no error, an error, or one of the rename errors
    attempt,  \* consecutive failed polls
    token,    \* the CLI's access token: unused yet, in use, or expired
    names,    \* the instance each name stands for
    op,       \* an instance's last operation: "failed" is a creation, "undeleted" a deletion
              \* that the broker gave up
    data,     \* what an instance holds of the donor's data
    app,      \* the migration app of a run
    bound,    \* the instances bound to that app
    task,     \* the migration task of that app
    src,      \* the instance the task reads
    dst       \* the instance the task writes

cliVars  == <<pc, err, attempt, token>>
instVars == <<names, op, data>>
appVars  == <<app, bound>>
taskVars == <<task, src, dst>>
vars     == <<cliVars, instVars, appVars, taskVars>>

Steps ==
    {"checkDonor", "checkNew", "create", "waitCreate", "unpack", "push",
     "bindDonor", "bindNew", "startApp", "getApp", "createTask", "waitTask",
     "logs", "deleteApp", "cleanup", "renameDonor", "renameNew"}
Ended == {"returned", "killed"}

TypeOK ==
    /\ pc \in [Runs -> Steps \union Ended \union {"idle"}]
    /\ err \in [Runs -> {"none", "error", "renameError"}]
    /\ attempt \in [Runs -> Attempts]
    /\ token \in {"new", "used", "expired"}
    /\ names \in [Names -> Instances \union {None}]
    /\ op \in [Instances ->
                 {"none", "in_progress", "succeeded", "failed", "deleting", "deleted", "undeleted"}]
    /\ data \in [Instances -> {"none", "partial", "full", "other"}]
    /\ app \in [Runs -> {"absent", "pushed", "started"}]
    /\ bound \in [Runs -> SUBSET Instances]
    /\ task \in [Runs -> {"none", "running", "copying", "succeeded", "failed"}]
    /\ src \in [Runs -> Instances \union {None}]
    /\ dst \in [Runs -> Instances \union {None}]

\* A donor with its data; possibly somebody's instance under <donor>-new or
\* <donor>-old; no run started.
Init ==
    /\ pc = [r \in Runs |-> "idle"]
    /\ err = [r \in Runs |-> "none"]
    /\ attempt = [r \in Runs |-> 0]
    /\ token = "new"
    /\ names \in {[n \in Names |-> IF n = "donor" THEN Orig ELSE IF n = taken THEN Foreign ELSE None] :
                    taken \in {"new", "old", "neither"}}
    /\ op = [i \in Instances |-> IF i \in Runs THEN "none" ELSE "succeeded"]
    /\ data = [i \in Instances |->
                 IF i = Orig THEN "full" ELSE IF i = Foreign THEN "other" ELSE "none"]
    /\ app = [r \in Runs |-> "absent"]
    /\ bound = [r \in Runs |-> {}]
    /\ task = [r \in Runs |-> "none"]
    /\ src = [r \in Runs |-> None]
    /\ dst = [r \in Runs |-> None]

-----------------------------------------------------------------------------
(* Control flow of a run *)

Active(r) == pc[r] \in Steps

Continue(r, step) ==
    /\ pc' = [pc EXCEPT ![r] = step]
    /\ attempt' = [attempt EXCEPT ![r] = 0]
    /\ UNCHANGED err

Fail(r, error, step) ==
    /\ pc' = [pc EXCEPT ![r] = step]
    /\ err' = [err EXCEPT ![r] = error]
    /\ attempt' = [attempt EXCEPT ![r] = 0]

\* The command returns an error; nothing is left to clean up.
ReturnError(r) == Fail(r, "error", "returned")

\* The copy is complete but not in place: the error names the missing renames.
ReturnRenameError(r) == Fail(r, "renameError", "returned")

\* CreateServiceInstance or MigrateData returned an error with no app to delete.
CleanUpInstance(r) == Fail(r, "error", IF r \in Cleanup THEN "cleanup" ELSE "returned")

\* MigrateData returns an error once the deferred DeleteApp is registered.
CleanUpApp(r) == Fail(r, "error", IF r \in Cleanup THEN "deleteApp" ELSE "returned")

\* RunTask returned an error.
FailTask(r) == Fail(r, "error", "logs")

\* What GetService(name) may report: a failed request looks like a missing instance.
MayFind(n) == names[n] # None
MayMiss(n) == names[n] = None \/ Faults # {}

\* Mutants: the limit is not checked; a failed request is not counted.
NeverGivesUp(r) == FALSE
RetryUncounted(r) == UNCHANGED <<pc, err, attempt>>

\* A poll that got no answer is repeated until MaxAttempts in a row have failed.
GivesUp(r) == attempt[r] + 1 = MaxAttempts
Retry(r) ==
    /\ attempt' = [attempt EXCEPT ![r] = @ + 1]
    /\ UNCHANGED <<pc, err>>

Applied(out) == out \in {"ok", "lost"}

\* The operator starts the command.
Start(r) ==
    /\ pc[r] = "idle"
    /\ Overlap \/ \A q \in Runs : ~Active(q)
    /\ Continue(r, "checkDonor")
    /\ UNCHANGED <<token, instVars, appVars, taskVars>>

\* The process dies between two calls.
Kill(r) ==
    /\ Active(r)
    /\ pc' = [pc EXCEPT ![r] = "killed"]
    /\ UNCHANGED <<err, attempt, token, instVars, appVars, taskVars>>

\* A token that has just been renewed lasts for one request at least.
ExpireToken ==
    /\ TokenExpires /\ token = "used"
    /\ token' = "expired"
    /\ UNCHANGED <<pc, err, attempt, instVars, appVars, taskVars>>

CheckServiceExists(r) ==
    /\ pc[r] = "checkDonor"
    /\ \/ MayFind("donor") /\ Continue(r, "checkNew")
       \/ MayMiss("donor") /\ ReturnError(r)
    /\ UNCHANGED <<instVars, appVars, taskVars>>

-----------------------------------------------------------------------------
(* CreateServiceInstance *)

\* The recipient's name must be free; any error of the lookup counts as free.
CheckNameFree(r) ==
    /\ pc[r] = "checkNew"
    /\ \/ MayFind("new") /\ CleanUpInstance(r)
       \/ MayMiss("new") /\ Continue(r, "create")
    /\ UNCHANGED <<instVars, appVars, taskVars>>

CreateNew(r, out) ==
    /\ pc[r] = "create"
    /\ names["new"] = None
    /\ IF out = "ok" THEN Continue(r, "waitCreate") ELSE CleanUpInstance(r)
    /\ IF Applied(out)
         THEN /\ names' = [names EXCEPT !["new"] = r]
              /\ op' = [op EXCEPT ![r] = "in_progress"]
         ELSE UNCHANGED <<names, op>>
    /\ UNCHANGED <<data, appVars, taskVars>>

CreateTaken(r, out) ==
    /\ pc[r] = "create"
    /\ names["new"] # None
    /\ \/ out = "ok" /\ "ok" \in TakenAnswers /\ Continue(r, "waitCreate")
       \/ (out # "ok" \/ "error" \in TakenAnswers) /\ CleanUpInstance(r)
    /\ UNCHANGED <<instVars, appVars, taskVars>>

\* The API reports both as a last operation whose state is "failed".
OperationFailed(n) == op[names[n]] \in {"failed", "undeleted"}

\* One round of waitForOperationCompletion.
PollCreate(r) ==
    /\ pc[r] = "waitCreate"
    /\ \/ /\ MayMiss("new")
          /\ IF GivesUp(r) THEN CleanUpInstance(r) ELSE Retry(r)
       \/ /\ MayFind("new")
          /\ \/ op[names["new"]] \in {"in_progress", "deleting"} /\ Continue(r, "waitCreate")
             \/ OperationFailed("new") /\ CleanUpInstance(r)
             \/ op[names["new"]] = "succeeded" /\ Continue(r, "unpack")
    /\ UNCHANGED <<instVars, appVars, taskVars>>

-----------------------------------------------------------------------------
(* MigrateData *)

\* The temporary directory and the assets; both can fail on the local disk.
Unpack(r) ==
    /\ pc[r] = "unpack"
    /\ Continue(r, "push") \/ CleanUpInstance(r)
    /\ UNCHANGED <<instVars, appVars, taskVars>>

\* DeleteApp is deferred only after this call has returned without an error.
PushApp(r, out) ==
    /\ pc[r] = "push"
    /\ IF out = "ok" THEN Continue(r, "bindDonor") ELSE CleanUpInstance(r)
    /\ app' = [app EXCEPT ![r] = IF Applied(out) THEN "pushed" ELSE @]
    /\ UNCHANGED <<instVars, bound, taskVars>>

Bindable(n) == names[n] # None /\ op[names[n]] = "succeeded"

BindService(r, here, n, next, out) ==
    /\ pc[r] = here
    /\ IF out = "ok" /\ Bindable(n) THEN Continue(r, next) ELSE CleanUpApp(r)
    /\ bound' = [bound EXCEPT ![r] =
                   IF Applied(out) /\ Bindable(n) THEN @ \union {names[n]} ELSE @]
    /\ UNCHANGED <<instVars, app, taskVars>>

BindDonor(r, out) == BindService(r, "bindDonor", "donor", "bindNew", out)
BindNew(r, out)   == BindService(r, "bindNew", "new", "startApp", out)

\* Like every command of the CLI but curl, `cf start` renews an expired token;
\* it ends with a token that may be about to expire.
StartApp(r, out) ==
    /\ pc[r] = "startApp"
    /\ IF out = "ok" THEN Continue(r, "getApp") /\ token' \in {"new", "used"}
                    ELSE CleanUpApp(r) /\ UNCHANGED token
    /\ app' = [app EXCEPT ![r] = IF Applied(out) THEN "started" ELSE @]
    /\ UNCHANGED <<instVars, bound, taskVars>>

\* `cf curl` neither notices nor renews an expired token: it prints the error.
TokenGood == token # "expired"

\* GetAppByName: the space and the app, read only.
GetApp(r, out) ==
    /\ pc[r] = "getApp"
    /\ IF out = "ok" /\ TokenGood THEN Continue(r, "createTask") ELSE FailTask(r)
    /\ UNCHANGED <<instVars, appVars, taskVars>>

\* Mutant: the task's two arguments are swapped.
BoundSwapped(r, n) ==
    LET m == IF n = "donor" THEN "new" ELSE "donor"
    IN  IF names[m] \in bound[r] THEN names[m] ELSE None

\* The binding VCAP_SERVICES lists under a name when the task starts.
Bound(r, n) == IF names[n] \in bound[r] THEN names[n] ELSE None

CreateTask(r, out) ==
    /\ pc[r] = "createTask"
    /\ IF out = "ok" /\ TokenGood THEN Continue(r, "waitTask") ELSE FailTask(r)
    /\ IF Applied(out) /\ TokenGood
         THEN /\ task' = [task EXCEPT ![r] = "running"]
              /\ src' = [src EXCEPT ![r] = Bound(r, "donor")]
              /\ dst' = [dst EXCEPT ![r] = Bound(r, "new")]
         ELSE UNCHANGED taskVars
    /\ UNCHANGED <<instVars, appVars>>

\* Mutants: any final state will do; any state will do.
FailedWillDo(r) == IF task[r] \in {"running", "copying"} THEN "wait" ELSE "done"
AnyStateWillDo(r) == IF task[r] = "failed" THEN "failed" ELSE "done"

\* What waitForTask and RunTask make of the task's state.
Verdict(r) ==
    CASE task[r] = "succeeded" -> "done"
      [] task[r] = "failed"    -> "failed"
      [] OTHER                 -> "wait"

NoAnswer(r) == IF GivesUp(r) THEN FailTask(r) ELSE Retry(r)

\* Mutant: the token is not renewed.
KeepToken == token' = token

\* AccessToken, whose error is only logged.
RenewToken == token' = "new" \/ (Faults # {} /\ token' = token)

UseToken == token' = IF token = "new" THEN "used" ELSE token

\* One request of waitForTask through retryCliRequestWithBackoff: an expired
\* token is renewed for the next attempt, and counts as a failed one.
PollTask(r, out) ==
    /\ pc[r] = "waitTask"
    /\ \/ /\ out = "ok" /\ TokenGood /\ UseToken
          /\ \/ Verdict(r) = "wait" /\ Continue(r, "waitTask")
             \/ Verdict(r) = "failed" /\ FailTask(r)
             \/ Verdict(r) = "done" /\ Continue(r, "logs")
       \/ out = "ok" /\ ~TokenGood /\ RenewToken /\ NoAnswer(r)
       \/ out # "ok" /\ UseToken /\ NoAnswer(r)
    /\ UNCHANGED <<instVars, appVars, taskVars>>

AfterTask(r) ==
    IF r \in Cleanup THEN "deleteApp" ELSE IF err[r] = "none" THEN "renameDonor" ELSE "returned"

\* outputMigrationLogs, whatever has become of the task; its error is dropped.
OutputLogs(r) ==
    /\ pc[r] = "logs"
    /\ Continue(r, AfterTask(r))
    /\ UNCHANGED <<instVars, appVars, taskVars>>

\* The deferred DeleteApp; its error is dropped.  Deleting an app stops its task.
DeleteApp(r, out) ==
    /\ pc[r] = "deleteApp"
    /\ IF err[r] = "none" THEN Continue(r, "renameDonor") ELSE CleanUpInstance(r)
    /\ IF Applied(out)
         THEN /\ app' = [app EXCEPT ![r] = "absent"]
              /\ bound' = [bound EXCEPT ![r] = {}]
              /\ task' = [task EXCEPT ![r] = IF @ \in {"running", "copying"} THEN "failed" ELSE @]
         ELSE UNCHANGED <<app, bound, task>>
    /\ UNCHANGED <<instVars, src, dst>>

-----------------------------------------------------------------------------
(* CleanupOnError and RenameServiceInstances *)

\* Mutants: the cleanup is given the donor's name; an instance whose creation
\* has failed is taken to need no cleanup.
DonorToDelete == names["donor"]
UnfailedToDelete ==
    IF \E i \in Instances : names["new"] = i /\ op[i] = "failed" THEN None ELSE names["new"]

\* CleanupOnError is given the recipient's name, whatever instance has it now.
ToDelete == names["new"]

\* delete-service -f; its error is dropped.
CleanupOnError(r, out) ==
    /\ pc[r] = "cleanup"
    /\ ReturnError(r)
    /\ IF Applied(out) /\ ToDelete # None
         THEN /\ op' = [op EXCEPT ![ToDelete] = "deleting"]
              /\ bound' = [q \in Runs |-> bound[q] \ {ToDelete}]
         ELSE UNCHANGED <<op, bound>>
    /\ UNCHANGED <<names, data, app, taskVars>>

Renamable(from, to) ==
    /\ names[from] # None /\ names[to] = None
    /\ op[names[from]] = "succeeded" \/ OperationFailed(from)

RenameService(from, to, out) ==
    IF Applied(out) /\ Renamable(from, to)
      THEN names' = [names EXCEPT ![from] = None, ![to] = names[from]]
      ELSE UNCHANGED names

\* Mutant: a failed rename is cleaned up after like a failed copy.
RenameDonorOrCleanUp(r, out) ==
    /\ pc[r] = "renameDonor"
    /\ IF out = "ok" /\ Renamable("donor", "old") THEN Continue(r, "renameNew") ELSE CleanUpInstance(r)
    /\ RenameService("donor", "old", out)
    /\ UNCHANGED <<op, data, appVars, taskVars>>

RenameDonor(r, out) ==
    /\ pc[r] = "renameDonor"
    /\ IF out = "ok" /\ Renamable("donor", "old") THEN Continue(r, "renameNew") ELSE ReturnRenameError(r)
    /\ RenameService("donor", "old", out)
    /\ UNCHANGED <<op, data, appVars, taskVars>>

\* Mutant: the error of the second rename is dropped.
RenameNewUnchecked(r, out) ==
    /\ pc[r] = "renameNew"
    /\ Continue(r, "returned")
    /\ RenameService("new", "donor", out)
    /\ UNCHANGED <<op, data, appVars, taskVars>>

RenameNew(r, out) ==
    /\ pc[r] = "renameNew"
    /\ IF out = "ok" /\ Renamable("new", "donor") THEN Continue(r, "returned") ELSE ReturnRenameError(r)
    /\ RenameService("new", "donor", out)
    /\ UNCHANGED <<op, data, appVars, taskVars>>

-----------------------------------------------------------------------------
(* The service broker and the migration task, which go on without the CLI *)

BrokerCreate(i) ==
    /\ op[i] = "in_progress"
    /\ \E state \in {"succeeded", "failed"} : op' = [op EXCEPT ![i] = state]
    /\ UNCHANGED <<cliVars, names, data, appVars, taskVars>>

BrokerDelete(i) ==
    /\ op[i] = "deleting"
    /\ \/ /\ op' = [op EXCEPT ![i] = "deleted"]
          /\ names' = [n \in Names |-> IF names[n] = i THEN None ELSE names[n]]
          /\ data' = [data EXCEPT ![i] = "none"]
       \/ /\ op' = [op EXCEPT ![i] = "undeleted"]
          /\ UNCHANGED <<names, data>>
    /\ UNCHANGED <<cliVars, appVars, taskVars>>

Usable(i) == i # None /\ op[i] = "succeeded"

\* mysql starts to load the dump: what the target held is dropped table by table.
TaskCopy(r) ==
    /\ task[r] = "running"
    /\ Usable(src[r]) /\ Usable(dst[r])
    /\ task' = [task EXCEPT ![r] = "copying"]
    /\ data' = [data EXCEPT ![dst[r]] = "partial"]
    /\ UNCHANGED <<cliVars, names, op, appVars, src, dst>>

\* The whole dump is loaded, unless a second task is still reloading the target.
TaskSucceed(r) ==
    /\ task[r] = "copying"
    /\ Usable(src[r]) /\ Usable(dst[r])
    /\ task' = [task EXCEPT ![r] = "succeeded"]
    /\ data' = [data EXCEPT ![dst[r]] =
                  IF \E q \in Runs \ {r} : task[q] = "copying" /\ dst[q] = dst[r]
                    THEN "partial" ELSE data[src[r]]]
    /\ UNCHANGED <<cliVars, names, op, appVars, src, dst>>

TaskFail(r) ==
    /\ task[r] \in {"running", "copying"}
    /\ task' = [task EXCEPT ![r] = "failed"]
    /\ UNCHANGED <<cliVars, instVars, appVars, src, dst>>

-----------------------------------------------------------------------------
Call(r, out) ==
    \/ CreateNew(r, out) \/ CreateTaken(r, out)
    \/ PushApp(r, out) \/ BindDonor(r, out) \/ BindNew(r, out)
    \/ GetApp(r, out) \/ CreateTask(r, out)
    \/ DeleteApp(r, out) \/ CleanupOnError(r, out)
    \/ RenameDonor(r, out) \/ RenameNew(r, out)

Plain(r) ==
    \/ CheckServiceExists(r) \/ CheckNameFree(r) \/ PollCreate(r) \/ Unpack(r)
    \/ OutputLogs(r)
    \/ \E out \in Outcomes : Call(r, out)

Step(r) ==
    \/ Plain(r) /\ UNCHANGED token
    \/ \E out \in Outcomes : StartApp(r, out) \/ PollTask(r, out)

Task(r)   == TaskCopy(r) \/ TaskSucceed(r) \/ TaskFail(r)
Broker(i) == BrokerCreate(i) \/ BrokerDelete(i)

Next ==
    \/ \E r \in Runs : Start(r) \/ Kill(r) \/ Step(r) \/ Task(r)
    \/ ExpireToken
    \/ \E i \in Instances : Broker(i)

Spec == Init /\ [][Next]_vars

\* A live process keeps calling; the broker and the task end what they began.
\* Nothing makes a run start, and nothing makes or keeps a call successful.
Fairness ==
    /\ \A r \in Runs : WF_vars(Step(r)) /\ WF_vars(Task(r))
    /\ \A i \in Instances : WF_vars(Broker(i))

FairSpec == Spec /\ Fairness

-----------------------------------------------------------------------------
(* Properties *)

\* Whatever fails, dies or overlaps, the original instance is never deleted,
\* its data is never written, and one of <donor> and <donor>-old leads to it:
\* the cleanup and the two renames only ever work on names.
DonorSafe ==
    /\ op[Orig] = "succeeded" /\ data[Orig] = "full"
    /\ Orig \in {names["donor"], names["old"]}

\* The donor's name leads to all of the data.  It leads nowhere only between
\* the two renames, and then <donor>-new leads to a complete copy: the swap can
\* be finished with the rename-service commands the error message gives.
SwapComplete ==
    IF names["donor"] # None
      THEN data[names["donor"]] = "full"
      ELSE Usable(names["new"]) /\ data[names["new"]] = "full"

\* No migration task, not even one left behind by a run that was killed or gave
\* up polling, writes into the instance that has taken over the donor's name.
NoWriterBehindDonor ==
    \A r \in Runs : task[r] = "copying" => dst[r] # names["donor"]

\* A run that returns without an error has put its own, complete instance
\* behind the donor's name and the original behind <donor>-old.
SuccessMeansSwapped ==
    \A r \in Runs : pc[r] = "returned" /\ err[r] = "none" =>
      /\ names["donor"] = r /\ names["old"] = Orig
      /\ Usable(r) /\ data[r] = "full"

\* The rename errors say that the migration "has successfully completed"
\* (migrate/migrate.go:163-176): when one is returned the run's own instance is
\* usable and holds all of the data.
RenameErrorTruthful ==
    [][\A r \in Runs :
         err[r] # "renameError" /\ err'[r] = "renameError" => Usable(r) /\ data[r] = "full"]_vars

\* A run always ends, however often calls fail, once the broker and the task
\* have ended what they began: the polling loops give up or get an answer.
RunsEnd == \A r \in Runs : Active(r) ~> pc[r] \in Ended

\* --no-cleanup not given and no call failing, a run that fails before the copy
\* is complete leaves neither its app nor an instance it asked for behind, one
\* whose creation failed included, unless the broker gives up deleting it.
FailedRunLeavesNothing ==
    \A r \in Cleanup :
      pc[r] = "returned" /\ err[r] = "error"
        ~> app[r] = "absent" /\ op[r] \in {"none", "deleted", "undeleted"}

\* --no-cleanup not given and no call failing, a run that returns such an error
\* has already deleted its app, and the deletion of the instance it asked for, one
\* whose creation failed included, has been accepted: the cleanup names
\* <donor>-new, and that name has not come to mean another instance.
DeletionAsked ==
    \A r \in Cleanup :
      pc[r] = "returned" /\ err[r] = "error"
        => app[r] = "absent" /\ op[r] \in {"none", "deleting", "deleted", "undeleted"}

\* "token timeout messages when migrating lots of data, which can be ignored"
\* (README.md:39): as long as no call fails, a migration whose copy is under way
\* is given up only when its task has failed, however often the token expires.
TokenTimeoutsIgnored ==
    [][\A r \in Runs :
         Faults = {} /\ pc[r] = "waitTask" /\ err'[r] # "none" => task[r] = "failed"]_vars

\* The run as Handover sees it: a copy is complete once all data is in it, and
\* lost to the migration as soon as its deletion is accepted or it has failed.
CopyOf(r) ==
    CASE op[r] = "none" -> "absent"
      [] op[r] \in {"failed", "deleting", "deleted", "undeleted"} -> "gone"
      [] OTHER -> IF data[r] = "full" THEN "complete" ELSE "building"

Promise == INSTANCE Handover WITH
    serving <- names["donor"], copy <- [r \in Runs |-> CopyOf(r)]

\* The driver implements the handover.
KeepsPromise == Promise!Spec

\* A failed rename tells the operator that the copy "has successfully completed"
\* and which rename-service commands remain (migrate/migrate.go:163-167): that
\* copy is not deleted any more.
CompletedCopyKept ==
    [][\A r \in Runs :
         err[r] = "renameError" => op'[r] = op[r]]_vars
=============================================================================
