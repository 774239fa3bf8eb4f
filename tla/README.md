# Formal models of the MySQL CLI plugin

This directory holds TLA+ models of `mysql-cli-plugin`, the TLC configurations
that check them and the TLAPS proofs about them. The plugin adds
`cf mysql-tools` to the Cloud Foundry CLI. It moves a MySQL service instance to
another plan by copying it (`migrate`), runs two instances in two foundations
as a replicating pair (`setup-replication`, `switchover`), and has a few
commands that only read or keep files.

Nothing the plugin does is transactional. Each command is a list of calls to
the cloud controller, any of which may fail, or succeed without the plugin
hearing of it; instances are known by names that the plugin itself moves from
one instance to another; and the process may be killed between two calls while
the service broker and the migration task go on. The models are about what the
users' data goes through then.

## 1. The system

| Component | Source | State it keeps | Operations | Modelled in |
|---|---|---|---|---|
| migrate command and driver | `mysql-tools/plugin/commands/migrate.go`, `mysql-tools/migrate/migrate.go` | none of its own; the space's instances, app, task | create, copy, rename, clean up | `Migrate`, abstractly `Handover` |
| migrator client | `mysql-tools/cf/migrator_client.go` | the count of failed polls, the access token | create/bind/push/start/task/delete/rename, polling | `Migrate` |
| embedded assets | `mysql-tools/app/` | none | write the app's files | `Migrate` (`Unpack`) |
| migration task | `tasks/migrate/main.go`, `backup_restore.go`, `config.go` | three child processes and two pipes | look up bindings, wait for hosts, dump, rewrite, load | `MigrateTask`, abstractly `Transfer` |
| discovery | `tasks/migrate/discovery/discovery.go` | none | list schemas, find invalid views | `MigrateTask` |
| replication workflows | `mysql-tools/multisite/*workflow.go`, `plugin/commands/` | none; two instances | ask, set up, switch over | `Switchover`, abstractly `Leadership` |
| foundation handler | `mysql-tools/multisite/foundation/foundation.go` | none | update and wait, keys, plans, existence | `Switchover` |
| saved targets | `mysql-tools/multisite/config.go`, `plugin/commands/targets.go` | a directory of CF configurations | save, list, remove | `Targets` |
| binding finder | `mysql-tools/find-bindings/finder.go`, `cf/find_bindings_client.go`, `plugin/commands/find_bindings.go` | partial results, errors, one token | list bindings and keys | `FindBindings` |
| table output | `mysql-tools/presentation/` | none | print rows | `FindBindings` (which rows there are) |
| plugin entry, version | `main.go`, `plugin/plugin.go`, `version/` | none | pick a command, exit status | `Targets` (`Start`, `Exit`) |
| must, fakes, specs, scripts | `must/`, `*fakes/`, `src/specs/`, scripts | none | | not modelled, see 6 |

How they interact. `Migrate` (the command) calls the driver step by step; the
driver calls the client; the client runs cf commands and polls the API. The
driver pushes an app whose one task is the migration task: from then on the
driver only polls the task's state, and the task only knows the two bindings
that its environment lists under the names the driver passed. The task's binary
starts mysqldump, sed and mysql and waits for them. The workflows call the two
foundation handlers alternately; each call is a cf process with a `CF_HOME` of
its own, taken from the saved targets. The target commands share nothing with
one another but the directory. The finder only reads, from a space that goes on
changing.

Where it is hard:

* *Partial failure and lost answers.* A create, push, task start, delete or
  rename may have taken effect although the call failed.
* *Names.* `<donor>`, `<donor>-new` and `<donor>-old` mean whatever instance
  has the name at the time of the call. Cleanup deletes by name.
* *Things that outlive the process.* A task left behind by a killed run keeps
  writing; a broker operation goes on after the CLI stopped waiting.
* *Retries.* Every command may be given again in the state a failed one left.
* *Polling.* Three failed polls in a row end a wait, any number of answered
  polls does not.
* *Tokens.* The access token may expire at any request. `cf curl` neither
  notices nor renews it, and the finder was given no means to.
* *Pipes.* A child that dies in the middle looks like the end of the data to
  the next one.
* *Files.* A target is truncated and then copied, a removal unlinks file after
  file, and a listing looks at first and reads later: other processes, and the
  end of this one, come in between.
* *A space that changes.* The finder asks one thing after another about
  instances and bindings that others create, move and delete meanwhile.

The properties that make the components correct are listed with the modules in
section 2; `PROJECT.json` lists each hazard with the line where it bites.

## 2. The modules

### Migrate.tla

State: for each *run* (execution of `cf mysql-tools migrate <donor> <plan>`)
the step it is at (`pc`), the error it is returning (`err`) and its count of
failed polls (`attempt`); the CLI's access token (`token`); for the space,
which instance each of the three names stands for (`names`), each instance's
last operation (`op`, where a creation that failed and a deletion that failed
are told apart, though the plugin sees the same state) and how much of the
donor's data it holds (`data`); for each run its app, the app's bindings and
its task with the two instances that task is bound to. All runs migrate the
same donor: that is where they can harm one another.

Each call of the driver is one action with an outcome: `"ok"`, `"fail"` (no
effect) or `"lost"` (effect, then an error); the constant `Faults` says which
can happen. The order of the driver's steps, the early returns and the places
where errors are dropped (`OutputLogs`, `DeleteApp`, `CleanupOnError`) follow
the code. `Kill` ends a run between any two calls. The broker (`BrokerCreate`,
`BrokerDelete`) and the task (`TaskCopy`, `TaskSucceed`, `TaskFail`) are
processes of their own.

`ExpireToken` may come before any request but the first after a renewal.
`GetApp` and `CreateTask` use `cf curl`, which prints the error of an expired
token; `PollTask` renews it for the next attempt, and the failed one counts;
every other cf command renews the token by itself.

| Property | Says |
|---|---|
| `DonorSafe` | the original instance is never deleted or written and stays reachable as `<donor>` or `<donor>-old` |
| `SwapComplete` | the donor's name leads to all of the data, or the swap can be finished by one rename |
| `NoWriterBehindDonor` | no task writes into the instance behind the donor's name |
| `SuccessMeansSwapped` | a run without an error has swapped its own complete instance in |
| `RenameErrorTruthful` | the "has successfully completed" errors are true |
| `TokenTimeoutsIgnored` | no call failing, a migration is given up while it waits only when its task has failed, as the repository's README.md:39 says of token timeouts |
| `DeletionAsked` | cleanup on and no call failing, a run that fails before its copy is complete has deleted its app and had the deletion of its instance, one whose creation failed included, accepted |
| `KeepsPromise` | the driver implements `Handover` |
| `RunsEnd` | every run ends |
| `FailedRunLeavesNothing` | with cleanup and working calls a failed run leaves no app and no instance, but for one the broker gives up deleting |

`Handover.tla` is the abstract specification: the instance behind the donor's
name changes from the original to nothing to a complete copy; a copy may be
thrown away, but never while the name leads nowhere and never once the name
leads to it. The mapping reads `serving` off `names["donor"]` and a run's copy
off its instance's operation and data.

### MigrateTask.tla

State: the binary's position, exit status and tick counter; the schemas and
views discovery has found; the status of each child; and for each object (table
or view) where it is: donor, first pipe, sed, second pipe, copy. The binary
holds the read ends that `StdoutPipe` gave it until it waits or ends, which is
why a child writing into a pipe whose reader died blocks while the binary lives
and is killed by SIGPIPE afterwards. Children may crash at any time
(`Crash`), views may become invalid at any time (`BreakView`), and every
`Start` may fail. A pipe's order does not matter to any property, so a pipe is
a set with a capacity.

| Property | Says |
|---|---|
| `SuccessMeansComplete` | exit status 0 means that every user table and view is in the copy, or is an invalid view |
| `NeverStuck` | there is no circle of waiting: until all is over the binary or a child can go on |
| `IsTransfer` | the task implements `Transfer`: success only with a full copy, and nothing written after the task has ended |
| `TaskEnds` | the binary and its children always end |

`Transfer.tla` states what `Migrate` takes for granted about the task; it is
the seam between the two models.

### Switchover.tla

State: for each operator the command, whether it asks, calls or waits, the
position in its list of calls, the plans it has read and the key it holds; for
each of the two instances whether it accepts writes, whom it follows, which
follower is registered with it, its plan, and the update the broker is carrying
out. Both workflows are straight lines that stop at the first error, so they
are given as lists of calls (`SetupCalls`, `SwitchCalls`) that the actions walk
through. A switchover without `--force` asks first (`Answer`); a question not
answered with yes ends the process with status 0. `cf update-service --wait` is
two steps of the run, `Update` and `Wait`, with the broker's step in between; a
run that dies or loses its connection leaves the operation behind. A cancelled,
failed or killed run may be followed by another command of the same operator.

`Overlap = FALSE`: an operator starts once those before it have succeeded.
`Overlap = TRUE`: several operators may be active at the same time, as long as
they have given the same command (two members of a team react to the same
outage).

| Property | Says |
|---|---|
| `OneWriter` | the two instances never accept writes at the same time |
| `SwitchedOver` | success means exchanged roles, a registered follower, and each side on the plan the other had when it was read |
| `SetUp` | success of setup means a follower, and the primary has accepted writes all along |
| `HandsOver` | the pair implements `Leadership`, as long as an operator gives the same command until it succeeds |
| `RetryCompletes` | giving the command again is enough once nothing fails any more |

`Leadership.tla` is the abstract specification. Two new instances lead
themselves; once one of them follows the other there is at most one leader. A
leader steps down only while the other instance replicates from it, only an
instance that has replicated from the last leader takes over, and only while
there is no leader, and an instance begins to follow only a leader. The mapping
reads `leaders` off `writable` (the instances that accept writes) and
`followers` off `follows`. `OneWriter` says that a pair never has two leaders;
this says where the next one comes from.

The broker is external. It is taken to change roles as the parameters say, to
treat a role change that is already done as done, to refuse a second operation
while one is in progress, and, when an operation fails, to have changed the
role or not. The two sides of a command are taken to be two instances: the code
does not check it.

### Targets.tla

State: the cf CLI's own configuration (`source`), which others replace at any
time; the saved ones (`dirs`, `files`, and per block of a file the
configuration its bytes were copied from, `content`); for each run of the
plugin its command, argument and position, the configuration a save has
validated (`held`), its open file (`handle`, an orphan once somebody has
unlinked it) and its offset, what a removal or a listing has still to do
(`todo`, `found`) and what a listing will print (`shown`). `changed` and
`unread` are history variables: the names whose file other runs have changed
since this run began or last touched it, and the directories a listing could
not read.

Every file operation is one step: open and validate, make the directories,
truncate, copy block by block, close; check the name, unlink file by file,
remove the directories; glob, look into each directory, read each file. Runs
interleave between any two of them, and `Kill` ends a run there. With
`IOFaults` any of them may fail; `filepath.Glob` ignores such an error, of the
root or of one target's directory, and goes on without what it could not read.
A name may lie inside another's directory (`Under`): `save-target` takes any
name, `remove-target` only plain ones. `Start` is also where the plugin's
dispatch is: a command it does not know, or a misuse of a known one, fails at
once.

| Property | Says |
|---|---|
| `SaveKept` | after "Success" the file is exactly the validated configuration until another run touches it |
| `DamageExplained` | a file that is not a whole configuration is the work of a save that had opened it and failed, died, goes on or was overlapped |
| `RemovedMeansGone` | after a successful removal nothing is there until another run puts it there |
| `ListExact` | a listing that prints shows each target nobody touched meanwhile and whose directory it could read as its file has it, and none that was not there |
| `RemovalConfined` | files disappear only below a plain name that somebody asked to remove |
| `NoneMeansNone` | "No saved targets." has not passed over a whole target nobody touched (violated, see 5) |

### FindBindings.tla

State: the space (`plan` of each instance, `bound` bindings and keys), changed
by others `MaxChanges` times; the client's token; the finder's position, the
plans still to be listed (`todo`), the instances still to be looked into
(`left`, a count, because an instance that is moved to another plan is listed
twice), the bindings or keys of one instance still to be looked up (`queue`),
the result (`rows`) and whether an error was collected (`errs`). `steady`,
`ever` and `lost` are history variables: what existed throughout under one
plan, what existed at some time, and what a failed request was about.

Each request is an action that is answered or refused; the first one, and each
one until it succeeds, connects. A failed request for services or plans ends
the search, any other is collected and the search goes on. The command prints
the errors and drops the result when there is any (`Return`).

| Property | Says |
|---|---|
| `ReportExact` | what is printed, "No bindings found." included, has one row for everything that existed throughout and none for what never existed |
| `OthersSurvive` | a failed request costs the result nothing but what it was about |
| `Ends` | the finder comes to an end |

## 3. The runs

| Run | Configuration | What it shows |
|---|---|---|
| `migrate_sequential` | three executions one after another, two with cleanup, every call may fail or lose its answer, any execution may be killed | the safety properties, the truth of the rename errors, the refinement of `Handover` |
| `migrate_overlap` | two executions at once, taken names refused or accepted | `DonorSafe`; under fairness `RunsEnd` |
| `migrate_leftovers` | two executions, no failing calls; broker, disk and task may fail, the token may expire | `DeletionAsked`, `TokenTimeoutsIgnored`, `FailedRunLeavesNothing` |
| `migrate_rerun` | two executions, failing calls | violation of `CompletedCopyKept`, see 5 |
| `task_run` | five objects in two user schemas and a system one, two of them views; pipes for one object; three ticks | all properties of `MigrateTask` |
| `task_views` | the same with server errors on sound views | violation of `SkippedAreInvalid`, see 5 |
| `switch_safety` | a replicating pair, two operators with any of the four commands, the same one when both are active; B does not offer one of A's plans, whose name occurs in that of another; two failures | `OneWriter` |
| `switch_retry` | two new instances, four operators in turn: set up, switched over, back, and then told to be what they are already; each command given until it succeeds, three failures, fairness | `SwitchedOver`, `SetUp`, `HandsOver`, `RetryCompletes` |
| `switch_exchange` | one operator, two failures | violation of `PlansExchanged`, see 5 |
| `targets_overlap` | two runs of any command, three names of which one lies inside another, configurations of one and two blocks, failing file operations | all properties of `Targets` but `NoneMeansNone` |
| `targets_list` | the same without failing file operations | violation of `NoneMeansNone`, see 5 |
| `find` | two plans, two instances, two app bindings and a key, two changes by others, any request refused | all properties of `FindBindings` |

Bounds. Three sequential executions are enough for one to leave something
behind, a second to act on it and a third to act on the result; two are enough
for every conflict between overlapping ones, because a run only interferes
through the three names. `MaxAttempts` is the code's 3 but where runs overlap,
where it is 2: the polls of a run are independent of the others, and 2 is the
smallest number with both a retry and a giving up. A pipe for one object is
full as soon as it is used, so every blocking case occurs. Three failures in
`switch_retry` are enough for a failed demotion or promotion, a failed retry
and one more; two in `switch_safety` leave one broken switchover behind each of
two operators, and the proof of `OneWriter` holds for any number. A switchover
there, one back and one that is not needed take the pair through every
arrangement `Leadership` has, and each of them and the setup before them may be
broken off and given again. Operators that overlap are in the run of
`OneWriter` only; for `HandsOver` they are in its theorem. In `Targets` a short
and a long configuration are enough for a save to leave a tail of an older one,
and two blocks for two saves to mix; two runs can each be the one that disturbs
the other. In `FindBindings` one instance has both a binding and a key and two
changes move an instance there and back, or unbind and delete. Deadlock is not
checked where the system may stop for good (no run active and nothing left to
fail); in `MigrateTask` it is.

Fairness. `Migrate`: a live process keeps calling, the broker and the task end
what they began (the plugin polls either without a limit, so it waits as long
as they take); nothing makes a run start or a call succeed. `MigrateTask`: the
operating system runs every process that can run; nothing makes a child succeed
or crash. `Switchover`: a live run goes on, the broker finishes what it
accepted and the operator gives the next command; failures are limited to
`MaxFailures`, which is what "once nothing fails any more" means.
`FindBindings`: the finder takes its next step while the process runs; others
need not act, and no request needs to succeed. `Targets` claims no liveness.

## 4. The proofs

The TLAPS proofs hold for every value of the constants that satisfies the named
assumptions: any number of runs, objects, names, blocks and failures.

* `MigrateProofs.tla`. `Typing` (`TypeOK`) and, from `DonorInv`,
  `DonorSurvives` (`DonorSafe`), which need no assumption on overlap or
  faults: the donor's name only ever loses its instance to `<donor>-old`, and
  what is deleted is what `<donor>-new` stands for. `SwapIsComplete`,
  `NoWriter`, `SuccessSwapped` and `RenameErrorsTruthful` hold for executions
  that do not overlap while create-service refuses a taken name. Their
  inductive invariant `SwapInv` is needed because the properties say nothing of
  runs in the middle: it ties the position of the active run to what the names
  stand for, says that only the instance a run created itself is at
  `<donor>-new` from its creation on, and that a task that can still write is
  bound to an instance that is not behind the donor's name. `Refinement` proves
  that under the same assumptions the driver implements `Handover`.
  `FailuresCleanUp` (`DeletionAsked`) also takes `Faults = {}`, because the
  driver drops the errors of both deletions; its invariant `CleanInv` says that
  a run about to clean up still finds its own instance, if there is one, under
  `<donor>-new`, and no app is left.
  `TokenTimeouts` (`TokenTimeoutsIgnored`) needs executions in turn and
  `MaxAttempts > 1`; its invariant `TokenInv` says that, no call failing, a
  poll that follows a failed one has a token that has just been renewed. With a
  single attempt an expired token would end the wait.
* `MigrateTaskProofs.tla`. `TaskTyping`, `SuccessIsComplete` (while no server
  error is taken for an invalid view) and `TaskRefinement`. The inductive
  invariant `TaskInv` says that children are started in the order of the pipe,
  that one ends well only when nothing is left in front of it and its writer
  has ended, and that the binary has passed only children it has seen end well.
  `mysql` is waited for first, so it has ended whenever the binary has: this is
  why the copy does not change after the task has ended. `TaskNeverStuck`
  (`NeverStuck`) follows from the same invariant: what is in the pipes, or the
  dump that is still to come, always leaves one of the three something to do,
  and no writer waits for a dead reader while the binary waits for the writer.
* `SwitchoverProofs.tla`. `SwitchTyping` and `NeverTwoWriters` (`OneWriter`),
  for a pair that replicates at first, whether the commands are given in turn
  or the same one by several operators together. The inductive invariant
  `WriterInv` says that the active commands are the same one (`Aligned`), that
  a promotion is only in progress at an instance whose partner accepts no
  writes and is not being promoted, and that a run that is about to promote has
  seen its demotion end well.
* `SwitchoverResultProofs.tla`. `SwitchSucceeds` (`SwitchedOver`) for commands
  given in turn, and `SetupSucceeds` (`SetUp`) when moreover all setups name
  the same primary and come before the switchovers (`SetupFirst`). What each
  half-finished attempt leaves behind is an operation of the broker: the
  invariants `RunInv` and `TurnInv` say that from the moment the one live run
  has changed an instance, no request but its own is left there, so that what it
  has seen done is not undone behind its back. Each call it has passed adds one
  fact to what its last step needs.
* `LeadershipProofs.tla`. `LeadershipHandedOver` (`HandsOver`), for two new
  instances that are set up before they are switched over or a pair that
  replicates at first, and operators each of whom gives one command until it
  succeeds, the same one where they overlap (`Repeated`). Its invariant
  `LeadInv` has two phases. `Founded`, until the first switchover: the primary
  leads, and the secondary leads itself or follows the primary. `Toward`, from
  then on: the pair always lies on the way of a switchover to one of its two
  instances: the other one leads, or nobody, or this one does and the other may
  follow it again. Each call of a live run, and each operation the broker still
  has to end, is a step on that way or has been taken already. That a setup
  which succeeded in turn left a follower (`FoundedReturn`) is what lets the
  first switchover begin.
* `TargetsProofs.tla`, with no assumption but the module's own. `TargetTypes`;
  `SavesAreKept` and `DamageIsExplained` from `Owners`, which says that the
  blocks a save has written are in its file unless others have changed it, and
  nothing else is; `RemovalsRemove` and `RemovalsConfined`; `ListingsAreExact`
  from `FilesInDirs`, a file's directory exists, and `Listers`, which says what
  a listing knows of each name at each of its steps: still to be looked up,
  found, read, passed over or not there.
* `FindBindingsProofs.tla`, with no assumption but the module's own.
  `FindTypes`; `ReportsAreExact` and `FailuresAreContained` from `Account`:
  whatever existed throughout is, exactly once, still to come, in the result,
  or lost to a failed request, and the result has nothing that never existed.

Not proved, only model-checked: the liveness properties (`RunsEnd`,
`FailedRunLeavesNothing`, `TaskEnds`, `RetryCompletes`, `Ends`), which the
prover cannot do under fairness. The safety cores of two of them are proved:
`DeletionAsked` and `NeverStuck`. Every other property of a passing run is
proved.

## 5. Where the code and its documentation disagree

* `migrate_rerun`: cleanup goes by the name `<donor>-new`. After a failed
  rename the error tells the operator that the copy is complete and how to
  rename it; giving the command again instead refuses the taken name and then
  deletes that copy. The same line deletes an instance of that name that no
  migration created.
* `task_views`: every error of the server while a view is described makes the
  view "invalid", so it is left out of a migration that succeeds.
* `switch_exchange`: a switchover whose promotion failed and that is given again
  leaves both instances on the same plan.
* `targets_list`: one configuration that cannot be read, such as one removed
  during the listing, makes `list-targets` print "No saved targets." and
  succeed.

Three limits the models contain and no property contradicts: `DeleteApp` is
deferred only after `PushApp` has succeeded (`migrate.go:100`), so an app that
a failed push has created stays; a target whose directory cannot be read is
left out of a listing without a word, because `filepath.Glob` (`config.go:79`)
ignores the error; and a plan is looked for as a substring of the marketplace's
text (`foundation.go:115`), so a switchover may get as far as an update that
the cloud controller refuses.

## 6. What is not modelled

* Parsing of options and of the cf CLI's output, log lines, tables, quoting;
  the DSN and TLS options of the task's connections.
* The clock: intervals and backoff between polls. Two keys created in the same
  second have the same name (`foundation.go:45`).
* The contents of data: an object is copied or not, an instance holds all, some
  or none of the donor's data. Writes by applications to the donor after the
  dump's snapshot are not in the copy; the plugin's documentation asks to stop
  them.
* `Switchover`: opposite switchovers at the same time, which nothing in the
  code prevents and `OneWriter` does not survive; a target that is saved again
  during a switchover. `SwitchedOver` is not claimed for operators that overlap,
  and `HandsOver` not for an operator who answers a switchover that stopped half
  way with the opposite one: that demotes and promotes instances whose
  replication the first one has not set up again.
* `Targets`: names that lead outside the directory, which `save-target` does
  not refuse. The cf CLI is taken to replace its file by a rename, so that a
  save that has the file open copies what it has validated; `SaveKept` rests on
  that. A tail after the first JSON value is ignored by a listing, as the
  decoder does; the two directories of a target are removed in one step.
* `FindBindings`: names of apps, spaces and organizations. The lookups of a
  key's space and of its organization are one step. Each list request is one
  look at the space: the external client may need several pages for it, and
  what is moved from a page still to come to one already read would be missed.
* Plugin metadata and the version numbers in it; `must`; `instanceUsesPlan` and
  the unused service-key helpers, which nothing calls; the test fakes, test
  helpers, acceptance specs and scripts, which are not part of the program.

## 7. Plan

1. `Migrate`, `Handover`, `MigrateTask`, `Transfer` and their proofs: done.
2. `Switchover` with its commands, `Leadership`, and the proofs of all their
   safety properties: done.
3. `Targets`, `FindBindings` and the proofs of all their safety properties:
   done.
4. Left: a composition of `Migrate` and `MigrateTask` in which the task's steps
   in the former are those of the latter.
