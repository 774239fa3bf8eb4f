--------------------------- MODULE MigrateProofs ---------------------------
(***************************************************************************)
(* Proofs about Migrate, for any set of runs and any way calls may fail.   *)
(***************************************************************************)
EXTENDS Migrate, TLAPS

USE DEF Names, Instances, Ended, Steps

\* The counter of failed polls starts at 0 and stays below MaxAttempts.
LEMMA AttemptBounds ==
    /\ 0 \in Attempts
    /\ \A a \in Attempts : a + 1 # MaxAttempts => a + 1 \in Attempts
  BY EnvironmentAssumption DEF Attempts

\* The state functions are typed: the frame every later proof stands in.
THEOREM Typing == Spec => []TypeOK
<1>1. Init => TypeOK
  BY RunsAssumption, AttemptBounds DEF Init, TypeOK
<1>2. TypeOK /\ [Next]_vars => TypeOK'
  <2> SUFFICES ASSUME TypeOK, [Next]_vars PROVE TypeOK'
    OBVIOUS
  <2> USE RunsAssumption, AttemptBounds DEF TypeOK, cliVars, instVars, appVars, taskVars,
          Continue, Fail, ReturnError, ReturnRenameError, CleanUpInstance, CleanUpApp, FailTask
  <2>0. token' \in {"new", "used", "expired"}
    BY DEF Next, vars, Start, Kill, ExpireToken, Step, StartApp, PollTask, UseToken, RenewToken,
       Task, TaskCopy, TaskSucceed, TaskFail, Broker, BrokerCreate, BrokerDelete
  <2> USE <2>0
  <2>1. ASSUME NEW r \in Runs, Start(r) PROVE TypeOK'
    BY <2>1 DEF Start
  <2>2. ASSUME NEW r \in Runs, Kill(r) PROVE TypeOK'
    BY <2>2 DEF Kill
  <2>3. ASSUME NEW r \in Runs, CheckServiceExists(r) PROVE TypeOK'
    BY <2>3 DEF CheckServiceExists
  <2>4. ASSUME NEW r \in Runs, CheckNameFree(r) PROVE TypeOK'
    BY <2>4 DEF CheckNameFree
  <2>5. ASSUME NEW r \in Runs, PollCreate(r) PROVE TypeOK'
    BY <2>5 DEF PollCreate, GivesUp, Retry
  <2>6. ASSUME NEW r \in Runs, Unpack(r) PROVE TypeOK'
    BY <2>6 DEF Unpack
  <2>7. ASSUME NEW r \in Runs, NEW out \in Outcomes, Call(r, out) PROVE TypeOK'
    <3>1. CASE CreateNew(r, out)
      BY <3>1, SMTT(60) DEF CreateNew
    <3>2. CASE CreateTaken(r, out)
      BY <3>2, SMTT(60) DEF CreateTaken
    <3>3. CASE PushApp(r, out)
      BY <3>3, SMTT(60) DEF PushApp
    <3>4. CASE BindDonor(r, out)
      BY <3>4, SMTT(60) DEF BindDonor, BindService, Bindable
    <3>5. CASE BindNew(r, out)
      BY <3>5, SMTT(60) DEF BindNew, BindService, Bindable
    <3>6. CASE GetApp(r, out)
      BY <3>6, SMTT(60) DEF GetApp
    <3>7. CASE CreateTask(r, out)
      BY <3>7, SMTT(60) DEF CreateTask, Bound
    <3>8. CASE DeleteApp(r, out)
      BY <3>8, SMTT(60) DEF DeleteApp
    <3>9. CASE CleanupOnError(r, out)
      BY <3>9, SMTT(60) DEF CleanupOnError, ToDelete
    <3>10. CASE RenameDonor(r, out)
      BY <3>10, SMTT(60) DEF RenameDonor, RenameService, Renamable
    <3>11. CASE RenameNew(r, out)
      BY <3>11, SMTT(60) DEF RenameNew, RenameService, Renamable
    <3> QED
      BY <2>7, <3>1, <3>2, <3>3, <3>4, <3>5, <3>6, <3>7, <3>8, <3>9, <3>10, <3>11 DEF Call
  <2>8. ASSUME NEW r \in Runs, Task(r) PROVE TypeOK'
    BY <2>8 DEF Task, TaskCopy, TaskSucceed, TaskFail, Usable
  <2>9. ASSUME NEW i \in Instances, Broker(i) PROVE TypeOK'
    BY <2>9 DEF Broker, BrokerCreate, BrokerDelete
  <2>10. CASE UNCHANGED vars
    BY <2>10 DEF vars
  <2>11. ASSUME NEW r \in Runs, NEW out \in Outcomes, StartApp(r, out) PROVE TypeOK'
    BY <2>11 DEF StartApp
  <2>12. ASSUME NEW r \in Runs, NEW out \in Outcomes, PollTask(r, out) PROVE TypeOK'
    BY <2>12 DEF PollTask, NoAnswer, Verdict, GivesUp, Retry
  <2>13. CASE ExpireToken
    BY <2>13 DEF ExpireToken
  <2>14. ASSUME NEW r \in Runs, OutputLogs(r) PROVE TypeOK'
    BY <2>14 DEF OutputLogs, AfterTask
  <2> QED
    BY <2>1, <2>2, <2>3, <2>4, <2>5, <2>6, <2>7, <2>8, <2>9, <2>10, <2>11, <2>12, <2>13, <2>14
    DEF Next, Step, Plain
<1> QED
  BY <1>1, <1>2, PTL DEF Spec

-----------------------------------------------------------------------------
(* The donor's instance and data survive everything *)

\* What keeps DonorSafe: <donor>-new is the only name that is ever deleted, and
\* the only one a task writes to, and it never leads to the original.
DonorInv ==
    /\ TypeOK
    /\ DonorSafe
    /\ names["new"] # Orig
    /\ \A r \in Runs : dst[r] # Orig

\* The original is safe in every reachable state.
LEMMA DonorInvariant == Spec => []DonorInv
<1>1. Init => DonorInv
  BY RunsAssumption, AttemptBounds DEF Init, TypeOK, DonorInv, DonorSafe
<1>2. TypeOK /\ TypeOK' /\ DonorInv /\ [Next]_vars => DonorInv'
  <2> SUFFICES ASSUME TypeOK, TypeOK', DonorInv, [Next]_vars PROVE DonorInv'
    OBVIOUS
  <2> USE RunsAssumption DEF TypeOK, DonorInv, DonorSafe, instVars, appVars, taskVars, cliVars
  <2>1. ASSUME UNCHANGED <<instVars, dst>> PROVE DonorInv'
    BY <2>1
  <2>2. ASSUME NEW r \in Runs, Start(r) \/ Kill(r) PROVE DonorInv'
    BY <2>1, <2>2 DEF Start, Kill
  <2>3. ASSUME NEW r \in Runs,
               \/ CheckServiceExists(r) \/ CheckNameFree(r) \/ PollCreate(r) \/ Unpack(r)
               \/ OutputLogs(r)
        PROVE  DonorInv'
    BY <2>1, <2>3 DEF CheckServiceExists, CheckNameFree, PollCreate, GivesUp, Retry, Unpack, OutputLogs
  <2>4. ASSUME NEW r \in Runs, NEW out \in Outcomes, Call(r, out) PROVE DonorInv'
    <3>1. CASE CreateNew(r, out)
      BY <3>1, SMTT(60) DEF CreateNew
    <3>2. CASE CreateTask(r, out)
      BY <3>2, SMTT(60) DEF CreateTask, Bound
    <3>3. CASE CleanupOnError(r, out)
      BY <3>3, SMTT(60) DEF CleanupOnError, ToDelete
    <3>4. CASE RenameDonor(r, out)
      BY <3>4, SMTT(60) DEF RenameDonor, RenameService, Renamable
    <3>5. CASE RenameNew(r, out)
      BY <3>5, SMTT(60) DEF RenameNew, RenameService, Renamable
    <3>6. CASE CreateTaken(r, out) \/ PushApp(r, out) \/ BindDonor(r, out) \/ BindNew(r, out)
                 \/ GetApp(r, out) \/ DeleteApp(r, out)
      BY <2>1, <3>6, SMTT(60) DEF CreateTaken, PushApp, BindDonor, BindNew, BindService, GetApp, DeleteApp
    <3> QED
      BY <2>4, <3>1, <3>2, <3>3, <3>4, <3>5, <3>6 DEF Call
  <2>5. ASSUME NEW r \in Runs, Task(r) PROVE DonorInv'
    BY <2>5 DEF Task, TaskCopy, TaskSucceed, TaskFail, Usable
  <2>6. ASSUME NEW i \in Instances, Broker(i) PROVE DonorInv'
    BY <2>6 DEF Broker, BrokerCreate, BrokerDelete
  <2>7. CASE UNCHANGED vars
    BY <2>1, <2>7 DEF vars
  <2>8. ASSUME NEW r \in Runs, NEW out \in Outcomes, StartApp(r, out) \/ PollTask(r, out)
        PROVE  DonorInv'
    BY <2>1, <2>8 DEF StartApp, PollTask
  <2>9. CASE ExpireToken
    BY <2>1, <2>9 DEF ExpireToken
  <2> QED
    BY <2>2, <2>3, <2>4, <2>5, <2>6, <2>7, <2>8, <2>9 DEF Next, Step, Plain
<1> QED
  BY Typing, <1>1, <1>2, PTL DEF Spec

\* Whatever the runs, their overlap, the failures and the kills: the original
\* instance is never deleted or written, and stays reachable by name.
THEOREM DonorSurvives == Spec => []DonorSafe
<1>1. DonorInv => DonorSafe
  BY DEF DonorInv
<1> QED
  BY DonorInvariant, <1>1, PTL

-----------------------------------------------------------------------------
(* Runs that do not overlap swap the names only around a complete copy *)

BeforeCreate == {"idle", "checkDonor", "checkNew", "create"}
AfterCreate  == {"unpack", "push", "bindDonor", "bindNew", "startApp", "getApp", "createTask",
                 "waitTask", "logs", "deleteApp", "renameDonor", "renameNew"}
BeforeTask   == BeforeCreate \union {"waitCreate", "unpack", "push", "bindDonor", "bindNew",
                                     "startApp", "getApp", "createTask"}

\* An instance that holds everything and that nothing will touch again: it is out
\* of reach of a cleanup, and its own task, if it was a copy, is over.
Settled(i) ==
    /\ op[i] = "succeeded" /\ data[i] = "full" /\ names["new"] # i
    /\ i \in Runs => task[i] = "succeeded"

OneActive == \A q, r \in Runs : Active(q) /\ Active(r) => q = r

\* From the end of its creation to the last rename a run owns <donor>-new.
OwnsNew ==
    \A r \in Runs :
      /\ pc[r] \in BeforeCreate => op[r] = "none"
      /\ op[r] = "none" => names["new"] # r
      /\ pc[r] = "waitCreate" => names["new"] = r /\ op[r] \in {"in_progress", "succeeded", "failed"}
      /\ pc[r] \in AfterCreate => names["new"] = r /\ op[r] = "succeeded"
      /\ op[r] = "in_progress" => names["new"] = r

\* A task writes only its own run's instance, from a settled one, and once.
TaskInv ==
    \A r \in Runs :
      /\ pc[r] \in BeforeTask => task[r] = "none"
      /\ dst[r] \in {None, r}
      /\ task[r] = "copying" => dst[r] = r
      /\ src[r] # None => Settled(src[r])
      /\ data[r] = "full" => task[r] = "succeeded"
      /\ task[r] = "succeeded" /\ op[r] \in {"in_progress", "succeeded"} => data[r] = "full"
      /\ pc[r] \in {"renameDonor", "renameNew"} => task[r] = "succeeded"
      /\ pc[r] \in {"logs", "deleteApp"} /\ err[r] = "none" => task[r] = "succeeded"

\* The donor's name leads to a settled instance, or nowhere while the complete
\* copy waits under <donor>-new and no run is where it could delete it.
DonorNameInv ==
    /\ names["donor"] # Foreign
    /\ names["donor"] # None => Settled(names["donor"])
    /\ names["donor"] = None =>
         /\ names["new"] \in Runs
         /\ op[names["new"]] = "succeeded" /\ task[names["new"]] = "succeeded"
         /\ \A q \in Runs : pc[q] \in {"idle", "checkDonor", "renameNew"} \union Ended

\* A successful run stays behind the donor's name: <donor>-old is taken for good.
SuccessInv == \A r \in Runs : pc[r] = "returned" /\ err[r] = "none" => names["donor"] = r

SwapInv == OneActive /\ OwnsNew /\ TaskInv /\ DonorNameInv /\ SuccessInv

\* Every step of runs that do not overlap keeps SwapInv.
LEMMA SwapStep ==
    ASSUME ~Overlap, TakenAnswers = {"error"},
           TypeOK, TypeOK', DonorInv, SwapInv, [Next]_vars
    PROVE  SwapInv'
<1> USE RunsAssumption
    DEF SwapInv, OneActive, OwnsNew, TaskInv, DonorNameInv, SuccessInv, Settled, Active,
        BeforeCreate, AfterCreate, BeforeTask, DonorInv, DonorSafe, TypeOK,
        cliVars, instVars, appVars, taskVars,
        Continue, Fail, ReturnError, ReturnRenameError, CleanUpInstance, CleanUpApp, FailTask
<1>1. ASSUME NEW r \in Runs, Start(r) \/ Kill(r)
      PROVE  SwapInv'
  BY <1>1, SMTT(60) DEF Start, Kill
<1>2. ASSUME NEW r \in Runs, CheckServiceExists(r)
      PROVE  SwapInv'
  BY <1>2, SMTT(60) DEF CheckServiceExists, MayFind, MayMiss
<1>3. ASSUME NEW r \in Runs, CheckNameFree(r)
      PROVE  SwapInv'
  <2>1. OneActive'
    BY <1>3 DEF CheckNameFree, MayFind, MayMiss
  <2>2. OwnsNew'
    BY <1>3 DEF CheckNameFree, MayFind, MayMiss
  <2>3. TaskInv'
    BY <1>3 DEF CheckNameFree, MayFind, MayMiss
  <2>4. DonorNameInv'
    BY <1>3 DEF CheckNameFree, MayFind, MayMiss
  <2>5. SuccessInv'
    BY <1>3 DEF CheckNameFree, MayFind, MayMiss
  <2> QED
    BY <2>1, <2>2, <2>3, <2>4, <2>5
<1>4. ASSUME NEW r \in Runs, PollCreate(r)
      PROVE  SwapInv'
  <2>1. OneActive'
    BY <1>4 DEF PollCreate, GivesUp, Retry, MayFind, MayMiss
  <2>2. OwnsNew'
    BY <1>4 DEF PollCreate, GivesUp, Retry, MayFind, MayMiss
  <2>3. TaskInv'
    BY <1>4 DEF PollCreate, GivesUp, Retry, MayFind, MayMiss
  <2>4. DonorNameInv'
    BY <1>4 DEF PollCreate, GivesUp, Retry, MayFind, MayMiss
  <2>5. SuccessInv'
    BY <1>4 DEF PollCreate, GivesUp, Retry, MayFind, MayMiss
  <2> QED
    BY <2>1, <2>2, <2>3, <2>4, <2>5
<1>5. ASSUME NEW r \in Runs, Unpack(r)
      PROVE  SwapInv'
  <2>1. OneActive'
    BY <1>5 DEF Unpack
  <2>2. OwnsNew'
    BY <1>5 DEF Unpack
  <2>3. TaskInv'
    BY <1>5 DEF Unpack
  <2>4. DonorNameInv'
    BY <1>5 DEF Unpack
  <2>5. SuccessInv'
    BY <1>5 DEF Unpack
  <2> QED
    BY <2>1, <2>2, <2>3, <2>4, <2>5
<1>6. ASSUME NEW r \in Runs, NEW out \in Outcomes, CreateNew(r, out)
      PROVE  SwapInv'
  <2>1. OneActive'
    BY <1>6 DEF CreateNew, Applied
  <2>2. OwnsNew'
    BY <1>6 DEF CreateNew, Applied
  <2>3. TaskInv'
    BY <1>6 DEF CreateNew, Applied
  <2>4. DonorNameInv'
    BY <1>6 DEF CreateNew, Applied
  <2>5. SuccessInv'
    BY <1>6 DEF CreateNew, Applied
  <2> QED
    BY <2>1, <2>2, <2>3, <2>4, <2>5
<1>7. ASSUME NEW r \in Runs, NEW out \in Outcomes, CreateTaken(r, out)
      PROVE  SwapInv'
  BY <1>7, SMTT(60) DEF CreateTaken
<1>8. ASSUME NEW r \in Runs, NEW out \in Outcomes, PushApp(r, out)
      PROVE  SwapInv'
  BY <1>8, SMTT(60) DEF PushApp
<1>9. ASSUME NEW r \in Runs, NEW out \in Outcomes, BindDonor(r, out)
      PROVE  SwapInv'
  BY <1>9, SMTT(60) DEF BindDonor, BindService, Bindable
<1>10. ASSUME NEW r \in Runs, NEW out \in Outcomes, BindNew(r, out)
      PROVE  SwapInv'
  BY <1>10 DEF BindNew, BindService, Bindable
<1>11. ASSUME NEW r \in Runs, NEW out \in Outcomes, StartApp(r, out) \/ GetApp(r, out)
      PROVE  SwapInv'
  <2>1. OneActive'
    BY <1>11 DEF StartApp, GetApp
  <2>2. OwnsNew'
    BY <1>11 DEF StartApp, GetApp
  <2>3. TaskInv'
    BY <1>11 DEF StartApp, GetApp
  <2>4. DonorNameInv'
    BY <1>11 DEF StartApp, GetApp
  <2>5. SuccessInv'
    BY <1>11 DEF StartApp, GetApp
  <2> QED
    BY <2>1, <2>2, <2>3, <2>4, <2>5
<1>12. ASSUME NEW r \in Runs, NEW out \in Outcomes, CreateTask(r, out)
      PROVE  SwapInv'
  <2>1. OneActive'
    BY <1>12 DEF CreateTask, Bound, Applied
  <2>2. OwnsNew'
    BY <1>12 DEF CreateTask, Bound, Applied
  <2>3. TaskInv'
    BY <1>12 DEF CreateTask, Bound, Applied
  <2>4. DonorNameInv'
    BY <1>12 DEF CreateTask, Bound, Applied
  <2>5. SuccessInv'
    BY <1>12 DEF CreateTask, Bound, Applied
  <2> QED
    BY <2>1, <2>2, <2>3, <2>4, <2>5
<1>13. ASSUME NEW r \in Runs, NEW out \in Outcomes, PollTask(r, out)
      PROVE  SwapInv'
  <2>1. OneActive'
    BY <1>13 DEF PollTask, NoAnswer, Verdict, GivesUp, Retry
  <2>2. OwnsNew'
    BY <1>13 DEF PollTask, NoAnswer, Verdict, GivesUp, Retry
  <2>3. TaskInv'
    BY <1>13 DEF PollTask, NoAnswer, Verdict, GivesUp, Retry
  <2>4. DonorNameInv'
    BY <1>13 DEF PollTask, NoAnswer, Verdict, GivesUp, Retry
  <2>5. SuccessInv'
    BY <1>13 DEF PollTask, NoAnswer, Verdict, GivesUp, Retry
  <2> QED
    BY <2>1, <2>2, <2>3, <2>4, <2>5
<1>14. ASSUME NEW r \in Runs, NEW out \in Outcomes, DeleteApp(r, out)
      PROVE  SwapInv'
  <2>1. OneActive'
    BY <1>14 DEF DeleteApp, Applied
  <2>2. OwnsNew'
    BY <1>14 DEF DeleteApp, Applied
  <2>3. TaskInv'
    BY <1>14 DEF DeleteApp, Applied
  <2>4. DonorNameInv'
    BY <1>14 DEF DeleteApp, Applied
  <2>5. SuccessInv'
    BY <1>14 DEF DeleteApp, Applied
  <2> QED
    BY <2>1, <2>2, <2>3, <2>4, <2>5
<1>15. ASSUME NEW r \in Runs, NEW out \in Outcomes, CleanupOnError(r, out)
      PROVE  SwapInv'
  <2>1. OneActive'
    BY <1>15 DEF CleanupOnError, ToDelete, Applied
  <2>2. OwnsNew'
    BY <1>15 DEF CleanupOnError, ToDelete, Applied
  <2>3. TaskInv'
    BY <1>15 DEF CleanupOnError, ToDelete, Applied
  <2>4. DonorNameInv'
    BY <1>15 DEF CleanupOnError, ToDelete, Applied
  <2>5. SuccessInv'
    BY <1>15 DEF CleanupOnError, ToDelete, Applied
  <2> QED
    BY <2>1, <2>2, <2>3, <2>4, <2>5
<1>16. ASSUME NEW r \in Runs, NEW out \in Outcomes, RenameDonor(r, out)
      PROVE  SwapInv'
  <2>1. OneActive'
    BY <1>16, SMTT(60) DEF RenameDonor, RenameService, Renamable, Applied
  <2>2. OwnsNew'
    BY <1>16, SMTT(60) DEF RenameDonor, RenameService, Renamable, Applied
  <2>3. TaskInv'
    BY <1>16, SMTT(60) DEF RenameDonor, RenameService, Renamable, Applied
  <2>4. DonorNameInv'
    <3>1. \A q \in Runs : q # r => pc[q] \in {"idle"} \union Ended
      BY <1>16 DEF RenameDonor
    <3>2. \A q \in Runs : pc'[q] \in {"idle", "renameNew"} \union Ended
      BY <1>16, <3>1 DEF RenameDonor
    <3>3. CASE names' = names
      BY <1>16, <3>2, <3>3 DEF RenameDonor
    <3>4. CASE names' # names
      <4>1. /\ names["donor"] # None /\ names["old"] = None
            /\ names' = [names EXCEPT !["donor"] = None, !["old"] = names["donor"]]
        BY <1>16, <3>4 DEF RenameDonor, RenameService, Renamable
      <4>2. names'["donor"] = None /\ names'["new"] = names["new"]
        BY <4>1
      <4>3. names["new"] \in Runs /\ op[names["new"]] = "succeeded" /\ task[names["new"]] = "succeeded"
        BY <1>16 DEF RenameDonor
      <4> QED
        BY <1>16, <3>2, <4>2, <4>3 DEF RenameDonor
    <3> QED
      BY <3>3, <3>4
  <2>5. SuccessInv'
    <3>1. Renamable("donor", "old") => names["donor"] = Orig
      BY DEF Renamable
    <3>2. \A q \in Runs : pc'[q] = "returned" /\ err'[q] = "none" => pc[q] = "returned" /\ err[q] = "none"
      BY <1>16 DEF RenameDonor
    <3> QED
      BY <1>16, <3>1, <3>2 DEF RenameDonor, RenameService
  <2> QED
    BY <2>1, <2>2, <2>3, <2>4, <2>5
<1>17. ASSUME NEW r \in Runs, NEW out \in Outcomes, RenameNew(r, out)
      PROVE  SwapInv'
  <2>1. OneActive'
    BY <1>17 DEF RenameNew, RenameService, Renamable, Applied
  <2>2. OwnsNew'
    BY <1>17 DEF RenameNew, RenameService, Renamable, Applied
  <2>3. TaskInv'
    BY <1>17 DEF RenameNew, RenameService, Renamable, Applied
  <2>4. DonorNameInv'
    BY <1>17 DEF RenameNew, RenameService, Renamable, Applied
  <2>5. SuccessInv'
    BY <1>17 DEF RenameNew, RenameService, Renamable, Applied
  <2> QED
    BY <2>1, <2>2, <2>3, <2>4, <2>5
<1>18. ASSUME NEW r \in Runs, TaskCopy(r)
      PROVE  SwapInv'
  <2>1. OneActive'
    BY <1>18 DEF TaskCopy, Usable
  <2>2. OwnsNew'
    BY <1>18 DEF TaskCopy, Usable
  <2>3. TaskInv'
    BY <1>18 DEF TaskCopy, Usable
  <2>4. DonorNameInv'
    BY <1>18 DEF TaskCopy, Usable
  <2>5. SuccessInv'
    BY <1>18 DEF TaskCopy, Usable
  <2> QED
    BY <2>1, <2>2, <2>3, <2>4, <2>5
<1>19. ASSUME NEW r \in Runs, TaskSucceed(r)
      PROVE  SwapInv'
  <2>1. OneActive'
    BY <1>19 DEF TaskSucceed, Usable
  <2>2. OwnsNew'
    BY <1>19 DEF TaskSucceed, Usable
  <2>3. TaskInv'
    BY <1>19 DEF TaskSucceed, Usable
  <2>4. DonorNameInv'
    BY <1>19 DEF TaskSucceed, Usable
  <2>5. SuccessInv'
    BY <1>19 DEF TaskSucceed, Usable
  <2> QED
    BY <2>1, <2>2, <2>3, <2>4, <2>5
<1>20. ASSUME NEW r \in Runs, TaskFail(r)
      PROVE  SwapInv'
  BY <1>20 DEF TaskFail
<1>21. ASSUME NEW i \in Instances, BrokerCreate(i)
      PROVE  SwapInv'
  BY <1>21 DEF BrokerCreate
<1>22. ASSUME NEW i \in Instances, BrokerDelete(i)
      PROVE  SwapInv'
  <2>1. OneActive'
    BY <1>22 DEF BrokerDelete
  <2>2. OwnsNew'
    BY <1>22 DEF BrokerDelete
  <2>3. TaskInv'
    BY <1>22 DEF BrokerDelete
  <2>4. DonorNameInv'
    BY <1>22 DEF BrokerDelete
  <2>5. SuccessInv'
    BY <1>22 DEF BrokerDelete
  <2> QED
    BY <2>1, <2>2, <2>3, <2>4, <2>5
<1>23. CASE UNCHANGED vars
  BY <1>23 DEF vars
<1>24. CASE ExpireToken
  BY <1>24 DEF ExpireToken
<1>25. ASSUME NEW r \in Runs, OutputLogs(r)
      PROVE  SwapInv'
  <2>1. OneActive'
    BY <1>25 DEF OutputLogs, AfterTask
  <2>2. OwnsNew'
    BY <1>25 DEF OutputLogs, AfterTask
  <2>3. TaskInv'
    BY <1>25 DEF OutputLogs, AfterTask
  <2>4. DonorNameInv'
    BY <1>25 DEF OutputLogs, AfterTask
  <2>5. SuccessInv'
    BY <1>25 DEF OutputLogs, AfterTask
  <2> QED
    BY <2>1, <2>2, <2>3, <2>4, <2>5
<1> QED
  BY <1>1, <1>2, <1>3, <1>4, <1>5, <1>6, <1>7, <1>8, <1>9, <1>10, <1>11, <1>12,
     <1>13, <1>14, <1>15, <1>16, <1>17, <1>18, <1>19, <1>20, <1>21, <1>22, <1>23, <1>24,
     <1>25
  DEF Next, Step, Plain, Call, Task, Broker

\* What the swap properties follow from: the typed invariants, over all steps.
LEMMA SwapInvariant ==
    ASSUME ~Overlap, TakenAnswers = {"error"}
    PROVE  Spec => [](TypeOK /\ DonorInv /\ SwapInv)
<1>1. Init => SwapInv
  BY RunsAssumption
  DEF Init, SwapInv, OneActive, OwnsNew, TaskInv, DonorNameInv, SuccessInv, Settled, Active, BeforeCreate,
      AfterCreate, BeforeTask
<1>2. TypeOK /\ TypeOK' /\ DonorInv /\ SwapInv /\ [Next]_vars => SwapInv'
  BY SwapStep
<1> QED
  BY Typing, DonorInvariant, <1>1, <1>2, PTL DEF Spec

\* The donor's name leads to all of the data, or for a moment nowhere while the
\* complete copy waits to be renamed.
THEOREM SwapIsComplete ==
    ASSUME ~Overlap, TakenAnswers = {"error"}
    PROVE  Spec => []SwapComplete
<1>1. TypeOK /\ SwapInv => SwapComplete
  BY RunsAssumption DEF TypeOK, SwapInv, TaskInv, DonorNameInv, Settled, SwapComplete, Usable
<1> QED
  BY SwapInvariant, <1>1, PTL

\* No task writes into the instance behind the donor's name.
THEOREM NoWriter ==
    ASSUME ~Overlap, TakenAnswers = {"error"}
    PROVE  Spec => []NoWriterBehindDonor
<1>1. TypeOK /\ SwapInv => NoWriterBehindDonor
  BY RunsAssumption DEF TypeOK, SwapInv, TaskInv, DonorNameInv, Settled, NoWriterBehindDonor
<1> QED
  BY SwapInvariant, <1>1, PTL

\* A run that returns no error has swapped its own complete instance in.
THEOREM SuccessSwapped ==
    ASSUME ~Overlap, TakenAnswers = {"error"}
    PROVE  Spec => []SuccessMeansSwapped
<1>1. TypeOK /\ DonorInv /\ SwapInv => SuccessMeansSwapped
  BY RunsAssumption
  DEF TypeOK, DonorInv, DonorSafe, SwapInv, DonorNameInv, SuccessInv, Settled, SuccessMeansSwapped, Usable
<1> QED
  BY SwapInvariant, <1>1, PTL

\* A rename error is returned only by a run whose own instance is complete.
THEOREM RenameErrorsTruthful ==
    ASSUME ~Overlap, TakenAnswers = {"error"}
    PROVE  Spec => RenameErrorTruthful
<1>1. ASSUME TypeOK, SwapInv, [Next]_vars, NEW r \in Runs,
             err[r] # "renameError", err'[r] = "renameError"
      PROVE  Usable(r) /\ data[r] = "full"
  <2>1. pc[r] \in {"renameDonor", "renameNew"}
    <3>1. ASSUME NEW q \in Runs, Start(q) \/ Kill(q) \/ Task(q)
          PROVE  err' = err
      BY <3>1 DEF Start, Kill, Continue, Task, TaskCopy, TaskSucceed, TaskFail, cliVars
    <3>2. ASSUME NEW i \in Instances, Broker(i)
          PROVE  err' = err
      BY <3>2 DEF Broker, BrokerCreate, BrokerDelete, cliVars
    <3>3. ASSUME NEW q \in Runs,
                 \/ CheckServiceExists(q) \/ CheckNameFree(q) \/ PollCreate(q) \/ Unpack(q)
                 \/ OutputLogs(q)
          PROVE  err' = err \/ err' = [err EXCEPT ![q] = "error"]
      BY <3>3 DEF CheckServiceExists, CheckNameFree, PollCreate, GivesUp, Retry, Unpack,
                  OutputLogs, Continue, Fail, ReturnError, CleanUpInstance, CleanUpApp
    <3>4. ASSUME NEW q \in Runs, NEW out \in Outcomes,
                 \/ CreateNew(q, out) \/ CreateTaken(q, out) \/ PushApp(q, out)
                 \/ BindDonor(q, out) \/ BindNew(q, out) \/ StartApp(q, out)
          PROVE  err' = err \/ err' = [err EXCEPT ![q] = "error"]
      BY <3>4 DEF CreateNew, CreateTaken, PushApp, BindDonor, BindNew, BindService, StartApp,
                  Continue, Fail, ReturnError, CleanUpInstance, CleanUpApp
    <3>5. ASSUME NEW q \in Runs, NEW out \in Outcomes,
                 \/ GetApp(q, out) \/ CreateTask(q, out) \/ PollTask(q, out)
                 \/ DeleteApp(q, out) \/ CleanupOnError(q, out)
          PROVE  err' = err \/ err' = [err EXCEPT ![q] = "error"]
      BY <3>5 DEF GetApp, CreateTask, PollTask, NoAnswer, GivesUp, Retry, DeleteApp, CleanupOnError,
                  Continue, Fail, ReturnError, CleanUpInstance, CleanUpApp, FailTask
    <3>6. ASSUME NEW q \in Runs, NEW out \in Outcomes,
                 RenameDonor(q, out) \/ RenameNew(q, out)
          PROVE  /\ pc[q] \in {"renameDonor", "renameNew"}
                 /\ err' = err \/ err' = [err EXCEPT ![q] = "renameError"]
      BY <3>6 DEF RenameDonor, RenameNew, Continue, Fail, ReturnRenameError
    <3>7. CASE UNCHANGED vars \/ ExpireToken
      BY <1>1, <3>7 DEF vars, cliVars, ExpireToken
    <3> QED
      BY <1>1, <3>1, <3>2, <3>3, <3>4, <3>5, <3>6, <3>7 DEF TypeOK, Next, Step, Plain, Call
  <2> QED
    BY <1>1, <2>1, RunsAssumption DEF SwapInv, OwnsNew, TaskInv, AfterCreate, Usable
<1>2. TypeOK /\ SwapInv /\ [Next]_vars =>
        [\A r \in Runs : err[r] # "renameError" /\ err'[r] = "renameError"
                           => Usable(r) /\ data[r] = "full"]_vars
  BY <1>1
<1> QED
  BY SwapInvariant, <1>2, PTL DEF Spec, RenameErrorTruthful

-----------------------------------------------------------------------------
(* An expired token does not end a migration *)

\* A run waits for its task without an error, and a poll that has failed because
\* the token had expired is followed by one with a token that lasts.
TokenInv ==
    /\ OneActive
    /\ \A r \in Runs :
         /\ pc[r] \in BeforeTask \union {"waitTask"} => err[r] = "none"
         /\ pc[r] = "waitTask" => attempt[r] = 0 \/ (attempt[r] = 1 /\ token = "new")

\* Every step of runs that do not overlap keeps TokenInv.
LEMMA TokenStep ==
    ASSUME ~Overlap, Faults = {}, MaxAttempts > 1, TypeOK, TokenInv, [Next]_vars
    PROVE  TokenInv'
<1> USE RunsAssumption
    DEF TokenInv, OneActive, Active, BeforeCreate, BeforeTask, TypeOK, Attempts, Outcomes,
        cliVars, instVars, appVars, taskVars,
        Continue, Fail, ReturnError, ReturnRenameError, CleanUpInstance, CleanUpApp, FailTask
<1>1. ASSUME NEW r \in Runs, Start(r) \/ Kill(r)
      PROVE  TokenInv'
  BY <1>1 DEF Start, Kill
<1>2. ASSUME NEW r \in Runs, UNCHANGED token,
             CheckServiceExists(r) \/ CheckNameFree(r) \/ Unpack(r) \/ OutputLogs(r)
      PROVE  TokenInv'
  BY <1>2 DEF CheckServiceExists, CheckNameFree, Unpack, OutputLogs, AfterTask
<1>3. ASSUME NEW r \in Runs, PollCreate(r), UNCHANGED token
      PROVE  TokenInv'
  BY <1>3 DEF PollCreate, GivesUp, Retry
<1>4. ASSUME NEW r \in Runs, NEW out \in Outcomes, UNCHANGED token,
             CreateNew(r, out) \/ CreateTaken(r, out) \/ PushApp(r, out)
      PROVE  TokenInv'
  <2>1. CASE CreateNew(r, out)
    BY <1>4, <2>1, SMTT(60) DEF CreateNew
  <2>2. CASE CreateTaken(r, out)
    BY <1>4, <2>2 DEF CreateTaken
  <2>3. CASE PushApp(r, out)
    BY <1>4, <2>3 DEF PushApp
  <2> QED
    BY <1>4, <2>1, <2>2, <2>3
<1>5. ASSUME NEW r \in Runs, NEW out \in Outcomes, UNCHANGED token,
             BindDonor(r, out) \/ BindNew(r, out) \/ GetApp(r, out) \/ CreateTask(r, out)
      PROVE  TokenInv'
  BY <1>5 DEF BindDonor, BindNew, BindService, GetApp, CreateTask
<1>6. ASSUME NEW r \in Runs, NEW out \in Outcomes, UNCHANGED token,
             DeleteApp(r, out) \/ CleanupOnError(r, out) \/ RenameDonor(r, out) \/ RenameNew(r, out)
      PROVE  TokenInv'
  BY <1>6, SMTT(60) DEF DeleteApp, CleanupOnError, RenameDonor, RenameNew
<1>7. ASSUME NEW r \in Runs, NEW out \in Outcomes, StartApp(r, out)
      PROVE  TokenInv'
  BY <1>7 DEF StartApp
<1>8. ASSUME NEW r \in Runs, NEW out \in Outcomes, PollTask(r, out)
      PROVE  TokenInv'
  <2>1. CASE TokenGood /\ UseToken
    BY <1>8, <2>1 DEF PollTask, TokenGood
  <2>2. CASE ~TokenGood /\ token' = "new"
    <3>1. attempt[r] = 0 /\ ~GivesUp(r)
      BY <1>8, <2>2 DEF PollTask, TokenGood, GivesUp
    <3>2. Retry(r)
      BY <1>8, <2>2, <3>1 DEF PollTask, NoAnswer
    <3> QED
      BY <1>8, <2>2, <3>1, <3>2 DEF PollTask, Retry
  <2> QED
    BY <1>8, <2>1, <2>2 DEF PollTask, RenewToken
<1>9. CASE ExpireToken \/ UNCHANGED vars
  BY <1>9 DEF ExpireToken, vars
<1>10. ASSUME NEW r \in Runs, Task(r)
      PROVE  TokenInv'
  BY <1>10 DEF Task, TaskCopy, TaskSucceed, TaskFail
<1>11. ASSUME NEW i \in Instances, Broker(i)
      PROVE  TokenInv'
  BY <1>11 DEF Broker, BrokerCreate, BrokerDelete
<1> QED
  BY <1>1, <1>2, <1>3, <1>4, <1>5, <1>6, <1>7, <1>8, <1>9, <1>10, <1>11
  DEF Next, Step, Plain, Call

\* With no failing call, one run after another gives up a copy that is under way
\* only when its task has failed, however often the token expires.
THEOREM TokenTimeouts ==
    ASSUME ~Overlap, MaxAttempts > 1
    PROVE  Spec => TokenTimeoutsIgnored
<1>1. CASE Faults = {}
  <2>1. Init => TokenInv
    BY DEF Init, TokenInv, OneActive, Active
  <2>2. TypeOK /\ TokenInv /\ [Next]_vars => TokenInv'
    BY <1>1, TokenStep
  <2>3. ASSUME TypeOK, TokenInv, [Next]_vars, NEW r \in Runs,
               pc[r] = "waitTask", err'[r] # "none"
        PROVE  task[r] = "failed"
    <3> USE DEF TokenInv, OneActive, Active, TypeOK, BeforeTask, Outcomes, cliVars
    <3>1. err[r] = "none" /\ err' # err
      BY <2>3
    <3>2. ASSUME NEW q \in Runs, Active(q)
          PROVE  q = r
      BY <2>3, <3>2
    <3>3. PICK out \in Outcomes : PollTask(r, out)
      <4>1. ASSUME NEW q \in Runs, Plain(q)
            PROVE  pc[q] # "waitTask" /\ Active(q)
        BY <4>1 DEF Plain, CheckServiceExists, CheckNameFree, PollCreate, Unpack, OutputLogs, Call, CreateNew,
           CreateTaken, PushApp, BindDonor, BindNew, BindService, GetApp, CreateTask, DeleteApp,
           CleanupOnError, RenameDonor, RenameNew
      <4>2. ASSUME NEW q \in Runs, NEW out \in Outcomes, StartApp(q, out)
            PROVE  pc[q] # "waitTask" /\ Active(q)
        BY <4>2 DEF StartApp
      <4>3. ASSUME NEW q \in Runs, NEW out \in Outcomes, PollTask(q, out)
            PROVE  Active(q)
        BY <4>3 DEF PollTask
      <4>4. ASSUME NEW q \in Runs, Start(q) \/ Kill(q) \/ Task(q)
            PROVE  err' = err
        BY <4>4 DEF Start, Continue, Kill, Task, TaskCopy, TaskSucceed, TaskFail
      <4>5. ASSUME NEW i \in Instances, Broker(i)
            PROVE  err' = err
        BY <4>5 DEF Broker, BrokerCreate, BrokerDelete
      <4>6. ExpireToken \/ UNCHANGED vars => err' = err
        BY DEF ExpireToken, vars
      <4>7. ASSUME NEW q \in Runs, Step(q)
            PROVE  \E out \in Outcomes : PollTask(r, out)
        <5>1. Active(q) => q = r
          BY <3>2
        <5>2. ~Plain(q)
          BY <2>3, <4>1, <5>1
        <5>3. ASSUME NEW out \in Outcomes PROVE ~StartApp(q, out)
          BY <2>3, <4>2, <5>1
        <5>4. PICK out \in Outcomes : PollTask(q, out)
          BY <4>7, <5>2, <5>3 DEF Step
        <5> QED
          BY <4>3, <5>1, <5>4
      <4> QED
        BY <2>3, <3>1, <4>4, <4>5, <4>6, <4>7 DEF Next
    <3>4. ~GivesUp(r) \/ TokenGood
      BY <2>3 DEF GivesUp, TokenGood
    <3>5. CASE TokenGood /\ Verdict(r) = "failed"
      BY <3>5 DEF Verdict
    <3>6. CASE ~(TokenGood /\ Verdict(r) = "failed")
      BY <1>1, <3>1, <3>3, <3>4, <3>6 DEF PollTask, NoAnswer, Retry, Continue
    <3> QED
      BY <3>5, <3>6
  <2>4. TypeOK /\ TokenInv /\ [Next]_vars =>
          [\A r \in Runs :
             Faults = {} /\ pc[r] = "waitTask" /\ err'[r] # "none" => task[r] = "failed"]_vars
    BY <2>3
  <2> QED
    BY Typing, <2>1, <2>2, <2>4, PTL DEF Spec, TokenTimeoutsIgnored
<1>2. CASE Faults # {}
  <2>1. [Next]_vars =>
          [\A r \in Runs :
             Faults = {} /\ pc[r] = "waitTask" /\ err'[r] # "none" => task[r] = "failed"]_vars
    BY <1>2
  <2> QED
    BY <2>1, PTL DEF Spec, TokenTimeoutsIgnored
<1> QED
  BY <1>1, <1>2

-----------------------------------------------------------------------------
(* A failed run has asked for the deletion of all it made *)

Gone == {"none", "deleting", "deleted", "undeleted"}

\* Where a run may have an app: from the push to the deferred deletion, and for
\* good once it has been killed.
WithApp == {"bindDonor", "bindNew", "startApp", "getApp", "createTask", "waitTask", "logs",
            "deleteApp", "killed"}

\* A run that is about to clean up still finds its own instance, if there is one,
\* under <donor>-new, and its app is gone already.
CleanInv ==
    \A r \in Runs :
      /\ pc[r] = "cleanup" => names["new"] = r \/ op[r] \in Gone
      /\ pc[r] \in {"renameDonor", "renameNew"} => err[r] = "none"
      /\ r \in Cleanup =>
           /\ pc[r] \notin WithApp => app[r] = "absent"
           /\ pc[r] = "returned" /\ err[r] = "error" => op[r] \in Gone

\* With no failing call, every step of runs that do not overlap keeps CleanInv.
LEMMA CleanStep ==
    ASSUME ~Overlap, Faults = {}, TypeOK, TypeOK', DonorInv, SwapInv, CleanInv, [Next]_vars
    PROVE  CleanInv'
<1> USE RunsAssumption
    DEF CleanInv, SwapInv, OneActive, OwnsNew, Active, Gone, WithApp, BeforeCreate, AfterCreate,
        TypeOK, Outcomes, Applied, cliVars, instVars, appVars, taskVars,
        Continue, Fail, ReturnError, ReturnRenameError, CleanUpInstance, CleanUpApp, FailTask
<1>1. ASSUME NEW r \in Runs, Start(r) \/ Kill(r)
      PROVE  CleanInv'
  BY <1>1 DEF Start, Kill
<1>2. ASSUME NEW r \in Runs, CheckServiceExists(r) \/ CheckNameFree(r) \/ Unpack(r)
      PROVE  CleanInv'
  BY <1>2 DEF CheckServiceExists, CheckNameFree, Unpack
<1>3. ASSUME NEW r \in Runs, PollCreate(r)
      PROVE  CleanInv'
  BY <1>3 DEF PollCreate, GivesUp, Retry
<1>4. ASSUME NEW r \in Runs, OutputLogs(r)
      PROVE  CleanInv'
  BY <1>4 DEF OutputLogs, AfterTask
<1>5. ASSUME NEW r \in Runs, NEW out \in Outcomes, CreateNew(r, out)
      PROVE  CleanInv'
  BY <1>5 DEF CreateNew
<1>6. ASSUME NEW r \in Runs, NEW out \in Outcomes, CreateTaken(r, out)
      PROVE  CleanInv'
  BY <1>6 DEF CreateTaken
<1>7. ASSUME NEW r \in Runs, NEW out \in Outcomes, PushApp(r, out)
      PROVE  CleanInv'
  BY <1>7 DEF PushApp
<1>8. ASSUME NEW r \in Runs, NEW out \in Outcomes, BindDonor(r, out) \/ BindNew(r, out)
      PROVE  CleanInv'
  BY <1>8 DEF BindDonor, BindNew, BindService
<1>9. ASSUME NEW r \in Runs, NEW out \in Outcomes,
             StartApp(r, out) \/ GetApp(r, out) \/ CreateTask(r, out)
      PROVE  CleanInv'
  BY <1>9 DEF StartApp, GetApp, CreateTask
<1>10. ASSUME NEW r \in Runs, NEW out \in Outcomes, PollTask(r, out)
      PROVE  CleanInv'
  BY <1>10 DEF PollTask, NoAnswer, GivesUp, Retry
<1>11. ASSUME NEW r \in Runs, NEW out \in Outcomes, DeleteApp(r, out)
      PROVE  CleanInv'
  BY <1>11 DEF DeleteApp
<1>12. ASSUME NEW r \in Runs, NEW out \in Outcomes, CleanupOnError(r, out)
      PROVE  CleanInv'
  BY <1>12 DEF CleanupOnError, ToDelete
<1>13. ASSUME NEW r \in Runs, NEW out \in Outcomes, RenameDonor(r, out) \/ RenameNew(r, out)
      PROVE  CleanInv'
  BY <1>13 DEF RenameDonor, RenameNew, RenameService, Renamable
<1>14. ASSUME NEW r \in Runs, Task(r)
      PROVE  CleanInv'
  BY <1>14 DEF Task, TaskCopy, TaskSucceed, TaskFail
<1>15. ASSUME NEW i \in Instances, Broker(i)
      PROVE  CleanInv'
  BY <1>15 DEF Broker, BrokerCreate, BrokerDelete
<1>16. CASE ExpireToken \/ UNCHANGED vars
  BY <1>16 DEF ExpireToken, vars
<1> QED
  BY <1>1, <1>2, <1>3, <1>4, <1>5, <1>6, <1>7, <1>8, <1>9, <1>10, <1>11, <1>12, <1>13, <1>14,
     <1>15, <1>16
  DEF Next, Step, Plain, Call

\* With no failing call, a run that fails before its copy is complete has deleted
\* its app and has had the deletion of its own instance, one whose creation failed
\* included, accepted.
THEOREM FailuresCleanUp ==
    ASSUME ~Overlap, TakenAnswers = {"error"}, Faults = {}
    PROVE  Spec => []DeletionAsked
<1>1. Init => CleanInv
  BY DEF Init, CleanInv, WithApp
<1>2. TypeOK /\ TypeOK' /\ DonorInv /\ SwapInv /\ CleanInv /\ [Next]_vars => CleanInv'
  BY CleanStep
<1>3. CleanInv => DeletionAsked
  BY RunsAssumption DEF CleanInv, DeletionAsked, Gone, WithApp
<1> QED
  BY SwapInvariant, <1>1, <1>2, <1>3, PTL DEF Spec

-----------------------------------------------------------------------------
(* The driver implements Handover *)

\* Nothing that Handover sees has changed.
LEMMA Unseen ==
    ASSUME names'["donor"] = names["donor"], op' = op,
           \A r \in Runs : data'[r] = "full" <=> data[r] = "full"
    PROVE  UNCHANGED Promise!vars
  BY DEF Promise!vars, CopyOf

\* Handover sees one copy change.
LEMMA OneCopy ==
    ASSUME NEW r \in Runs, NEW v, CopyOf(r)' = v,
           \A q \in Runs : q # r => CopyOf(q)' = CopyOf(q)
    PROVE  [q \in Runs |-> CopyOf(q)]' = [[q \in Runs |-> CopyOf(q)] EXCEPT ![r] = v]
  OBVIOUS

\* The copy of i is lost while the donor's name leads elsewhere.
LEMMA Discarded ==
    ASSUME NEW i \in Runs, CopyOf(i) \in {"building", "complete"}, CopyOf(i)' = "gone",
           \A q \in Runs : q # i => CopyOf(q)' = CopyOf(q),
           names["donor"] \notin {None, i}, names' = names
    PROVE  Promise!Discard(i)
  BY OneCopy DEF Promise!Discard

\* Every step of the driver is one of Handover's, or changes nothing it sees.
LEMMA PromiseStep ==
    ASSUME ~Overlap, TakenAnswers = {"error"},
           TypeOK, TypeOK', DonorInv, SwapInv, SwapInv', [Next]_vars
    PROVE  [Promise!Next]_(Promise!vars)
<1> USE RunsAssumption
    DEF TypeOK, SwapInv, OwnsNew, TaskInv, DonorNameInv, Settled, DonorInv, DonorSafe, BeforeCreate,
        AfterCreate, BeforeTask, instVars
<1>1. ASSUME UNCHANGED instVars PROVE UNCHANGED Promise!vars
  BY <1>1, Unseen
<1>2. ASSUME NEW r \in Runs, NEW out \in Outcomes, CreateNew(r, out)
      PROVE  Promise!Build(r) \/ UNCHANGED Promise!vars
  <2>1. CASE op' = op
    BY <1>2, <2>1, Unseen DEF CreateNew
  <2>2. CASE op' # op
    <3>1. CopyOf(r) = "absent" /\ CopyOf(r)' = "building"
      BY <1>2, <2>2 DEF CreateNew, CopyOf
    <3>2. \A q \in Runs : q # r => CopyOf(q)' = CopyOf(q)
      BY <1>2 DEF CreateNew, CopyOf
    <3> QED
      BY <1>2, <3>1, <3>2, OneCopy, SMTT(60) DEF CreateNew, Promise!Build
  <2> QED
    BY <2>1, <2>2
<1>3. ASSUME NEW r \in Runs, NEW out \in Outcomes, CleanupOnError(r, out)
      PROVE  (\E i \in Runs : Promise!Discard(i)) \/ UNCHANGED Promise!vars
  <2> DEFINE i == names["new"]
  <2>1. CASE i \in Runs /\ CopyOf(i) \in {"building", "complete"} /\ op'[i] = "deleting"
    <3>1. CopyOf(i)' = "gone"
      BY <1>3, <2>1 DEF CleanupOnError, ToDelete, CopyOf
    <3>2. \A q \in Runs : q # i => CopyOf(q)' = CopyOf(q)
      BY <1>3 DEF CleanupOnError, ToDelete, CopyOf
    <3>3. names["donor"] \notin {None, i} /\ names' = names
      BY <1>3 DEF CleanupOnError, ToDelete
    <3> QED
      BY <2>1, <3>1, <3>2, <3>3, Discarded
  <2>2. CASE ~(i \in Runs /\ CopyOf(i) \in {"building", "complete"} /\ op'[i] = "deleting")
    <3>1. \A q \in Runs : CopyOf(q)' = CopyOf(q)
      BY <1>3, <2>2 DEF CleanupOnError, ToDelete, CopyOf
    <3> QED
      BY <1>3, <3>1 DEF CleanupOnError, ToDelete, Promise!vars
  <2> QED
    BY <2>1, <2>2
<1>4. ASSUME NEW r \in Runs, NEW out \in Outcomes, RenameDonor(r, out)
      PROVE  Promise!Archive \/ UNCHANGED Promise!vars
  BY <1>4, SMTT(60) DEF RenameDonor, RenameService, Renamable, Promise!Archive, Promise!vars, CopyOf
<1>5. ASSUME NEW r \in Runs, NEW out \in Outcomes, RenameNew(r, out)
      PROVE  Promise!Promote(r) \/ UNCHANGED Promise!vars
  BY <1>5 DEF RenameNew, RenameService, Renamable, Promise!Promote, Promise!vars, CopyOf
<1>6. ASSUME NEW r \in Runs, TaskCopy(r)
      PROVE  UNCHANGED Promise!vars
  BY <1>6, Unseen DEF TaskCopy, Usable
<1>7. ASSUME NEW r \in Runs, TaskSucceed(r)
      PROVE  Promise!Complete(r)
  <2>1. dst[r] = r /\ op[r] = "succeeded" /\ data[src[r]] = "full"
    BY <1>7 DEF TaskSucceed, Usable
  <2>2. data' = [data EXCEPT ![r] = "full"]
    <3>1. ~ \E q \in Runs \ {r} : task[q] = "copying" /\ dst[q] = dst[r]
      BY <2>1
    <3> QED
      BY <1>7, <2>1, <3>1 DEF TaskSucceed
  <2>3. CopyOf(r) = "building" /\ CopyOf(r)' = "complete"
    BY <1>7, <2>1, <2>2 DEF TaskSucceed, CopyOf
  <2>4. \A q \in Runs : q # r => CopyOf(q)' = CopyOf(q)
    BY <1>7, <2>2 DEF TaskSucceed, CopyOf
  <2> QED
    BY <1>7, <2>3, <2>4, OneCopy, SMTT(60) DEF TaskSucceed, Promise!Complete
<1>8. ASSUME NEW i \in Instances, BrokerCreate(i)
      PROVE  (\E q \in Runs : Promise!Discard(q)) \/ UNCHANGED Promise!vars
  <2>1. CopyOf(i) \in {"building", "complete"}
    BY <1>8 DEF BrokerCreate, CopyOf
  <2>2. \A q \in Runs : q # i => CopyOf(q)' = CopyOf(q)
    BY <1>8 DEF BrokerCreate, CopyOf
  <2>3. CASE i \in Runs /\ op'[i] = "failed"
    <3>1. CopyOf(i)' = "gone"
      BY <1>8, <2>3 DEF BrokerCreate, CopyOf
    <3>2. names["donor"] \notin {None, i} /\ names' = names
      BY <1>8, <2>3 DEF BrokerCreate
    <3> QED
      BY <2>1, <2>2, <2>3, <3>1, <3>2, Discarded
  <2>4. CASE i \notin Runs
    BY <1>8, <2>2, <2>4 DEF BrokerCreate, Promise!vars
  <2>5. CASE i \in Runs /\ op'[i] = "succeeded"
    <3>1. CopyOf(i)' = CopyOf(i)
      BY <1>8, <2>1, <2>5 DEF BrokerCreate, CopyOf
    <3> QED
      BY <1>8, <2>2, <3>1 DEF BrokerCreate, Promise!vars
  <2> QED
    BY <1>8, <2>3, <2>4, <2>5 DEF BrokerCreate
<1>9. ASSUME NEW i \in Instances, BrokerDelete(i)
      PROVE  UNCHANGED Promise!vars
  BY <1>9 DEF BrokerDelete, Promise!vars, CopyOf
<1>10. [Next]_vars /\ ~UNCHANGED instVars =>
         \/ \E r \in Runs : TaskCopy(r) \/ TaskSucceed(r)
         \/ \E i \in Instances : Broker(i)
         \/ \E r \in Runs, out \in Outcomes :
              CreateNew(r, out) \/ CleanupOnError(r, out) \/ RenameDonor(r, out) \/ RenameNew(r, out)
  <2>1. ASSUME NEW r \in Runs, Start(r) \/ Kill(r) \/ TaskFail(r)
        PROVE  UNCHANGED instVars
    BY <2>1 DEF Start, Kill, TaskFail
  <2>2. ASSUME NEW r \in Runs,
               \/ CheckServiceExists(r) \/ CheckNameFree(r) \/ PollCreate(r) \/ Unpack(r)
               \/ OutputLogs(r)
        PROVE  UNCHANGED instVars
    BY <2>2 DEF CheckServiceExists, CheckNameFree, PollCreate, Unpack, OutputLogs
  <2>3. ASSUME NEW r \in Runs, NEW out \in Outcomes,
               \/ CreateTaken(r, out) \/ PushApp(r, out) \/ BindDonor(r, out) \/ BindNew(r, out)
               \/ StartApp(r, out) \/ GetApp(r, out) \/ CreateTask(r, out) \/ PollTask(r, out)
               \/ DeleteApp(r, out)
        PROVE  UNCHANGED instVars
    BY <2>3 DEF CreateTaken, PushApp, BindDonor, BindNew, BindService, StartApp, GetApp,
                CreateTask, PollTask, DeleteApp
  <2>4. ExpireToken \/ UNCHANGED vars => UNCHANGED instVars
    BY DEF ExpireToken, vars
  <2> QED
    BY <2>1, <2>2, <2>3, <2>4, SMTT(60) DEF Next, Step, Plain, Call, Task
<1> QED
  BY <1>1, <1>2, <1>3, <1>4, <1>5, <1>6, <1>7, <1>8, <1>9, <1>10 DEF Promise!Next, Broker

\* Runs that do not overlap implement the handover: the name moves once, to a
\* complete copy, and no copy is thrown away while the name needs it.
THEOREM Refinement ==
    ASSUME ~Overlap, TakenAnswers = {"error"}
    PROVE  Spec => KeepsPromise
<1>1. Init => Promise!Init
  BY RunsAssumption DEF Init, Promise!Init, CopyOf
<1> QED
  BY SwapInvariant, PromiseStep, <1>1, PTL DEF Spec, KeepsPromise, Promise!Spec
=============================================================================
