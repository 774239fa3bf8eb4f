------------------------- MODULE MigrateTaskProofs -------------------------
(***************************************************************************)
(* Proofs about the migration task, for every set of objects, capacity of  *)
(* the pipes and timeout.  The inductive invariant TaskInv says that the   *)
(* children are started in the order of the pipe, that one of them ends    *)
(* well only when nothing is left in front of it, and that the binary has  *)
(* passed only those it has seen end well.                                 *)
(***************************************************************************)
EXTENDS MigrateTask, FiniteSetTheorems, TLAPS

Early == {"source", "dest", "sourceHost", "destHost", "schemas", "views"}

\* The binary's exit status and its program counter agree.
Exiting ==
    /\ pc = "exited" <=> exit # "none"
    /\ pc \in {"views", "start", "wait"} \/ exit = "0" => schemas = UserSchemas

\* Children start in the order of the pipe.
Started ==
    /\ pc \in Early => \A p \in Children : st[p] = "new"
    /\ pc = "start" => \A i \in 1 .. 3 : st[StartOrder[i]] = "new" <=> i >= turn
    /\ pc = "wait" => \A p \in Children : st[p] # "new"
    /\ st["mysql"] # "new" => st["sed"] # "new"
    /\ st["sed"] # "new" => st["mysqldump"] # "new"

\* What a child that ended well has left behind.
Flow ==
    /\ st["mysqldump"] = "ok" => ToDump \intersect In("donor") = {}
    /\ st["sed"] = "ok" =>
         /\ In("pipe1") = {} /\ In("sed") = {}
         /\ st["mysqldump"] \in {"ok", "failed"}
    /\ st["mysql"] = "ok" => In("pipe2") = {} /\ st["sed"] \in {"ok", "failed"}

\* Which children the binary has seen end well; mysql has always ended by then.
Waited ==
    /\ pc = "wait" => \A i \in 1 .. 3 : i < turn => st[WaitOrder[i]] = "ok"
    /\ exit = "0" => \A p \in Children : st[p] = "ok"
    /\ pc = "exited" => st["mysql"] # "running"

TaskInv == TypeOK /\ Exiting /\ Started /\ Flow /\ Waited

\* Before the binary runs nothing has moved.
LEMMA InvInit == Init => TaskInv
<1> SUFFICES ASSUME Init PROVE TaskInv
  OBVIOUS
<1>1. TypeOK
  BY BoundsAssumption DEF Init, TypeOK, Children, Places
<1>2. Exiting /\ Started
  BY DEF Init, Exiting, Started, Early, Children, StartOrder
<1>3. Flow /\ Waited
  BY DEF Init, Flow, Waited, Children
<1> QED
  BY <1>1, <1>2, <1>3 DEF TaskInv

\* Before CopyData the binary only advances or exits with status 1.
LEMMA InvPrepare ==
  ASSUME TaskInv,
         \/ Lookup("source", "dest") \/ Lookup("dest", "sourceHost")
         \/ ValidateHost("sourceHost", "destHost") \/ ValidateHost("destHost", "schemas")
         \/ DiscoverDatabases \/ (\E v \in Views : CheckView(v)) \/ BuildCommands
  PROVE  TaskInv'
<1> USE DEF TaskInv, mainVars, discVars
<1>1. /\ pc \in Early /\ exit = "none" /\ UNCHANGED <<broken, st, at>>
      /\ \/ pc' \in Early /\ exit' = "none"
         \/ pc' = "start" /\ exit' = "none" /\ turn' = 1
         \/ pc' = "exited" /\ exit' = "1"
      /\ turn' \in {turn, 1} /\ ticks' \in 0 .. Timeout - 1
      /\ schemas' \subseteq UserSchemas
      /\ unchecked' \subseteq Views /\ skipped' \subseteq Views
      /\ pc' \in {"views", "start", "wait"} => schemas' = UserSchemas
  BY BoundsAssumption
  DEF Lookup, ValidateHost, DiscoverDatabases, CheckView, BuildCommands, Goto, Fatal, Exit,
      Early, TypeOK, Exiting
<1>2. TypeOK'
  BY <1>1 DEF TypeOK, Early
<1>3. Exiting'
  BY <1>1 DEF Exiting, Early
<1>4. Started'
  BY <1>1 DEF Started, Early, Children, StartOrder
<1>5. Flow' /\ Waited'
  BY <1>1 DEF Flow, Waited, Started, Early, Children
<1> QED
  BY <1>2, <1>3, <1>4, <1>5

\* Starting a child, in order, keeps TaskInv.
LEMMA InvStart == ASSUME TaskInv, StartChild PROVE TaskInv'
<1> USE DEF TaskInv, StartChild, mainVars, discVars
<1>1. pc = "start" /\ exit = "none" /\ turn \in 1 .. 3 /\ st \in [Children -> {"new", "running", "ok", "failed"}]
  BY DEF TypeOK, Exiting
<1>2. CASE Fatal /\ UNCHANGED st
  <2>1. TypeOK' /\ Exiting'
    BY <1>1, <1>2 DEF TypeOK, Exiting, Fatal, Exit
  <2>2. Started'
    BY <1>1, <1>2 DEF Started, Fatal, Exit, Early
  <2>3. Flow'
    BY <1>1, <1>2 DEF Flow, In, ToDump
  <2>4. Waited'
    BY <1>1, <1>2 DEF Waited, Started, StartOrder, Fatal, Exit
  <2> QED
    BY <2>1, <2>2, <2>3, <2>4
<1>3. ASSUME st' = [st EXCEPT ![StartOrder[turn]] = "running"],
             IF turn = 3 THEN Goto("wait") ELSE turn' = turn + 1 /\ UNCHANGED <<pc, ticks, exit>>
      PROVE  TaskInv'
  <2>1. StartOrder[1] = "mysqldump" /\ StartOrder[2] = "sed" /\ StartOrder[3] = "mysql"
    BY DEF StartOrder
  <2>2. /\ \A i \in 1 .. 3 : st[StartOrder[i]] = "new" <=> i >= turn
        /\ turn = 1 \/ turn = 2 \/ turn = 3
    BY <1>1 DEF Started
  <2>3. TypeOK'
    BY <1>1, <1>3, <2>1, <2>2, BoundsAssumption DEF TypeOK, Goto, Children
  <2>4. Exiting'
    BY <1>1, <1>3 DEF Exiting, Goto
  <2>5. Started'
    BY <1>1, <1>3, <2>1, <2>2 DEF Started, Goto, Children, Early
  <2>6. Flow'
    BY <1>1, <1>3, <2>1, <2>2 DEF Flow, In, ToDump, Children
  <2>7. Waited'
    BY <1>1, <1>3 DEF Waited, Goto
  <2> QED
    BY <2>3, <2>4, <2>5, <2>6, <2>7
<1> QED
  BY <1>2, <1>3

\* The binary passes only a child that ended well.
LEMMA InvWait == ASSUME TaskInv, WaitChild PROVE TaskInv'
<1> USE DEF TaskInv, mainVars, discVars
<1>1. /\ pc = "wait" /\ exit = "none" /\ turn \in 1 .. 3
      /\ st[WaitOrder[turn]] \in {"ok", "failed"}
      /\ UNCHANGED <<discVars, broken, st, at>>
  BY DEF WaitChild, TypeOK, Exiting
<1>2. \/ Fatal
      \/ st[WaitOrder[turn]] = "ok" /\ turn = 3 /\ Exit("0")
      \/ st[WaitOrder[turn]] = "ok" /\ turn # 3 /\ turn' = turn + 1 /\ UNCHANGED <<pc, ticks, exit>>
  BY DEF WaitChild, Succeeded
<1>3. WaitOrder[1] = "mysql" /\ WaitOrder[2] = "sed" /\ WaitOrder[3] = "mysqldump"
  BY DEF WaitOrder
<1>4. TypeOK'
  BY <1>1, <1>2 DEF TypeOK, Fatal, Exit
<1>5. Exiting'
  BY <1>1, <1>2 DEF Exiting, Fatal, Exit
<1>6. Started'
  BY <1>1, <1>2 DEF Started, Fatal, Exit, Early
<1>7. Flow'
  BY <1>1 DEF Flow, In, ToDump
<1>8. Waited'
  BY <1>1, <1>2, <1>3 DEF Waited, Fatal, Exit, Children
<1> QED
  BY <1>4, <1>5, <1>6, <1>7, <1>8

\* What a child may do: end, or move one object one place on.
LEMMA ChildSteps ==
  ASSUME TaskInv, NEW p \in Children, Child(p) \/ Crash(p)
  PROVE  /\ st[p] = "running" /\ UNCHANGED <<mainVars, discVars, broken>>
         /\ \/ st' = [st EXCEPT ![p] = "failed"] /\ UNCHANGED at
            \/ /\ st' = [st EXCEPT ![p] = "ok"] /\ UNCHANGED at
               /\ p = "mysqldump" => ToDump \intersect In("donor") = {}
               /\ p = "sed" =>
                    In("pipe1") = {} /\ In("sed") = {} /\ st["mysqldump"] # "running"
               /\ p = "mysql" => In("pipe2") = {} /\ st["sed"] # "running"
            \/ /\ UNCHANGED st
               /\ \E o \in Objects :
                    \/ p = "mysqldump" /\ at[o] = "donor" /\ at' = [at EXCEPT ![o] = "pipe1"]
                    \/ p = "sed" /\ at[o] = "pipe1" /\ at' = [at EXCEPT ![o] = "sed"]
                    \/ p = "sed" /\ at[o] = "sed" /\ at' = [at EXCEPT ![o] = "pipe2"]
                    \/ p = "mysql" /\ at[o] = "pipe2" /\ at' = [at EXCEPT ![o] = "copy"]
<1>1. CASE Crash(p)
  BY <1>1 DEF Crash, End
<1>2. CASE Child(p)
  <2>1. CASE p = "mysqldump"
    BY <1>2, <2>1 DEF Child, Work, Dump, DumpDone, Write, Move, End
  <2>2. CASE p = "sed"
    BY <1>2, <2>2 DEF Child, Work, SedRead, SedWrite, SedDone, Write, Move, End
  <2>3. CASE p = "mysql"
    BY <1>2, <2>3 DEF Child, Work, Apply, ApplyDone, Move, End
  <2> QED
    BY <2>1, <2>2, <2>3 DEF Children
<1> QED
  BY <1>1, <1>2

\* A child's step, or its crash, keeps TaskInv.
LEMMA InvChild == ASSUME TaskInv, NEW p \in Children, Child(p) \/ Crash(p) PROVE TaskInv'
<1>1. /\ st[p] = "running" /\ UNCHANGED <<mainVars, discVars, broken>>
      /\ \/ UNCHANGED st
         \/ \E s \in {"ok", "failed"} : st' = [st EXCEPT ![p] = s]
  BY ChildSteps
<1>2. /\ st \in [Children -> {"new", "running", "ok", "failed"}]
      /\ at \in [Objects -> Places]
  BY DEF TaskInv, TypeOK
<1>3. TypeOK'
  <2>1. st' \in [Children -> {"new", "running", "ok", "failed"}]
    BY <1>1, <1>2
  <2>2. at' \in [Objects -> Places]
    BY <1>2, ChildSteps DEF Places
  <2> QED
    BY <1>1, <2>1, <2>2 DEF TaskInv, TypeOK, mainVars, discVars
<1>4. Exiting'
  BY <1>1 DEF TaskInv, Exiting, mainVars, discVars
<1>5. Started'
  BY <1>1, <1>2 DEF TaskInv, Started, mainVars, Children, StartOrder, Early
<1>6. Flow'
  <2>1. Flow /\ Started
    BY DEF TaskInv
  <2>2. CASE UNCHANGED st
    BY <1>1, <1>2, <2>1, <2>2, ChildSteps DEF Flow, In, ToDump, Places, discVars, Children
  <2>3. CASE UNCHANGED at
    BY <1>1, <1>2, <2>1, <2>3, ChildSteps DEF Flow, In, ToDump, Started, discVars, Children
  <2> QED
    BY <2>2, <2>3, ChildSteps
<1>7. Waited'
  BY <1>1, <1>2 DEF TaskInv, Waited, mainVars, Children, WaitOrder
<1> QED
  BY <1>3, <1>4, <1>5, <1>6, <1>7 DEF TaskInv

\* What no child or wait is concerned with keeps TaskInv.
LEMMA InvStutter ==
  ASSUME TaskInv, (\E v \in Views : BreakView(v)) \/ Terminating \/ UNCHANGED vars
  PROVE  TaskInv'
<1>1. UNCHANGED <<mainVars, discVars, st, at>> /\ broken' \subseteq Views
  BY DEF BreakView, Terminating, vars, TaskInv, TypeOK
<1>2. TypeOK' /\ Exiting' /\ Started'
  BY <1>1 DEF TaskInv, TypeOK, Exiting, Started, mainVars, discVars
<1>3. Flow' /\ Waited'
  BY <1>1 DEF TaskInv, Flow, Waited, In, ToDump, mainVars, discVars
<1> QED
  BY <1>2, <1>3 DEF TaskInv

\* Every step keeps TaskInv.
LEMMA InvStep == TaskInv /\ [Next]_vars => TaskInv'
BY InvPrepare, InvStart, InvWait, InvChild, InvStutter DEF Next, Main

\* TaskInv holds in every reachable state.
LEMMA Invariance == Spec => []TaskInv
BY InvInit, InvStep, PTL DEF Spec

\* Every variable of the task keeps its type.
THEOREM TaskTyping == Spec => []TypeOK
<1>1. TaskInv => TypeOK
  BY DEF TaskInv
<1> QED
  BY <1>1, Invariance, PTL

\* With status 0 nothing of the user's schemas is missing but what was skipped.
LEMMA NothingMissing == TaskInv /\ exit = "0" => Missing = {}
<1> SUFFICES ASSUME TaskInv, exit = "0" PROVE Missing = {}
  OBVIOUS
<1>1. \A p \in Children : st[p] = "ok"
  BY DEF TaskInv, Waited
<1>2. ToDump \intersect In("donor") = {} /\ In("pipe1") = {} /\ In("sed") = {} /\ In("pipe2") = {}
  BY <1>1 DEF TaskInv, Flow, Children
<1>3. schemas = UserSchemas /\ at \in [Objects -> Places]
  BY DEF TaskInv, Exiting, TypeOK
<1> QED
  BY <1>2, <1>3 DEF Missing, ToDump, In, Places

\* Only an invalid view is skipped as long as the server describes sound ones.
LEMMA SkippedInvalid ==
  ASSUME ~ServerErrors
  PROVE  Spec => []SkippedAreInvalid
<1>1. Init => SkippedAreInvalid
  BY DEF Init, SkippedAreInvalid
<1>2. SkippedAreInvalid /\ [Next]_vars => SkippedAreInvalid'
  <2> SUFFICES ASSUME SkippedAreInvalid, [Next]_vars PROVE SkippedAreInvalid'
    OBVIOUS
  <2> USE DEF SkippedAreInvalid
  <2>1. CASE \E v \in Views : CheckView(v)
    BY <2>1 DEF CheckView, MaySkip
  <2>2. CASE \/ Lookup("source", "dest") \/ Lookup("dest", "sourceHost")
             \/ ValidateHost("sourceHost", "destHost") \/ ValidateHost("destHost", "schemas")
             \/ DiscoverDatabases \/ BuildCommands \/ StartChild \/ WaitChild
    BY <2>2 DEF Lookup, ValidateHost, DiscoverDatabases, BuildCommands, StartChild, WaitChild, discVars
  <2>3. CASE \E p \in Children : Child(p) \/ Crash(p)
    BY <2>3 DEF Child, Crash, discVars
  <2>4. CASE (\E v \in Views : BreakView(v)) \/ Terminating \/ UNCHANGED vars
    BY <2>4 DEF BreakView, Terminating, vars, discVars
  <2> QED
    BY <2>1, <2>2, <2>3, <2>4 DEF Next, Main
<1> QED
  BY <1>1, <1>2, PTL DEF Spec

\* Status 0 means a complete copy, whichever child died and whenever, as long
\* as the server describes sound views (tasks/migrate/backup_restore.go:118-161).
THEOREM SuccessIsComplete ==
  ASSUME ~ServerErrors
  PROVE  Spec => []SuccessMeansComplete
<1>1. TaskInv /\ SkippedAreInvalid => SuccessMeansComplete
  <2> SUFFICES ASSUME TaskInv, SkippedAreInvalid, exit = "0", NEW o \in Objects,
                      SchemaOf[o] \in UserSchemas
               PROVE  at[o] = "copy" \/ o \in broken
    BY DEF SuccessMeansComplete
  <2> QED
    BY NothingMissing DEF Missing, SkippedAreInvalid
<1> QED
  BY <1>1, Invariance, SkippedInvalid, PTL

\* Nobody waits for the room in an empty pipe.
LEMMA EmptyPipe == ASSUME NEW pipe, In(pipe) = {} PROVE ~Full(pipe)
<1>1. Cardinality({}) = 0
  BY FS_EmptySet
<1> QED
  BY <1>1, BoundsAssumption DEF Full

\* A circle of waiting would have to pass through a dead child: the binary waits
\* for mysql first, and a child at the end of the chain has something to do.
LEMMA SomebodyMoves == TaskInv => NeverStuck
<1> SUFFICES ASSUME TaskInv, ~Ended,
                    exit = "none" => pc = "wait" /\ st[WaitOrder[turn]] = "running"
             PROVE  \E p \in Children : st[p] = "running" /\ ~Blocked(p)
  BY DEF NeverStuck
<1> USE DEF TaskInv
<1>1. /\ "mysqldump" \in Children /\ "sed" \in Children /\ "mysql" \in Children
      /\ \A p \in Children : st[p] \in {"new", "running", "ok", "failed"}
  BY DEF Children, TypeOK
<1>2. CASE st["mysql"] = "running" /\ ~Blocked("mysql")
  BY <1>1, <1>2
<1>3. CASE st["sed"] = "running" /\ (st["mysql"] # "running" /\ Readable("mysql") => In("pipe2") = {})
  <2>1. CASE ~Blocked("sed")
    BY <1>1, <1>3, <2>1
  <2>2. CASE Blocked("sed") /\ In("pipe2") = {}
    <3>1. In("pipe1") = {} /\ st["mysqldump"] = "running"
      BY <2>2, EmptyPipe DEF Blocked
    <3>2. ~Blocked("mysqldump")
      BY <3>1, EmptyPipe DEF Blocked
    <3> QED
      BY <1>1, <3>1, <3>2
  <2>3. CASE Blocked("sed") /\ In("pipe2") # {}
    <3>1. CASE st["mysql"] = "running"
      <4>1. ~Blocked("mysql")
        BY <2>3 DEF Blocked
      <4> QED
        BY <1>1, <3>1, <4>1
    <3>2. CASE st["mysql"] # "running"
      <4>1. ~Readable("mysql")
        BY <1>3, <2>3, <3>2
      <4>2. In("pipe1") = {} /\ st["mysqldump"] = "running"
        BY <2>3, <4>1 DEF Blocked
      <4>3. ~Blocked("mysqldump")
        BY <4>2, EmptyPipe DEF Blocked
      <4> QED
        BY <1>1, <4>2, <4>3
    <3> QED
      BY <3>1, <3>2
  <2> QED
    BY <2>1, <2>2, <2>3
<1>4. CASE exit = "none"
  <2>1. /\ turn \in 1 .. 3 /\ \A i \in 1 .. 3 : i < turn => st[WaitOrder[i]] = "ok"
        /\ WaitOrder[1] = "mysql" /\ WaitOrder[2] = "sed" /\ WaitOrder[3] = "mysqldump"
    BY <1>4 DEF TypeOK, Waited, WaitOrder
  <2>2. st["mysql"] = "running"
    <3>1. CASE turn = 1
      BY <1>4, <2>1, <3>1
    <3>2. CASE turn = 2
      <4>1. st["mysql"] = "ok" /\ st["sed"] = "running"
        BY <1>4, <2>1, <3>2
      <4> QED
        BY <4>1 DEF Flow
    <3>3. CASE turn = 3
      <4>1. st["sed"] = "ok" /\ st["mysqldump"] = "running"
        BY <1>4, <2>1, <3>3
      <4> QED
        BY <4>1 DEF Flow
    <3> QED
      BY <2>1, <3>1, <3>2, <3>3
  <2>3. CASE Blocked("mysql")
    <3>1. In("pipe2") = {} /\ st["sed"] = "running"
      BY <2>3 DEF Blocked
    <3> QED
      BY <1>3, <3>1
  <2> QED
    BY <1>2, <2>2, <2>3
<1>5. CASE exit # "none"
  <2>1. st["mysql"] # "running" /\ ~Readable("mysql")
    BY <1>5 DEF Exiting, Waited, Readable
  <2>2. CASE st["sed"] = "running"
    BY <1>3, <2>1, <2>2
  <2>3. CASE st["sed"] # "running"
    <3>1. st["mysqldump"] = "running"
      BY <1>5, <2>1, <2>3 DEF Ended, Children
    <3>2. ~Blocked("mysqldump")
      BY <1>5, <2>3 DEF Blocked, Readable
    <3> QED
      BY <1>1, <3>1, <3>2
  <2> QED
    BY <2>2, <2>3
<1> QED
  BY <1>4, <1>5

\* The task never gets stuck between a full pipe and an empty one, for any donor,
\* any capacity of the pipes, and whichever children die.
THEOREM TaskNeverStuck == Spec => []NeverStuck
BY Invariance, SomebodyMoves, PTL

\* Once the binary has ended, mysql has too: nothing comes into the copy.
LEMMA CopyFrozen ==
  ASSUME TaskInv, exit # "none", [Next]_vars
  PROVE  UNCHANGED Copy /\ UNCHANGED exit
<1>1. pc = "exited" /\ st["mysql"] # "running"
  BY DEF TaskInv, Exiting, Waited
<1>2. UNCHANGED <<mainVars, discVars>>
  BY <1>1 DEF Next, Main, Lookup, ValidateHost, DiscoverDatabases, CheckView, BuildCommands,
              StartChild, WaitChild, Child, Crash, BreakView, Terminating, vars
<1>3. \A o \in Objects : at'[o] = "copy" <=> at[o] = "copy"
  <2>1. at \in [Objects -> Places]
    BY DEF TaskInv, TypeOK
  <2>2. CASE UNCHANGED at
    BY <2>2
  <2>3. CASE \E p \in Children : Child(p) \/ Crash(p)
    BY <1>1, <2>1, <2>3, ChildSteps
  <2> QED
    BY <1>1, <2>2, <2>3 DEF Next, Main, Lookup, ValidateHost, DiscoverDatabases, CheckView,
       BuildCommands, StartChild, WaitChild, BreakView, Terminating, vars
<1> QED
  BY <1>2, <1>3 DEF Copy, Missing, In, mainVars, discVars

\* Every step of the task is one of Transfer's, or changes nothing it sees.
LEMMA TransferStep ==
  ASSUME TaskInv, TaskInv', [Next]_vars
  PROVE  [Transferred!Next]_(Transferred!vars)
<1> USE DEF Transferred!Next, Transferred!vars, Transferred!Load, Transferred!Succeed,
            Transferred!Fail
<1>1. Copy \in {"none", "partial", "full"} /\ Copy' \in {"none", "partial", "full"}
  BY DEF Copy
<1>2. exit \in {"none", "0", "1"} /\ exit' \in {"none", "0", "1"}
  BY DEF TaskInv, TypeOK
<1>3. CASE exit # "none"
  BY <1>3, CopyFrozen DEF Result
<1>4. CASE exit = "none" /\ exit' = "none"
  BY <1>1, <1>4 DEF Result
<1>5. CASE exit = "none" /\ exit' # "none"
  <2>1. Main /\ UNCHANGED <<schemas, skipped, at>>
    BY <1>5 DEF Next, Main, Lookup, ValidateHost, DiscoverDatabases, CheckView, BuildCommands,
      StartChild, WaitChild, Child, Crash, BreakView, Terminating, vars, mainVars, discVars,
      Goto, Fatal, Exit
  <2>2. UNCHANGED Copy
    BY <2>1 DEF Copy, Missing, In
  <2>3. exit' = "0" => Copy' = "full"
    <3>1. (TaskInv /\ exit = "0" => Missing = {})'
      BY NothingMissing, PTL
    <3> QED
      BY <3>1 DEF Copy
  <2> QED
    BY <1>2, <1>5, <2>2, <2>3 DEF Result
<1> QED
  BY <1>3, <1>4, <1>5

\* The task implements Transfer, for any donor and any failure of its children:
\* it succeeds only with a full copy and leaves the copy alone afterwards.
THEOREM TaskRefinement == Spec => IsTransfer
<1>1. Init => Transferred!Init
  <2> SUFFICES ASSUME Init PROVE Transferred!Init
    OBVIOUS
  <2>1. In("copy") = {} /\ exit = "none"
    BY DEF Init, In
  <2> QED
    BY <2>1 DEF Transferred!Init, Result, Copy
<1>2. TaskInv /\ TaskInv' /\ [Next]_vars => [Transferred!Next]_(Transferred!vars)
  BY TransferStep
<1> QED
  BY <1>1, <1>2, Invariance, PTL DEF Spec, IsTransfer, Transferred!Spec
=============================================================================
