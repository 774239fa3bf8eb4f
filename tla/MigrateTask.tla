---------------------------- MODULE MigrateTask ----------------------------
(***************************************************************************)
(* The migration task, tasks/migrate: the `migrate` binary that a Cloud    *)
(* Foundry task runs.  It looks up the two bindings, waits for their host  *)
(* names, discovers what to dump, and connects mysqldump, sed and mysql by *)
(* two pipes.  The binary and its three children are processes of their    *)
(* own: the binary only starts them and waits for them.                    *)
(*                                                                         *)
(* An object is a table or a view.  Its data is never looked at; `at` says *)
(* how far it has come: in the donor, in the pipe between mysqldump and    *)
(* sed, in sed, in the pipe between sed and mysql, or in the copy.         *)
(***************************************************************************)
EXTENDS Naturals, FiniteSets

CONSTANTS
    Tables, Views,   \* the objects of the donor
    SchemaOf,        \* the schema of each object
    SystemSchemas,   \* discovery's filterSchemas
    Capacity,        \* how many objects a pipe holds
    Timeout,         \* ValidateHost's timeout in ticks, 60 in the code
    ServerErrors     \* TRUE if the server may refuse to describe a sound view

Objects     == Tables \union Views
UserSchemas == {SchemaOf[o] : o \in Objects} \ SystemSchemas

ASSUME DonorAssumption ==
    /\ Tables \intersect Views = {}
    /\ IsFiniteSet(Objects)
    /\ SchemaOf \in [Objects -> {SchemaOf[o] : o \in Objects}]

ASSUME BoundsAssumption ==
    /\ Capacity \in Nat \ {0}
    /\ Timeout \in Nat \ {0}
    /\ ServerErrors \in BOOLEAN

Children == {"mysqldump", "sed", "mysql"}

\* CopyData's order of Start and of Wait.
StartOrder == <<"mysqldump", "sed", "mysql">>

\* Mutants: wait in the order of the pipe; wait for sed before mysql.
PipeOrder == <<"mysqldump", "sed", "mysql">>
SedFirst  == <<"sed", "mysql", "mysqldump">>

WaitOrder  == <<"mysql", "sed", "mysqldump">>

VARIABLES
    pc,         \* the step the binary is at
    turn,       \* the child it starts or waits for next
    ticks,      \* lookups of the current host so far
    exit,       \* the binary's exit status, "none" while it runs
    schemas,    \* the schemas to dump
    unchecked,  \* views whose fields are still to be shown
    skipped,    \* views taken for invalid: --ignore-table
    broken,     \* views that refer to something that is gone
    st,         \* the status of each child
    at          \* where each object is

mainVars == <<pc, turn, ticks, exit>>
discVars == <<schemas, unchecked, skipped>>
vars     == <<mainVars, discVars, broken, st, at>>

Places == {"donor", "pipe1", "sed", "pipe2", "copy"}

TypeOK ==
    /\ pc \in {"source", "dest", "sourceHost", "destHost", "schemas", "views",
               "start", "wait", "exited"}
    /\ turn \in 1 .. 3
    /\ ticks \in 0 .. Timeout - 1
    /\ exit \in {"none", "0", "1"}
    /\ schemas \subseteq UserSchemas
    /\ unchecked \subseteq Views /\ skipped \subseteq Views /\ broken \subseteq Views
    /\ st \in [Children -> {"new", "running", "ok", "failed"}]
    /\ at \in [Objects -> Places]

\* Any view may be invalid from the start.
Init ==
    /\ pc = "source" /\ turn = 1 /\ ticks = 0 /\ exit = "none"
    /\ schemas = {} /\ unchecked = {} /\ skipped = {}
    /\ broken \in SUBSET Views
    /\ st = [p \in Children |-> "new"]
    /\ at = [o \in Objects |-> "donor"]

Exit(status) ==
    /\ pc' = "exited" /\ exit' = status
    /\ UNCHANGED <<turn, ticks>>

\* log.Fatalf
Fatal == Exit("1")

Goto(step) ==
    /\ pc' = step /\ turn' = 1 /\ ticks' = 0
    /\ UNCHANGED exit

-----------------------------------------------------------------------------
(* main, up to CopyData *)

\* A binding may be missing from VCAP_SERVICES.
Lookup(here, next) ==
    /\ pc = here
    /\ Goto(next) \/ Fatal
    /\ UNCHANGED <<discVars, broken, st, at>>

\* Mutant: one lookup more than the timeout allows.
ValidateHostLonger(here, next) ==
    /\ pc = here
    /\ \/ Goto(next)
       \/ ticks < Timeout /\ ticks' = ticks + 1 /\ UNCHANGED <<pc, turn, exit>>
    /\ UNCHANGED <<discVars, broken, st, at>>

\* One round of ValidateHost: its caller only logs the result, and a failed
\* lookup is repeated until the timeout whatever the error is.
ValidateHost(here, next) ==
    /\ pc = here
    /\ \/ Goto(next)
       \/ ticks + 1 < Timeout /\ ticks' = ticks + 1 /\ UNCHANGED <<pc, turn, exit>>
    /\ UNCHANGED <<discVars, broken, st, at>>

\* SHOW DATABASES without the system schemas; an empty list is an error.
DiscoverDatabases ==
    /\ pc = "schemas"
    /\ \/ /\ UserSchemas # {}
          /\ schemas' = UserSchemas
          /\ unchecked' = {v \in Views : SchemaOf[v] \in UserSchemas}
          /\ Goto("views")
       \/ Fatal /\ UNCHANGED <<schemas, unchecked>>
    /\ UNCHANGED <<skipped, broken, st, at>>

\* Every error the server itself reports makes the view invalid.
MaySkip(v) == v \in broken \/ ServerErrors

\* SHOW FIELDS of one view; any other error is fatal.
CheckView(v) ==
    /\ pc = "views" /\ v \in unchecked
    /\ \/ /\ unchecked' = unchecked \ {v}
          /\ \/ v \notin broken /\ UNCHANGED skipped
             \/ MaySkip(v) /\ skipped' = skipped \union {v}
          /\ UNCHANGED mainVars
       \/ Fatal /\ UNCHANGED <<unchecked, skipped>>
    /\ UNCHANGED <<schemas, broken, st, at>>

BuildCommands ==
    /\ pc = "views" /\ unchecked = {}
    /\ Goto("start")
    /\ UNCHANGED <<discVars, broken, st, at>>

-----------------------------------------------------------------------------
(* CopyData *)

StartChild ==
    /\ pc = "start"
    /\ \/ /\ st' = [st EXCEPT ![StartOrder[turn]] = "running"]
          /\ IF turn = 3 THEN Goto("wait")
             ELSE turn' = turn + 1 /\ UNCHANGED <<pc, ticks, exit>>
       \/ Fatal /\ UNCHANGED st
    /\ UNCHANGED <<discVars, broken, at>>

\* Mutant: mysqldump's exit status is not looked at.
DumpFailureIgnored(p) == st[p] = "ok" \/ p = "mysqldump"

Succeeded(p) == st[p] = "ok"

\* Wait returns once the child has ended; a failure is the task's failure.
WaitChild ==
    LET p == WaitOrder[turn]
    IN  /\ pc = "wait"
        /\ st[p] \in {"ok", "failed"}
        /\ IF ~Succeeded(p) THEN Fatal
           ELSE IF turn = 3 THEN Exit("0")
           ELSE turn' = turn + 1 /\ UNCHANGED <<pc, ticks, exit>>
        /\ UNCHANGED <<discVars, broken, st, at>>

Main ==
    \/ Lookup("source", "dest") \/ Lookup("dest", "sourceHost")
    \/ ValidateHost("sourceHost", "destHost") \/ ValidateHost("destHost", "schemas")
    \/ DiscoverDatabases \/ (\E v \in Views : CheckView(v)) \/ BuildCommands
    \/ StartChild \/ WaitChild

-----------------------------------------------------------------------------
(* The children *)

In(place) == {o \in Objects : at[o] = place}

\* What mysqldump is told to dump.
ToDump == {o \in Objects : SchemaOf[o] \in schemas /\ o \notin skipped}

\* A pipe can be read while its reader runs, and by the binary, which keeps
\* the read end StdoutPipe gave it until Wait or its own end.
Readable(reader) == st[reader] = "running" \/ exit = "none"

End(p, status) == st' = [st EXCEPT ![p] = status] /\ UNCHANGED at
Move(o, place) == at' = [at EXCEPT ![o] = place] /\ UNCHANGED st

\* A write into a pipe nobody reads kills the writer (SIGPIPE); one into a full
\* pipe waits.
Write(p, o, pipe, reader) ==
    IF Readable(reader)
      THEN Cardinality(In(pipe)) < Capacity /\ Move(o, pipe)
      ELSE End(p, "failed")

\* A view that has become invalid ends mysqldump with an error.
Dump(o) ==
    /\ o \in ToDump /\ at[o] = "donor"
    /\ IF o \in broken THEN End("mysqldump", "failed") ELSE Write("mysqldump", o, "pipe1", "sed")

DumpDone == ToDump \intersect In("donor") = {} /\ End("mysqldump", "ok")

\* sed reads one object, rewrites its DEFINER clauses and writes it.
SedRead(o)  == at[o] = "pipe1" /\ In("sed") = {} /\ Move(o, "sed")
SedWrite(o) == at[o] = "sed" /\ Write("sed", o, "pipe2", "mysql")

\* End of file: the pipe is empty and its writer has ended.
SedDone ==
    /\ In("pipe1") = {} /\ In("sed") = {} /\ st["mysqldump"] # "running"
    /\ End("sed", "ok")

Apply(o) == at[o] = "pipe2" /\ Move(o, "copy")

ApplyDone ==
    /\ In("pipe2") = {} /\ st["sed"] # "running"
    /\ End("mysql", "ok")

Work(p) ==
    CASE p = "mysqldump" -> (\E o \in Objects : Dump(o)) \/ DumpDone
      [] p = "sed"       -> (\E o \in Objects : SedRead(o) \/ SedWrite(o)) \/ SedDone
      [] p = "mysql"     -> (\E o \in Objects : Apply(o)) \/ ApplyDone

Child(p) ==
    /\ st[p] = "running"
    /\ Work(p)
    /\ UNCHANGED <<mainVars, discVars, broken>>

\* A lost connection, a statement the server refuses, a signal.
Crash(p) ==
    /\ st[p] = "running"
    /\ End(p, "failed")
    /\ UNCHANGED <<mainVars, discVars, broken>>

\* The donor stays in use: a table a view needs may be dropped at any time.
BreakView(v) ==
    /\ v \notin broken
    /\ broken' = broken \union {v}
    /\ UNCHANGED <<mainVars, discVars, st, at>>

Ended == exit # "none" /\ \A p \in Children : st[p] # "running"

Terminating == Ended /\ UNCHANGED vars

Next ==
    \/ Main
    \/ \E p \in Children : Child(p) \/ Crash(p)
    \/ \E v \in Views : BreakView(v)
    \/ Terminating

Spec == Init /\ [][Next]_vars

\* The operating system runs every process that can run.
Fairness == WF_vars(Main) /\ \A p \in Children : WF_vars(Child(p))

FairSpec == Spec /\ Fairness

-----------------------------------------------------------------------------
(* Properties *)

\* Exit status 0 means that every table and view of the user's schemas is in
\* the copy, or is a view that is invalid: whichever child died, and whenever,
\* a copy that lacks something never passes for a success.
SuccessMeansComplete ==
    exit = "0" => \A o \in Objects :
        SchemaOf[o] \in UserSchemas => at[o] = "copy" \/ o \in broken

\* The task and all its children end, whichever of them die: nobody waits on a
\* full pipe that nobody empties.
TaskEnds == <>Ended

Full(pipe) == Cardinality(In(pipe)) >= Capacity

\* A child that runs waits for another one: to empty a pipe, or to fill one.
Blocked(p) ==
    CASE p = "mysqldump" -> /\ ToDump \intersect In("donor") # {}
                            /\ Full("pipe1") /\ Readable("sed")
      [] p = "sed"       -> IF In("sed") # {} THEN Full("pipe2") /\ Readable("mysql")
                            ELSE In("pipe1") = {} /\ st["mysqldump"] = "running"
      [] p = "mysql"     -> In("pipe2") = {} /\ st["sed"] = "running"

\* There is no circle of waiting, with the binary in it or not: until the task
\* and its children have ended the binary goes on, or a child that need not die
\* for it.  The binary keeps a dead reader's pipe open, so this is a matter of
\* the order in which it waits (tasks/migrate/backup_restore.go:147-159).
NeverStuck ==
    ~Ended => \/ exit = "none" /\ (pc = "wait" => st[WaitOrder[turn]] # "running")
              \/ \E p \in Children : st[p] = "running" /\ ~Blocked(p)

Missing == {o \in Objects : SchemaOf[o] \in UserSchemas /\ o \notin skipped /\ at[o] # "copy"}

Result ==
    CASE exit = "none" -> "running"
      [] exit = "0"    -> "succeeded"
      [] exit = "1"    -> "failed"

Copy == IF Missing = {} THEN "full" ELSE IF In("copy") = {} THEN "none" ELSE "partial"

\* The task is the Transfer the driver relies on.  In particular nothing is
\* written into the copy any more once the task has ended: of the children that
\* are left behind when it fails, mysql is never one.
Transferred == INSTANCE Transfer WITH result <- Result, copy <- Copy
IsTransfer  == Transferred!Spec

\* "The following views are invalid, and will not be migrated" (main.go:88):
\* every view that is left out is invalid.
SkippedAreInvalid == skipped \subseteq broken
=============================================================================
