------------------------------ MODULE Targets ------------------------------
(***************************************************************************)
(* `cf mysql-tools save-target | remove-target | list-targets`: the        *)
(* dispatch in plugin/plugin.go, the commands in plugin/commands/targets.go*)
(* and the file operations of multisite/config.go they end in.             *)
(*                                                                         *)
(* A run is one execution of the plugin.  Runs share nothing but the       *)
(* directory of saved targets, where a target is a copy of the cf CLI's    *)
(* own configuration.  Every file operation is one step; between two steps *)
(* other runs take theirs and the process may be killed.                   *)
(***************************************************************************)
EXTENDS Naturals

CONSTANTS
    Runs,      \* executions of the plugin
    Names,     \* target names an operator may give
    Plain,     \* those that are one path element, the only ones listed and removed
    Under,     \* the names whose directory is, or is inside, that of a name
    Configs,   \* valid configurations of the cf CLI
    Size,      \* the length of a configuration, in blocks
    Bad,       \* a configuration that does not parse, or has no API, org or space
    None,      \* no configuration
    IOFaults   \* TRUE if a file operation may fail for reasons of its own

ASSUME NamesAssumption ==
    /\ Plain \subseteq Names
    /\ Under \in [Names -> SUBSET Names]
    /\ \A n \in Names : n \in Under[n]

ASSUME ConfigsAssumption ==
    /\ Size \in [Configs -> Nat \ {0}]
    /\ None \notin Configs /\ Bad \notin Configs /\ None # Bad
    /\ IOFaults \in BOOLEAN

Blocks   == UNION {1 .. Size[c] : c \in Configs}
Contents == [Blocks -> Configs \union {None}]
Empty    == [b \in Blocks |-> None]

VARIABLES
    source,   \* the cf CLI's configuration
    dirs,     \* names whose directory exists
    files,    \* names whose .cf/config.json exists
    content,  \* per block, the configuration its bytes were copied from
    pc,       \* the step a run is at
    cmd,      \* its command
    name,     \* its argument
    held,     \* save: the configuration it has opened and validated
    handle,   \* save: none yet, the file under the name, or a file unlinked since
    offset,   \* save: blocks written so far
    todo,     \* remove: files still to unlink; list: directories still to look into
    found,    \* list: files found and not read yet
    shown,    \* list: the targets to print
    unread,   \* history: target directories a listing has passed over, unable to read them
    changed   \* history: names whose file other runs have changed meanwhile

storeVars == <<dirs, files, content>>
saveVars  == <<held, handle, offset>>
listVars  == <<todo, found, shown, unread>>
vars == <<source, storeVars, pc, cmd, name, saveVars, listVars, changed>>

Commands == {"save", "remove", "list", "version", "usage"}
Steps == {"open", "mkdir", "truncate", "copy", "check", "unlink", "list"}
Ended == {"ok", "failed", "killed"}

TypeOK ==
    /\ source \in Configs \union {Bad, None}
    /\ dirs \subseteq Names /\ files \subseteq Names
    /\ content \in [Names -> Contents]
    /\ pc \in [Runs -> Steps \union Ended \union {"idle"}]
    /\ cmd \in [Runs -> Commands \union {"none"}]
    /\ name \in [Runs -> Names]
    /\ held \in [Runs -> Configs \union {None}]
    /\ handle \in [Runs -> {"none", "open", "orphan"}]
    /\ offset \in [Runs -> Nat]
    /\ todo \in [Runs -> SUBSET Names] /\ found \in [Runs -> SUBSET Names]
    /\ shown \in [Runs -> [Names -> Configs \union {None}]]
    /\ unread \in [Runs -> SUBSET Names]
    /\ changed \in [Runs -> SUBSET Names]

Nothing == [n \in Names |-> None]

\* The first k blocks are those of c and nothing follows.
Prefix(c, k) == [b \in Blocks |-> IF b <= k THEN c ELSE None]
Copied(c)    == Prefix(c, Size[c])

\* What a file parses as: the decoder stops at the end of the first JSON value.
Parses(x, c) == c \in Configs /\ \A b \in 1 .. Size[c] : x[b] = c

\* Plain targets saved before; no run started.
Init ==
    /\ source \in Configs
    /\ files \in SUBSET Plain /\ dirs = files
    /\ \E c \in Configs : content = [n \in Names |-> IF n \in files THEN Copied(c) ELSE Empty]
    /\ pc = [p \in Runs |-> "idle"]
    /\ cmd = [p \in Runs |-> "none"]
    /\ name \in [Runs -> Names]
    /\ held = [p \in Runs |-> None]
    /\ handle = [p \in Runs |-> "none"]
    /\ offset = [p \in Runs |-> 0]
    /\ todo = [p \in Runs |-> {}] /\ found = [p \in Runs |-> {}]
    /\ shown = [p \in Runs |-> Nothing]
    /\ unread = [p \in Runs |-> {}]
    /\ changed = [p \in Runs |-> {}]

-----------------------------------------------------------------------------
(* A run *)

Goto(p, step) == pc' = [pc EXCEPT ![p] = step]

\* A run ends: the process exits with status 0 or, with an error to print, 1.
Exit(p, status) == Goto(p, status)

\* Others see that the files of S are no longer what they were.
Notice(p, S) ==
    changed' = [q \in Runs |-> IF q = p THEN changed[q] \ S ELSE changed[q] \union S]

\* The command picked from the arguments; anything else is an unknown command
\* or a misuse of a known one.
First(c) ==
    CASE c = "save"   -> "open"
      [] c = "remove" -> "check"
      [] c = "list"   -> "list"
      [] c = "version" -> "ok"
      [] OTHER -> "failed"

\* What list-targets finds at first: the target directories.  Glob ignores every
\* error of the file system, so any part of the listing may be missing.
TargetDirs == Plain \intersect dirs
Globbed    == IF IOFaults THEN SUBSET TargetDirs ELSE {TargetDirs}

Start(p, c) ==
    /\ pc[p] = "idle"
    /\ Goto(p, First(c))
    /\ cmd' = [cmd EXCEPT ![p] = c]
    /\ changed' = [changed EXCEPT ![p] = {}]
    /\ IF c = "list"
         THEN \E S \in Globbed : /\ todo' = [todo EXCEPT ![p] = S]
                                 /\ unread' = [unread EXCEPT ![p] = TargetDirs \ S]
         ELSE UNCHANGED <<todo, unread>>
    /\ UNCHANGED <<source, storeVars, name, saveVars, found, shown>>

\* The operator interrupts the command, or the process dies.
Kill(p) ==
    /\ pc[p] \in Steps
    /\ Goto(p, "killed")
    /\ UNCHANGED <<source, storeVars, cmd, name, saveVars, listVars, changed>>

\* The operator logs in or targets elsewhere: the cf CLI replaces its file.
Retarget ==
    /\ source' \in Configs \union {Bad, None}
    /\ UNCHANGED <<storeVars, pc, cmd, name, saveVars, listVars, changed>>

-----------------------------------------------------------------------------
(* SaveTarget and SaveConfig *)

\* Mutant: the configuration is copied without a look at it.
AnyConfig(c) == c # None

Valid(c) == c \in Configs

\* The file is opened, decoded and validated; the handle stays open.
OpenSource(p) ==
    /\ pc[p] = "open"
    /\ \/ /\ Valid(source)
          /\ held' = [held EXCEPT ![p] = source]
          /\ Goto(p, "mkdir")
       \/ /\ ~Valid(source) \/ IOFaults
          /\ Exit(p, "failed")
          /\ UNCHANGED held
    /\ UNCHANGED <<source, storeVars, cmd, name, handle, offset, listVars, changed>>

\* MkdirAll makes every directory on the way.
MakeDir(p) ==
    /\ pc[p] = "mkdir"
    /\ \/ /\ dirs' = dirs \union {n \in Names : name[p] \in Under[n]}
          /\ Goto(p, "truncate")
       \/ IOFaults /\ Exit(p, "failed") /\ UNCHANGED dirs
    /\ UNCHANGED <<source, files, content, cmd, name, saveVars, listVars, changed>>

\* Mutant: the file is opened without O_TRUNC.
OpenToOverwrite(p) ==
    /\ pc[p] = "truncate" /\ name[p] \in dirs
    /\ files' = files \union {name[p]}
    /\ handle' = [handle EXCEPT ![p] = "open"]
    /\ Notice(p, {name[p]})
    /\ Goto(p, "copy")
    /\ UNCHANGED <<source, dirs, content, cmd, name, held, offset, listVars>>

Truncate(p) ==
    /\ pc[p] = "truncate"
    /\ \/ /\ name[p] \in dirs
          /\ files' = files \union {name[p]}
          /\ content' = [content EXCEPT ![name[p]] = Empty]
          /\ handle' = [handle EXCEPT ![p] = "open"]
          /\ Notice(p, {name[p]})
          /\ Goto(p, "copy")
       \/ /\ name[p] \notin dirs \/ IOFaults
          /\ Exit(p, "failed")
          /\ UNCHANGED <<files, content, handle, changed>>
    /\ UNCHANGED <<source, dirs, cmd, name, held, offset, listVars>>

\* The next block lands at this run's own offset, whatever others have done to
\* the file, and in no target at all once the file has been unlinked.
CopyBlock(p) ==
    /\ pc[p] = "copy" /\ offset[p] < Size[held[p]]
    /\ offset' = [offset EXCEPT ![p] = @ + 1]
    /\ IF handle[p] = "open"
         THEN /\ content' = [content EXCEPT ![name[p]][offset[p] + 1] = held[p]]
              /\ changed' = [q \in Runs |-> IF q = p THEN changed[q] ELSE changed[q] \union {name[p]}]
         ELSE UNCHANGED <<content, changed>>
    /\ UNCHANGED <<source, dirs, files, pc, cmd, name, held, handle, listVars>>

\* Mutant: the errors of io.Copy and Close are dropped.
FinishUnchecked(p) ==
    /\ pc[p] = "copy"
    /\ Exit(p, "ok")
    /\ UNCHANGED <<source, storeVars, cmd, name, saveVars, listVars, changed>>

\* Close; it can fail after the last block, as a write can before it.
FinishCopy(p) ==
    /\ pc[p] = "copy"
    /\ \/ offset[p] = Size[held[p]] /\ Exit(p, "ok")
       \/ IOFaults /\ Exit(p, "failed")
    /\ UNCHANGED <<source, storeVars, cmd, name, saveVars, listVars, changed>>

-----------------------------------------------------------------------------
(* RemoveTarget and RemoveConfig *)

\* Mutant: the name is not checked.
AcceptName(p) ==
    /\ pc[p] = "check"
    /\ Goto(p, "unlink")
    /\ todo' = [todo EXCEPT ![p] = Under[name[p]]]
    /\ UNCHANGED <<source, storeVars, cmd, name, saveVars, found, shown, unread, changed>>

CheckName(p) ==
    /\ pc[p] = "check"
    /\ IF name[p] \in Plain
         THEN Goto(p, "unlink") /\ todo' = [todo EXCEPT ![p] = Under[name[p]]]
         ELSE Exit(p, "failed") /\ UNCHANGED todo
    /\ UNCHANGED <<source, storeVars, cmd, name, saveVars, found, shown, unread, changed>>

\* RemoveAll unlinks file after file; a save that has one open keeps an orphan.
Unlink(p, n) ==
    /\ pc[p] = "unlink" /\ n \in todo[p]
    /\ todo' = [todo EXCEPT ![p] = @ \ {n}]
    /\ IF n \in files
         THEN /\ files' = files \ {n}
              /\ content' = [content EXCEPT ![n] = Empty]
              /\ handle' = [q \in Runs |-> IF name[q] = n /\ handle[q] = "open"
                                             THEN "orphan" ELSE handle[q]]
              /\ Notice(p, {n})
         ELSE UNCHANGED <<files, content, handle, changed>>
    /\ UNCHANGED <<source, dirs, pc, cmd, name, held, offset, found, shown, unread>>

\* Mutant: the error of RemoveAll is dropped.
StopRemoving(p) ==
    /\ pc[p] = "unlink"
    /\ Exit(p, "ok")
    /\ UNCHANGED <<source, storeVars, cmd, name, saveVars, listVars, changed>>

\* ... and then the directories, which must be empty.
RemoveDir(p) ==
    /\ pc[p] = "unlink"
    /\ \/ /\ todo[p] = {} /\ Under[name[p]] \intersect files = {}
          /\ dirs' = dirs \ Under[name[p]]
          /\ Exit(p, "ok")
       \/ /\ IOFaults \/ (todo[p] = {} /\ Under[name[p]] \intersect files # {})
          /\ Exit(p, "failed")
          /\ UNCHANGED dirs
    /\ UNCHANGED <<source, files, content, cmd, name, saveVars, listVars, changed>>

-----------------------------------------------------------------------------
(* ListTargets and ListConfigs *)

\* The rest of the Glob: a directory counts if it holds a configuration by now;
\* one that cannot be read is passed over without an error.
LookUp(p, n) ==
    /\ pc[p] = "list" /\ n \in todo[p]
    /\ todo' = [todo EXCEPT ![p] = @ \ {n}]
    /\ \/ /\ found' = [found EXCEPT ![p] = IF n \in files THEN @ \union {n} ELSE @]
          /\ UNCHANGED unread
       \/ /\ IOFaults
          /\ unread' = [unread EXCEPT ![p] = @ \union {n}]
          /\ UNCHANGED found
    /\ UNCHANGED <<source, storeVars, pc, cmd, name, saveVars, shown, changed>>

Show(p, n, c) ==
    /\ shown' = [shown EXCEPT ![p][n] = c]
    /\ found' = [found EXCEPT ![p] = @ \ {n}]
    /\ UNCHANGED pc

\* Mutant: a configuration that cannot be read is left out.
SkipTarget(p, n) == Show(p, n, None)

\* ListConfigs drops what it has read; ListTargets, which looks at the number of
\* targets before it looks at the error, prints "No saved targets." and succeeds.
PrintNone(p, n) ==
    /\ shown' = [shown EXCEPT ![p] = Nothing]
    /\ Exit(p, "ok")
    /\ UNCHANGED found

ReadTarget(p, n) ==
    /\ pc[p] = "list" /\ todo[p] = {} /\ n \in found[p]
    /\ \/ \E c \in Configs : n \in files /\ Parses(content[n], c) /\ Show(p, n, c)
       \/ /\ n \notin files \/ IOFaults \/ \A c \in Configs : ~Parses(content[n], c)
          /\ PrintNone(p, n)
    /\ UNCHANGED <<source, storeVars, cmd, name, saveVars, todo, unread, changed>>

PrintTargets(p) ==
    /\ pc[p] = "list" /\ todo[p] = {} /\ found[p] = {}
    /\ Exit(p, "ok")
    /\ UNCHANGED <<source, storeVars, cmd, name, saveVars, listVars, changed>>

-----------------------------------------------------------------------------
Save(p)   == OpenSource(p) \/ MakeDir(p) \/ Truncate(p) \/ CopyBlock(p) \/ FinishCopy(p)
Remove(p) == CheckName(p) \/ RemoveDir(p) \/ \E n \in Names : Unlink(p, n)
List(p)   == PrintTargets(p) \/ \E n \in Names : LookUp(p, n) \/ ReadTarget(p, n)

Next ==
    \/ Retarget
    \/ \E p \in Runs :
         \/ Save(p) \/ Remove(p) \/ List(p) \/ Kill(p)
         \/ \E c \in Commands : Start(p, c)

Spec == Init /\ [][Next]_vars

-----------------------------------------------------------------------------
(* Properties *)

Saved(p)   == cmd[p] = "save" /\ pc[p] = "ok"
Removed(p) == cmd[p] = "remove" /\ pc[p] = "ok"
Listed(p)  == cmd[p] = "list" /\ pc[p] = "ok"

\* save-target said "Success": until another run touches the target its file is
\* exactly the configuration that was validated, with nothing left over of what
\* the file held before and whatever happened to the cf CLI's own file meanwhile.
SaveKept ==
    \A p \in Runs : Saved(p) /\ name[p] \notin changed[p] =>
      name[p] \in files /\ content[name[p]] = Copied(held[p])

Whole(n) == n \in files /\ \E c \in Configs : content[n] = Copied(c)

\* A target that is not a whole configuration is the work of a save that had
\* opened it and then failed, died, goes on or was overlapped: a save that is
\* refused, a removal and a listing never damage one.
DamageExplained ==
    \A n \in files :
      \/ Whole(n)
      \/ \E p \in Runs : /\ cmd[p] = "save" /\ name[p] = n /\ handle[p] # "none"
                         /\ pc[p] # "ok" \/ n \in changed[p]

\* remove-target succeeded: nothing under that name is there any more until
\* another run puts it there, a save that overlapped the removal included.
RemovedMeansGone ==
    \A p \in Runs : Removed(p) => Under[name[p]] \intersect files \subseteq changed[p]

\* When list-targets prints targets, it prints each one that no other run has
\* touched since it began and whose directory it could read, as its file has it,
\* and none that was not there: an error that Glob ignores costs the listing the
\* target it was about, though without a word, and nothing else.
ListExact ==
    \A p \in Runs : Listed(p) /\ shown[p] # Nothing =>
      \A n \in Plain \ changed[p] :
        IF n \in files \ unread[p] THEN Parses(content[n], shown[p][n])
                                   ELSE shown[p][n] = None

\* "does not remove the root directory even if a bad name is provided"
\* (multisite/config_test.go:253): what disappears is below the directory of a
\* plain name that somebody asked to remove.
RemovalConfined ==
    [][\A n \in files \ files' :
         \E p \in Runs : cmd[p] = "remove" /\ name[p] \in Plain /\ n \in Under[name[p]]]_vars

\* "error listing multisite targets" (plugin/commands/targets.go:44-46, and the
\* test plugin/commands/targets_test.go:63): a listing that succeeds with
\* "No saved targets." has not passed over a whole target nobody touched.
NoneMeansNone ==
    \A p \in Runs : Listed(p) /\ shown[p] = Nothing =>
      \A n \in Plain : Whole(n) => n \in changed[p]
=============================================================================
