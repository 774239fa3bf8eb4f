--------------------------- MODULE TargetsProofs ---------------------------
(***************************************************************************)
(* Proofs about the saved targets, for any number of runs, any names and   *)
(* any configurations.  The invariants rest on one fact: whatever another  *)
(* run does to a file a run can rely on, it is in that run's `changed`.    *)
(***************************************************************************)
EXTENDS Targets, TLAPS

USE NamesAssumption, ConfigsAssumption
    DEF Commands, Steps, Ended, storeVars, saveVars, listVars

\* Where a run is says which command it executes and what it holds.
ControlOf(p) ==
    /\ pc[p] \in {"open", "mkdir", "truncate", "copy"} => cmd[p] = "save"
    /\ pc[p] \in {"check", "unlink"} => cmd[p] = "remove"
    /\ pc[p] = "list" => cmd[p] = "list"
    /\ pc[p] \in {"mkdir", "truncate", "copy"} \/ Saved(p) => held[p] \in Configs
    /\ pc[p] \in {"idle", "open", "mkdir", "truncate"} => handle[p] = "none" /\ offset[p] = 0
    /\ pc[p] = "copy" => handle[p] # "none" /\ offset[p] <= Size[held[p]]
    /\ Saved(p) => handle[p] # "none" /\ offset[p] = Size[held[p]]
    /\ handle[p] # "none" => cmd[p] = "save"
    /\ pc[p] = "unlink" => name[p] \in Plain /\ todo[p] \subseteq Under[name[p]]

Control == \A p \in Runs : ControlOf(p)

TypeInv == TypeOK /\ Control

\* A copied block is a block.
LEMMA NextBlock ==
    ASSUME NEW c \in Configs, NEW k \in Nat, k < Size[c]
    PROVE  k + 1 \in Blocks /\ k + 1 <= Size[c]
<1>1. k + 1 \in 1 .. Size[c]
  OBVIOUS
<1> QED
  BY <1>1 DEF Blocks

\* What a saved file holds is a content, and so is any content with a block replaced.
LEMMA ContentTypes ==
    /\ Empty \in Contents
    /\ \A c \in Configs : Copied(c) \in Contents
    /\ \A x \in Contents, b \in Blocks, c \in Configs : [x EXCEPT ![b] = c] \in Contents
  BY DEF Contents, Empty, Copied, Prefix

\* The initial state is typed.
LEMMA TypeInit == Init => TypeInv
<1> SUFFICES ASSUME Init PROVE TypeInv
  OBVIOUS
<1>1. TypeOK
  BY ContentTypes DEF Init, TypeOK, Nothing
<1>2. Control
  BY DEF Init, Control, ControlOf, Saved
<1> QED
  BY <1>1, <1>2 DEF TypeInv

\* What a run may move to is typed, and so is what others notice of it.
LEMMA MoveTypes ==
    ASSUME TypeOK, NEW p \in Runs, NEW S \in SUBSET Names
    PROVE  /\ \A s \in Steps \union Ended : Goto(p, s) => pc' \in [Runs -> Steps \union Ended \union {"idle"}]
           /\ Notice(p, S) => changed' \in [Runs -> SUBSET Names]
<1>1. pc \in [Runs -> Steps \union Ended \union {"idle"}] /\ changed \in [Runs -> SUBSET Names]
  BY DEF TypeOK
<1> QED
  BY <1>1 DEF Goto, Notice

\* A step of one run leaves the control of the others alone.
LEMMA OthersControl ==
    ASSUME TypeInv, NEW p \in Runs,
           NEW q \in Runs, p # q,
           pc'[q] = pc[q], cmd'[q] = cmd[q], name'[q] = name[q], held'[q] = held[q],
           offset'[q] = offset[q], todo'[q] = todo[q],
           handle'[q] = handle[q] \/ (handle[q] = "open" /\ handle'[q] = "orphan")
    PROVE  ControlOf(q)'
  BY DEF TypeInv, Control, ControlOf, Saved

\* The steps of a save keep the types.
LEMMA SaveTypes ==
    ASSUME TypeInv, NEW p \in Runs, Save(p)
    PROVE  TypeInv'
<1> USE DEF Goto, Exit
<1>0. TypeOK /\ ControlOf(p)
  BY DEF TypeInv, Control
<1>1. ASSUME OpenSource(p) PROVE TypeOK' /\ ControlOf(p)'
  <2>1. pc' \in [Runs -> Steps \union Ended \union {"idle"}]
    BY <1>0, <1>1 DEF OpenSource, TypeOK
  <2>4. held' \in [Runs -> Configs \union {None}]
    BY <1>0, <1>1 DEF OpenSource, Valid, TypeOK
  <2>3. TypeOK'
    BY <1>0, <1>1, <2>1, <2>4 DEF OpenSource, TypeOK
  <2>2. ControlOf(p)'
    BY <1>0, <1>1 DEF OpenSource, Valid, TypeOK, ControlOf, Saved
  <2> QED
    BY <2>2, <2>3
<1>2. ASSUME MakeDir(p) PROVE TypeOK' /\ ControlOf(p)'
  <2>1. TypeOK'
    BY <1>0, <1>2 DEF MakeDir, TypeOK
  <2>2. ControlOf(p)'
    BY <1>0, <1>2 DEF MakeDir, TypeOK, ControlOf, Saved
  <2> QED
    BY <2>1, <2>2
<1>3. ASSUME Truncate(p) PROVE TypeOK' /\ ControlOf(p)'
  <2>1. pc' \in [Runs -> Steps \union Ended \union {"idle"}]
    <3>1. \E s \in {"copy", "failed"} : Goto(p, s)
      BY <1>3 DEF Truncate
    <3> QED
      BY <1>0, <3>1, MoveTypes
  <2>3. files' \subseteq Names
    BY <1>0, <1>3 DEF Truncate, TypeOK
  <2>5. handle' \in [Runs -> {"none", "open", "orphan"}]
    BY <1>0, <1>3 DEF Truncate, TypeOK
  <2>6. content' \in [Names -> Contents]
    BY <1>0, <1>3, ContentTypes DEF Truncate, TypeOK
  <2>7. changed' \in [Runs -> SUBSET Names]
    <3>1. {name[p]} \in SUBSET Names /\ changed \in [Runs -> SUBSET Names]
      BY <1>0 DEF TypeOK
    <3>2. Notice(p, {name[p]}) \/ changed' = changed
      BY <1>3 DEF Truncate
    <3> QED
      BY <1>0, <3>1, <3>2, MoveTypes
  <2>4. TypeOK'
    BY <1>0, <1>3, <2>1, <2>3, <2>5, <2>6, <2>7 DEF Truncate, TypeOK
  <2>2. ControlOf(p)'
    BY <1>0, <1>3 DEF Truncate, TypeOK, ControlOf, Saved
  <2> QED
    BY <2>2, <2>4
<1>4. ASSUME CopyBlock(p) PROVE TypeOK' /\ ControlOf(p)'
  <2>1. held[p] \in Configs /\ offset[p] \in Nat /\ name[p] \in Names
    BY <1>0, <1>4 DEF CopyBlock, TypeOK, ControlOf
  <2>2. offset[p] + 1 \in Blocks /\ offset[p] + 1 <= Size[held[p]]
    BY <1>4, <2>1, NextBlock DEF CopyBlock
  <2>3. content' \in [Names -> Contents]
    <3>1. [content[name[p]] EXCEPT ![offset[p] + 1] = held[p]] \in Contents
      BY <1>0, <2>1, <2>2, ContentTypes DEF TypeOK
    <3> QED
      BY <1>0, <1>4, <2>1, <3>1 DEF CopyBlock, TypeOK
  <2>4. changed' \in [Runs -> SUBSET Names]
    <3>1. changed \in [Runs -> SUBSET Names] /\ {name[p]} \subseteq Names
      BY <1>0, <2>1 DEF TypeOK
    <3> QED
      BY <1>4, <3>1 DEF CopyBlock
  <2>7. offset' \in [Runs -> Nat]
    BY <1>0, <1>4, <2>1 DEF CopyBlock, TypeOK
  <2>5. TypeOK'
    BY <1>0, <1>4, <2>3, <2>4, <2>7 DEF CopyBlock, TypeOK
  <2>6. ControlOf(p)'
    BY <1>0, <1>4, <2>1, <2>2 DEF CopyBlock, TypeOK, ControlOf, Saved
  <2> QED
    BY <2>5, <2>6
<1>5. ASSUME FinishCopy(p) PROVE TypeOK' /\ ControlOf(p)'
  <2>1. TypeOK'
    BY <1>0, <1>5 DEF FinishCopy, TypeOK
  <2>2. ControlOf(p)'
    BY <1>0, <1>5 DEF FinishCopy, TypeOK, ControlOf, Saved
  <2> QED
    BY <2>1, <2>2
<1>6. TypeOK' /\ ControlOf(p)'
  BY <1>1, <1>2, <1>3, <1>4, <1>5 DEF Save
<1>7. ASSUME NEW q \in Runs, q # p PROVE ControlOf(q)'
  <2>1. /\ pc'[q] = pc[q] /\ cmd'[q] = cmd[q] /\ name'[q] = name[q] /\ held'[q] = held[q]
        /\ offset'[q] = offset[q] /\ todo'[q] = todo[q] /\ handle'[q] = handle[q]
    BY <1>0, <1>7 DEF Save, OpenSource, MakeDir, Truncate, CopyBlock, FinishCopy, TypeOK
  <2> QED
    BY <1>7, <2>1, OthersControl
<1> QED
  BY <1>6, <1>7 DEF TypeInv, Control

\* The steps of a removal keep the types.
LEMMA RemoveTypes ==
    ASSUME TypeInv, NEW p \in Runs, Remove(p)
    PROVE  TypeInv'
<1> USE DEF Goto, Exit
<1>0. TypeOK /\ ControlOf(p)
  BY DEF TypeInv, Control
<1>1. ASSUME CheckName(p) PROVE TypeOK' /\ ControlOf(p)'
  <2>3. pc' \in [Runs -> Steps \union Ended \union {"idle"}]
    <3>1. pc \in [Runs -> Steps \union Ended \union {"idle"}]
      BY <1>0 DEF TypeOK
    <3> QED
      BY <1>1, <3>1 DEF CheckName
  <2>4. todo' \in [Runs -> SUBSET Names]
    <3>1. todo \in [Runs -> SUBSET Names] /\ Under[name[p]] \in SUBSET Names
      BY <1>0 DEF TypeOK
    <3> QED
      BY <1>1, <3>1 DEF CheckName
  <2>1. TypeOK'
    BY <1>0, <1>1, <2>3, <2>4 DEF CheckName, TypeOK
  <2>2. ControlOf(p)'
    BY <1>0, <1>1 DEF CheckName, TypeOK, ControlOf, Saved
  <2> QED
    BY <2>1, <2>2
<1>2. ASSUME NEW n \in Names, Unlink(p, n) PROVE TypeOK' /\ ControlOf(p)'
  <2>5. content' \in [Names -> Contents]
    BY <1>0, <1>2, ContentTypes DEF Unlink, TypeOK
  <2>6. files' \subseteq Names
    BY <1>0, <1>2 DEF Unlink, TypeOK
  <2>1. changed' \in [Runs -> SUBSET Names]
    <3>1. {n} \in SUBSET Names /\ changed \in [Runs -> SUBSET Names]
      BY <1>0 DEF TypeOK
    <3>2. Notice(p, {n}) \/ changed' = changed
      BY <1>2 DEF Unlink
    <3> QED
      BY <1>0, <3>1, <3>2, MoveTypes
  <2>2. handle' \in [Runs -> {"none", "open", "orphan"}] /\ handle'[p] = handle[p]
    BY <1>0, <1>2 DEF Unlink, TypeOK, ControlOf
  <2>3. TypeOK'
    BY <1>0, <1>2, <2>1, <2>2, <2>5, <2>6 DEF Unlink, TypeOK
  <2>4. ControlOf(p)'
    BY <1>0, <1>2, <2>2 DEF Unlink, TypeOK, ControlOf, Saved
  <2> QED
    BY <2>3, <2>4
<1>3. ASSUME RemoveDir(p) PROVE TypeOK' /\ ControlOf(p)'
  <2>1. TypeOK'
    BY <1>0, <1>3 DEF RemoveDir, TypeOK
  <2>2. ControlOf(p)'
    BY <1>0, <1>3 DEF RemoveDir, TypeOK, ControlOf, Saved
  <2> QED
    BY <2>1, <2>2
<1>4. TypeOK' /\ ControlOf(p)'
  BY <1>1, <1>2, <1>3 DEF Remove
<1>5. ASSUME NEW q \in Runs, q # p PROVE ControlOf(q)'
  <2>1. /\ pc'[q] = pc[q] /\ cmd'[q] = cmd[q] /\ name'[q] = name[q] /\ held'[q] = held[q]
        /\ offset'[q] = offset[q] /\ todo'[q] = todo[q]
        /\ handle'[q] = handle[q] \/ (handle[q] = "open" /\ handle'[q] = "orphan")
    <3>1. CASE CheckName(p) \/ RemoveDir(p)
      BY <1>0, <1>5, <3>1 DEF CheckName, RemoveDir, TypeOK
    <3>2. ASSUME NEW n \in Names, Unlink(p, n)
          PROVE  /\ todo'[q] = todo[q]
                 /\ handle'[q] = handle[q] \/ (handle[q] = "open" /\ handle'[q] = "orphan")
      <4>1. todo'[q] = todo[q]
        BY <1>0, <1>5, <3>2 DEF Unlink, TypeOK
      <4>2. handle'[q] = handle[q] \/ (handle[q] = "open" /\ handle'[q] = "orphan")
        BY <1>0, <1>5, <3>2 DEF Unlink, TypeOK
      <4> QED
        BY <4>1, <4>2
    <3> QED
      BY <3>1, <3>2 DEF Remove, Unlink
  <2> QED
    BY <1>5, <2>1, OthersControl
<1> QED
  BY <1>4, <1>5 DEF TypeInv, Control

\* The steps of a listing keep the types.
LEMMA ListTypes ==
    ASSUME TypeInv, NEW p \in Runs, List(p)
    PROVE  TypeInv'
<1> USE DEF Goto, Exit
<1>0. TypeOK /\ ControlOf(p)
  BY DEF TypeInv, Control
<1>1. TypeOK'
  <2>1. ASSUME NEW n \in Names, LookUp(p, n) PROVE TypeOK'
    <3>1. /\ todo' \in [Runs -> SUBSET Names] /\ found' \in [Runs -> SUBSET Names]
          /\ unread' \in [Runs -> SUBSET Names]
      <4>1. /\ todo \in [Runs -> SUBSET Names] /\ found \in [Runs -> SUBSET Names]
            /\ unread \in [Runs -> SUBSET Names]
        BY <1>0 DEF TypeOK
      <4>2. todo' = [todo EXCEPT ![p] = @ \ {n}]
        BY <2>1 DEF LookUp
      <4>3. found' = found \/ found' = [found EXCEPT ![p] = @ \union {n}]
        BY <2>1, <4>1 DEF LookUp
      <4>4. unread' = unread \/ unread' = [unread EXCEPT ![p] = @ \union {n}]
        BY <2>1 DEF LookUp
      <4> QED
        BY <4>1, <4>2, <4>3, <4>4
    <3>2. UNCHANGED <<source, dirs, files, content, pc, cmd, name, held, handle, offset, shown, changed>>
      BY <2>1 DEF LookUp
    <3> QED
      BY <1>0, <3>1, <3>2 DEF TypeOK
  <2>2. ASSUME NEW n \in Names, ReadTarget(p, n) PROVE TypeOK'
    <3>1. pc' \in [Runs -> Steps \union Ended \union {"idle"}]
      BY <1>0, <2>2 DEF ReadTarget, Show, PrintNone, TypeOK
    <3>2. found' \in [Runs -> SUBSET Names]
      <4>1. found \in [Runs -> SUBSET Names]
        BY <1>0 DEF TypeOK
      <4>2. found' = found \/ found' = [found EXCEPT ![p] = @ \ {n}]
        BY <2>2 DEF ReadTarget, Show, PrintNone
      <4> QED
        BY <4>1, <4>2
    <3>3. shown' \in [Runs -> [Names -> Configs \union {None}]]
      <4>1. Nothing \in [Names -> Configs \union {None}]
        BY DEF Nothing
      <4> QED
        <5>1. shown \in [Runs -> [Names -> Configs \union {None}]]
          BY <1>0 DEF TypeOK
        <5>2. CASE shown' = [shown EXCEPT ![p] = Nothing]
          BY <4>1, <5>1, <5>2
        <5>3. ASSUME NEW c \in Configs, Show(p, n, c)
              PROVE  shown' \in [Runs -> [Names -> Configs \union {None}]]
          <6>1. [shown[p] EXCEPT ![n] = c] \in [Names -> Configs \union {None}]
            BY <5>1
          <6>2. shown' = [shown EXCEPT ![p] = [shown[p] EXCEPT ![n] = c]]
            BY <5>1, <5>3 DEF Show
          <6> QED
            BY <5>1, <6>1, <6>2
        <5> QED
          BY <2>2, <5>2, <5>3 DEF ReadTarget, PrintNone
    <3> QED
      BY <1>0, <2>2, <3>1, <3>2, <3>3 DEF ReadTarget, TypeOK
  <2>3. ASSUME PrintTargets(p) PROVE TypeOK'
    BY <1>0, <2>3 DEF PrintTargets, TypeOK
  <2> QED
    BY <2>1, <2>2, <2>3 DEF List
<1>2. ControlOf(p)'
  BY <1>0 DEF List, LookUp, ReadTarget, PrintTargets, Show, PrintNone, TypeOK, ControlOf, Saved
<1>3. ASSUME NEW q \in Runs, q # p PROVE ControlOf(q)'
  <2>1. /\ pc'[q] = pc[q] /\ cmd'[q] = cmd[q] /\ name'[q] = name[q] /\ held'[q] = held[q]
        /\ offset'[q] = offset[q] /\ todo'[q] = todo[q] /\ handle'[q] = handle[q]
    BY <1>0, <1>3 DEF List, LookUp, ReadTarget, PrintTargets, Show, PrintNone, TypeOK
  <2> QED
    BY <1>3, <2>1, OthersControl
<1> QED
  BY <1>1, <1>2, <1>3 DEF TypeInv, Control

\* Starting a command keeps the types.
LEMMA StartTypes ==
    ASSUME TypeInv, NEW p \in Runs, NEW c \in Commands, Start(p, c)
    PROVE  TypeInv'
<1> USE DEF Goto, Exit
<1>0. TypeOK /\ ControlOf(p)
  BY DEF TypeInv, Control
<1>1. todo' \in [Runs -> SUBSET Names] /\ unread' \in [Runs -> SUBSET Names]
  <2>1. todo \in [Runs -> SUBSET Names] /\ unread \in [Runs -> SUBSET Names]
    BY <1>0 DEF TypeOK
  <2>2. CASE c # "list"
    BY <2>1, <2>2 DEF Start
  <2>3. CASE c = "list"
    <3>1. PICK S \in Globbed : /\ todo' = [todo EXCEPT ![p] = S]
                              /\ unread' = [unread EXCEPT ![p] = TargetDirs \ S]
      BY <2>3 DEF Start
    <3>2. TargetDirs \subseteq Names /\ S \subseteq TargetDirs
      BY DEF Globbed, TargetDirs
    <3> QED
      BY <2>1, <3>1, <3>2
  <2> QED
    BY <2>2, <2>3
<1>3. First(c) \in {"open", "check", "list", "ok", "failed"}
  BY DEF First
<1>4. TypeOK'
  BY <1>0, <1>1, <1>3 DEF Start, TypeOK
<1>5. ControlOf(p)'
  BY <1>0 DEF Start, First, TypeOK, ControlOf, Saved
<1>6. ASSUME NEW q \in Runs, q # p PROVE ControlOf(q)'
  <2>1. /\ pc'[q] = pc[q] /\ cmd'[q] = cmd[q] /\ name'[q] = name[q] /\ held'[q] = held[q]
        /\ offset'[q] = offset[q] /\ todo'[q] = todo[q] /\ handle'[q] = handle[q]
    BY <1>0, <1>6 DEF Start, TypeOK
  <2> QED
    BY <1>6, <2>1, OthersControl
<1> QED
  BY <1>4, <1>5, <1>6 DEF TypeInv, Control

\* Dying, and a change of the cf CLI's own file, keep the types.
LEMMA OtherTypes ==
    ASSUME TypeInv
    PROVE  /\ \A p \in Runs : Kill(p) => TypeInv'
           /\ Retarget => TypeInv'
<1> USE DEF TypeInv, TypeOK, Control, ControlOf, Goto, Exit, Saved
<1>1. ASSUME NEW p \in Runs, Kill(p) PROVE TypeInv'
  BY <1>1 DEF Kill
<1>2. ASSUME Retarget PROVE TypeInv'
  BY <1>2 DEF Retarget
<1> QED
  BY <1>1, <1>2

\* Every step keeps the types.
LEMMA TypeStep == TypeInv /\ [Next]_vars => TypeInv'
<1> SUFFICES ASSUME TypeInv, [Next]_vars PROVE TypeInv'
  OBVIOUS
<1>1. CASE UNCHANGED vars
  BY <1>1 DEF vars, TypeInv, TypeOK, Control, ControlOf, Saved
<1> QED
  BY <1>1, SaveTypes, RemoveTypes, ListTypes, StartTypes, OtherTypes DEF Next

\* The state functions are typed, and control agrees with the data it needs.
LEMMA TypeInvariance == Spec => []TypeInv
  BY TypeInit, TypeStep, PTL DEF Spec

\* The types of the variables hold throughout.
THEOREM TargetTypes == Spec => []TypeOK
<1>1. TypeInv => TypeOK
  BY DEF TypeInv
<1> QED
  BY <1>1, TypeInvariance, PTL

-----------------------------------------------------------------------------
(* What the runs may rely on *)

StepOf(q) ==
    \/ Save(q) \/ Remove(q) \/ List(q) \/ Kill(q)
    \/ \E c \in Commands : Start(q, c)

\* n is as it was, and so is the handle of a run that saves it.
Untouched(p, n) ==
    /\ n \in files' <=> n \in files
    /\ content'[n] = content[n]
    /\ name[p] = n => handle'[p] = handle[p]

\* A step of another run changes nothing of a run but its handle, and no file
\* it does not hear of.
LEMMA Rely ==
    ASSUME TypeInv, NEW p \in Runs, NEW q \in Runs, p # q, StepOf(q)
    PROVE  /\ pc'[p] = pc[p] /\ cmd'[p] = cmd[p] /\ name'[p] = name[p] /\ held'[p] = held[p]
           /\ offset'[p] = offset[p] /\ todo'[p] = todo[p] /\ found'[p] = found[p]
           /\ shown'[p] = shown[p] /\ unread'[p] = unread[p]
           /\ changed[p] \subseteq changed'[p]
           /\ handle[p] # "none" => handle'[p] # "none"
           /\ \A n \in Names : n \in changed'[p] \/ Untouched(p, n)
<1>0. /\ pc \in [Runs -> Steps \union Ended \union {"idle"}]
      /\ cmd \in [Runs -> Commands \union {"none"}] /\ name \in [Runs -> Names]
      /\ held \in [Runs -> Configs \union {None}] /\ offset \in [Runs -> Nat]
      /\ handle \in [Runs -> {"none", "open", "orphan"}]
      /\ todo \in [Runs -> SUBSET Names] /\ found \in [Runs -> SUBSET Names]
      /\ shown \in [Runs -> [Names -> Configs \union {None}]]
      /\ unread \in [Runs -> SUBSET Names] /\ changed \in [Runs -> SUBSET Names]
      /\ content \in [Names -> Contents]
  BY DEF TypeInv, TypeOK
<1> USE DEF Goto, Exit, Untouched
<1>1. CASE OpenSource(q) \/ MakeDir(q) \/ FinishCopy(q) \/ CheckName(q) \/ RemoveDir(q) \/ PrintTargets(q)
           \/ Kill(q) \/ (\E n \in Names : LookUp(q, n) \/ ReadTarget(q, n))
  <2>1. changed' = changed /\ files' = files /\ content' = content /\ handle' = handle
        /\ cmd' = cmd /\ name' = name /\ offset' = offset
    BY <1>1 DEF OpenSource, MakeDir, FinishCopy, CheckName, RemoveDir, PrintTargets, Kill, LookUp, ReadTarget
  <2>2. pc'[p] = pc[p]
    BY <1>0, <1>1 DEF OpenSource, MakeDir, FinishCopy, CheckName, RemoveDir, PrintTargets, Kill, LookUp, ReadTarget,
         Show, PrintNone
  <2>3. held'[p] = held[p]
    BY <1>0, <1>1 DEF OpenSource, MakeDir, FinishCopy, CheckName, RemoveDir, PrintTargets, Kill, LookUp, ReadTarget
  <2>4. todo'[p] = todo[p] /\ found'[p] = found[p] /\ shown'[p] = shown[p]
        /\ unread'[p] = unread[p]
    BY <1>0, <1>1 DEF OpenSource, MakeDir, FinishCopy, CheckName, RemoveDir, PrintTargets, Kill, LookUp, ReadTarget,
         Show, PrintNone
  <2> QED
    BY <2>1, <2>2, <2>3, <2>4
<1>2. CASE Truncate(q)
  <2>1. name' = name /\ cmd' = cmd /\ held' = held /\ offset' = offset /\ todo' = todo
        /\ found' = found /\ shown' = shown /\ unread' = unread
    BY <1>2 DEF Truncate
  <2>2. pc'[p] = pc[p] /\ handle'[p] = handle[p]
    BY <1>0, <1>2 DEF Truncate
  <2>3. CASE changed' = changed /\ files' = files /\ content' = content
    BY <2>1, <2>2, <2>3
  <2>4. CASE /\ files' = files \union {name[q]} /\ content' = [content EXCEPT ![name[q]] = Empty]
             /\ Notice(q, {name[q]})
    <3>1. changed'[p] = changed[p] \union {name[q]}
      BY <1>0, <2>4 DEF Notice
    <3>2. \A n \in Names : n # name[q] => (n \in files' <=> n \in files) /\ content'[n] = content[n]
      BY <1>0, <2>4
    <3> QED
      BY <2>1, <2>2, <3>1, <3>2
  <2> QED
    BY <1>2, <2>3, <2>4 DEF Truncate
<1>3. CASE CopyBlock(q)
  <2>1. name' = name /\ cmd' = cmd /\ held' = held /\ pc' = pc /\ todo' = todo /\ handle' = handle
        /\ found' = found /\ shown' = shown /\ unread' = unread /\ files' = files
    BY <1>3 DEF CopyBlock
  <2>2. offset'[p] = offset[p]
    BY <1>0, <1>3 DEF CopyBlock
  <2>3. CASE changed' = changed /\ content' = content
    BY <2>1, <2>2, <2>3
  <2>4. CASE handle[q] = "open"
    <3>1. changed'[p] = changed[p] \union {name[q]}
      BY <1>0, <1>3, <2>4 DEF CopyBlock
    <3>2. \A n \in Names : n # name[q] => content'[n] = content[n]
      BY <1>0, <1>3, <2>4 DEF CopyBlock
    <3> QED
      BY <2>1, <2>2, <3>1, <3>2
  <2> QED
    BY <1>3, <2>3, <2>4 DEF CopyBlock
<1>4. ASSUME NEW m \in Names, Unlink(q, m)
      PROVE  /\ pc' = pc /\ cmd' = cmd /\ name' = name /\ held' = held /\ offset' = offset
             /\ todo'[p] = todo[p] /\ found' = found /\ shown' = shown /\ unread' = unread
             /\ changed[p] \subseteq changed'[p]
             /\ handle[p] # "none" => handle'[p] # "none"
             /\ \A n \in Names : n \in changed'[p] \/ Untouched(p, n)
  <2>1. pc' = pc /\ cmd' = cmd /\ name' = name /\ held' = held /\ offset' = offset
        /\ found' = found /\ shown' = shown /\ unread' = unread
    BY <1>4 DEF Unlink
  <2>2. todo'[p] = todo[p]
    BY <1>0, <1>4 DEF Unlink
  <2>3. CASE changed' = changed /\ files' = files /\ content' = content /\ handle' = handle
    BY <2>1, <2>2, <2>3
  <2>4. CASE m \in files
    <3>1. changed'[p] = changed[p] \union {m}
      BY <1>0, <1>4, <2>4 DEF Unlink, Notice
    <3>2. \A n \in Names : n # m => (n \in files' <=> n \in files) /\ content'[n] = content[n]
      BY <1>0, <1>4, <2>4 DEF Unlink
    <3>3. /\ name[p] # m => handle'[p] = handle[p]
          /\ handle[p] # "none" => handle'[p] # "none"
      BY <1>0, <1>4, <2>4 DEF Unlink
    <3> QED
      BY <2>1, <2>2, <3>1, <3>2, <3>3
  <2> QED
    BY <1>4, <2>3, <2>4 DEF Unlink
<1>5. ASSUME NEW c \in Commands, Start(q, c)
      PROVE  /\ pc'[p] = pc[p] /\ cmd'[p] = cmd[p] /\ name' = name /\ held' = held /\ offset' = offset
             /\ todo'[p] = todo[p] /\ found' = found /\ shown' = shown /\ unread'[p] = unread[p]
             /\ changed'[p] = changed[p] /\ handle' = handle /\ \A n \in Names : Untouched(p, n)
  BY <1>0, <1>5 DEF Start
<1> QED
  BY <1>1, <1>2, <1>3, <1>4, <1>5 DEF StepOf, Save, Remove, List

\* What the steps that belong to no run, and stuttering, leave alone.
LEMMA Idle ==
    ASSUME Retarget \/ UNCHANGED vars
    PROVE  UNCHANGED <<dirs, files, content, pc, cmd, name, held, handle, offset, todo, found, shown, unread, changed>>
  BY DEF Retarget, vars

\* Every step is one of a run, or changes no file.
LEMMA Steppers ==
    ASSUME [Next]_vars
    PROVE  (\E q \in Runs : StepOf(q)) \/ Retarget \/ UNCHANGED vars
  BY DEF Next, StepOf

-----------------------------------------------------------------------------
(* Saved targets *)

\* A save that nobody disturbs has put the first blocks in place.
Owner(p) ==
    (pc[p] = "copy" \/ Saved(p)) /\ name[p] \notin changed[p] =>
      /\ name[p] \in files /\ handle[p] = "open"
      /\ content[name[p]] = Prefix(held[p], offset[p])

\* One more block makes a longer prefix; none is an empty file.
LEMMA Prefixes ==
    /\ \A c \in Configs : Prefix(c, 0) = Empty
    /\ \A c \in Configs, k \in Nat :
         k + 1 \in Blocks => [Prefix(c, k) EXCEPT ![k + 1] = c] = Prefix(c, k + 1)
<1>1. Blocks \subseteq Nat \ {0}
  BY DEF Blocks
<1>2. ASSUME NEW c \in Configs PROVE Prefix(c, 0) = Empty
  BY <1>1 DEF Prefix, Empty
<1>3. ASSUME NEW c \in Configs, NEW k \in Nat, k + 1 \in Blocks
      PROVE  [Prefix(c, k) EXCEPT ![k + 1] = c] = Prefix(c, k + 1)
  <2>1. \A b \in Blocks : b <= k + 1 <=> b <= k \/ b = k + 1
    BY <1>1
  <2>2. [Prefix(c, k) EXCEPT ![k + 1] = c] = [b \in Blocks |-> IF b = k + 1 THEN c ELSE Prefix(c, k)[b]]
    BY DEF Prefix
  <2>3. \A b \in Blocks : (IF b = k + 1 THEN c ELSE Prefix(c, k)[b]) = (IF b <= k + 1 THEN c ELSE None)
    BY <2>1 DEF Prefix
  <2> QED
    BY <2>2, <2>3 DEF Prefix
<1> QED
  BY <1>2, <1>3

\* A save's own step keeps, or establishes, what it owns.
LEMMA OwnStep ==
    ASSUME TypeInv, NEW p \in Runs, StepOf(p), Owner(p)
    PROVE  Owner(p)'
<1>0. /\ pc \in [Runs -> Steps \union Ended \union {"idle"}]
      /\ cmd \in [Runs -> Commands \union {"none"}] /\ name \in [Runs -> Names]
      /\ held \in [Runs -> Configs \union {None}] /\ offset \in [Runs -> Nat]
      /\ handle \in [Runs -> {"none", "open", "orphan"}]
      /\ changed \in [Runs -> SUBSET Names] /\ content \in [Names -> Contents]
      /\ ControlOf(p)
  BY DEF TypeInv, TypeOK, Control
<1> USE DEF Goto, Exit
<1>1. CASE OpenSource(p) \/ MakeDir(p)
  BY <1>0, <1>1 DEF OpenSource, MakeDir, Owner, Saved
<1>2. CASE Truncate(p)
  <2>1. CASE pc' = [pc EXCEPT ![p] = "failed"]
    BY <1>0, <2>1 DEF Owner, Saved
  <2>2. CASE /\ files' = files \union {name[p]} /\ content' = [content EXCEPT ![name[p]] = Empty]
             /\ handle' = [handle EXCEPT ![p] = "open"]
    <3>1. name' = name /\ held' = held /\ offset' = offset /\ name[p] \in Names
      BY <1>0, <1>2 DEF Truncate
    <3>2. held[p] \in Configs /\ offset[p] = 0
      BY <1>0, <1>2 DEF Truncate, ControlOf
    <3>3. content'[name[p]] = Empty /\ handle'[p] = "open" /\ name[p] \in files'
      BY <1>0, <2>2, <3>1
    <3> QED
      BY <3>1, <3>2, <3>3, Prefixes DEF Owner
  <2> QED
    BY <1>2, <2>1, <2>2 DEF Truncate
<1>3. CASE CopyBlock(p)
  <2>1. /\ pc[p] = "copy" /\ name' = name /\ held' = held /\ handle' = handle /\ files' = files
        /\ name[p] \in Names
    BY <1>0, <1>3 DEF CopyBlock
  <2>2. held[p] \in Configs /\ offset[p] \in Nat /\ offset'[p] = offset[p] + 1
    BY <1>0, <1>3 DEF CopyBlock, ControlOf
  <2>3. offset[p] + 1 \in Blocks
    BY <1>3, <2>2, NextBlock DEF CopyBlock
  <2>4. changed'[p] = changed[p]
    BY <1>0, <1>3 DEF CopyBlock
  <2>5. CASE name[p] \in changed[p]
    BY <2>1, <2>4, <2>5 DEF Owner
  <2>6. CASE name[p] \notin changed[p]
    <3>1. name[p] \in files /\ handle[p] = "open" /\ content[name[p]] = Prefix(held[p], offset[p])
      BY <2>1, <2>6 DEF Owner
    <3>2. content'[name[p]] = [Prefix(held[p], offset[p]) EXCEPT ![offset[p] + 1] = held[p]]
      BY <1>0, <1>3, <2>1, <3>1 DEF CopyBlock
    <3> QED
      BY <2>1, <2>2, <2>3, <3>1, <3>2, Prefixes DEF Owner
  <2> QED
    BY <2>5, <2>6
<1>4. CASE FinishCopy(p)
  <2>1. UNCHANGED <<files, content, name, held, handle, offset, changed>> /\ pc[p] = "copy"
    BY <1>4 DEF FinishCopy
  <2> QED
    BY <2>1 DEF Owner
<1>5. CASE Remove(p) \/ List(p) \/ Kill(p)
  <2>1. cmd' = cmd /\ pc'[p] # "copy" /\ (pc'[p] = "ok" => cmd[p] # "save")
    BY <1>0, <1>5 DEF Remove, CheckName, Unlink, RemoveDir, List, LookUp, ReadTarget, PrintTargets, Show, PrintNone,
                      Kill, ControlOf
  <2> QED
    BY <2>1 DEF Owner, Saved
<1>6. ASSUME NEW c \in Commands, Start(p, c) PROVE Owner(p)'
  BY <1>0, <1>6 DEF Start, First, Owner, Saved
<1> QED
  BY <1>1, <1>2, <1>3, <1>4, <1>5, <1>6 DEF StepOf, Save

Owners == \A p \in Runs : Owner(p)

\* Every step keeps what the undisturbed saves own.
LEMMA OwnersStep == TypeInv /\ Owners /\ [Next]_vars => Owners'
<1> SUFFICES ASSUME TypeInv, Owners, [Next]_vars, NEW p \in Runs PROVE Owner(p)'
  BY DEF Owners
<1>1. Owner(p) /\ name[p] \in Names
  BY DEF Owners, TypeInv, TypeOK
<1>2. CASE Retarget \/ UNCHANGED vars
  BY <1>1, <1>2, Idle DEF Owner, Saved
<1>3. ASSUME NEW q \in Runs, StepOf(q) PROVE Owner(p)'
  <2>1. CASE q = p
    BY <1>1, <1>3, <2>1, OwnStep
  <2>2. CASE q # p
    BY <1>1, <1>3, <2>2, Rely DEF Owner, Saved, Untouched
  <2> QED
    BY <2>1, <2>2
<1> QED
  BY <1>2, <1>3, Steppers

\* What a successful save leaves behind stays until another run touches it.
THEOREM SavesAreKept == Spec => []SaveKept
<1>1. Init => Owners
  <2>1. ASSUME Init PROVE \A p \in Runs : pc[p] = "idle"
    BY <2>1 DEF Init
  <2> QED
    BY <2>1 DEF Owners, Owner, Saved
<1>2. TypeInv /\ Owners => SaveKept
  <2> SUFFICES ASSUME TypeInv, Owners, NEW p \in Runs, Saved(p), name[p] \notin changed[p]
               PROVE  name[p] \in files /\ content[name[p]] = Copied(held[p])
    BY DEF SaveKept
  <2>1. offset[p] = Size[held[p]]
    BY DEF TypeInv, Control, ControlOf
  <2> QED
    BY <2>1 DEF Owners, Owner, Copied
<1> QED
  BY <1>1, <1>2, OwnersStep, TypeInvariance, PTL DEF Spec

-----------------------------------------------------------------------------
(* Damaged targets *)

Blamed(p, n) ==
    /\ cmd[p] = "save" /\ name[p] = n /\ handle[p] # "none"
    /\ pc[p] # "ok" \/ n \in changed[p]

Explained(n) == n \in files => Whole(n) \/ \E p \in Runs : Blamed(p, n)

\* A save that has opened a target is to blame for it, or the target is whole.
LEMMA BlameStep ==
    ASSUME TypeInv, Owners, NEW p \in Runs, NEW n \in Names, Blamed(p, n), StepOf(p)
    PROVE  Blamed(p, n)' \/ Whole(n)'
<1>0. /\ pc \in [Runs -> Steps \union Ended \union {"idle"}]
      /\ changed \in [Runs -> SUBSET Names] /\ name \in [Runs -> Names]
      /\ ControlOf(p) /\ Owner(p)
  BY DEF TypeInv, TypeOK, Control, Owners
<1>1. pc[p] \in {"copy", "ok", "failed", "killed"}
  BY <1>0 DEF Blamed, ControlOf
<1>2. CASE CopyBlock(p)
  BY <1>0, <1>2 DEF CopyBlock, Blamed
<1>3. CASE FinishCopy(p)
  <2>1. /\ pc[p] = "copy" /\ held[p] \in Configs
        /\ UNCHANGED <<files, content, cmd, name, held, handle, offset, changed>>
    BY <1>0, <1>3 DEF FinishCopy, ControlOf
  <2>2. CASE offset[p] = Size[held[p]] /\ n \notin changed[p]
    BY <1>0, <2>1, <2>2 DEF Owner, Blamed, Whole, Copied
  <2>3. CASE n \in changed[p]
    BY <2>1, <2>3 DEF Blamed
  <2>4. CASE pc' = [pc EXCEPT ![p] = "failed"]
    BY <1>0, <2>1, <2>4 DEF Blamed
  <2> QED
    BY <1>3, <2>2, <2>3, <2>4 DEF FinishCopy, Exit, Goto
<1>4. CASE Kill(p)
  BY <1>0, <1>4 DEF Kill, Goto, Blamed
<1> QED
  BY <1>1, <1>2, <1>3, <1>4
     DEF StepOf, Save, Remove, List, OpenSource, MakeDir, Truncate, CheckName, Unlink, RemoveDir,
         LookUp, ReadTarget, PrintTargets, Start

\* A run that changes a file without removing it is to blame.
LEMMA WriterStep ==
    ASSUME TypeInv, NEW p \in Runs, NEW n \in Names, StepOf(p), n \in files'
    PROVE  (n \in files /\ content'[n] = content[n]) \/ Blamed(p, n)'
<1>0. /\ pc \in [Runs -> Steps \union Ended \union {"idle"}]
      /\ name \in [Runs -> Names] /\ content \in [Names -> Contents]
      /\ handle \in [Runs -> {"none", "open", "orphan"}]
      /\ ControlOf(p)
  BY DEF TypeInv, TypeOK, Control
<1>1. CASE Truncate(p)
  <2>1. CASE files' = files /\ content' = content
    BY <2>1
  <2>2. CASE /\ files' = files \union {name[p]} /\ content' = [content EXCEPT ![name[p]] = Empty]
             /\ handle' = [handle EXCEPT ![p] = "open"] /\ Goto(p, "copy")
    <3>1. cmd'[p] = "save" /\ name' = name /\ handle'[p] = "open" /\ pc'[p] = "copy"
      BY <1>0, <1>1, <2>2 DEF Truncate, ControlOf, Goto
    <3> QED
      BY <1>0, <2>2, <3>1 DEF Blamed
  <2> QED
    BY <1>1, <2>1, <2>2 DEF Truncate
<1>2. CASE CopyBlock(p)
  <2>1. cmd'[p] = "save" /\ name' = name /\ handle'[p] # "none" /\ pc'[p] = "copy" /\ files' = files
    BY <1>0, <1>2 DEF CopyBlock, ControlOf
  <2>2. n # name[p] => content'[n] = content[n]
    BY <1>0, <1>2 DEF CopyBlock
  <2> QED
    BY <2>1, <2>2 DEF Blamed
<1>3. ASSUME NEW m \in Names, Unlink(p, m) PROVE n \in files /\ content'[n] = content[n]
  BY <1>0, <1>3 DEF Unlink
<1>4. CASE ~(Truncate(p) \/ CopyBlock(p) \/ \E m \in Names : Unlink(p, m))
  BY <1>4 DEF StepOf, Save, Remove, List, OpenSource, MakeDir, FinishCopy, CheckName, RemoveDir,
              LookUp, ReadTarget, PrintTargets, Kill, Start
<1> QED
  BY <1>1, <1>2, <1>3, <1>4

\* Every step leaves damage explained.
LEMMA DamageStep == TypeInv /\ Owners /\ DamageExplained /\ [Next]_vars => DamageExplained'
<1> SUFFICES ASSUME TypeInv, Owners, DamageExplained, [Next]_vars, NEW n \in Names, n \in files'
             PROVE  Whole(n)' \/ \E p \in Runs : Blamed(p, n)'
  BY TypeStep DEF DamageExplained, Blamed, TypeInv, TypeOK
<1>2. n \in files => Whole(n) \/ \E p \in Runs : Blamed(p, n)
  BY DEF DamageExplained, Blamed
<1>3. CASE Retarget \/ UNCHANGED vars
  BY <1>2, <1>3, Idle DEF Whole, Blamed
<1>4. ASSUME NEW q \in Runs, StepOf(q) PROVE Whole(n)' \/ \E p \in Runs : Blamed(p, n)'
  <2>1. CASE Blamed(q, n)'
    BY <2>1
  <2>2. CASE n \in files /\ content'[n] = content[n]
    <3>1. CASE Whole(n)
      BY <2>2, <3>1 DEF Whole
    <3>2. ASSUME NEW p \in Runs, Blamed(p, n) PROVE Whole(n)' \/ Blamed(p, n)'
      <4>1. CASE p = q
        BY <1>4, <3>2, <4>1, BlameStep
      <4>2. CASE p # q
        BY <1>4, <3>2, <4>2, Rely DEF Blamed
      <4> QED
        BY <4>1, <4>2
    <3> QED
      BY <1>2, <2>2, <3>1, <3>2
  <2> QED
    BY <1>4, <2>1, <2>2, WriterStep
<1> QED
  BY <1>3, <1>4, Steppers

\* A target that is not whole is some save's unfinished or overlapped work.
THEOREM DamageIsExplained == Spec => []DamageExplained
<1>1. Init => DamageExplained
  BY DEF Init, DamageExplained, Whole
<1>2. Init => Owners
  BY DEF Init, Owners, Owner, Saved
<1> QED
  BY <1>1, <1>2, OwnersStep, DamageStep, TypeInvariance, PTL DEF Spec

-----------------------------------------------------------------------------
(* Removed targets *)

\* Every step keeps what a successful removal promised.
LEMMA GoneStep == TypeInv /\ RemovedMeansGone /\ [Next]_vars => RemovedMeansGone'
<1> SUFFICES ASSUME TypeInv, RemovedMeansGone, [Next]_vars, NEW p \in Runs, Removed(p)'
             PROVE  (Under[name[p]] \intersect files \subseteq changed[p])'
  BY DEF RemovedMeansGone
<1>0. /\ pc \in [Runs -> Steps \union Ended \union {"idle"}]
      /\ name \in [Runs -> Names] /\ ControlOf(p)
      /\ Removed(p) => Under[name[p]] \intersect files \subseteq changed[p]
  BY DEF TypeInv, TypeOK, Control, RemovedMeansGone
<1>1. CASE Retarget \/ UNCHANGED vars
  BY <1>0, <1>1, Idle DEF Removed
<1>2. ASSUME NEW q \in Runs, StepOf(q) PROVE (Under[name[p]] \intersect files \subseteq changed[p])'
  <2>1. CASE q = p
    <3>1. RemoveDir(p) /\ pc' # [pc EXCEPT ![p] = "failed"]
      <4>1. ~Save(p)
        BY <1>0 DEF Save, OpenSource, MakeDir, Truncate, CopyBlock, FinishCopy, Removed, ControlOf
      <4>2. ~List(p) /\ ~Kill(p)
        BY <1>0 DEF List, LookUp, ReadTarget, PrintTargets, Kill, Goto, Removed, ControlOf
      <4>3. ~CheckName(p) /\ ~\E n \in Names : Unlink(p, n)
        BY <1>0 DEF CheckName, Unlink, Goto, Exit, Removed
      <4>4. ~\E c \in Commands : Start(p, c)
        <5> SUFFICES ASSUME NEW c \in Commands, Start(p, c) PROVE FALSE
          OBVIOUS
        <5>1. pc'[p] = First(c) /\ (pc[p] = "idle") /\ cmd' = [cmd EXCEPT ![p] = c]
          BY <1>0 DEF Start, Goto
        <5>2. c = "remove"
          BY <5>1 DEF Removed, TypeInv, TypeOK
        <5> QED
          BY <5>1, <5>2 DEF First, Removed
      <4> QED
        BY <1>0, <1>2, <2>1, <4>1, <4>2, <4>3, <4>4 DEF StepOf, Remove, Removed
    <3>2. Under[name[p]] \intersect files = {} /\ name' = name /\ files' = files
      BY <3>1 DEF RemoveDir, Exit, Goto
    <3> QED
      BY <3>2
  <2>2. CASE q # p
    <3>1. /\ Removed(p) /\ name'[p] = name[p] /\ changed[p] \subseteq changed'[p]
          /\ \A n \in Names : n \in changed'[p] \/ (n \in files' <=> n \in files)
      BY <1>2, <2>2, Rely DEF Untouched, Removed
    <3>2. Under[name[p]] \subseteq Names
      BY <1>0
    <3> QED
      BY <1>0, <3>1, <3>2
  <2> QED
    BY <2>1, <2>2
<1> QED
  BY <1>1, <1>2, Steppers

\* After a successful removal, what is there again others have put there.
THEOREM RemovalsRemove == Spec => []RemovedMeansGone
<1>1. Init => RemovedMeansGone
  BY DEF Init, RemovedMeansGone, Removed
<1> QED
  BY <1>1, GoneStep, TypeInvariance, PTL DEF Spec

\* Only the removal of a plain name unlinks anything, and only below it.
THEOREM RemovalsConfined == Spec => RemovalConfined
<1>1. ASSUME TypeInv, [Next]_vars, NEW n \in files, n \notin files'
      PROVE  \E p \in Runs : cmd[p] = "remove" /\ name[p] \in Plain /\ n \in Under[name[p]]
  <2>1. files' # files
    BY <1>1
  <2>2. \A p \in Runs : (\E c \in Commands : Start(p, c)) \/ Kill(p) \/ List(p) => files' = files
    BY DEF Start, Kill, List, LookUp, ReadTarget, PrintTargets
  <2>3. \A p \in Runs : Save(p) => files \subseteq files'
    BY DEF Save, OpenSource, MakeDir, Truncate, CopyBlock, FinishCopy
  <2>4. \A p \in Runs : CheckName(p) \/ RemoveDir(p) => files' = files
    BY DEF CheckName, RemoveDir
  <2>5. PICK p \in Runs, m \in Names : Unlink(p, m)
    BY <1>1, <2>1, <2>2, <2>3, <2>4, Steppers, Idle DEF StepOf, Remove
  <2>6. m = n /\ n \in todo[p] /\ pc[p] = "unlink"
    BY <1>1, <2>5 DEF Unlink
  <2> QED
    BY <1>1, <2>6 DEF TypeInv, Control, ControlOf
<1>2. TypeInv /\ [Next]_vars =>
        [\A n \in files \ files' :
           \E p \in Runs : cmd[p] = "remove" /\ name[p] \in Plain /\ n \in Under[name[p]]]_vars
  BY <1>1
<1> QED
  BY <1>2, TypeInvariance, PTL DEF Spec, RemovalConfined

-----------------------------------------------------------------------------
(* Listings *)

\* A file lies in its directory.
FilesInDirs == files \subseteq dirs

\* A listing under way, or one that printed targets, knows every plain target
\* nobody has touched: still to look up, found, read, passed over, or not there.
Knows(p, n) ==
    /\ n \in todo[p] => n \notin found[p] \union unread[p] /\ shown[p][n] = None
    /\ n \in unread[p] => n \notin found[p] /\ shown[p][n] = None
    /\ n \in found[p] => n \in files
    /\ shown[p][n] # None => n \in files /\ Parses(content[n], shown[p][n])
    /\ n \in files \ unread[p] => n \in todo[p] \union found[p] \/ shown[p][n] # None

Lister(p) ==
    /\ pc[p] = "idle" => found[p] = {} /\ shown[p] = Nothing
    /\ pc[p] = "list" => \A n \in Plain \ changed[p] : Knows(p, n)
    /\ Listed(p) /\ shown[p] # Nothing
         => todo[p] = {} /\ found[p] = {} /\ \A n \in Plain \ changed[p] : Knows(p, n)

Listers == \A p \in Runs : Lister(p)

\* Every step keeps files in their directories.
LEMMA DirsStep == TypeInv /\ FilesInDirs /\ [Next]_vars => FilesInDirs'
<1> SUFFICES ASSUME TypeInv, FilesInDirs, [Next]_vars PROVE FilesInDirs'
  OBVIOUS
<1>1. CASE Retarget \/ UNCHANGED vars
  BY <1>1, Idle DEF FilesInDirs
<1>2. ASSUME NEW p \in Runs, StepOf(p) PROVE FilesInDirs'
  <2>1. CASE Save(p)
    BY <2>1 DEF Save, OpenSource, MakeDir, Truncate, CopyBlock, FinishCopy, FilesInDirs
  <2>2. CASE Remove(p)
    BY <2>2 DEF Remove, CheckName, Unlink, RemoveDir, FilesInDirs
  <2>3. CASE List(p) \/ Kill(p) \/ \E c \in Commands : Start(p, c)
    BY <2>3 DEF List, LookUp, ReadTarget, PrintTargets, Kill, Start, FilesInDirs
  <2> QED
    BY <1>2, <2>1, <2>2, <2>3 DEF StepOf
<1> QED
  BY <1>1, <1>2, Steppers

\* A listing's own step keeps, or establishes, what it knows.
LEMMA OwnListing ==
    ASSUME TypeInv, FilesInDirs, NEW p \in Runs, StepOf(p), Lister(p)
    PROVE  Lister(p)'
<1>0. /\ pc \in [Runs -> Steps \union Ended \union {"idle"}]
      /\ cmd \in [Runs -> Commands \union {"none"}]
      /\ todo \in [Runs -> SUBSET Names] /\ found \in [Runs -> SUBSET Names]
      /\ shown \in [Runs -> [Names -> Configs \union {None}]]
      /\ unread \in [Runs -> SUBSET Names] /\ changed \in [Runs -> SUBSET Names]
      /\ ControlOf(p)
  BY DEF TypeInv, TypeOK, Control
<1> USE DEF Goto, Exit
<1>1. CASE Save(p) \/ Remove(p) \/ Kill(p)
  <2>1. pc'[p] \notin {"idle", "list"} /\ (pc'[p] = "ok" => cmd'[p] # "list")
    BY <1>0, <1>1 DEF Save, OpenSource, MakeDir, Truncate, CopyBlock, FinishCopy,
                      Remove, CheckName, Unlink, RemoveDir, Kill, ControlOf
  <2> QED
    BY <2>1 DEF Lister, Listed
<1>2. ASSUME NEW c \in Commands, Start(p, c) PROVE Lister(p)'
  <2>1. /\ pc'[p] = First(c) /\ cmd'[p] = c /\ pc[p] = "idle" /\ changed'[p] = {}
        /\ UNCHANGED <<files, content, found, shown>>
    BY <1>0, <1>2 DEF Start
  <2>2. found[p] = {} /\ shown[p] = Nothing
    BY <2>1 DEF Lister
  <2>3. CASE c # "list"
    BY <2>1, <2>3 DEF First, Lister, Listed
  <2>4. CASE c = "list"
    <3>1. PICK S \in Globbed : /\ todo' = [todo EXCEPT ![p] = S]
                              /\ unread' = [unread EXCEPT ![p] = TargetDirs \ S]
      BY <1>2, <2>4 DEF Start
    <3>2. todo'[p] = S /\ unread'[p] = (Plain \intersect dirs) \ S
      BY <1>0, <3>1 DEF TargetDirs
    <3>3. pc'[p] = "list" /\ found'[p] = {} /\ shown'[p] = Nothing /\ files' = files
      BY <2>1, <2>2, <2>4 DEF First
    <3>4. ASSUME NEW n \in Plain PROVE Knows(p, n)'
      <4>1. n \in files' => n \in todo'[p] \union unread'[p]
        BY <3>2, <3>3 DEF FilesInDirs
      <4>2. shown'[p][n] = None
        BY <3>3 DEF Nothing
      <4> QED
        BY <3>2, <3>3, <4>1, <4>2 DEF Knows
    <3>5. Nothing' = Nothing
      BY DEF Nothing
    <3> QED
      BY <3>3, <3>4, <3>5 DEF Lister, Listed
  <2> QED
    BY <2>3, <2>4
<1>3. ASSUME NEW m \in Names, LookUp(p, m) PROVE Lister(p)'
  <2>1. /\ pc[p] = "list" /\ pc'[p] = "list" /\ m \in todo[p]
        /\ UNCHANGED <<files, content, shown, changed>>
    BY <1>3 DEF LookUp
  <2>2. \A n \in Plain \ changed[p] : Knows(p, n)
    BY <2>1 DEF Lister
  <2>3. /\ todo'[p] = todo[p] \ {m}
        /\ \/ /\ found'[p] = IF m \in files THEN found[p] \union {m} ELSE found[p]
              /\ unread'[p] = unread[p]
           \/ found'[p] = found[p] /\ unread'[p] = unread[p] \union {m}
    BY <1>0, <1>3 DEF LookUp
  <2>4. \A n \in Plain \ changed[p] : Knows(p, n)'
    <3> TAKE n \in Plain \ changed[p]
    <3>1. Knows(p, n)
      BY <2>2
    <3> QED
      BY <2>1, <2>3, <3>1 DEF Knows, Parses
  <2> QED
    BY <2>1, <2>4 DEF Lister, Listed
<1>4. ASSUME NEW m \in Names, ReadTarget(p, m) PROVE Lister(p)'
  <2>1. /\ pc[p] = "list" /\ m \in found[p] /\ todo[p] = {}
        /\ UNCHANGED <<files, content, todo, unread, changed, cmd>>
    BY <1>4 DEF ReadTarget
  <2>2. \A n \in Plain \ changed[p] : Knows(p, n)
    BY <2>1 DEF Lister
  <2>3. CASE PrintNone(p, m)
    <3>1. pc'[p] = "ok" /\ shown'[p] = Nothing
      BY <1>0, <2>3 DEF PrintNone
    <3>2. Nothing' = Nothing
      BY DEF Nothing
    <3> QED
      BY <3>1, <3>2 DEF Lister, Listed
  <2>4. ASSUME NEW c \in Configs, m \in files, Parses(content[m], c), Show(p, m, c) PROVE Lister(p)'
    <3>1. /\ pc'[p] = "list" /\ found'[p] = found[p] \ {m}
          /\ \A n \in Names : shown'[p][n] = IF n = m THEN c ELSE shown[p][n]
      BY <1>0, <2>1, <2>4 DEF Show
    <3>2. \A n \in Plain \ changed[p] : Knows(p, n)'
      <4> TAKE n \in Plain \ changed[p]
      <4>1. Knows(p, n)
        BY <2>2
      <4>2. CASE n = m
        <5>1. shown'[p][n] = c /\ c # None /\ n \in files' /\ content'[n] = content[n]
          BY <2>1, <2>4, <3>1, <4>2
        <5>2. Parses(content[n], shown[p][n])'
          BY <2>4, <4>2, <5>1 DEF Parses
        <5>3. n \notin todo'[p] /\ n \notin unread'[p] /\ n \notin found'[p]
          BY <2>1, <3>1, <4>1, <4>2 DEF Knows
        <5> QED
          BY <5>1, <5>2, <5>3 DEF Knows
      <4>3. CASE n # m
        <5>1. shown'[p][n] = shown[p][n]
          BY <3>1, <4>3
        <5> QED
          BY <2>1, <3>1, <4>1, <4>3, <5>1 DEF Knows, Parses
      <4> QED
        BY <4>2, <4>3
    <3> QED
      BY <2>1, <3>1, <3>2 DEF Lister, Listed
  <2> QED
    BY <1>4, <2>3, <2>4 DEF ReadTarget
<1>5. CASE PrintTargets(p)
  BY <1>0, <1>5 DEF PrintTargets, Lister, Listed, Knows, Parses, Nothing
<1> QED
  BY <1>1, <1>2, <1>3, <1>4, <1>5 DEF StepOf, List

\* Every step keeps what the listings know.
LEMMA ListersStep == TypeInv /\ FilesInDirs /\ Listers /\ [Next]_vars => Listers'
<1> SUFFICES ASSUME TypeInv, FilesInDirs, Listers, [Next]_vars, NEW p \in Runs PROVE Lister(p)'
  BY DEF Listers
<1>1. Lister(p) /\ Nothing' = Nothing
  BY DEF Listers, Nothing
<1>2. CASE Retarget \/ UNCHANGED vars
  BY <1>1, <1>2, Idle DEF Lister, Listed, Knows, Parses
<1>3. ASSUME NEW q \in Runs, StepOf(q) PROVE Lister(p)'
  <2>1. CASE q = p
    BY <1>1, <1>3, <2>1, OwnListing
  <2>2. CASE q # p
    <3>1. /\ pc'[p] = pc[p] /\ cmd'[p] = cmd[p] /\ todo'[p] = todo[p] /\ found'[p] = found[p]
          /\ shown'[p] = shown[p] /\ unread'[p] = unread[p] /\ changed[p] \subseteq changed'[p]
          /\ \A n \in Names : n \in changed'[p] \/ ((n \in files' <=> n \in files) /\ content'[n] = content[n])
      BY <1>3, <2>2, Rely DEF Untouched
    <3>2. \A n \in Plain \ changed'[p] : Knows(p, n) => Knows(p, n)'
      BY <3>1 DEF Knows, Parses
    <3> QED
      BY <1>1, <3>1, <3>2 DEF Lister, Listed
  <2> QED
    BY <2>1, <2>2
<1> QED
  BY <1>2, <1>3, Steppers

\* A listing that prints targets prints the untouched ones exactly, but for those
\* whose directory it could not read, which it leaves out.
THEOREM ListingsAreExact == Spec => []ListExact
<1>1. Init => FilesInDirs /\ Listers
  BY DEF Init, FilesInDirs, Listers, Lister, Listed
<1>2. Listers => ListExact
  <2> SUFFICES ASSUME Listers, NEW p \in Runs, Listed(p), shown[p] # Nothing, NEW n \in Plain \ changed[p]
               PROVE  IF n \in files \ unread[p] THEN Parses(content[n], shown[p][n]) ELSE shown[p][n] = None
    BY DEF ListExact
  <2>1. todo[p] = {} /\ found[p] = {} /\ Knows(p, n)
    BY DEF Listers, Lister
  <2> QED
    BY <2>1 DEF Knows
<1> QED
  BY <1>1, <1>2, DirsStep, ListersStep, TypeInvariance, PTL DEF Spec
=============================================================================
