-------------------------- MODULE SwitchoverProofs -------------------------
(***************************************************************************)
(* Proofs about the replication workflows, for any number of operators,    *)
(* commands and failures.  WriterInv is the inductive invariant behind     *)
(* OneWriter: a promotion is only in progress at an instance whose partner *)
(* accepts no writes and is not being promoted, and a run that is about to *)
(* promote has seen its demotion end well.  Operators take turns, or give  *)
(* the same command at the same time.                                      *)
(***************************************************************************)
EXTENDS Switchover, TLAPS

\* Where the lists of calls end, and where they demote and promote.
LEMMA Lengths == Len(SetupCalls) = 6 /\ Len(SwitchCalls) = 12
BY DEF SetupCalls, SwitchCalls

\* A switchover demotes the primary, then promotes the secondary, each once.
LEMMA SwitchTable ==
  /\ \A i \in 1 .. 12 :
       /\ SwitchCalls[i].call = "promote" <=> i = 8
       /\ SwitchCalls[i].call = "demote" <=> i = 7
       /\ SwitchCalls[i].side \in {"primary", "secondary"}
  /\ SwitchCalls[7].side = "primary"
  /\ SwitchCalls[8].side = "secondary"
BY DEF SwitchCalls, Call

\* Setting up changes no role but that of the new follower.
LEMMA SetupTable ==
  \A i \in 1 .. 6 :
    /\ SetupCalls[i].call \notin {"promote", "demote"}
    /\ SetupCalls[i].side \in {"primary", "secondary"}
BY DEF SetupCalls, Call

\* A run's position is a position of its list.
InList == \A r \in Runs : step[r] \in 1 .. Len(Calls(r))

TypeInv == TypeOK /\ InList

\* What the control operators do to a run.
LEMMA CallsType ==
  ASSUME TypeInv, NEW r \in Runs
  PROVE  /\ cmd[r].name \in {"setup", "switch"} /\ cmd[r].primary \in Sites
         /\ cmd[r].name = "setup" => step[r] \in 1 .. 6 /\ Len(Calls(r)) = 6
         /\ cmd[r].name = "switch" => step[r] \in 1 .. 12 /\ Len(Calls(r)) = 12
         /\ Side(r) \in {"primary", "secondary"} /\ OtherSide(r) \in {"primary", "secondary"}
         /\ Here(r) \in Sites
         /\ Calls(r)[step[r]].call = "promote" <=> cmd[r].name = "switch" /\ step[r] = 8
         /\ Calls(r)[step[r]].call = "demote" <=> cmd[r].name = "switch" /\ step[r] = 7
<1>1. cmd[r] \in Command
  BY DEF TypeInv, TypeOK
<1>2. cmd[r].name \in {"setup", "switch"} /\ cmd[r].primary \in Sites
  BY <1>1 DEF Command
<1>3. CASE cmd[r].name = "setup"
  <2>1. Calls(r) = SetupCalls /\ step[r] \in 1 .. 6
    BY <1>3, Lengths DEF Calls, TypeInv, InList
  <2>2. /\ Side(r) \in {"primary", "secondary"}
        /\ Calls(r)[step[r]].call \notin {"promote", "demote"}
    BY <2>1, SetupTable DEF Side
  <2> QED
    BY <1>2, <1>3, <2>1, <2>2, Lengths DEF OtherSide, Here, Site, Sites, Other
<1>4. CASE cmd[r].name = "switch"
  <2>1. Calls(r) = SwitchCalls /\ step[r] \in 1 .. 12
    BY <1>4, Lengths DEF Calls, TypeInv, InList
  <2>2. /\ Side(r) \in {"primary", "secondary"}
        /\ Calls(r)[step[r]].call = "promote" <=> step[r] = 8
        /\ Calls(r)[step[r]].call = "demote" <=> step[r] = 7
    BY <2>1, SwitchTable DEF Side
  <2> QED
    BY <1>2, <1>4, <2>1, <2>2, Lengths DEF OtherSide, Here, Site, Sites, Other
<1> QED
  BY <1>2, <1>3, <1>4

\* Advancing stays in the list.
LEMMA AdvanceType ==
  ASSUME TypeInv, NEW r \in Runs, Advance(r) \/ Fail(r), cmd' = cmd
  PROVE  /\ \E s \in {"calling", "done", "failed"} : state' = [state EXCEPT ![r] = s]
         /\ step' \in [Runs -> 1 .. 12] /\ InList'
         /\ \A q \in Runs \ {r} : step'[q] = step[q]
         /\ step'[r] \in {step[r], step[r] + 1}
<1>1. step \in [Runs -> 1 .. 12] /\ \A q \in Runs : step[q] \in 1 .. Len(Calls(q))
  BY DEF TypeInv, TypeOK, InList
<1>2. /\ \A q \in Runs : Calls(q)' = Calls(q)
      /\ Len(Calls(r)) \in {6, 12} /\ step[r] \in 1 .. Len(Calls(r))
  BY CallsType DEF Calls
<1>3. CASE UNCHANGED step
  BY <1>1, <1>2, <1>3 DEF Advance, Fail, InList
<1>4. CASE step[r] # Len(Calls(r)) /\ state' = [state EXCEPT ![r] = "calling"]
           /\ step' = [step EXCEPT ![r] = @ + 1]
  <2>1. step[r] + 1 \in 1 .. Len(Calls(r)) /\ step[r] + 1 \in 1 .. 12
    <3>1. PICK n \in {6, 12} : Len(Calls(r)) = n
      BY <1>2
    <3>2. step[r] \in 1 .. n /\ step[r] # n
      BY <1>2, <1>4, <3>1
    <3>3. step[r] + 1 \in 1 .. n /\ step[r] + 1 \in 1 .. 12
      BY <3>2
    <3> QED
      BY <3>1, <3>3
  <2>2. step' \in [Runs -> 1 .. 12] /\ \A q \in Runs : step'[q] \in 1 .. Len(Calls(q))
    BY <1>1, <1>4, <2>1
  <2> QED
    BY <1>1, <1>2, <1>4, <2>2 DEF InList
<1> QED
  BY <1>3, <1>4 DEF Advance, Fail

\* What is asked of the broker is a request.
LEMMA RequestedType ==
  ASSUME TypeInv, NEW r \in Runs, \E call \in Updates : Calling(r, call)
  PROVE  Requested(r) \in Requests
<1>1. planOf[r][OtherSide(r)] \in Plans \union {None} /\ key[r] \in Sites \union {None}
  BY CallsType DEF TypeInv, TypeOK
<1> QED
  BY <1>1 DEF Requested, Requests, Calling

\* The initial state is typed.
LEMMA TypeInit == Init => TypeInv
<1> SUFFICES ASSUME Init PROVE TypeInv
  OBVIOUS
<1>1. cmd \in [Runs -> Command]
  BY CommandsAssumption DEF Init
<1>2. step \in [Runs -> 1 .. 12] /\ InList
  <2>1. \A r \in Runs : Len(Calls(r)) \in {6, 12}
    BY Lengths DEF Calls
  <2>2. \A r \in Runs : step[r] = 1
    BY DEF Init
  <2>3. \A n \in {6, 12} : 1 \in 1 .. n
    OBVIOUS
  <2> QED
    BY <2>1, <2>2, <2>3 DEF Init, InList
<1>3. plan \in [Sites -> Plans]
  BY PlansAssumption DEF Init
<1>4. planOf \in [Runs -> [{"primary", "secondary"} -> Plans \union {None}]]
  BY DEF Init, NoPlans
<1>5. writable \in [Sites -> BOOLEAN] /\ failures \in Nat
  BY DEF Init
<1>6. /\ follows \in [Sites -> Sites \union {None}]
      /\ knows \in [Sites -> Sites \union {None}]
  BY DEF Init, Sites
<1> QED
  BY <1>1, <1>2, <1>3, <1>4, <1>5, <1>6 DEF Init, TypeInv, TypeOK, States

\* Every step keeps the types and stays in the lists of calls.
LEMMA TypeStep == TypeInv /\ [Next]_vars => TypeInv'
<1> SUFFICES ASSUME TypeInv, [Next]_vars PROVE TypeInv'
  OBVIOUS
<1> USE DEF runVars, siteVars, opVars
<1>1. CASE UNCHANGED vars
  BY <1>1 DEF TypeInv, TypeOK, InList, Calls, vars
<1>2. ASSUME NEW r \in Runs, Start(r) PROVE TypeInv'
  <2>1. PICK c \in Commands[r] :
          /\ cmd' = [cmd EXCEPT ![r] = c]
          /\ state' \in {[state EXCEPT ![r] = "asking"], [state EXCEPT ![r] = "calling"]}
    BY <1>2 DEF Start
  <2>2. c \in Command /\ cmd \in [Runs -> Command]
    BY CommandsAssumption DEF TypeInv, TypeOK
  <2>3. cmd' \in [Runs -> Command] /\ step' \in [Runs -> 1 .. 12]
    BY <1>2, <2>1, <2>2 DEF Start, TypeInv, TypeOK
  <2>4. InList'
    <3>1. step'[r] = 1 /\ Len(Calls(r)') \in {6, 12}
      BY <1>2, Lengths DEF Start, TypeInv, TypeOK, Calls
    <3>2. \A q \in Runs \ {r} : step'[q] = step[q] /\ Calls(q)' = Calls(q)
      BY <1>2, <2>1, <2>2 DEF Start, TypeInv, TypeOK, Calls
    <3>3. \A n \in {6, 12} : 1 \in 1 .. n
      OBVIOUS
    <3> QED
      BY <3>1, <3>2, <3>3 DEF TypeInv, InList
  <2>5. NoPlans \in [{"primary", "secondary"} -> Plans \union {None}]
    BY DEF NoPlans
  <2> QED
    BY <1>2, <2>1, <2>3, <2>4, <2>5 DEF Start, TypeInv, TypeOK, States
<1>3. ASSUME NEW r \in Runs, Kill(r) PROVE TypeInv'
  BY <1>3 DEF Kill, Failure, TypeInv, TypeOK, States, InList, Calls
<1>4. ASSUME NEW r \in Runs, Step(r) PROVE TypeInv'
  <2>1. cmd' = cmd /\ UNCHANGED siteVars /\ result' = result /\ failures' \in Nat
    BY <1>4 DEF Step, Answer, InstanceExists, InstancePlanName, PlanExists, CreateHostInfoKey,
      CreateCredentialsKey, CreateKey, Update, Wait, Failure, TypeInv, TypeOK
  <2>2. \/ Advance(r) \/ Fail(r)
        \/ /\ \E s \in {"waiting", "calling", "cancelled"} : state' = [state EXCEPT ![r] = s]
           /\ UNCHANGED step
    BY <1>4 DEF Step, Answer, InstanceExists, InstancePlanName, PlanExists, CreateHostInfoKey,
      CreateCredentialsKey, CreateKey, Update, Wait
  <2>3. /\ state' \in [Runs -> States]
        /\ step' \in [Runs -> 1 .. 12] /\ InList'
    <3>1. CASE Advance(r) \/ Fail(r)
      <4>1. /\ \E s \in {"calling", "done", "failed"} : state' = [state EXCEPT ![r] = s]
            /\ step' \in [Runs -> 1 .. 12] /\ InList'
        BY <2>1, <3>1, AdvanceType
      <4> QED
        BY <4>1 DEF TypeInv, TypeOK, States
    <3>2. CASE /\ \E s \in {"waiting", "calling", "cancelled"} : state' = [state EXCEPT ![r] = s]
               /\ UNCHANGED step
      BY <2>1, <3>2 DEF TypeInv, TypeOK, States, InList, Calls
    <3> QED
      BY <2>2, <3>1, <3>2
  <2>4. planOf' \in [Runs -> [{"primary", "secondary"} -> Plans \union {None}]]
    <3>1. plan[Here(r)] \in Plans /\ Side(r) \in {"primary", "secondary"}
      BY CallsType DEF TypeInv, TypeOK
    <3>2. planOf' = planOf \/ planOf' = [planOf EXCEPT ![r][Side(r)] = plan[Here(r)]]
      BY <1>4 DEF Step, Answer, InstanceExists, InstancePlanName, PlanExists, CreateHostInfoKey,
        CreateCredentialsKey, CreateKey, Update, Wait
    <3> QED
      BY <3>1, <3>2 DEF TypeInv, TypeOK
  <2>5. key' \in [Runs -> Sites \union {None}]
    <3>1. key' = key \/ key' = [key EXCEPT ![r] = Here(r)]
      BY <1>4 DEF Step, Answer, InstanceExists, InstancePlanName, PlanExists, CreateHostInfoKey,
        CreateCredentialsKey, CreateKey, Update, Wait
    <3> QED
      BY <3>1, CallsType DEF TypeInv, TypeOK
  <2>6. request' \in [Sites -> Requests \union {None}]
    <3>1. \/ request' = request
          \/ /\ \E call \in Updates : Calling(r, call)
             /\ request' = [request EXCEPT ![Here(r)] = Requested(r)]
      BY <1>4 DEF Step, Answer, InstanceExists, InstancePlanName, PlanExists, CreateHostInfoKey,
        CreateCredentialsKey, CreateKey, Update, Wait
    <3> QED
      BY <3>1, RequestedType DEF TypeInv, TypeOK
  <2> QED
    BY <2>1, <2>3, <2>4, <2>5, <2>6 DEF TypeInv, TypeOK
<1>5. ASSUME NEW f \in Sites, Broker(f) PROVE TypeInv'
  <2>1. request[f] \in Requests /\ request[f] # None
    BY <1>5 DEF Broker, TypeInv, TypeOK
  <2>2. request[f].key \in Sites \union {None} /\ request[f].plan \in Plans \union {None}
    BY <2>1 DEF Requests
  <2>3. UNCHANGED runVars /\ failures' \in Nat /\ request' = [request EXCEPT ![f] = None]
    BY <1>5 DEF Broker, Failure, TypeInv, TypeOK
  <2>4. \/ UNCHANGED <<writable, follows, knows>>
        \/ ChangeRole(f, request[f])
    BY <1>5 DEF Broker
  <2>5. /\ writable' \in [Sites -> BOOLEAN]
        /\ follows' \in [Sites -> Sites \union {None}]
        /\ knows' \in [Sites -> Sites \union {None}]
    BY <2>2, <2>4 DEF ChangeRole, TypeInv, TypeOK
  <2>6. plan' \in [Sites -> Plans] /\ result' \in [Sites -> {"ok", "failed"}]
    BY <1>5, <2>2 DEF Broker, TypeInv, TypeOK
  <2> QED
    BY <2>3, <2>5, <2>6 DEF TypeInv, TypeOK, InList, Calls
<1> QED
  BY <1>1, <1>2, <1>3, <1>4, <1>5 DEF Next

\* Every variable keeps its type, and no run leaves its list of calls.
THEOREM SwitchTyping == Spec => []TypeOK
<1>1. TypeInv => TypeOK
  BY DEF TypeInv
<1> QED
  BY <1>1, TypeInit, TypeStep, PTL DEF Spec

-----------------------------------------------------------------------------
(* One writer *)

\* Operators that take turns: those before one that has begun have succeeded.
InOrder == ~Overlap => \A q, r \in Runs : q < r /\ state[r] # "idle" => state[q] = "done"

\* Runs that are alive at the same time have been given the same command.
Aligned == \A q, r \in Runs : Active(q) /\ Active(r) => cmd[q] = cmd[r]

Promoting(f) == request[f] # None /\ request[f].call = "promote"

\* While an instance is being promoted, no process alive or dead lets the other write.
PromotedAlone == \A f \in Sites : Promoting(f) => ~writable[Other(f)] /\ ~Promoting(Other(f))

At(r, i) == Active(r) /\ cmd[r].name = "switch" /\ step[r] = i

\* A switchover waits for nothing but a demotion, its own or that of another run
\* with the same command, and perhaps for that other run's last call ...
Demotes ==
    \A r \in Runs : At(r, 7) /\ state[r] = "waiting" =>
      LET p == cmd[r].primary
      IN  IF request[p] = None THEN result[p] = "ok" => ~writable[p]
                               ELSE request[p].call \in {"demote", "follow"}

\* ... and promotes only once that has ended well.
Demoted ==
    \A r \in Runs : At(r, 8) => ~writable[cmd[r].primary] /\ ~Promoting(cmd[r].primary)

WriterInv == InOrder /\ Aligned /\ OneWriter /\ PromotedAlone /\ Demotes /\ Demoted

\* The order is kept by the steps of the run that is alive, or starts.
LEMMA OrderStep ==
  ASSUME TypeInv, InOrder, NEW r \in Runs, state[r] # "done", NEW s,
         state' = [state EXCEPT ![r] = s],
         \/ Active(r)
         \/ ~Overlap => \A q \in Runs : q < r => state[q] = "done"
  PROVE  InOrder'
<1>1. \A q \in Runs \ {r} : state'[q] = state[q]
  BY DEF TypeInv, TypeOK
<1> SUFFICES ASSUME ~Overlap, NEW p \in Runs, NEW q \in Runs, p < q, state'[q] # "idle"
             PROVE  state'[p] = "done"
  BY DEF InOrder
<1>2. \A o \in Runs : o < r => state[o] = "done"
  BY DEF InOrder, Active
<1>3. CASE q = r
  BY <1>1, <1>2, <1>3, CommandsAssumption
<1>4. CASE q # r
  <2>1. state[q] # "idle"
    BY <1>1, <1>4
  <2>2. state[p] = "done"
    BY <2>1 DEF InOrder
  <2> QED
    BY <1>1, <2>2
<1> QED
  BY <1>3, <1>4

\* The commands agree as long as no run comes alive.
LEMMA AlignedStep ==
  ASSUME Aligned, \A q \in Runs : Active(q)' => Active(q) /\ cmd'[q] = cmd[q]
  PROVE  Aligned'
BY DEF Aligned

\* A step that asks for nothing keeps what is known of the pair, and moves at
\* most one run, not to where it demotes or promotes but from the demotion.
LEMMA QuietStep ==
  ASSUME TypeInv, WriterInv, UNCHANGED <<writable, request, result>>, InOrder', Aligned',
         \A q \in Runs : /\ At(q, 7)' /\ state'[q] = "waiting" =>
                              At(q, 7) /\ state[q] = "waiting" /\ cmd'[q] = cmd[q]
                         /\ At(q, 8)' =>
                              /\ cmd'[q] = cmd[q]
                              /\ \/ At(q, 8)
                                 \/ /\ At(q, 7) /\ state[q] = "waiting"
                                    /\ request[cmd[q].primary] = None
                                    /\ result[cmd[q].primary] = "ok"
  PROVE  WriterInv'
<1>1. OneWriter' /\ PromotedAlone'
  BY DEF WriterInv, OneWriter, PromotedAlone, Promoting
<1>2. Demotes'
  BY DEF WriterInv, Demotes
<1>3. Demoted'
  BY DEF WriterInv, Demoted, Demotes, Promoting
<1> QED
  BY <1>1, <1>2, <1>3 DEF WriterInv

\* What a switchover asks of which side.
LEMMA SwitchSides ==
  \A i \in 1 .. 12 :
    /\ i = 7 => SwitchCalls[i].side = "primary"
    /\ i = 8 => SwitchCalls[i].side = "secondary"
    /\ SwitchCalls[i].call \in Updates /\ SwitchCalls[i].side = "primary" =>
         SwitchCalls[i].call \in {"demote", "follow"}
BY DEF SwitchCalls, Call, Updates

\* Where a run demotes and where it promotes, and what it asks of the primary.
LEMMA Places ==
  ASSUME TypeInv, NEW r \in Runs, cmd[r].name = "switch"
  PROVE  /\ step[r] = 7 => Here(r) = cmd[r].primary
         /\ step[r] = 8 => Here(r) = Other(cmd[r].primary)
         /\ (\E call \in Updates : Calling(r, call)) /\ Here(r) = cmd[r].primary =>
              Requested(r).call \in {"demote", "follow"}
<1>1. step[r] \in 1 .. 12 /\ Calls(r) = SwitchCalls /\ cmd[r].primary \in Sites
  BY CallsType DEF Calls
<1>2. Other(cmd[r].primary) # cmd[r].primary
  BY <1>1, SitesAssumption DEF Other, Sites
<1>3. /\ step[r] = 7 => Side(r) = "primary"
      /\ step[r] = 8 => Side(r) = "secondary"
      /\ SwitchCalls[step[r]].call \in Updates /\ Side(r) = "primary" =>
           SwitchCalls[step[r]].call \in {"demote", "follow"}
  BY <1>1, SwitchSides DEF Side
<1>4. Here(r) = cmd[r].primary => Side(r) = "primary"
  BY <1>2 DEF Here, Site
<1> QED
  BY <1>1, <1>3, <1>4 DEF Here, Site, Calling, Requested

\* There are two sites, each the other's other.
LEMMA OtherSite ==
  \A f, g \in Sites : Other(f) \in Sites /\ Other(f) # f /\ Other(Other(f)) = f
                      /\ (g # f => g = Other(f))
  BY SitesAssumption DEF Other, Sites

\* A run that starts is alone or has company with its command, and has called
\* nothing; one that is killed asks for nothing more.
LEMMA WriterStart ==
  ASSUME TypeInv, WriterInv, NEW r \in Runs, Start(r) \/ Kill(r)
  PROVE  WriterInv'
<1>1. state[r] # "done"
  BY DEF Start, Kill, Active
<1>2. InOrder /\ (Active(r) \/ (~Overlap => \A q \in Runs : q < r => state[q] = "done"))
  BY DEF WriterInv, Start, MayStart, Kill
<1>3. \E s : state' = [state EXCEPT ![r] = s]
  BY DEF Start, Kill
<1>4. UNCHANGED <<writable, request, result>>
  BY DEF Start, Kill, siteVars, opVars
<1>5. \A q \in Runs \ {r} : cmd'[q] = cmd[q] /\ state'[q] = state[q] /\ step'[q] = step[q]
  BY DEF Start, Kill, TypeInv, TypeOK
<1>6. ~At(r, 7)' /\ ~At(r, 8)'
  BY DEF Start, Kill, At, Active, TypeInv, TypeOK
<1>7. Aligned'
  <2>1. CASE Kill(r)
    <3>1. \A q \in Runs : Active(q)' => Active(q) /\ cmd'[q] = cmd[q]
      BY <2>1 DEF Kill, Active, TypeInv, TypeOK
    <3> QED
      BY <3>1, AlignedStep DEF WriterInv
  <2>2. CASE Start(r)
    <3>1. PICK c \in Commands[r] : MayStart(r, c) /\ cmd' = [cmd EXCEPT ![r] = c]
      BY <2>2 DEF Start
    <3>2. cmd'[r] = c
      BY <3>1 DEF TypeInv, TypeOK
    <3>3. \A q \in Runs \ {r} : Active(q) => cmd[q] = c
      <4>1. CASE Overlap
        BY <3>1, <4>1 DEF MayStart
      <4>2. CASE ~Overlap
        <5> SUFFICES ASSUME NEW q \in Runs \ {r} PROVE ~Active(q)
          OBVIOUS
        <5>1. CASE q < r
          BY <3>1, <4>2, <5>1 DEF MayStart, Active
        <5>2. CASE r < q
          BY <1>1, <4>2, <5>2 DEF WriterInv, InOrder, Active
        <5> QED
          BY <5>1, <5>2, CommandsAssumption
      <4> QED
        BY <4>1, <4>2
    <3>4. \A q \in Runs \ {r} : Active(q)' => Active(q) /\ cmd'[q] = cmd[q]
      BY <1>5 DEF Active
    <3> QED
      BY <3>2, <3>3, <3>4 DEF Aligned
  <2> QED
    BY <2>1, <2>2
<1>8. \A q \in Runs \ {r} : (At(q, 7)' => At(q, 7)) /\ (At(q, 8)' => At(q, 8))
  BY <1>5 DEF At, Active
<1>9. InOrder'
  BY <1>1, <1>2, <1>3, OrderStep
<1> QED
  BY <1>4, <1>5, <1>6, <1>7, <1>8, <1>9, QuietStep

\* The question before the first call.
LEMMA WriterAnswer ==
  ASSUME TypeInv, WriterInv, NEW r \in Runs, Answer(r)
  PROVE  WriterInv'
<1>1. /\ UNCHANGED <<cmd, step, writable, request, result>> /\ state[r] = "asking"
      /\ \E s \in {"calling", "cancelled"} : state' = [state EXCEPT ![r] = s]
  BY DEF Answer, siteVars, opVars
<1>2. InOrder'
  BY <1>1, OrderStep DEF WriterInv, Active
<1>3. \A q \in Runs : Active(q)' => Active(q) /\ cmd'[q] = cmd[q]
  BY <1>1 DEF Active, TypeInv, TypeOK
<1>4. \A q \in Runs : /\ At(q, 7)' /\ state'[q] = "waiting" => At(q, 7) /\ state[q] = "waiting"
                      /\ At(q, 8)' => At(q, 8)
  BY <1>1, <1>3 DEF At, TypeInv, TypeOK
<1> QED
  BY <1>1, <1>2, <1>3, <1>4, AlignedStep, QuietStep DEF WriterInv

\* The calls that ask for nothing, and the wait.
LEMMA WriterQuiet ==
  ASSUME TypeInv, WriterInv, NEW r \in Runs,
         \/ InstanceExists(r) \/ InstancePlanName(r) \/ PlanExists(r)
         \/ CreateHostInfoKey(r) \/ CreateCredentialsKey(r) \/ Wait(r)
  PROVE  WriterInv'
<1>1. /\ cmd' = cmd /\ UNCHANGED <<writable, request, result>>
      /\ Advance(r) \/ Fail(r)
  BY DEF InstanceExists, InstancePlanName, PlanExists, CreateHostInfoKey, CreateCredentialsKey,
    CreateKey, Wait, siteVars, opVars
<1>2. state[r] # "done" /\ Active(r)
  BY DEF InstanceExists, InstancePlanName, PlanExists, CreateHostInfoKey, CreateCredentialsKey,
    CreateKey, Wait, Calling, Active
<1>3. /\ \E s \in {"calling", "done", "failed"} : state' = [state EXCEPT ![r] = s]
      /\ \A q \in Runs \ {r} : step'[q] = step[q]
      /\ step'[r] \in {step[r], step[r] + 1}
  BY <1>1, AdvanceType
<1>4. InOrder'
  BY <1>2, <1>3, OrderStep DEF WriterInv
<1>5. ASSUME NEW q \in Runs, At(q, 7)', state'[q] = "waiting"
      PROVE  At(q, 7) /\ state[q] = "waiting"
  BY <1>1, <1>3, <1>5 DEF At, Active, TypeInv, TypeOK
<1>6. ASSUME NEW q \in Runs \ {r}, At(q, 8)'
      PROVE  At(q, 8)
  BY <1>1, <1>3, <1>6 DEF At, Active, TypeInv, TypeOK
<1>7. ASSUME At(r, 8)', step[r] # 8
      PROVE  /\ At(r, 7) /\ state[r] = "waiting"
             /\ request[cmd[r].primary] = None /\ result[cmd[r].primary] = "ok"
  <2>1. cmd[r].name = "switch" /\ step[r] = 7 /\ step'[r] # step[r] /\ state'[r] # "failed"
    BY <1>1, <1>3, <1>7 DEF At, Active, TypeInv, TypeOK
  <2>2. ~Fail(r)
    BY <2>1 DEF Fail
  <2>3. Calls(r)[step[r]].call = "demote"
    BY <2>1, CallsType
  <2>4. Wait(r)
    BY <2>3 DEF InstanceExists, InstancePlanName, PlanExists, CreateHostInfoKey,
      CreateCredentialsKey, CreateKey, Calling
  <2>5. state[r] = "waiting" /\ request[Here(r)] = None /\ result[Here(r)] = "ok"
    BY <2>2, <2>4 DEF Wait, Succeeded
  <2> QED
    BY <1>2, <2>1, <2>5, Places DEF At
<1>8. At(r, 8)' /\ step[r] = 8 => At(r, 8)
  BY <1>1, <1>2 DEF At
<1>9. Aligned'
  <2>1. \A q \in Runs : Active(q)' => Active(q)
    BY <1>2, <1>3 DEF Active, TypeInv, TypeOK
  <2> QED
    BY <1>1, <2>1, AlignedStep DEF WriterInv
<1> QED
  BY <1>1, <1>4, <1>5, <1>6, <1>7, <1>8, <1>9, QuietStep

\* A request: a demotion is the run's own, a promotion finds the other demoted.
LEMMA WriterUpdate ==
  ASSUME TypeInv, WriterInv, NEW r \in Runs, Update(r)
  PROVE  WriterInv'
<1>1. /\ cmd' = cmd /\ step' = step /\ UNCHANGED <<writable, result>>
      /\ state[r] = "calling"
      /\ \E s \in {"waiting", "failed"} : state' = [state EXCEPT ![r] = s]
  BY DEF Update, Fail, siteVars, Calling
<1>2. Active(r) /\ state[r] # "done"
  BY <1>1 DEF Active
<1>3. InOrder'
  BY <1>1, <1>2, OrderStep DEF WriterInv
<1>4. Aligned'
  <2>1. \A q \in Runs : Active(q)' => Active(q)
    BY <1>1, <1>2 DEF Active, TypeInv, TypeOK
  <2> QED
    BY <1>1, <2>1, AlignedStep DEF WriterInv
<1>5. CASE UNCHANGED request /\ Fail(r)
  <2>1. \A q \in Runs : /\ At(q, 7)' /\ state'[q] = "waiting" => At(q, 7) /\ state[q] = "waiting"
                        /\ At(q, 8)' => At(q, 8)
    BY <1>1, <1>5 DEF Fail, At, Active, TypeInv, TypeOK
  <2> QED
    BY <1>1, <1>3, <1>4, <1>5, <2>1, QuietStep
<1>6. CASE Acceptable(r) /\ request' = [request EXCEPT ![Here(r)] = Requested(r)]
  <2>1. PICK h \in Sites, p \in Sites : h = Here(r) /\ p = cmd[r].primary
    BY CallsType
  <2>2. /\ request[h] = None /\ request'[h] = Requested(r)
        /\ \A f \in Sites \ {h} : request'[f] = request[f]
    BY <1>6, <2>1 DEF Acceptable, TypeInv, TypeOK
  <2>3. Requested(r) # None /\ Requested(r).call = Calls(r)[step[r]].call
    BY <1>6, RequestedType, RequestsAssumption DEF Update, Requested
  <2>4. Promoting(h)' => At(r, 8)
    BY <1>2, <2>2, <2>3, CallsType DEF Promoting, At
  <2>5. At(r, 8) => h = Other(p) /\ Other(h) = p /\ p # h
    BY <2>1, Places, OtherSite DEF At
  <2>6. \A f \in Sites \ {h} : Promoting(f)' <=> Promoting(f)
    BY <2>2 DEF Promoting
  <2>7. At(r, 8) => ~writable[p] /\ ~Promoting(p) /\ ~Promoting(p)'
    BY <2>1, <2>5, <2>6 DEF WriterInv, Demoted
  <2>8. PromotedAlone'
    <3> SUFFICES ASSUME NEW f \in Sites, Promoting(f)'
                 PROVE  ~writable[Other(f)] /\ ~Promoting(Other(f))'
      BY <1>1 DEF PromotedAlone, Other
    <3>1. CASE f = h
      BY <2>4, <2>5, <2>7, <3>1
    <3>2. CASE f # h
      <4>1. ~writable[h] /\ Other(f) = h /\ Promoting(f) /\ f = Other(h)
        BY <2>6, <3>2, OtherSite DEF WriterInv, PromotedAlone
      <4>2. ~Promoting(h)'
        BY <2>4, <2>5, <2>7, <4>1
      <4> QED
        BY <4>1, <4>2
    <3> QED
      BY <3>1, <3>2
  <2>9. ASSUME NEW q \in Runs, At(q, 7)' \/ At(q, 8)', h = cmd[q].primary
        PROVE  Requested(r).call \in {"demote", "follow"}
    <3>1. Active(q) /\ cmd[q].name = "switch"
      BY <1>1, <1>2, <2>9 DEF At, Active, TypeInv, TypeOK
    <3>2. cmd[r] = cmd[q]
      BY <1>2, <3>1 DEF WriterInv, Aligned
    <3>3. \E call \in Updates : Calling(r, call)
      BY DEF Update
    <3> QED
      BY <2>1, <2>9, <3>1, <3>2, <3>3, Places
  <2>10. Demotes'
    <3> SUFFICES ASSUME NEW q \in Runs, At(q, 7)', state'[q] = "waiting",
                        NEW g \in Sites, g = cmd[q].primary
                 PROVE  IF request'[g] = None THEN result'[g] = "ok" => ~writable'[g]
                                              ELSE request'[g].call \in {"demote", "follow"}
      BY <1>1, CallsType DEF Demotes
    <3>1. CASE g = h
      BY <2>2, <2>3, <2>9, <3>1
    <3>2. CASE g # h
      <4>1. q # r
        BY <1>1, <2>1, <3>2, Places DEF At
      <4>2. At(q, 7) /\ state[q] = "waiting"
        BY <1>1, <4>1 DEF At, Active, TypeInv, TypeOK
      <4> QED
        BY <1>1, <2>2, <3>2, <4>2 DEF WriterInv, Demotes
    <3> QED
      BY <3>1, <3>2
  <2>11. Demoted'
    <3> SUFFICES ASSUME NEW q \in Runs, At(q, 8)', NEW g \in Sites, g = cmd[q].primary
                 PROVE  ~writable[g] /\ ~Promoting(g)'
      BY <1>1, CallsType DEF Demoted, Promoting
    <3>1. At(q, 8)
      BY <1>1, <1>2 DEF At, Active, TypeInv, TypeOK
    <3>2. ~writable[g] /\ ~Promoting(g)
      BY <3>1 DEF WriterInv, Demoted
    <3>3. CASE g = h
      BY <2>2, <2>9, <3>2, <3>3 DEF Promoting
    <3>4. CASE g # h
      BY <2>6, <3>2, <3>4
    <3> QED
      BY <3>2, <3>3, <3>4
  <2> QED
    BY <1>1, <1>3, <1>4, <2>8, <2>10, <2>11 DEF WriterInv, OneWriter
<1> QED
  BY <1>5, <1>6 DEF Update

\* The broker: only a promotion makes an instance writable, and a demotion that
\* ends well does not leave it so.
LEMMA WriterBroker ==
  ASSUME TypeInv, WriterInv, NEW f \in Sites, Broker(f)
  PROVE  WriterInv'
<1>1. /\ UNCHANGED <<cmd, state, step>> /\ request[f] # None
      /\ request' = [request EXCEPT ![f] = None]
      /\ result' \in {[result EXCEPT ![f] = "ok"], [result EXCEPT ![f] = "failed"]}
  BY DEF Broker, runVars
<1>2. \A g \in Sites : Promoting(g)' => Promoting(g) /\ g # f
  BY <1>1 DEF Promoting, TypeInv, TypeOK
<1>3. /\ \A g \in Sites \ {f} : writable'[g] = writable[g] /\ request'[g] = request[g]
                               /\ result'[g] = result[g]
      /\ writable'[f] => writable[f] \/ Promoting(f)
      /\ request[f].call \in {"demote", "follow"} /\ result'[f] = "ok" => ~writable'[f]
      /\ request'[f] = None
  BY <1>1 DEF Broker, ChangeRole, Promoting, TypeInv, TypeOK
<1>4. OneWriter'
  BY <1>3, OtherSite DEF WriterInv, OneWriter, PromotedAlone, Other, Sites
<1>5. PromotedAlone'
  <2> SUFFICES ASSUME NEW g \in Sites, Promoting(g)'
               PROVE  ~writable'[Other(g)] /\ ~Promoting(Other(g))'
    BY DEF PromotedAlone, Other
  <2>1. /\ Promoting(g) /\ g # f /\ Other(g) = f
        /\ ~writable[f] /\ ~Promoting(f)
    BY <1>2, OtherSite DEF WriterInv, PromotedAlone
  <2> QED
    BY <1>2, <1>3, <2>1
<1>6. Demotes'
  <2> SUFFICES ASSUME NEW r \in Runs, At(r, 7), state[r] = "waiting",
                      NEW p \in Sites, p = cmd[r].primary
               PROVE  IF request'[p] = None THEN result'[p] = "ok" => ~writable'[p]
                                            ELSE request'[p].call \in {"demote", "follow"}
    BY <1>1, CallsType DEF Demotes, At, Active
  <2>1. IF request[p] = None THEN result[p] = "ok" => ~writable[p]
                             ELSE request[p].call \in {"demote", "follow"}
    BY DEF WriterInv, Demotes
  <2>2. CASE p = f
    BY <1>1, <1>3, <2>1, <2>2
  <2>3. CASE p # f
    BY <1>3, <2>1, <2>3
  <2> QED
    BY <2>2, <2>3
<1>7. Demoted'
  <2> SUFFICES ASSUME NEW r \in Runs, At(r, 8), NEW p \in Sites, p = cmd[r].primary
               PROVE  ~writable'[p] /\ ~Promoting(p)'
    BY <1>1, CallsType DEF Demoted, At, Active
  <2>1. ~writable[p] /\ ~Promoting(p)
    BY DEF WriterInv, Demoted
  <2> QED
    BY <1>2, <1>3, <2>1
<1>8. InOrder' /\ Aligned'
  BY <1>1 DEF WriterInv, InOrder, Aligned, Active
<1> QED
  BY <1>4, <1>5, <1>6, <1>7, <1>8 DEF WriterInv

\* The pair at first: the leader accepts writes, nothing is in progress.
LEMMA WriterInit == Paired /\ Init => WriterInv
<1> SUFFICES ASSUME Paired, Init PROVE WriterInv
  OBVIOUS
<1>1. InOrder /\ Aligned
  BY DEF Init, InOrder, Aligned, Active
<1>2. OneWriter
  BY SitesAssumption DEF Init, OneWriter, Sites
<1>3. PromotedAlone
  BY DEF Init, PromotedAlone, Promoting
<1>4. Demotes /\ Demoted
  BY DEF Init, Demotes, Demoted, At, Active
<1> QED
  BY <1>1, <1>2, <1>3, <1>4 DEF WriterInv

\* Every step keeps WriterInv.
LEMMA WriterStep == TypeInv /\ WriterInv /\ [Next]_vars => WriterInv'
<1> SUFFICES ASSUME TypeInv, WriterInv, [Next]_vars PROVE WriterInv'
  OBVIOUS
<1>1. CASE UNCHANGED vars
  BY <1>1 DEF vars, runVars, siteVars, opVars, WriterInv, InOrder, Aligned, OneWriter,
    PromotedAlone, Promoting, Demotes, Demoted, At, Active
<1>2. CASE Next
  BY <1>2, WriterStart, WriterAnswer, WriterQuiet, WriterUpdate, WriterBroker DEF Next, Step
<1> QED
  BY <1>1, <1>2

\* Of a pair of which only the leader accepts writes, two never do, whatever the
\* commands of operators that take turns or give the same one at the same time,
\* and whichever calls, operations and processes fail.
THEOREM NeverTwoWriters ==
  ASSUME Paired
  PROVE  Spec => []OneWriter
<1>1. Init => TypeInv /\ WriterInv
  BY TypeInit, WriterInit
<1>2. (TypeInv /\ WriterInv) /\ [Next]_vars => (TypeInv /\ WriterInv)'
  BY TypeStep, WriterStep
<1>3. TypeInv /\ WriterInv => OneWriter
  BY DEF WriterInv
<1> QED
  BY <1>1, <1>2, <1>3, PTL DEF Spec
=============================================================================
