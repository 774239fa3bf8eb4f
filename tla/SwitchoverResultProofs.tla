----------------------- MODULE SwitchoverResultProofs ----------------------
(***************************************************************************)
(* What a success of setup-replication and of switchover means, for any    *)
(* number of operators that take turns, any commands and any failures.     *)
(* RunInv follows the one run that is alive call by call: its requests are *)
(* the only ones left at an instance from the moment it has changed it,    *)
(* and each effect of its calls lasts until it returns.                    *)
(***************************************************************************)
EXTENDS SwitchoverProofs

Primary(r)   == cmd[r].primary
Secondary(r) == Other(cmd[r].primary)

\* What a request has brought about when it ends well and nothing comes after it.
Effect(f, req) ==
    /\ req.call = "demote"   => ~writable[f] /\ plan[f] = req.plan
    /\ req.call = "promote"  => writable[f] /\ follows[f] = None /\ plan[f] = req.plan
    /\ req.call = "register" => knows[f] = req.key
    /\ req.call = "follow"   => follows[f] = req.key

\* A run waits for a request of its own, or that has ended and done what it was for.
Waits(r) ==
    state[r] = "waiting" =>
      /\ Calls(r)[step[r]].call \in Updates
      /\ \/ request[Here(r)] = Requested(r)
         \/ request[Here(r)] = None /\ (result[Here(r)] = "ok" => Effect(Here(r), Requested(r)))

\* The plans a switchover has read, and the key a run holds when it needs one.
Holds(r) ==
    IF cmd[r].name = "switch"
      THEN /\ step[r] > 2 => planOf[r]["primary"] \in Plans
           /\ step[r] > 5 => planOf[r]["secondary"] \in Plans
           /\ step[r] = 10 => key[r] = Primary(r)
           /\ step[r] = 12 => key[r] = Secondary(r)
      ELSE /\ step[r] = 4 => key[r] = Secondary(r)
           /\ step[r] = 6 => key[r] = Primary(r)

\* No request of another run, alive or dead, is left at f.
Clear(r, f) == request[f] = None \/ (state[r] = "waiting" /\ Here(r) = f)

\* What the calls that are behind a run have brought about still holds.
Achieved(r) ==
    IF cmd[r].name = "switch"
      THEN /\ step[r] > 7 => /\ ~writable[Primary(r)] /\ Clear(r, Primary(r))
                             /\ plan[Primary(r)] = planOf[r]["secondary"]
           /\ step[r] > 8 => /\ writable[Secondary(r)] /\ Clear(r, Secondary(r))
                             /\ follows[Secondary(r)] = None
                             /\ plan[Secondary(r)] = planOf[r]["primary"]
           /\ step[r] > 10 => knows[Secondary(r)] = Primary(r)
      ELSE step[r] > 4 => knows[Primary(r)] = Secondary(r) /\ Clear(r, Primary(r))

Progress(r) == Waits(r) /\ Holds(r) /\ Achieved(r)

RunInv == \A r \in Runs : Active(r) => Progress(r)

-----------------------------------------------------------------------------
(* The lists of calls *)

LEMMA SwitchList ==
  /\ SwitchCalls[1] = Call("exists", "primary")    /\ SwitchCalls[2] = Call("planName", "primary")
  /\ SwitchCalls[3] = Call("planExists", "secondary") /\ SwitchCalls[4] = Call("exists", "secondary")
  /\ SwitchCalls[5] = Call("planName", "secondary") /\ SwitchCalls[6] = Call("planExists", "primary")
  /\ SwitchCalls[7] = Call("demote", "primary")    /\ SwitchCalls[8] = Call("promote", "secondary")
  /\ SwitchCalls[9] = Call("hostKey", "primary")   /\ SwitchCalls[10] = Call("register", "secondary")
  /\ SwitchCalls[11] = Call("credKey", "secondary") /\ SwitchCalls[12] = Call("follow", "primary")
BY DEF SwitchCalls

LEMMA SetupList ==
  /\ SetupCalls[1] = Call("exists", "primary")     /\ SetupCalls[2] = Call("exists", "secondary")
  /\ SetupCalls[3] = Call("hostKey", "secondary")  /\ SetupCalls[4] = Call("register", "primary")
  /\ SetupCalls[5] = Call("credKey", "primary")    /\ SetupCalls[6] = Call("follow", "secondary")
BY DEF SetupCalls

\* What a run calls at each position, and where.
LEMMA SwitchAt ==
  ASSUME TypeInv, NEW r \in Runs, cmd[r].name = "switch"
  PROVE  LET c == Calls(r)[step[r]].call
         IN  /\ step[r] \in 1 .. 12 /\ Len(Calls(r)) = 12
             /\ c \in {"exists", "planName", "planExists", "demote", "promote",
                       "hostKey", "register", "credKey", "follow"}
             /\ c = "planName" <=> step[r] \in {2, 5}
             /\ c = "demote" <=> step[r] = 7
             /\ c = "promote" <=> step[r] = 8
             /\ c = "hostKey" <=> step[r] = 9
             /\ c = "register" <=> step[r] = 10
             /\ c = "credKey" <=> step[r] = 11
             /\ c = "follow" <=> step[r] = 12
             /\ Side(r) = IF step[r] \in {1, 2, 6, 7, 9, 12} THEN "primary" ELSE "secondary"
             /\ Here(r) = IF step[r] \in {1, 2, 6, 7, 9, 12} THEN Primary(r) ELSE Secondary(r)
             /\ OtherSide(r) = IF step[r] \in {1, 2, 6, 7, 9, 12} THEN "secondary" ELSE "primary"
<1>1. step[r] \in 1 .. 12 /\ Len(Calls(r)) = 12 /\ Calls(r) = SwitchCalls
  BY CallsType, Lengths DEF Calls
<1>2. Side(r) = IF step[r] \in {1, 2, 6, 7, 9, 12} THEN "primary" ELSE "secondary"
  BY <1>1, SwitchList DEF Side, Call
<1> QED
  BY <1>1, <1>2, SwitchList DEF Call, Here, Site, OtherSide, Primary, Secondary

LEMMA SetupAt ==
  ASSUME TypeInv, NEW r \in Runs, cmd[r].name # "switch"
  PROVE  LET c == Calls(r)[step[r]].call
         IN  /\ step[r] \in 1 .. 6 /\ Len(Calls(r)) = 6
             /\ c \in {"exists", "hostKey", "register", "credKey", "follow"}
             /\ c = "hostKey" <=> step[r] = 3
             /\ c = "register" <=> step[r] = 4
             /\ c = "credKey" <=> step[r] = 5
             /\ c = "follow" <=> step[r] = 6
             /\ Here(r) = IF step[r] \in {1, 4, 5} THEN Primary(r) ELSE Secondary(r)
<1>1. step[r] \in 1 .. 6 /\ Len(Calls(r)) = 6 /\ Calls(r) = SetupCalls
  BY CallsType DEF Calls
<1>2. Side(r) = IF step[r] \in {1, 4, 5} THEN "primary" ELSE "secondary"
  BY <1>1, SetupList DEF Side, Call
<1> QED
  BY <1>1, <1>2, SetupList DEF Call, Here, Site, Primary, Secondary

LEMMA Sides ==
  ASSUME TypeInv, NEW r \in Runs
  PROVE  /\ Primary(r) \in Sites /\ Secondary(r) \in Sites
         /\ Primary(r) # Secondary(r) /\ Here(r) \in {Primary(r), Secondary(r)}
BY CallsType, OtherSite DEF Primary, Secondary, Here, Site

-----------------------------------------------------------------------------
(* Turns *)

\* Operators keep taking turns.
LEMMA InOrderStep == TypeInv /\ InOrder /\ [Next]_vars => InOrder'
<1> SUFFICES ASSUME TypeInv, InOrder, [Next]_vars PROVE InOrder'
  OBVIOUS
<1>1. CASE UNCHANGED vars
  BY <1>1 DEF vars, runVars, InOrder
<1>2. ASSUME NEW r \in Runs, Start(r) \/ Kill(r) PROVE InOrder'
  <2>1. \E s : state' = [state EXCEPT ![r] = s]
    BY <1>2 DEF Start, Kill
  <2>2. state[r] # "done" /\ (Active(r) \/ (~Overlap => \A q \in Runs : q < r => state[q] = "done"))
    BY <1>2 DEF Start, MayStart, Kill, Active
  <2> QED
    BY <2>1, <2>2, OrderStep
<1>3. ASSUME NEW r \in Runs, Step(r) PROVE InOrder'
  <2>1. Active(r) /\ state[r] # "done"
    BY <1>3 DEF Step, Answer, InstanceExists, InstancePlanName, PlanExists, CreateHostInfoKey,
      CreateCredentialsKey, CreateKey, Update, Wait, Calling, Active
  <2>2. \E s : state' = [state EXCEPT ![r] = s]
    BY <1>3 DEF Step, Answer, InstanceExists, InstancePlanName, PlanExists, CreateHostInfoKey,
      CreateCredentialsKey, CreateKey, Update, Wait, Advance, Fail
  <2> QED
    BY <2>1, <2>2, OrderStep
<1>4. ASSUME NEW f \in Sites, Broker(f) PROVE InOrder'
  BY <1>4 DEF Broker, runVars, InOrder
<1> QED
  BY <1>1, <1>2, <1>3, <1>4 DEF Next

\* Then no two runs are alive.
LEMMA Alone ==
  ASSUME ~Overlap, InOrder
  PROVE  \A q, r \in Runs : Active(q) /\ Active(r) => q = r
BY CommandsAssumption DEF InOrder, Active

\* What keeps the progress of a run that is alive keeps RunInv, when only that
\* run moves.
LEMMA OnlyOne ==
  ASSUME TypeInv, ~Overlap, InOrder, NEW r \in Runs, Active(r), NEW s,
         state' = [state EXCEPT ![r] = s],
         Active(r)' => Progress(r)'
  PROVE  RunInv'
<1>1. \A q \in Runs \ {r} : ~Active(q)
  BY Alone
<1>2. \A q \in Runs \ {r} : ~Active(q)'
  BY <1>1 DEF Active, TypeInv, TypeOK
<1> QED
  BY <1>2 DEF RunInv
-----------------------------------------------------------------------------
(* The steps of the run *)

\* Advancing, for a run whose list of calls is known.
LEMMA Advanced ==
  ASSUME TypeInv, NEW r \in Runs, Advance(r), cmd' = cmd, Active(r)'
  PROVE  /\ state' = [state EXCEPT ![r] = "calling"] /\ state'[r] = "calling"
         /\ step'[r] = step[r] + 1 /\ step[r] # Len(Calls(r))
BY DEF Advance, Active, TypeInv, TypeOK

\* A call that asks for nothing.
LEMMA MovesOn ==
  ASSUME TypeInv, NEW r \in Runs, Progress(r), state[r] = "calling",
         Calls(r)[step[r]].call \notin Updates, cmd' = cmd, UNCHANGED <<siteVars, opVars>>,
         Advance(r),
         \A side \in {"primary", "secondary"} :
           IF Calls(r)[step[r]].call = "planName" /\ side = Side(r)
             THEN planOf'[r][side] \in Plans ELSE planOf'[r][side] = planOf[r][side],
         key'[r] = IF Calls(r)[step[r]].call \in {"hostKey", "credKey"} THEN Here(r) ELSE key[r],
         Active(r)'
  PROVE  Progress(r)'
<1>1. state'[r] = "calling" /\ step'[r] = step[r] + 1
  BY Advanced
<1>2. cmd'[r] = cmd[r] /\ Primary(r)' = Primary(r) /\ Secondary(r)' = Secondary(r)
  BY DEF Primary, Secondary, Other
<1>3. Waits(r)'
  BY <1>1 DEF Waits
<1>4. CASE cmd[r].name = "switch"
  <2>1. step[r] \in 1 .. 12 /\ step[r] \notin {7, 8, 10, 12}
    BY <1>4, SwitchAt DEF Updates
  <2>2. Holds(r)'
    <3>1. step'[r] > 2 => planOf'[r]["primary"] \in Plans
      BY <1>1, <1>4, <2>1, SwitchAt DEF Progress, Holds
    <3>2. step'[r] > 5 => planOf'[r]["secondary"] \in Plans
      BY <1>1, <1>4, <2>1, SwitchAt DEF Progress, Holds
    <3>3. /\ step'[r] = 10 => key'[r] = Primary(r)
          /\ step'[r] = 12 => key'[r] = Secondary(r)
      BY <1>1, <1>4, <2>1, SwitchAt
    <3> QED
      BY <1>2, <1>4, <3>1, <3>2, <3>3 DEF Holds
  <2>3. Achieved(r)'
    <3>1. /\ step'[r] > 7 => step[r] > 7
          /\ step'[r] > 8 => step[r] > 8
          /\ step'[r] > 10 => step[r] > 10
      BY <1>1, <2>1
    <3>2. step[r] > 7 => /\ planOf'[r]["primary"] = planOf[r]["primary"]
                         /\ planOf'[r]["secondary"] = planOf[r]["secondary"]
      BY <1>4, <2>1, SwitchAt
    <3>3. step[r] > 8 => step[r] > 7
      BY <2>1
    <3> QED
      BY <1>2, <1>4, <3>1, <3>2, <3>3 DEF Progress, Achieved, Clear, siteVars, opVars
  <2> QED
    BY <1>3, <2>2, <2>3 DEF Progress
<1>5. CASE cmd[r].name # "switch"
  <2>1. step[r] \in 1 .. 6 /\ step[r] \notin {4, 6}
    BY <1>5, SetupAt DEF Updates
  <2>2. Holds(r)'
    BY <1>1, <1>2, <1>5, <2>1, SetupAt DEF Holds
  <2>3. Achieved(r)'
    BY <1>1, <1>2, <1>5, <2>1 DEF Progress, Achieved, Clear, siteVars, opVars
  <2> QED
    BY <1>3, <2>2, <2>3 DEF Progress
<1> QED
  BY <1>4, <1>5

\* What a run asks for is a request.
LEMMA Asked ==
  ASSUME TypeInv, NEW r \in Runs, Calls(r)[step[r]].call \in Updates
  PROVE  Requested(r) \in Requests /\ Requested(r) # None
<1>1. planOf[r][OtherSide(r)] \in Plans \union {None} /\ key[r] \in Sites \union {None}
  BY CallsType DEF TypeInv, TypeOK
<1> QED
  BY <1>1, RequestsAssumption DEF Requested, Requests

\* The end of a wait.
LEMMA WaitEnds ==
  ASSUME TypeInv, NEW r \in Runs, Progress(r), Wait(r), Active(r)'
  PROVE  Progress(r)'
<1>1. /\ state[r] = "waiting" /\ request[Here(r)] = None /\ result[Here(r)] = "ok" /\ Advance(r)
      /\ UNCHANGED <<cmd, planOf, key, siteVars, opVars>>
  BY DEF Wait, Succeeded, Fail, Active, TypeInv, TypeOK
<1>2. state'[r] = "calling" /\ step'[r] = step[r] + 1
  BY <1>1, Advanced
<1>3. cmd'[r] = cmd[r] /\ Primary(r)' = Primary(r) /\ Secondary(r)' = Secondary(r)
  BY <1>1 DEF Primary, Secondary, Other
<1>4. Waits(r)'
  BY <1>2 DEF Waits
<1>5. Calls(r)[step[r]].call \in Updates /\ Effect(Here(r), Requested(r))
  <2>1. Requested(r) # None
    BY <1>1, Asked DEF Progress, Waits
  <2> QED
    BY <1>1, <2>1 DEF Progress, Waits
<1>6. CASE cmd[r].name = "switch"
  <2>1. step[r] \in {7, 8, 10, 12}
    BY <1>5, <1>6, SwitchAt DEF Updates
  <2>2. Holds(r)'
    BY <1>1, <1>2, <1>3, <1>6, <2>1 DEF Progress, Holds
  <2>3. CASE step[r] = 7
    <3>1. ~writable[Primary(r)] /\ plan[Primary(r)] = planOf[r]["secondary"] /\ Here(r) = Primary(r)
      BY <1>5, <1>6, <2>3, SwitchAt DEF Effect, Requested
    <3> QED
      BY <1>1, <1>2, <1>3, <1>4, <1>6, <2>2, <2>3, <3>1 DEF Progress, Achieved, Clear, siteVars, opVars
  <2>4. CASE step[r] = 8
    <3>1. /\ writable[Secondary(r)] /\ follows[Secondary(r)] = None
          /\ plan[Secondary(r)] = planOf[r]["primary"] /\ Here(r) = Secondary(r)
      BY <1>5, <1>6, <2>4, SwitchAt DEF Effect, Requested
    <3>2. request[Primary(r)] = None
      BY <1>6, <2>4, <3>1, Sides DEF Progress, Achieved, Clear
    <3> QED
      BY <1>1, <1>2, <1>3, <1>4, <1>6, <2>2, <2>4, <3>1, <3>2
      DEF Progress, Achieved, Clear, siteVars, opVars
  <2>5. CASE step[r] = 10
    <3>1. knows[Secondary(r)] = Primary(r) /\ Here(r) = Secondary(r)
      BY <1>5, <1>6, <2>5, SwitchAt DEF Effect, Requested, Progress, Holds
    <3>2. request[Primary(r)] = None
      BY <1>6, <2>5, <3>1, Sides DEF Progress, Achieved, Clear
    <3> QED
      BY <1>1, <1>2, <1>3, <1>4, <1>6, <2>2, <2>5, <3>1, <3>2
      DEF Progress, Achieved, Clear, siteVars, opVars
  <2>6. step[r] # 12
    BY <1>1, <1>6, Advanced, SwitchAt
  <2> QED
    BY <2>1, <2>3, <2>4, <2>5, <2>6
<1>7. CASE cmd[r].name # "switch"
  <2>1. step[r] = 4
    <3>1. step[r] # 6
      BY <1>1, <1>7, Advanced, SetupAt
    <3>2. step[r] \in {4, 6}
      BY <1>5, <1>7, SetupAt DEF Updates
    <3> QED
      BY <3>1, <3>2
  <2>2. knows[Primary(r)] = Secondary(r) /\ Here(r) = Primary(r)
    BY <1>5, <1>7, <2>1, SetupAt DEF Effect, Requested, Progress, Holds
  <2> QED
    BY <1>1, <1>2, <1>3, <1>4, <1>7, <2>1, <2>2 DEF Progress, Holds, Achieved, Clear, siteVars, opVars
<1> QED
  BY <1>6, <1>7

\* A request that has been accepted; nothing else is asked for.
LEMMA UpdateAsks ==
  ASSUME TypeInv, NEW r \in Runs, Progress(r), Update(r), Active(r)'
  PROVE  Progress(r)'
<1>1. /\ state[r] = "calling" /\ state'[r] = "waiting" /\ Calls(r)[step[r]].call \in Updates
      /\ request' = [request EXCEPT ![Here(r)] = Requested(r)]
      /\ UNCHANGED <<cmd, step, planOf, key, siteVars, result>>
  BY DEF Update, Fail, Calling, Active, TypeInv, TypeOK
<1>2. /\ Primary(r)' = Primary(r) /\ Secondary(r)' = Secondary(r) /\ Here(r)' = Here(r)
      /\ Calls(r)' = Calls(r) /\ Requested(r)' = Requested(r)
  BY <1>1 DEF Primary, Secondary, Other, Here, Side, Site, Calls, Requested, OtherSide
<1>3. /\ request'[Here(r)] = Requested(r)
      /\ \A f \in Sites \ {Here(r)} : request'[f] = request[f]
  BY <1>1, CallsType DEF TypeInv, TypeOK
<1>4. Waits(r)'
  BY <1>1, <1>2, <1>3 DEF Waits
<1>5. \A f \in Sites : Clear(r, f) => Clear(r, f)'
  BY <1>1, <1>2, <1>3 DEF Clear
<1>6. Holds(r)'
  BY <1>1, <1>2 DEF Progress, Holds
<1>7. Achieved(r)'
  BY <1>1, <1>2, <1>5, Sides DEF Progress, Achieved, siteVars
<1> QED
  BY <1>4, <1>6, <1>7 DEF Progress

\* What the broker does to the instance it works for, and to no other.
LEMMA BrokerEffect ==
  ASSUME TypeInv, NEW f \in Sites, Broker(f)
  PROVE  /\ request[f] # None /\ request'[f] = None
         /\ \A g \in Sites \ {f} :
              /\ request'[g] = request[g] /\ result'[g] = result[g]
              /\ (writable'[g] <=> writable[g]) /\ follows'[g] = follows[g]
              /\ knows'[g] = knows[g] /\ plan'[g] = plan[g]
         /\ \/ (writable'[f] <=> writable[f]) /\ follows'[f] = follows[f] /\ knows'[f] = knows[f]
            \/ /\ writable'[f] <=> (request[f].call = "promote"
                                  \/ (writable[f] /\ request[f].call = "register"))
               /\ follows'[f] = IF request[f].call = "promote" THEN None
                               ELSE IF request[f].call = "follow" THEN request[f].key ELSE follows[f]
               /\ knows'[f] = IF request[f].call = "register" THEN request[f].key ELSE knows[f]
         /\ plan'[f] = plan[f] \/ plan'[f] = request[f].plan
         /\ request[f].plan = None => plan'[f] = plan[f]
         /\ result'[f] = "ok" =>
              /\ writable'[f] <=> (request[f].call = "promote"
                                  \/ (writable[f] /\ request[f].call = "register"))
              /\ follows'[f] = IF request[f].call = "promote" THEN None
                              ELSE IF request[f].call = "follow" THEN request[f].key ELSE follows[f]
              /\ knows'[f] = IF request[f].call = "register" THEN request[f].key ELSE knows[f]
              /\ request[f].plan # None => plan'[f] = request[f].plan
<1>1. /\ request[f] # None /\ request' = [request EXCEPT ![f] = None]
      /\ result' \in {[result EXCEPT ![f] = "ok"], [result EXCEPT ![f] = "failed"]}
  BY DEF Broker
<1>2. CASE /\ ChangeRole(f, request[f])
           /\ plan' = [plan EXCEPT ![f] = IF request[f].plan = None THEN @ ELSE request[f].plan]
  BY <1>1, <1>2 DEF ChangeRole, TypeInv, TypeOK
<1>3. CASE /\ ChangeRole(f, request[f]) \/ UNCHANGED <<writable, follows, knows>>
           /\ result' = [result EXCEPT ![f] = "failed"] /\ UNCHANGED plan
  BY <1>1, <1>3 DEF ChangeRole, TypeInv, TypeOK
<1> QED
  BY <1>2, <1>3 DEF Broker

\* The broker carries out what the run has asked for and undoes nothing.
LEMMA BrokerKeeps ==
  ASSUME TypeInv, NEW r \in Runs, Progress(r), NEW f \in Sites, Broker(f)
  PROVE  Progress(r)'
<1>1. UNCHANGED <<cmd, state, step, planOf, key>>
  BY DEF Broker, runVars
<1>2. /\ Primary(r)' = Primary(r) /\ Secondary(r)' = Secondary(r) /\ Here(r)' = Here(r)
      /\ Calls(r)' = Calls(r) /\ Requested(r)' = Requested(r)
  BY <1>1 DEF Primary, Secondary, Other, Here, Side, Site, Calls, Requested, OtherSide
<1>3. Holds(r)'
  BY <1>1, <1>2 DEF Progress, Holds
<1>4. state[r] = "waiting" /\ Here(r) = f => request[f] = Requested(r)
  BY BrokerEffect DEF Progress, Waits
<1>5. \A g \in Sites : Clear(r, g) => Clear(r, g)'
  BY <1>1, <1>2, BrokerEffect DEF Clear
<1>6. ASSUME state[r] = "waiting", Here(r) = f, result'[f] = "ok"
      PROVE  Effect(f, Requested(r))'
  <2>1. Calls(r)[step[r]].call \in Updates
    BY <1>6 DEF Progress, Waits
  <2>2. Requested(r).call \in {"demote", "promote"} => Requested(r).plan # None
    <3>1. Calls(r)[step[r]].call \in {"demote", "promote"} => cmd[r].name = "switch"
      BY CallsType
    <3>2. cmd[r].name = "switch" /\ Calls(r)[step[r]].call \in {"demote", "promote"} =>
            planOf[r][OtherSide(r)] \in Plans
      BY SwitchAt DEF Progress, Holds
    <3> QED
      BY <3>1, <3>2, PlansAssumption DEF Requested
  <2> QED
    BY <1>2, <1>4, <1>6, <2>1, <2>2, BrokerEffect DEF Effect
<1>7. Waits(r)'
  <2>1. CASE Here(r) = f
    BY <1>1, <1>2, <1>6, <2>1, BrokerEffect DEF Progress, Waits
  <2>2. CASE Here(r) # f
    BY <1>1, <1>2, <2>2, BrokerEffect, CallsType DEF Progress, Waits, Effect
  <2> QED
    BY <2>1, <2>2
<1>8. PICK p \in Sites, s \in Sites : p = Primary(r) /\ s = Secondary(r)
  BY Sides
<1>9. Achieved(r)'
  <2>1. CASE cmd[r].name = "switch"
    <3>1. ASSUME step[r] > 7, f = p
          PROVE  ~writable[f] => ~writable'[f] /\ plan'[f] = plan[f]
      <4>1. Clear(r, f)
        BY <1>8, <2>1, <3>1 DEF Progress, Achieved
      <4>2. state[r] = "waiting" /\ Here(r) = f /\ request[f] = Requested(r)
        BY <1>4, <4>1, BrokerEffect DEF Clear
      <4>3. step[r] = 12
        BY <1>8, <2>1, <3>1, <4>2, SwitchAt, Sides DEF Progress, Waits, Updates
      <4>4. request[f].call = "follow" /\ request[f].plan = None
        BY <2>1, <4>2, <4>3, SwitchAt DEF Requested
      <4> QED
        BY <4>4, BrokerEffect
    <3>2. ASSUME step[r] > 8, f = s
          PROVE  step[r] = 10 /\ request[f].call = "register" /\ request[f].plan = None
      <4>1. Clear(r, f)
        BY <1>8, <2>1, <3>2 DEF Progress, Achieved
      <4>2. state[r] = "waiting" /\ Here(r) = f /\ request[f] = Requested(r)
        BY <1>4, <4>1, BrokerEffect DEF Clear
      <4>3. step[r] = 10
        BY <1>8, <2>1, <3>2, <4>2, SwitchAt, Sides DEF Progress, Waits, Updates
      <4> QED
        BY <2>1, <4>2, <4>3, SwitchAt DEF Requested
    <3>3. step[r] > 7 => /\ ~writable'[p] /\ Clear(r, p)'
                         /\ plan'[p] = planOf[r]["secondary"]
      <4>1. step[r] > 7 => /\ ~writable[p] /\ Clear(r, p)
                           /\ plan[p] = planOf[r]["secondary"]
        BY <1>8, <2>1 DEF Progress, Achieved
      <4>2. CASE f = p
        BY <1>5, <3>1, <4>1, <4>2
      <4>3. CASE f # p
        BY <1>5, <4>1, <4>3, BrokerEffect
      <4> QED
        BY <4>2, <4>3
    <3>4. step[r] > 8 => /\ writable'[s] /\ Clear(r, s)'
                         /\ follows'[s] = None
                         /\ plan'[s] = planOf[r]["primary"]
      <4>1. step[r] > 8 => /\ writable[s] /\ Clear(r, s)
                           /\ follows[s] = None
                           /\ plan[s] = planOf[r]["primary"]
        BY <1>8, <2>1 DEF Progress, Achieved
      <4>2. CASE f = s
        BY <1>5, <3>2, <4>1, <4>2, BrokerEffect
      <4>3. CASE f # s
        BY <1>5, <4>1, <4>3, BrokerEffect
      <4> QED
        BY <4>2, <4>3
    <3>5. step[r] > 10 => knows'[s] = p
      BY <1>8, <2>1, <3>2, BrokerEffect, Sides, SwitchAt DEF Progress, Achieved
    <3> QED
      BY <1>1, <1>2, <1>8, <2>1, <3>3, <3>4, <3>5 DEF Achieved
  <2>2. CASE cmd[r].name # "switch"
    <3>1. ASSUME step[r] > 4, f = p PROVE FALSE
      <4>1. Clear(r, f)
        BY <1>8, <2>2, <3>1 DEF Progress, Achieved
      <4>2. state[r] = "waiting" /\ Here(r) = f
        BY <4>1, BrokerEffect DEF Clear
      <4> QED
        BY <1>8, <2>2, <3>1, <4>2, SetupAt, Sides DEF Progress, Waits, Updates
    <3>2. step[r] > 4 => knows'[p] = s /\ Clear(r, p)'
      <4>1. step[r] > 4 => knows[p] = s /\ Clear(r, p)
        BY <1>8, <2>2 DEF Progress, Achieved
      <4> QED
        BY <1>5, <3>1, <4>1, BrokerEffect
    <3> QED
      BY <1>1, <1>2, <1>8, <2>2, <3>2 DEF Achieved
  <2> QED
    BY <2>1, <2>2
<1> QED
  BY <1>3, <1>7, <1>9 DEF Progress

-----------------------------------------------------------------------------
(* Success of a switchover *)

LEMMA RunInit == Init => RunInv
BY DEF Init, RunInv, Active

\* A question is asked before the first call.
Asks == \A r \in Runs : state[r] = "asking" => step[r] = 1

LEMMA AsksStep == TypeInv /\ Asks /\ [Next]_vars => Asks'
<1> SUFFICES ASSUME TypeInv, Asks, [Next]_vars PROVE Asks'
  OBVIOUS
<1> USE DEF Asks, TypeInv, TypeOK
<1>1. ASSUME NEW r \in Runs, Start(r) \/ Kill(r) PROVE Asks'
  BY <1>1 DEF Start, Kill
<1>2. ASSUME NEW r \in Runs, Step(r) PROVE Asks'
  <2>1. CASE Answer(r)
    BY <2>1 DEF Answer
  <2>2. CASE Update(r)
    BY <2>2 DEF Update, Fail
  <2>3. CASE Advance(r) \/ Fail(r)
    BY <2>3 DEF Advance, Fail
  <2> QED
    BY <1>2, <2>1, <2>2, <2>3 DEF Step, InstanceExists, InstancePlanName, PlanExists,
      CreateHostInfoKey, CreateCredentialsKey, CreateKey, Wait
<1>3. CASE UNCHANGED vars \/ \E f \in Sites : Broker(f)
  BY <1>3 DEF vars, Broker, runVars
<1> QED
  BY <1>1, <1>2, <1>3 DEF Next

\* Every step of operators that take turns keeps RunInv.
LEMMA RunStep ==
  ASSUME ~Overlap, TypeInv, TypeInv', InOrder, InOrder', Asks, RunInv, [Next]_vars
  PROVE  RunInv'
<1>1. CASE UNCHANGED vars
  <2> SUFFICES ASSUME NEW r \in Runs, Active(r)' PROVE Progress(r)'
    BY DEF RunInv
  <2> USE <1>1 DEF vars, runVars, siteVars, opVars
  <2>1. Progress(r)
    BY DEF RunInv, Active
  <2>2. /\ Primary(r)' = Primary(r) /\ Secondary(r)' = Secondary(r) /\ Here(r)' = Here(r)
        /\ Calls(r)' = Calls(r) /\ Requested(r)' = Requested(r)
    BY DEF Primary, Secondary, Other, Here, Side, Site, Calls, Requested, OtherSide
  <2>3. Waits(r)'
    BY <2>1, <2>2 DEF Progress, Waits, Effect
  <2>4. Holds(r)'
    BY <2>1, <2>2 DEF Progress, Holds
  <2>5. Achieved(r)'
    BY <2>1, <2>2 DEF Progress, Achieved, Clear
  <2> QED
    BY <2>3, <2>4, <2>5 DEF Progress
<1>2. ASSUME NEW r \in Runs, Start(r) PROVE RunInv'
  <2>1. step'[r] = 1 /\ state'[r] \in {"asking", "calling"}
    BY <1>2 DEF Start, TypeInv, TypeOK
  <2>2. Active(r)' /\ Progress(r)'
    BY <2>1 DEF Active, Progress, Waits, Holds, Achieved
  <2>3. \A q \in Runs : Active(q)' => q = r
    <3>1. \A p, q \in Runs : Active(p)' /\ Active(q)' => p = q
      BY CommandsAssumption DEF InOrder, Active
    <3> QED
      BY <2>2, <3>1
  <2> QED
    BY <2>2, <2>3 DEF RunInv
<1>3. ASSUME NEW r \in Runs, Kill(r) PROVE RunInv'
  <2>1. state' = [state EXCEPT ![r] = "killed"] /\ Active(r)
    BY <1>3 DEF Kill
  <2>2. ~Active(r)'
    BY <2>1 DEF Active, TypeInv, TypeOK
  <2> QED
    BY <2>1, <2>2, OnlyOne
<1>4. ASSUME NEW r \in Runs, Step(r) PROVE RunInv'
  <2>1. /\ Active(r)
        /\ \E s : state' = [state EXCEPT ![r] = s]
        /\ UNCHANGED cmd
    BY <1>4 DEF Step, Answer, InstanceExists, InstancePlanName, PlanExists, CreateHostInfoKey,
      CreateCredentialsKey, CreateKey, Update, Wait, Calling, Active, Advance, Fail
  <2>2. Progress(r)
    BY <2>1 DEF RunInv
  <2> SUFFICES ASSUME Active(r)' PROVE Progress(r)'
    BY <2>1, OnlyOne
  <2>3. ~Fail(r)
    BY DEF Fail, Active, TypeInv, TypeOK
  <2>4. CASE Answer(r)
    <3>1. step'[r] = 1 /\ state'[r] # "waiting"
      BY <2>4 DEF Answer, Asks, TypeInv, TypeOK
    <3> QED
      BY <3>1 DEF Progress, Waits, Holds, Achieved
  <2>5. CASE InstanceExists(r) \/ PlanExists(r)
    <3>1. /\ state[r] = "calling" /\ Calls(r)[step[r]].call \in {"exists", "planExists"}
          /\ Advance(r) /\ UNCHANGED <<planOf, key, siteVars, opVars>>
      BY <2>3, <2>5 DEF InstanceExists, PlanExists, Calling
    <3> QED
      BY <2>1, <2>2, <3>1, MovesOn DEF Updates
  <2>6. CASE InstancePlanName(r)
    <3>1. /\ state[r] = "calling" /\ Calls(r)[step[r]].call = "planName"
          /\ Advance(r) /\ UNCHANGED <<key, siteVars, opVars>>
          /\ planOf' = [planOf EXCEPT ![r][Side(r)] = plan[Here(r)]]
      BY <2>3, <2>6 DEF InstancePlanName, Calling
    <3>2. plan[Here(r)] \in Plans
      BY CallsType DEF TypeInv, TypeOK
    <3>3. \A side \in {"primary", "secondary"} :
            IF side = Side(r) THEN planOf'[r][side] \in Plans ELSE planOf'[r][side] = planOf[r][side]
      BY <3>1, <3>2 DEF TypeInv, TypeOK
    <3> QED
      BY <2>1, <2>2, <3>1, <3>3, MovesOn DEF Updates
  <2>7. CASE CreateHostInfoKey(r) \/ CreateCredentialsKey(r)
    <3>1. /\ state[r] = "calling" /\ Calls(r)[step[r]].call \in {"hostKey", "credKey"}
          /\ Advance(r) /\ UNCHANGED <<planOf, siteVars, opVars>>
          /\ key' = [key EXCEPT ![r] = Here(r)]
      BY <2>3, <2>7 DEF CreateHostInfoKey, CreateCredentialsKey, CreateKey, Calling
    <3>2. key'[r] = Here(r)
      BY <3>1 DEF TypeInv, TypeOK
    <3> QED
      BY <2>1, <2>2, <3>1, <3>2, MovesOn DEF Updates
  <2>8. CASE Update(r)
    BY <2>2, <2>8, UpdateAsks
  <2>9. CASE Wait(r)
    BY <2>2, <2>9, WaitEnds
  <2> QED
    BY <1>4, <2>4, <2>5, <2>6, <2>7, <2>8, <2>9 DEF Step
<1>5. ASSUME NEW f \in Sites, Broker(f) PROVE RunInv'
  <2>1. \A r \in Runs : Active(r)' => Active(r)
    BY <1>5 DEF Broker, runVars, Active
  <2> QED
    BY <1>5, <2>1, BrokerKeeps DEF RunInv
<1> QED
  BY <1>1, <1>2, <1>3, <1>4, <1>5 DEF Next

\* What is known of operators that take turns.
TurnInv == TypeInv /\ InOrder /\ Asks /\ RunInv

LEMMA TurnInvariant ==
  ASSUME ~Overlap
  PROVE  Spec => []TurnInv
<1>1. Init => TurnInv
  BY TypeInit, RunInit DEF TurnInv, Init, InOrder, Asks
<1>2. TurnInv /\ [Next]_vars => TurnInv'
  BY TypeStep, InOrderStep, AsksStep, RunStep DEF TurnInv
<1> QED
  BY <1>1, <1>2, PTL DEF Spec

\* A run returns from the wait for its last call, which has ended well.
LEMMA Returning ==
  ASSUME TurnInv, [Next]_vars, NEW r \in Runs, Returns(r)
  PROVE  /\ Active(r) /\ Progress(r) /\ step[r] = Len(Calls(r))
         /\ state[r] = "waiting" /\ request[Here(r)] = None
         /\ Effect(Here(r), Requested(r))
         /\ UNCHANGED <<cmd, siteVars, opVars>>
<1> USE DEF TurnInv
<1>1. PICK q \in Runs : Start(q) \/ Kill(q) \/ Step(q)
  BY DEF Next, Returns, vars, Broker, runVars
<1>2. q = r /\ Step(r)
  <2>1. \E s : state' = [state EXCEPT ![q] = s]
    BY <1>1 DEF Start, Kill, Step, Answer, InstanceExists, InstancePlanName, PlanExists,
      CreateHostInfoKey, CreateCredentialsKey, CreateKey, Update, Wait, Advance, Fail
  <2>2. q = r
    BY <2>1 DEF Returns, TypeInv, TypeOK
  <2>3. ~Start(r) /\ ~Kill(r)
    BY DEF Returns, Start, Kill, TypeInv, TypeOK
  <2> QED
    BY <1>1, <2>2, <2>3
<1>3. ~Fail(r) /\ ~Answer(r) /\ ~Update(r)
  BY DEF Returns, Fail, Answer, Update, TypeInv, TypeOK
<1>4. Advance(r) /\ step[r] = Len(Calls(r))
  <2>1. Advance(r)
    BY <1>2, <1>3 DEF Step, InstanceExists, InstancePlanName, PlanExists,
      CreateHostInfoKey, CreateCredentialsKey, CreateKey, Wait
  <2> QED
    BY <2>1 DEF Advance, Returns, TypeInv, TypeOK
<1>5. Calls(r)[step[r]].call = "follow"
  <2>1. CASE cmd[r].name = "switch"
    BY <1>4, <2>1, SwitchAt
  <2>2. CASE cmd[r].name # "switch"
    BY <1>4, <2>2, SetupAt
  <2> QED
    BY <2>1, <2>2
<1>6. Wait(r)
  BY <1>2, <1>3, <1>5 DEF Step, InstanceExists, InstancePlanName, PlanExists,
    CreateHostInfoKey, CreateCredentialsKey, CreateKey, Calling
<1>7. Active(r) /\ Progress(r)
  BY <1>6 DEF Wait, Active, RunInv
<1>8. /\ state[r] = "waiting" /\ request[Here(r)] = None /\ result[Here(r)] = "ok"
      /\ UNCHANGED <<cmd, siteVars, opVars>>
  <2>1. state[r] = "waiting" /\ UNCHANGED <<cmd, planOf, key, siteVars, opVars>>
    BY <1>6 DEF Wait
  <2>2. request[Here(r)] = None /\ (IF Succeeded(Here(r)) THEN Advance(r) ELSE Fail(r))
    BY <1>3, <1>6 DEF Wait
  <2>3. result[Here(r)] = "ok"
    BY <1>3, <2>2 DEF Succeeded
  <2> QED
    BY <2>1, <2>2, <2>3
<1>9. Requested(r) # None
  BY <1>5, Asked DEF Updates
<1>10. Effect(Here(r), Requested(r))
  BY <1>7, <1>8, <1>9 DEF Progress, Waits
<1> QED
  BY <1>4, <1>7, <1>8, <1>10

-----------------------------------------------------------------------------
(* What operators that take turns are told is so *)

\* "Successfully switched replication roles": a switchover that returns without an
\* error has switched roles, followers and plans, whatever the commands and
\* failures before it, for any number of operators that take turns.
THEOREM SwitchSucceeds ==
  ASSUME ~Overlap
  PROVE  Spec => SwitchedOver
<1>1. ASSUME TurnInv, [Next]_vars, NEW r \in Runs, Returns(r), cmd[r].name = "switch"
      PROVE  LET p == cmd[r].primary
                 s == Other(p)
             IN  /\ writable[s] /\ ~writable[p]
                 /\ follows[s] = None /\ follows[p] = s /\ knows[s] = p
                 /\ plan[p] = planOf[r]["secondary"] /\ plan[s] = planOf[r]["primary"]
  <2>1. step[r] = 12 /\ Here(r) = Primary(r) /\ Calls(r)[step[r]].call = "follow"
    <3>1. TypeInv /\ step[r] = Len(Calls(r))
      BY <1>1, Returning DEF TurnInv
    <3> QED
      BY <1>1, <3>1, SwitchAt
  <2>2. Effect(Here(r), Requested(r)) /\ Holds(r) /\ Achieved(r)
    BY <1>1, Returning DEF Progress
  <2>3. follows[Primary(r)] = Secondary(r)
    BY <1>1, <2>1, <2>2 DEF Effect, Requested, Holds
  <2> QED
    BY <1>1, <2>1, <2>2, <2>3 DEF Achieved, Primary, Secondary
<1>2. TurnInv /\ [Next]_vars =>
        [\A r \in Runs : Returns(r) /\ cmd[r].name = "switch" =>
           LET p == cmd[r].primary
               s == Other(p)
           IN  /\ writable[s] /\ ~writable[p]
               /\ follows[s] = None /\ follows[p] = s /\ knows[s] = p
               /\ plan[p] = planOf[r]["secondary"] /\ plan[s] = planOf[r]["primary"]]_vars
  BY <1>1
<1> QED
  BY <1>2, TurnInvariant, PTL DEF Spec, SwitchedOver

\* The pair is set up before it is used, and for one leader: every setup-replication
\* makes P the primary, which is the leader if there is one, and no operator sets up
\* after another one has switched over.
SetupFirst(P) ==
    /\ Paired => P = A
    /\ \A r \in Runs : \A c \in Commands[r] : c.name = "setup" => c.primary = P
    /\ \A q, r \in Runs : \A c \in Commands[q], d \in Commands[r] :
         c.name = "setup" /\ d.name = "switch" => q < r

Given == \A r \in Runs : state[r] # "idle" => cmd[r] \in Commands[r]

Unswitched == \A r \in Runs : state[r] # "idle" => cmd[r].name = "setup"

\* Until the first switchover P accepts writes, and nothing is on its way to P that
\* would end this.
SetupInv(P) ==
    /\ Given
    /\ Unswitched => writable[P] /\ (request[P] = None \/ request[P].call = "register")

\* What does not start a command leaves the commands alone.
LEMMA GivenStep ==
  ASSUME TypeInv, Given, [Next]_vars, \A r \in Runs : ~Start(r)
  PROVE  /\ UNCHANGED cmd /\ Given' /\ (Unswitched' => Unswitched)
         /\ \A r \in Runs : state'[r] = "idle" <=> state[r] = "idle"
<1>1. UNCHANGED cmd
  BY DEF vars, runVars, Next, Kill, Step, Answer, InstanceExists, InstancePlanName, PlanExists,
    CreateHostInfoKey, CreateCredentialsKey, CreateKey, Update, Wait, Broker
<1>2. ASSUME NEW q \in Runs, Kill(q) \/ Step(q)
      PROVE  \A r \in Runs : state'[r] = "idle" <=> state[r] = "idle"
  <2>1. state[q] # "idle"
    BY <1>2 DEF Kill, Step, Answer, InstanceExists, InstancePlanName, PlanExists,
      CreateHostInfoKey, CreateCredentialsKey, CreateKey, Update, Wait, Calling, Active
  <2>2. \E s \in States \ {"idle"} : state' = [state EXCEPT ![q] = s]
    BY <1>2 DEF Kill, Step, Answer, InstanceExists, InstancePlanName, PlanExists,
      CreateHostInfoKey, CreateCredentialsKey, CreateKey, Update, Wait, Advance, Fail, States
  <2> QED
    BY <2>1, <2>2 DEF TypeInv, TypeOK
<1>3. \A r \in Runs : state'[r] = "idle" <=> state[r] = "idle"
  BY <1>2 DEF vars, runVars, Next, Broker
<1> QED
  BY <1>1, <1>3 DEF Given, Unswitched

\* Every step keeps SetupInv.
LEMMA SetupStep ==
  ASSUME NEW P \in Sites, SetupFirst(P), TypeInv, SetupInv(P), [Next]_vars
  PROVE  SetupInv(P)'
<1>1. ASSUME NEW r \in Runs, Start(r) PROVE SetupInv(P)'
  <2>1. PICK c \in Commands[r] : cmd' = [cmd EXCEPT ![r] = c]
    BY <1>1 DEF Start
  <2>2. /\ UNCHANGED <<writable, request>>
        /\ \A q \in Runs \ {r} : state'[q] = state[q] /\ cmd'[q] = cmd[q]
        /\ state'[r] # "idle" /\ cmd'[r] = c
    BY <1>1, <2>1 DEF Start, siteVars, opVars, TypeInv, TypeOK
  <2>3. Given'
    BY <2>2 DEF SetupInv, Given
  <2>4. Unswitched' => Unswitched
    <3>1. ASSUME Unswitched', state[r] # "idle" PROVE cmd[r].name = "setup"
      <4>1. c.name = "setup" /\ cmd[r] \in Commands[r] /\ r \in Nat
        BY <2>2, <3>1, CommandsAssumption DEF Unswitched, SetupInv, Given
      <4>2. cmd[r].name # "switch"
        BY <4>1 DEF SetupFirst
      <4> QED
        BY <4>2, CallsType
    <3> QED
      BY <2>2, <3>1 DEF Unswitched
  <2> QED
    BY <2>2, <2>3, <2>4 DEF SetupInv
<1>2. CASE \A r \in Runs : ~Start(r)
  <2>1. Given' /\ (Unswitched' => Unswitched)
    BY <1>2, GivenStep DEF SetupInv
  <2> SUFFICES ASSUME Unswitched
               PROVE  writable'[P] /\ (request'[P] = None \/ request'[P].call = "register")
    BY <2>1 DEF SetupInv
  <2>2. writable[P] /\ (request[P] = None \/ request[P].call = "register")
    BY DEF SetupInv
  <2>3. CASE UNCHANGED <<writable, request>>
    BY <2>2, <2>3
  <2>4. ASSUME NEW f \in Sites, Broker(f)
        PROVE  writable'[P] /\ (request'[P] = None \/ request'[P].call = "register")
    BY <2>2, <2>4, BrokerEffect
  <2>5. ASSUME NEW r \in Runs, Update(r), ~UNCHANGED request
        PROVE  writable'[P] /\ (request'[P] = None \/ request'[P].call = "register")
    <3>1. /\ UNCHANGED writable
          /\ \E call \in Updates : Calling(r, call)
          /\ request' = [request EXCEPT ![Here(r)] = Requested(r)]
      BY <2>5 DEF Update, siteVars
    <3>2. cmd[r].name = "setup" /\ cmd[r].primary = P
      BY <3>1 DEF Calling, Unswitched, SetupInv, Given, SetupFirst
    <3>3. Here(r) = P => Calls(r)[step[r]].call = "register"
      BY <3>1, <3>2, SetupAt, Sides DEF Primary, Calling, Updates
    <3>4. Here(r) = P => Requested(r).call = "register"
      BY <3>3 DEF Requested
    <3> QED
      BY <2>2, <3>1, <3>4 DEF TypeInv, TypeOK
  <2>6. \/ UNCHANGED <<writable, request>>
        \/ \E f \in Sites : Broker(f)
        \/ \E r \in Runs : Update(r) /\ ~UNCHANGED request
    BY <1>2 DEF vars, siteVars, opVars, Next, Kill, Step, Answer, InstanceExists, InstancePlanName,
      PlanExists, CreateHostInfoKey, CreateCredentialsKey, CreateKey, Update, Wait
  <2> QED
    BY <2>3, <2>4, <2>5, <2>6
<1> QED
  BY <1>1, <1>2

\* Nobody has switched over while an operator sets up.
LEMMA SettingUp ==
  ASSUME NEW P \in Sites, SetupFirst(P), ~Overlap, TurnInv, SetupInv(P),
         NEW r \in Runs, Active(r), cmd[r].name = "setup"
  PROVE  cmd[r].primary = P /\ Unswitched
<1>1. cmd[r] \in Commands[r]
  BY DEF SetupInv, Given, Active
<1>2. ASSUME NEW q \in Runs, state[q] # "idle", cmd[q].name # "setup" PROVE FALSE
  <2>1. cmd[q] \in Commands[q] /\ cmd[q].name = "switch"
    BY <1>2, CallsType DEF SetupInv, Given, TurnInv
  <2>2. r < q
    BY <1>1, <2>1 DEF SetupFirst
  <2>3. state[r] = "done"
    BY <1>2, <2>2 DEF TurnInv, InOrder
  <2> QED
    BY <2>3 DEF Active
<1> QED
  BY <1>1, <1>2 DEF Unswitched, SetupFirst

\* "Successfully configured replication": a setup-replication that returns without an
\* error has made the secondary follow the primary and be registered with it, and
\* none ever stops the primary from accepting writes, for any number of operators
\* that take turns and set the pair up before they switch over.
THEOREM SetupSucceeds ==
  ASSUME ~Overlap, NEW P \in Sites, SetupFirst(P)
  PROVE  Spec => SetUp
<1>1. Init => SetupInv(P)
  BY SitesAssumption DEF Init, SetupInv, Given, Unswitched, SetupFirst
<1>2. TypeInv /\ SetupInv(P) /\ [Next]_vars => SetupInv(P)'
  BY SetupStep
<1>3. ASSUME TurnInv, SetupInv(P), [Next]_vars, NEW r \in Runs, Returns(r), cmd[r].name = "setup"
      PROVE  LET p == cmd[r].primary
             IN  writable[p] /\ follows[Other(p)] = p /\ knows[p] = Other(p)
  <2>1. step[r] = 6 /\ Here(r) = Secondary(r) /\ Calls(r)[step[r]].call = "follow"
    BY <1>3, Returning, SetupAt, Sides DEF TurnInv
  <2>2. Active(r) /\ Effect(Here(r), Requested(r)) /\ Holds(r) /\ Achieved(r)
    BY <1>3, Returning DEF Progress
  <2>3. follows[Secondary(r)] = Primary(r)
    BY <1>3, <2>1, <2>2 DEF Effect, Requested, Holds
  <2>4. writable[cmd[r].primary]
    BY <1>3, <2>2, SettingUp DEF SetupInv
  <2> QED
    BY <1>3, <2>1, <2>2, <2>3, <2>4 DEF Achieved, Primary, Secondary
<1>4. ASSUME TurnInv, SetupInv(P), [Next]_vars,
             NEW r \in Runs, cmd[r].name = "setup", Active(r), writable[cmd[r].primary]
      PROVE  writable'[cmd[r].primary]
  <2>1. cmd[r].primary = P /\ writable[P] /\ (request[P] = None \/ request[P].call = "register")
    BY <1>4, SettingUp DEF SetupInv
  <2>2. CASE UNCHANGED writable
    BY <2>1, <2>2
  <2>3. ASSUME NEW f \in Sites, Broker(f) PROVE writable'[P]
    BY <1>4, <2>1, <2>3, BrokerEffect DEF TurnInv
  <2>4. UNCHANGED writable \/ \E f \in Sites : Broker(f)
    BY <1>4 DEF vars, siteVars, Next, Start, Kill, Step, Answer, InstanceExists, InstancePlanName,
      PlanExists, CreateHostInfoKey, CreateCredentialsKey, CreateKey, Update, Wait
  <2> QED
    BY <2>1, <2>2, <2>3, <2>4
<1>5. TurnInv /\ SetupInv(P) /\ [Next]_vars =>
        [/\ \A r \in Runs : Returns(r) /\ cmd[r].name = "setup" =>
              LET p == cmd[r].primary
              IN  writable[p] /\ follows[Other(p)] = p /\ knows[p] = Other(p)
         /\ \A r \in Runs : cmd[r].name = "setup" /\ Active(r) /\ writable[cmd[r].primary] =>
              writable'[cmd[r].primary]]_vars
  BY <1>3, <1>4
<1>6. TurnInv => TypeInv
  BY DEF TurnInv
<1> QED
  BY <1>1, <1>2, <1>5, <1>6, TurnInvariant, PTL DEF Spec, SetUp
=============================================================================
