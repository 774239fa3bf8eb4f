-------------------------- MODULE LeadershipProofs -------------------------
(***************************************************************************)
(* The replication workflows implement Leadership: whichever calls,        *)
(* operations and processes fail, and however often a command is given     *)
(* again, leadership of a pair only ever goes to the follower.             *)
(*                                                                         *)
(* Until the first switchover Founded says how far the pair is set up;     *)
(* from then on Toward says where it stands between p, which hands         *)
(* leadership over, and s, which takes it.  The stages are behind the pair *)
(* for good: what is still on its way to an instance belongs to the same   *)
(* command, and no run is further than the pair.                           *)
(***************************************************************************)
EXTENDS SwitchoverResultProofs

\* Each operator has one command and gives it until it succeeds; operators that do
\* not take turns all have the same one.  The pair is set up for P before it is used.
Repeated(P) ==
    /\ SetupFirst(P)
    /\ \A r \in Runs : \A c, d \in Commands[r] : c = d
    /\ Overlap => \A q, r \in Runs : Commands[q] = Commands[r]
    /\ ~Paired => \A r \in Runs : \A c \in Commands[r] : c.name = "switch" =>
                    \E q \in Runs : q < r /\ \E d \in Commands[q] : d.name = "setup"

\* The leader is p, or nobody, or s, which p may follow again.
Shape(p, s) ==
    /\ ~(writable[p] /\ writable[s])
    /\ IF writable[s] THEN follows[s] = None /\ follows[p] \in {None, s}
                      ELSE follows[s] = p /\ follows[p] = None

\* What is on its way to p or s belongs to handing over from p to s.
Fits(p, s) ==
    /\ request[p] # None =>
         \/ request[p].call = "demote"
         \/ request[p].call = "follow" /\ request[p].key = s /\ writable[s]
    /\ request[s] # None =>
         \/ request[s].call = "promote" /\ ~writable[p]
         \/ request[s].call = "register"

\* The pair is as far as a run takes it to be.
Reached(r, p, s) ==
    /\ step[r] > 7 => ~writable[p]
    /\ step[r] > 8 => writable[s]
    /\ step[r] = 12 => key[r] = s
    /\ state[r] = "waiting" => step[r] \in {7, 8, 10, 12}
    /\ state[r] = "waiting" /\ step[r] = 7 /\ request[p] = None /\ result[p] = "ok" => ~writable[p]
    /\ state[r] = "waiting" /\ step[r] = 8 =>
         IF request[s] = None THEN result[s] = "ok" => writable[s]
                              ELSE request[s].call = "register" => writable[s]

\* The handover has not begun or is complete.
Settled(p, s) == (writable[p] \/ follows[p] = s) /\ request[p] = None /\ request[s] = None

Resting == \A r \in Runs : state[r] \in {"idle", "done"}

Toward(p, s) ==
    /\ Shape(p, s) /\ Fits(p, s)
    /\ \A r \in Runs : state[r] \notin {"idle", "done"} =>
         cmd[r].name = "switch" /\ cmd[r].primary = p
    /\ \A r \in Runs : Active(r) => Reached(r, p, s)
    /\ ~Overlap /\ Resting => Settled(p, s)
    /\ Overlap => \A r \in Runs : \A c \in Commands[r] : c.primary = p

Fresh == \A r \in Runs : state[r] = "idle"

\* Nobody has switched over: p leads, and s leads itself or follows p.
Founded(p, s) ==
    /\ writable[p] /\ follows[p] = None
    /\ follows[s] = IF writable[s] THEN None ELSE p
    /\ request[p] # None => request[p].call = "register"
    /\ request[s] # None => request[s].call = "follow" /\ request[s].key = p
    /\ \A r \in Runs : /\ state[r] = "waiting" => step[r] \in {4, 6}
                       /\ step[r] = 6 => key[r] = p
    /\ Fresh \/ (~Overlap /\ Resting) => request[p] = None /\ request[s] = None
    /\ Paired \/ (~Overlap /\ \E r \in Runs : state[r] = "done") => ~writable[s]

LeadInv(P) ==
    /\ Given
    /\ IF Unswitched THEN Founded(P, Other(P)) ELSE \E p \in Sites : Toward(p, Other(p))

-----------------------------------------------------------------------------
(* What Leadership sees *)

\* The leaders and the followers, told from either side of the pair: w says which
\* instances accept writes, and g which one each follows.
LEMMA EitherSide ==
  ASSUME NEW p \in Sites, NEW s, s = Other(p), NEW w, NEW g
  PROVE  /\ {f \in Sites : w[f]} = {f \in {p, s} : w[f]}
         /\ {f \in Sites : g[f] = Other(f)} = {f \in {p, s} : (f = p /\ g[p] = s) \/ (f = s /\ g[s] = p)}
<1>1. Sites = {p, s} /\ p # s /\ Other(s) = p
  BY OtherSite DEF Sites
<1> QED
  BY <1>1

\* The same of the pair, before a step and after it.
LEMMA SeenFrom ==
  ASSUME NEW p \in Sites, NEW s, s = Other(p), Shape(p, s), Shape(p, s)'
  PROVE  /\ Leaders = IF writable[p] THEN {p} ELSE IF writable[s] THEN {s} ELSE {}
         /\ Followers = IF ~writable[s] THEN {s} ELSE IF follows[p] = s THEN {p} ELSE {}
         /\ Leaders' = IF writable'[p] THEN {p} ELSE IF writable'[s] THEN {s} ELSE {}
         /\ Followers' = IF ~writable'[s] THEN {s} ELSE IF follows'[p] = s THEN {p} ELSE {}
<1>1. /\ Leaders' = {f \in Sites : writable'[f]}
      /\ Followers' = {f \in Sites : follows'[f] = Other(f)}
  BY DEF Leaders, Followers, Other
<1>2. p # s /\ None \notin {p, s}
  BY OtherSite, SitesAssumption
<1> QED
  BY <1>1, <1>2, EitherSide DEF Shape, Leaders, Followers

\* What leaves the instances alone is nothing to Leadership.
LEMMA NotSeen ==
  ASSUME UNCHANGED <<writable, follows>>
  PROVE  UNCHANGED Pair!vars
BY DEF Pair!vars, Leaders, Followers, Other

-----------------------------------------------------------------------------
(* Switching over *)

\* A run whose switchover is that of the pair calls each instance in its turn.
LEMMA Within ==
  ASSUME TypeInv, NEW p \in Sites, NEW s, s = Other(p), Toward(p, s),
         NEW r \in Runs, state[r] \notin {"idle", "done"}
  PROVE  /\ cmd[r].name = "switch" /\ cmd[r].primary = p /\ Primary(r) = p /\ Secondary(r) = s
         /\ s \in Sites /\ p # s /\ Other(s) = p
BY OtherSite DEF Toward, Primary, Secondary

\* Giving the same command again, or, at rest, any command.
LEMMA LeadStart ==
  ASSUME NEW P \in Sites, Repeated(P), TypeInv, InOrder,
         NEW p \in Sites, NEW s, s = Other(p), Given, ~Unswitched, Toward(p, s),
         NEW r \in Runs, Start(r)
  PROVE  Given' /\ ~Unswitched' /\ \E q \in Sites : Toward(q, Other(q))'
<1>1. PICK c \in Commands[r] : MayStart(r, c) /\ cmd' = [cmd EXCEPT ![r] = c]
  BY DEF Start
<1>2. /\ state[r] \in {"idle", "cancelled", "failed", "killed"} /\ UNCHANGED <<siteVars, opVars>>
      /\ state'[r] \in {"asking", "calling"} /\ cmd'[r] = c /\ step'[r] = 1
      /\ \A q \in Runs \ {r} : state'[q] = state[q] /\ cmd'[q] = cmd[q] /\ step'[q] = step[q]
                             /\ key'[q] = key[q]
  BY <1>1 DEF Start, TypeInv, TypeOK
<1>3. c.name = "switch" /\ c.primary \in Sites
  <2>1. c.name \in {"setup", "switch"} /\ c.primary \in Sites
    BY <1>1, CommandsAssumption DEF Command
  <2>2. PICK q \in Runs : state[q] # "idle" /\ cmd[q].name = "switch" /\ cmd[q] \in Commands[q]
    BY CallsType DEF Unswitched, Given
  <2>3. CASE Overlap
    <3>1. Commands[q] = Commands[r]
      BY <2>3 DEF Repeated
    <3>2. \A d \in Commands[r] : c = d
      BY <1>1 DEF Repeated
    <3> QED
      BY <2>1, <2>2, <3>1, <3>2
  <2>4. CASE ~Overlap
    <3>1. c.name = "setup" => r < q
      BY <1>1, <2>2 DEF Repeated, SetupFirst
    <3>2. r < q => state[r] = "done"
      BY <2>2, <2>4 DEF InOrder
    <3> QED
      BY <1>2, <2>1, <3>1, <3>2
  <2> QED
    BY <2>1, <2>3, <2>4
<1>4. Given' /\ ~Unswitched'
  BY <1>2, <1>3 DEF Given, Unswitched
<1>5. CASE c.primary = p
  <2>1. Shape(p, s)' /\ Fits(p, s)'
    BY <1>2 DEF siteVars, opVars, Toward, Shape, Fits
  <2>2. \A q \in Runs : state'[q] \notin {"idle", "done"} =>
          cmd'[q].name = "switch" /\ cmd'[q].primary = p
    BY <1>2, <1>3, <1>5 DEF Toward
  <2>3. \A q \in Runs : Active(q)' => Reached(q, p, s)'
    <3>1. Reached(r, p, s)'
      BY <1>2 DEF Reached
    <3>2. ASSUME NEW q \in Runs \ {r}, Active(q)' PROVE Reached(q, p, s)'
      <4>1. Reached(q, p, s)
        BY <1>2, <3>2 DEF Active, Toward
      <4> QED
        BY <1>2, <4>1 DEF Reached, siteVars, opVars
    <3> QED
      BY <3>1, <3>2
  <2>4. ~Resting'
    BY <1>2 DEF Resting
  <2>5. Toward(p, s)'
    BY <2>1, <2>2, <2>3, <2>4 DEF Toward
  <2> QED
    BY <1>4, <2>5 DEF Other
<1>6. CASE c.primary # p
  <2>1. ~Overlap
    BY <1>1, <1>6 DEF Toward
  <2>2. state[r] = "idle"
    BY <1>1, <1>2, <1>6 DEF Toward, Given, Repeated
  <2>3. \A q \in Runs \ {r} : state[q] \in {"idle", "done"}
    <3> SUFFICES ASSUME NEW q \in Runs \ {r} PROVE state[q] \in {"idle", "done"}
      OBVIOUS
    <3>1. q < r => state[q] = "done"
      BY <1>1, <2>1 DEF MayStart
    <3>2. r < q => state[q] = "idle"
      BY <2>1, <2>2 DEF InOrder
    <3> QED
      BY <3>1, <3>2, CommandsAssumption
  <2>4. Shape(p, s) /\ Settled(p, s)
    BY <2>1, <2>2, <2>3 DEF Resting, Toward
  <2>5. c.primary = s /\ s \in Sites /\ p # s /\ Other(s) = p /\ p # None /\ s # None
    BY <1>3, <1>6, OtherSite, SitesAssumption
  <2>6. Shape(s, p)' /\ Fits(s, p)'
    BY <1>2, <2>4, <2>5 DEF Shape, Settled, Fits, siteVars, opVars
  <2>7. \A q \in Runs : state'[q] \notin {"idle", "done"} => q = r
    BY <1>2, <2>3
  <2>8. Reached(r, s, p)'
    BY <1>2 DEF Reached
  <2>9. Toward(s, p)'
    BY <1>2, <1>3, <2>1, <2>5, <2>6, <2>7, <2>8 DEF Toward, Resting, Active
  <2> QED
    BY <1>4, <2>5, <2>9 DEF Other
<1> QED
  BY <1>5, <1>6

\* A run moves that is alive, and touches neither instance.
LEMMA LeadMove ==
  ASSUME TypeInv, NEW p, NEW s, Toward(p, s), NEW r \in Runs,
         state[r] \notin {"idle", "done"}, state'[r] # "idle",
         UNCHANGED <<cmd, writable, follows>>,
         \A q \in Runs \ {r} : state'[q] = state[q] /\ (Active(q) => Reached(q, p, s)'),
         Active(r)' => Reached(r, p, s)',
         Fits(p, s)',
         state'[r] = "done" /\ ~Overlap => Settled(p, s)'
  PROVE  Toward(p, s)'
<1>1. Shape(p, s)'
  BY DEF Toward, Shape
<1>2. \A q \in Runs : state'[q] \notin {"idle", "done"} =>
        cmd'[q].name = "switch" /\ cmd'[q].primary = p
  BY DEF Toward
<1>3. \A q \in Runs : Active(q)' => Reached(q, p, s)'
  BY DEF Active
<1>4. Resting' => state'[r] = "done"
  BY DEF Resting
<1> QED
  BY <1>1, <1>2, <1>3, <1>4 DEF Toward

\* A switchover that returns has handed leadership over, and left nothing to do.
LEMMA LeadReturn ==
  ASSUME TurnInv, [Next]_vars, NEW p \in Sites, NEW s, s = Other(p),
         NEW r \in Runs, Returns(r), cmd[r].name = "switch", cmd[r].primary = p
  PROVE  Settled(p, s)'
<1>1. /\ step[r] = 12 /\ Here(r) = p /\ Calls(r)[step[r]].call = "follow"
      /\ Primary(r) = p /\ Secondary(r) = s /\ s \in Sites /\ p # s
  <2>1. step[r] = Len(Calls(r))
    BY Returning
  <2>2. Primary(r) = p /\ Secondary(r) = s /\ s \in Sites /\ p # s
    BY OtherSite DEF Primary, Secondary
  <2>3. step[r] = 12
    BY <2>1, SwitchAt DEF TurnInv
  <2> QED
    BY <2>2, <2>3, SwitchAt DEF TurnInv
<1>2. /\ request[p] = None /\ Effect(p, Requested(r)) /\ Holds(r) /\ Achieved(r)
      /\ UNCHANGED <<siteVars, opVars>>
  BY <1>1, Returning DEF Progress
<1>3. follows[p] = s
  BY <1>1, <1>2 DEF Effect, Requested, Holds
<1>4. request[s] = None
  BY <1>1, <1>2 DEF Achieved, Clear
<1> QED
  BY <1>2, <1>3, <1>4 DEF Settled, siteVars, opVars

\* Every step of a run but a request, and its end.
LEMMA LeadQuiet ==
  ASSUME TypeInv, ~Overlap => TurnInv, [Next]_vars,
         NEW p \in Sites, NEW s, s = Other(p), Toward(p, s),
         NEW r \in Runs, Kill(r) \/ (Step(r) /\ ~Update(r))
  PROVE  Toward(p, s)'
<1>1. /\ UNCHANGED <<cmd, siteVars, opVars>>
      /\ Active(r)
      /\ \A q \in Runs \ {r} : state'[q] = state[q] /\ step'[q] = step[q] /\ key'[q] = key[q]
  BY DEF Kill, Step, Answer, InstanceExists, InstancePlanName, PlanExists, CreateHostInfoKey,
    CreateCredentialsKey, CreateKey, Wait, Advance, Fail, Calling, Active, TypeInv, TypeOK
<1>2. state[r] \notin {"idle", "done"} /\ cmd[r].primary = p /\ Reached(r, p, s)
  BY <1>1 DEF Active, Toward
<1>3. cmd[r].name = "switch" /\ Primary(r) = p /\ Secondary(r) = s /\ s \in Sites /\ p # s
  BY <1>2, Within
<1>4. state'[r] # "idle"
  BY DEF Kill, Step, Answer, InstanceExists, InstancePlanName, PlanExists, CreateHostInfoKey,
    CreateCredentialsKey, CreateKey, Wait, Advance, Fail, TypeInv, TypeOK
<1>5. \A q \in Runs \ {r} : Active(q) => Reached(q, p, s)'
  BY <1>1 DEF Toward, Reached, siteVars, opVars
<1>6. Fits(p, s)'
  BY <1>1 DEF Toward, Fits, siteVars, opVars
<1>7. Active(r)' => Reached(r, p, s)'
  <2> SUFFICES ASSUME Active(r)' PROVE Reached(r, p, s)'
    OBVIOUS
  <2>1. ~Kill(r) /\ ~Fail(r)
    BY DEF Kill, Fail, Active, TypeInv, TypeOK
  <2>2. CASE Answer(r)
    <3>1. state'[r] = "calling" /\ step'[r] = step[r] /\ key'[r] = key[r]
      BY <2>2 DEF Answer, Active, TypeInv, TypeOK
    <3> QED
      BY <1>1, <1>2, <3>1 DEF Reached, siteVars, opVars
  <2>3. CASE ~Answer(r)
    <3>1. Advance(r)
      BY <2>1, <2>3 DEF Step, InstanceExists, InstancePlanName, PlanExists,
        CreateHostInfoKey, CreateCredentialsKey, CreateKey, Wait
    <3>2. state'[r] = "calling" /\ step'[r] = step[r] + 1 /\ step[r] \in 1 .. 12
      BY <1>1, <1>3, <3>1, Advanced, SwitchAt
    <3>3. ASSUME Calls(r)[step[r]].call \in Updates
          PROVE  state[r] = "waiting" /\ request[Here(r)] = None /\ result[Here(r)] = "ok"
      <4>1. Wait(r)
        BY <2>1, <2>3, <3>3 DEF Step, InstanceExists, InstancePlanName, PlanExists,
          CreateHostInfoKey, CreateCredentialsKey, CreateKey, Calling, Updates
      <4> QED
        BY <2>1, <4>1 DEF Wait, Succeeded
    <3>4. step[r] = 7 => ~writable[p]
      BY <1>2, <1>3, <3>3, SwitchAt DEF Updates, Reached
    <3>5. step[r] = 8 => writable[s]
      BY <1>2, <1>3, <3>3, SwitchAt DEF Updates, Reached
    <3>6. step[r] = 11 => key'[r] = s
      <4> SUFFICES ASSUME step[r] = 11 PROVE key'[r] = s
        OBVIOUS
      <4>1. Calls(r)[step[r]].call = "credKey" /\ Here(r) = s
        BY <1>3, SwitchAt
      <4>2. CreateCredentialsKey(r)
        BY <1>2, <2>1, <2>3, <4>1 DEF Step, InstanceExists, InstancePlanName, PlanExists,
          CreateHostInfoKey, CreateKey, Wait, Calling, Reached
      <4>3. key' = [key EXCEPT ![r] = Here(r)]
        BY <2>1, <4>2 DEF CreateCredentialsKey, CreateKey
      <4> QED
        BY <4>1, <4>3 DEF TypeInv, TypeOK
    <3> QED
      BY <1>1, <1>2, <3>2, <3>4, <3>5, <3>6 DEF Reached, siteVars
  <2> QED
    BY <2>2, <2>3
<1>8. state'[r] = "done" /\ ~Overlap => Settled(p, s)'
  BY <1>2, <1>3, LeadReturn DEF Returns
<1> QED
  BY <1>1, <1>2, <1>4, <1>5, <1>6, <1>7, <1>8, LeadMove DEF siteVars

\* A request: each is made when the pair is ready for it.
LEMMA LeadUpdate ==
  ASSUME TypeInv, NEW p \in Sites, NEW s, s = Other(p), Toward(p, s),
         NEW r \in Runs, Update(r)
  PROVE  Toward(p, s)'
<1>1. /\ UNCHANGED <<cmd, step, key, siteVars, result>> /\ state[r] = "calling"
      /\ Calls(r)[step[r]].call \in Updates
      /\ state'[r] \in {"waiting", "failed"}
      /\ \A q \in Runs \ {r} : state'[q] = state[q]
  BY DEF Update, Fail, Calling, TypeInv, TypeOK
<1>2. Active(r) /\ state[r] \notin {"idle", "done"} /\ cmd[r].primary = p /\ Reached(r, p, s)
  BY <1>1 DEF Active, Toward
<1>3. cmd[r].name = "switch" /\ Primary(r) = p /\ Secondary(r) = s /\ s \in Sites /\ p # s
  BY <1>2, Within
<1>4. CASE UNCHANGED request /\ Fail(r)
  <2>1. ~Active(r)'
    BY <1>4 DEF Fail, Active, TypeInv, TypeOK
  <2>2. \A q \in Runs \ {r} : Active(q) => Reached(q, p, s)'
    BY <1>1, <1>4 DEF Toward, Reached, siteVars
  <2>3. Fits(p, s)'
    BY <1>1, <1>4 DEF Toward, Fits, siteVars
  <2> QED
    BY <1>1, <1>2, <2>1, <2>2, <2>3, LeadMove DEF siteVars
<1>5. CASE request' = [request EXCEPT ![Here(r)] = Requested(r)]
  <2>1. step[r] \in {7, 8, 10, 12} /\ Requested(r) # None
    BY <1>1, <1>3, SwitchAt, Asked DEF Updates
  <2>2. CASE step[r] = 7
    <3>1. request'[p] # None /\ request'[p].call = "demote" /\ request'[s] = request[s]
      BY <1>3, <1>5, <2>1, <2>2, SwitchAt DEF Requested, TypeInv, TypeOK
    <3>2. Fits(p, s)'
      BY <1>1, <3>1 DEF Toward, Fits, siteVars
    <3>3. Reached(r, p, s)' /\ \A q \in Runs \ {r} : Active(q) => Reached(q, p, s)'
      BY <1>1, <1>2, <2>1, <2>2, <3>1 DEF Toward, Reached, siteVars
    <3> QED
      BY <1>1, <1>2, <3>2, <3>3, LeadMove DEF siteVars
  <2>3. CASE step[r] = 8
    <3>1. request'[s] # None /\ request'[s].call = "promote" /\ request'[p] = request[p]
      BY <1>3, <1>5, <2>1, <2>3, SwitchAt DEF Requested, TypeInv, TypeOK
    <3>2. Fits(p, s)'
      BY <1>1, <1>2, <2>3, <3>1 DEF Toward, Fits, Reached, siteVars
    <3>3. Reached(r, p, s)' /\ \A q \in Runs \ {r} : Active(q) => Reached(q, p, s)'
      BY <1>1, <1>2, <2>1, <2>3, <3>1 DEF Toward, Reached, siteVars
    <3> QED
      BY <1>1, <1>2, <3>2, <3>3, LeadMove DEF siteVars
  <2>4. CASE step[r] = 10
    <3>1. request'[s] # None /\ request'[s].call = "register" /\ request'[p] = request[p]
      BY <1>3, <1>5, <2>1, <2>4, SwitchAt DEF Requested, TypeInv, TypeOK
    <3>2. Fits(p, s)'
      BY <1>1, <3>1 DEF Toward, Fits, siteVars
    <3>3. Reached(r, p, s)' /\ \A q \in Runs \ {r} : Active(q) => Reached(q, p, s)'
      BY <1>1, <1>2, <2>1, <2>4, <3>1 DEF Toward, Reached, siteVars
    <3> QED
      BY <1>1, <1>2, <3>2, <3>3, LeadMove DEF siteVars
  <2>5. CASE step[r] = 12
    <3>1. /\ request'[p] # None /\ request'[p].call = "follow" /\ request'[p].key = s
          /\ request'[s] = request[s]
      BY <1>2, <1>3, <1>5, <2>1, <2>5, SwitchAt DEF Requested, Reached, TypeInv, TypeOK
    <3>2. Fits(p, s)'
      BY <1>1, <1>2, <2>5, <3>1 DEF Toward, Fits, Reached, siteVars
    <3>3. Reached(r, p, s)' /\ \A q \in Runs \ {r} : Active(q) => Reached(q, p, s)'
      BY <1>1, <1>2, <2>1, <2>5, <3>1 DEF Toward, Reached, siteVars
    <3> QED
      BY <1>1, <1>2, <3>2, <3>3, LeadMove DEF siteVars
  <2> QED
    BY <2>1, <2>2, <2>3, <2>4, <2>5
<1> QED
  BY <1>4, <1>5 DEF Update

\* The broker: the leader steps down, the follower takes over, the old leader
\* follows the new one, or nothing of this happens.
LEMMA LeadBroker ==
  ASSUME TypeInv, NEW p \in Sites, NEW s, s = Other(p), Toward(p, s), NEW f \in Sites, Broker(f)
  PROVE  Toward(p, s)' /\ (Pair!Next \/ UNCHANGED Pair!vars)
<1>1. UNCHANGED <<cmd, state, step, key>> /\ request[f] # None /\ request'[f] = None
  BY BrokerEffect DEF Broker, runVars
<1>2. /\ s \in Sites /\ p # s /\ Other(s) = p /\ f \in {p, s} /\ None \notin {p, s}
      /\ Shape(p, s) /\ Fits(p, s)
  BY OtherSite, SitesAssumption DEF Toward
<1>3. CASE f = p
  <2>1. /\ writable'[s] <=> writable[s]
        /\ follows'[s] = follows[s] /\ request'[s] = request[s] /\ result'[s] = result[s]
    BY <1>2, <1>3, BrokerEffect
  <2>2. \/ request[p].call = "demote"
        \/ request[p].call = "follow" /\ request[p].key = s /\ writable[s]
    BY <1>1, <1>2, <1>3 DEF Fits
  <2>3. \/ /\ writable'[p] <=> writable[p]
           /\ follows'[p] = follows[p] /\ result'[p] # "ok"
        \/ /\ ~writable'[p]
           /\ follows'[p] = follows[p] \/ (follows'[p] = s /\ writable[s])
    BY <1>3, <2>2, BrokerEffect
  <2>4. Shape(p, s)' /\ Fits(p, s)'
    BY <1>1, <1>2, <1>3, <2>1, <2>3 DEF Shape, Fits
  <2>5. \A r \in Runs : Active(r) => Reached(r, p, s)'
    BY <1>1, <1>3, <2>1, <2>3 DEF Toward, Reached
  <2>6. Toward(p, s)'
    BY <1>1, <1>3, <2>4, <2>5 DEF Toward, Active, Resting, Settled
  <2>7. CASE (writable'[p] <=> writable[p]) /\ follows'[p] = follows[p]
    BY <1>2, <2>1, <2>4, <2>6, <2>7, SeenFrom DEF Pair!vars
  <2>8. CASE ~writable'[p] /\ follows'[p] = follows[p]
    <3>1. CASE writable[p]
      <4>1. Leaders = {p} /\ Leaders' = {} /\ Followers = {s} /\ Followers' = {s}
        BY <1>2, <2>1, <2>4, <2>8, <3>1, SeenFrom DEF Shape
      <4>2. Pair!StepDown(p)
        BY <1>2, <4>1 DEF Pair!StepDown, Pair!Other, Other
      <4> QED
        BY <2>6, <4>2 DEF Pair!Next, Pair!Sites, Sites
    <3>2. CASE ~writable[p]
      BY <1>2, <2>1, <2>4, <2>6, <2>8, <3>2, SeenFrom DEF Pair!vars
    <3> QED
      BY <3>1, <3>2
  <2>9. CASE ~writable'[p] /\ follows'[p] = s /\ writable[s]
    <3>1. Leaders = {s} /\ Leaders' = {s} /\ Followers' = {p} /\ Followers \in {{p}, {}}
      BY <1>2, <2>1, <2>4, <2>9, SeenFrom DEF Shape
    <3>2. Pair!Follow(p)
      BY <1>2, <3>1 DEF Pair!Follow, Pair!Other, Other
    <3> QED
      BY <2>6, <3>2 DEF Pair!Next, Pair!Sites, Sites
  <2> QED
    BY <2>3, <2>6, <2>7, <2>8, <2>9
<1>4. CASE f = s
  <2>1. /\ writable'[p] <=> writable[p]
        /\ follows'[p] = follows[p] /\ request'[p] = request[p] /\ result'[p] = result[p]
    BY <1>2, <1>4, BrokerEffect
  <2>2. (request[s].call = "promote" /\ ~writable[p]) \/ request[s].call = "register"
    BY <1>1, <1>2, <1>4 DEF Fits
  <2>3. \/ /\ writable'[s] <=> writable[s]
           /\ follows'[s] = follows[s]
           /\ result'[s] = "ok" => request[s].call = "register"
        \/ ~writable[p] /\ writable'[s] /\ follows'[s] = None
    BY <1>4, <2>2, BrokerEffect
  <2>4. Shape(p, s)' /\ Fits(p, s)'
    BY <1>1, <1>2, <1>4, <2>1, <2>3 DEF Shape, Fits
  <2>5. \A r \in Runs : Active(r) => Reached(r, p, s)'
    BY <1>1, <1>4, <2>1, <2>3 DEF Toward, Reached
  <2>6. Toward(p, s)'
    BY <1>1, <1>4, <2>4, <2>5 DEF Toward, Active, Resting, Settled
  <2>7. CASE (writable'[s] <=> writable[s]) /\ follows'[s] = follows[s]
    BY <1>2, <2>1, <2>4, <2>6, <2>7, SeenFrom DEF Pair!vars
  <2>8. CASE ~writable[p] /\ writable'[s] /\ writable[s]
    BY <1>2, <2>1, <2>4, <2>6, <2>8, SeenFrom DEF Pair!vars
  <2>9. CASE ~writable[p] /\ writable'[s] /\ ~writable[s]
    <3>1. Leaders = {} /\ Leaders' = {s} /\ Followers = {s} /\ Followers' = {}
      BY <1>2, <2>1, <2>4, <2>9, SeenFrom DEF Shape
    <3>2. Pair!TakeOver(s)
      BY <3>1 DEF Pair!TakeOver
    <3> QED
      BY <1>2, <2>6, <3>2 DEF Pair!Next, Pair!Sites, Sites
  <2> QED
    BY <2>3, <2>6, <2>7, <2>8, <2>9
<1> QED
  BY <1>2, <1>3, <1>4

-----------------------------------------------------------------------------
(* Until the first switchover *)

\* A pair that is being set up, as Leadership sees it before a step and after it.
LEMMA SeenFounded ==
  ASSUME NEW p \in Sites, NEW s, s = Other(p), Founded(p, s), Founded(p, s)'
  PROVE  /\ Leaders = (IF writable[s] THEN {p, s} ELSE {p})
         /\ Followers = (IF writable[s] THEN {} ELSE {s})
         /\ Leaders' = (IF writable'[s] THEN {p, s} ELSE {p})
         /\ Followers' = (IF writable'[s] THEN {} ELSE {s})
<1>1. /\ Leaders' = {f \in Sites : writable'[f]}
      /\ Followers' = {f \in Sites : follows'[f] = Other(f)}
  BY DEF Leaders, Followers, Other
<1>2. p # s /\ None \notin {p, s}
  BY OtherSite, SitesAssumption
<1> QED
  BY <1>1, <1>2, EitherSide DEF Founded, Leaders, Followers

\* A run that starts has asked for nothing yet.
LEMMA FoundedStart ==
  ASSUME TypeInv, NEW p, NEW s, Founded(p, s), NEW r \in Runs, Start(r)
  PROVE  Founded(p, s)'
<1>1. /\ state[r] # "done" /\ state'[r] \in {"asking", "calling"} /\ step'[r] = 1
      /\ \A q \in Runs \ {r} : state'[q] = state[q] /\ step'[q] = step[q] /\ key'[q] = key[q]
      /\ UNCHANGED <<siteVars, opVars>>
  BY DEF Start, TypeInv, TypeOK
<1>2. ~Resting' /\ ~Fresh'
  BY <1>1 DEF Resting, Fresh
<1> QED
  BY <1>1, <1>2 DEF Founded, siteVars, opVars

\* A setup that returns has made s a follower, and left nothing to do.
LEMMA FoundedReturn ==
  ASSUME TurnInv, [Next]_vars, NEW p \in Sites, NEW s, s = Other(p), Founded(p, s),
         NEW r \in Runs, Returns(r), cmd[r].name = "setup", cmd[r].primary = p
  PROVE  request'[p] = None /\ request'[s] = None /\ ~writable'[s]
<1>1. /\ step[r] = 6 /\ Here(r) = s /\ Calls(r)[step[r]].call = "follow"
      /\ Primary(r) = p /\ Secondary(r) = s /\ s \in Sites /\ p # s
  <2>1. step[r] = Len(Calls(r))
    BY Returning
  <2>2. Primary(r) = p /\ Secondary(r) = s /\ s \in Sites /\ p # s
    BY OtherSite DEF Primary, Secondary
  <2>3. step[r] = 6
    BY <2>1, SetupAt DEF TurnInv
  <2> QED
    BY <2>2, <2>3, SetupAt DEF TurnInv
<1>2. /\ request[s] = None /\ Effect(s, Requested(r)) /\ Holds(r) /\ Achieved(r)
      /\ UNCHANGED <<siteVars, opVars>>
  BY <1>1, Returning DEF Progress
<1>3. follows[s] = p
  BY <1>1, <1>2 DEF Effect, Requested, Holds
<1>4. request[p] = None
  BY <1>1, <1>2 DEF Achieved, Clear
<1> QED
  BY <1>2, <1>3, <1>4, SitesAssumption DEF Founded, siteVars, opVars

\* Every step of a run that sets up.
LEMMA FoundedRun ==
  ASSUME NEW p \in Sites, NEW s, s = Other(p), Repeated(p), TypeInv, ~Overlap => TurnInv, [Next]_vars,
         Given, Unswitched, Founded(p, s), NEW r \in Runs, Kill(r) \/ Step(r)
  PROVE  Founded(p, s)' /\ UNCHANGED <<writable, follows>>
<1>0. \A q \in Runs : /\ state[q] = "waiting" => step[q] \in {4, 6}
                      /\ step[q] = 6 => key[q] = p
  BY DEF Founded
<1>1. /\ UNCHANGED <<cmd, siteVars>> /\ Active(r)
      /\ \A q \in Runs \ {r} : state'[q] = state[q] /\ step'[q] = step[q] /\ key'[q] = key[q]
      /\ state'[r] # "idle"
  <2>1. UNCHANGED <<cmd, siteVars>> /\ Active(r)
    BY DEF Kill, Step, Answer, InstanceExists, InstancePlanName, PlanExists, CreateHostInfoKey,
      CreateCredentialsKey, CreateKey, Update, Wait, Calling, Active
  <2>2. \A q \in Runs \ {r} : step'[q] = step[q] /\ key'[q] = key[q]
    BY DEF Kill, Step, Answer, InstanceExists, InstancePlanName, PlanExists, CreateHostInfoKey,
      CreateCredentialsKey, CreateKey, Update, Wait, Advance, Fail, TypeInv, TypeOK
  <2>3. \E v \in States \ {"idle"} : state' = [state EXCEPT ![r] = v]
    BY DEF Kill, Step, Answer, InstanceExists, InstancePlanName, PlanExists,
      CreateHostInfoKey, CreateCredentialsKey, CreateKey, Update, Wait, Advance, Fail, States
  <2> QED
    BY <2>1, <2>2, <2>3 DEF TypeInv, TypeOK
<1>2. /\ cmd[r].name = "setup" /\ cmd[r].primary = p /\ Primary(r) = p /\ Secondary(r) = s
      /\ s \in Sites /\ p # s
  BY <1>1, OtherSite DEF Active, Given, Unswitched, Repeated, SetupFirst, Primary, Secondary
<1>3. step'[r] = 6 => key'[r] = p
  <2> SUFFICES ASSUME step'[r] = 6 PROVE key'[r] = p
    OBVIOUS
  <2>1. CASE step[r] = 6
    <3>1. Calls(r)[step[r]].call = "follow"
      BY <1>2, <2>1, SetupAt
    <3>2. key' = key
      BY <3>1 DEF Kill, Step, Answer, InstanceExists, InstancePlanName, PlanExists,
        CreateHostInfoKey, CreateCredentialsKey, CreateKey, Update, Wait, Calling
    <3> QED
      BY <2>1, <3>2 DEF Founded
  <2>2. CASE step[r] # 6
    <3>1. Advance(r) /\ ~Kill(r)
      BY <2>2 DEF Kill, Step, Answer, InstanceExists, InstancePlanName, PlanExists,
        CreateHostInfoKey, CreateCredentialsKey, CreateKey, Update, Wait, Fail
    <3>2. step[r] = 5
      BY <1>2, <2>2, <3>1, SetupAt DEF Advance, TypeInv, TypeOK
    <3>3. Calls(r)[step[r]].call = "credKey" /\ Here(r) = p
      BY <1>2, <3>2, SetupAt
    <3>4. state'[r] = "calling" /\ step' # step
      BY <1>2, <3>1, <3>2, SetupAt DEF Advance, TypeInv, TypeOK
    <3>5. CreateCredentialsKey(r)
      <4>1. ~Answer(r) /\ ~Update(r)
        BY <3>3, <3>4 DEF Answer, Update, Calling, Updates
      <4>2. ~Wait(r)
        <5>1. state[r] # "waiting"
          BY <3>2, <1>0
        <5> QED
          BY <5>1 DEF Wait
      <4> QED
        BY <3>1, <3>3, <4>1, <4>2 DEF Step, InstanceExists, InstancePlanName, PlanExists,
          CreateHostInfoKey, CreateKey, Calling
    <3>6. key' = [key EXCEPT ![r] = Here(r)]
      BY <3>4, <3>5 DEF CreateCredentialsKey, CreateKey, Fail, TypeInv, TypeOK
    <3> QED
      BY <3>3, <3>6 DEF TypeInv, TypeOK
  <2> QED
    BY <2>1, <2>2
<1>4. state'[r] = "waiting" => step'[r] \in {4, 6}
  <2> SUFFICES ASSUME state'[r] = "waiting" PROVE step'[r] \in {4, 6}
    OBVIOUS
  <2>1. Update(r)
    BY <1>1 DEF Kill, Step, Answer, InstanceExists, InstancePlanName, PlanExists,
      CreateHostInfoKey, CreateCredentialsKey, CreateKey, Wait, Advance, Fail, TypeInv, TypeOK
  <2>2. Calls(r)[step[r]].call \in Updates /\ step'[r] = step[r]
    BY <2>1 DEF Update, Fail, Calling
  <2> QED
    BY <1>2, <2>2, SetupAt DEF Updates
<1>5. /\ request'[p] # None => request'[p].call = "register"
      /\ request'[s] # None => request'[s].call = "follow" /\ request'[s].key = p
  <2>1. CASE UNCHANGED request
    BY <2>1 DEF Founded
  <2>2. CASE ~UNCHANGED request
    <3>1. Update(r) /\ request' = [request EXCEPT ![Here(r)] = Requested(r)]
      BY <2>2 DEF Kill, Step, Answer, InstanceExists, InstancePlanName, PlanExists,
        CreateHostInfoKey, CreateCredentialsKey, CreateKey, Wait, Update, opVars
    <3>2. Calls(r)[step[r]].call \in Updates
      BY <3>1 DEF Update, Calling
    <3>3. CASE step[r] = 4
      <4>1. Here(r) = p /\ Requested(r).call = "register"
        BY <1>2, <3>3, SetupAt DEF Requested
      <4> QED
        BY <1>2, <3>1, <4>1 DEF Founded, TypeInv, TypeOK
    <3>4. CASE step[r] = 6
      <4>1. Here(r) = s /\ Requested(r).call = "follow" /\ Requested(r).key = p
        BY <1>2, <3>4, SetupAt DEF Requested, Founded
      <4> QED
        BY <1>2, <3>1, <4>1 DEF Founded, TypeInv, TypeOK
    <3> QED
      BY <1>2, <3>2, <3>3, <3>4, SetupAt DEF Updates
  <2> QED
    BY <2>1, <2>2
<1>6. state'[r] = "done" /\ ~Overlap => request'[p] = None /\ request'[s] = None /\ ~writable'[s]
  BY <1>1, <1>2, FoundedReturn DEF Returns, Active
<1>7. ~Fresh' /\ (Resting' => state'[r] = "done")
  BY <1>1 DEF Fresh, Resting
<1>8. /\ writable'[p] /\ follows'[p] = None
      /\ follows'[s] = IF writable'[s] THEN None ELSE p
  BY <1>1 DEF Founded, siteVars
<1>9. \A q \in Runs : /\ state'[q] = "waiting" => step'[q] \in {4, 6}
                      /\ step'[q] = 6 => key'[q] = p
  <2>1. ASSUME NEW q \in Runs \ {r}
        PROVE  /\ state'[q] = "waiting" => step'[q] \in {4, 6}
               /\ step'[q] = 6 => key'[q] = p
    <3>1. state'[q] = state[q] /\ step'[q] = step[q] /\ key'[q] = key[q]
      BY <1>1
    <3>2. q \in Runs
      OBVIOUS
    <3> QED
      BY <1>0, <3>1, <3>2
  <2> QED
    BY <1>3, <1>4, <2>1
<1>10. Paired \/ (~Overlap /\ \E q \in Runs : state'[q] = "done") => ~writable'[s]
  BY <1>1, <1>6 DEF Founded, siteVars
<1> QED
  BY <1>1, <1>5, <1>6, <1>7, <1>8, <1>9, <1>10 DEF Founded, siteVars

\* The broker: s begins to follow p, or nothing of this happens.
LEMMA FoundedBroker ==
  ASSUME TypeInv, NEW p \in Sites, NEW s, s = Other(p), Founded(p, s), NEW f \in Sites, Broker(f)
  PROVE  Founded(p, s)' /\ (Pair!Next \/ UNCHANGED Pair!vars)
<1>1. UNCHANGED <<cmd, state, step, key>> /\ request[f] # None /\ request'[f] = None
  BY BrokerEffect DEF Broker, runVars
<1>2. s \in Sites /\ p # s /\ Other(s) = p /\ f \in {p, s} /\ None \notin {p, s}
  BY OtherSite, SitesAssumption
<1>3. /\ request'[p] # None => request'[p] = request[p]
      /\ request'[s] # None => request'[s] = request[s]
  BY <1>1, <1>2, BrokerEffect
<1>4. CASE /\ writable'[p] <=> writable[p]
           /\ writable'[s] <=> writable[s]
           /\ follows'[p] = follows[p] /\ follows'[s] = follows[s]
  <2>1. Founded(p, s)'
    BY <1>1, <1>3, <1>4 DEF Founded, Fresh, Resting
  <2> QED
    BY <1>4, <2>1, SeenFounded DEF Pair!vars
<1>5. CASE /\ writable'[p] <=> writable[p]
           /\ ~writable'[s]
           /\ follows'[p] = follows[p] /\ follows'[s] = p
  <2>1. Founded(p, s)'
    BY <1>1, <1>3, <1>5 DEF Founded, Fresh, Resting
  <2>2. /\ Leaders = {p} \/ Leaders = {p, s}
        /\ Followers = {} \/ Followers = {s}
        /\ Leaders' = {p} /\ Followers' = {s}
    BY <1>5, <2>1, SeenFounded
  <2>3. Pair!Follow(s)
    BY <1>2, <2>2 DEF Pair!Follow, Pair!Other, Other
  <2> QED
    BY <1>2, <2>1, <2>3 DEF Pair!Next, Pair!Sites, Sites
<1>6. CASE f = p
  <2>1. request[p].call = "register"
    BY <1>1, <1>6 DEF Founded
  <2> QED
    BY <1>2, <1>4, <1>6, <2>1, BrokerEffect
<1>7. CASE f = s
  <2>1. request[s].call = "follow" /\ request[s].key = p
    BY <1>1, <1>7 DEF Founded
  <2> QED
    BY <1>2, <1>4, <1>5, <1>7, <2>1, BrokerEffect
<1> QED
  BY <1>2, <1>6, <1>7

\* The first switchover finds a pair that is set up, and at rest.
LEMMA FirstSwitch ==
  ASSUME NEW P \in Sites, Repeated(P), TypeInv, InOrder, Given, Unswitched, Founded(P, Other(P)),
         NEW r \in Runs, Start(r), ~Unswitched'
  PROVE  Given' /\ \E q \in Sites : Toward(q, Other(q))'
<1>1. PICK c \in Commands[r] : MayStart(r, c) /\ cmd' = [cmd EXCEPT ![r] = c]
  BY DEF Start
<1>2. /\ state[r] \in {"idle", "cancelled", "failed", "killed"} /\ UNCHANGED <<siteVars, opVars>>
      /\ state'[r] \in {"asking", "calling"} /\ cmd'[r] = c /\ step'[r] = 1
      /\ \A q \in Runs \ {r} : state'[q] = state[q] /\ cmd'[q] = cmd[q]
  BY <1>1 DEF Start, TypeInv, TypeOK
<1>3. c.name = "switch" /\ c.primary \in Sites
  BY <1>1, <1>2, CommandsAssumption DEF Unswitched, Command
<1>4. Given'
  BY <1>2 DEF Given
<1>5. state[r] = "idle"
  BY <1>1, <1>3 DEF Unswitched, Given, Repeated
<1>6. PICK S \in Sites : S = Other(P) /\ P # S /\ Other(S) = P
  BY OtherSite
<1>7. /\ \A q \in Runs \ {r} : state[q] \in {"idle", "done"}
      /\ request[P] = None /\ request[S] = None /\ ~writable[S]
  <2>1. CASE Overlap
    <3>1. Fresh
      BY <1>1, <1>3, <1>5, <2>1 DEF Fresh, Unswitched, Given, Repeated
    <3>2. Paired
      BY <1>1, <1>3, <2>1 DEF Repeated
    <3> QED
      BY <1>6, <3>1, <3>2 DEF Fresh, Founded
  <2>2. CASE ~Overlap
    <3>1. \A q \in Runs \ {r} : IF q < r THEN state[q] = "done" ELSE state[q] = "idle"
      <4>1. \A q \in Runs : q < r => state[q] = "done"
        BY <1>1, <2>2 DEF MayStart
      <4>2. \A q \in Runs : r < q => state[q] = "idle"
        BY <1>5, <2>2 DEF InOrder
      <4> QED
        BY <4>1, <4>2, CommandsAssumption
    <3>2. Resting
      BY <1>5, <3>1 DEF Resting
    <3>3. Paired \/ \E q \in Runs : state[q] = "done"
      <4> SUFFICES ASSUME ~Paired PROVE \E q \in Runs : state[q] = "done"
        OBVIOUS
      <4>1. PICK q \in Runs : q < r
        BY <1>1, <1>3 DEF Repeated
      <4> QED
        BY <1>1, <2>2, <4>1 DEF MayStart
    <3> QED
      BY <1>6, <2>2, <3>1, <3>2, <3>3 DEF Founded
  <2> QED
    BY <2>1, <2>2
<1>8. writable[P] /\ follows[P] = None /\ follows[S] = P /\ None \notin {P, S}
  BY <1>6, <1>7, SitesAssumption DEF Founded
<1>9. PICK q \in Sites : q = c.primary
  BY <1>3
<1>10. PICK t \in Sites : t = Other(q)
  BY OtherSite
<1>11. {q, t} = {P, S} /\ q # t
  BY <1>6, <1>9, <1>10, OtherSite
<1>12. Shape(q, t)' /\ Fits(q, t)'
  <2>1. CASE q = P /\ t = S
    BY <1>2, <1>7, <1>8, <2>1 DEF Shape, Fits, siteVars, opVars
  <2>2. CASE q = S /\ t = P
    BY <1>2, <1>7, <1>8, <2>2 DEF Shape, Fits, siteVars, opVars
  <2> QED
    BY <1>11, <2>1, <2>2
<1>13. \A o \in Runs : state'[o] \notin {"idle", "done"} => o = r
  BY <1>2, <1>7
<1>14. Reached(r, q, t)'
  BY <1>2 DEF Reached
<1>15. Overlap => \A o \in Runs : \A d \in Commands[o] : d.primary = q
  BY <1>1, <1>9 DEF Repeated
<1>16. Toward(q, t)'
  BY <1>2, <1>3, <1>9, <1>12, <1>13, <1>14, <1>15 DEF Toward, Resting, Active
<1> QED
  BY <1>4, <1>10, <1>16 DEF Other

-----------------------------------------------------------------------------
(* The handover *)

\* Two new instances, or a pair that replicates and that A leads.
LEMMA LeadInit ==
  ASSUME NEW P \in Sites, Repeated(P), Init
  PROVE  LeadInv(P) /\ Pair!Init
<1>1. A \in Sites /\ B \in Sites /\ Other(A) = B /\ Other(B) = A /\ A # B /\ None \notin {A, B}
  BY SitesAssumption DEF Sites, Other
<1>2. PICK S \in Sites : S = Other(P) /\ P # S
  BY OtherSite
<1>3. /\ request[P] = None /\ request[S] = None
      /\ \A r \in Runs : state[r] = "idle" /\ step[r] = 1
      /\ \A f \in Sites : writable[f] <=> (~Paired \/ f = A)
      /\ \A f \in Sites : follows[f] = IF Paired /\ f = B THEN A ELSE None
  BY <1>2 DEF Init
<1>4. Paired => P = A /\ S = B
  BY <1>1, <1>2 DEF Repeated, SetupFirst
<1>5. Given /\ Unswitched
  BY <1>3 DEF Given, Unswitched
<1>6. Founded(P, S)
  BY <1>1, <1>2, <1>3, <1>4 DEF Founded
<1>7. Pair!Init
  <2>1. CASE Paired
    <3>1. Leaders = {A} /\ Followers = {B}
      BY <1>1, <1>3, <2>1 DEF Leaders, Followers, Sites
    <3> QED
      BY <1>1, <3>1 DEF Pair!Init, Pair!Sites, Pair!Other, Other
  <2>2. CASE ~Paired
    <3>1. Leaders = Sites /\ Followers = {}
      BY <1>1, <1>3, <2>2 DEF Leaders, Followers, Sites
    <3> QED
      BY <3>1 DEF Pair!Init, Pair!Sites, Sites
  <2> QED
    BY <2>1, <2>2
<1> QED
  BY <1>2, <1>5, <1>6, <1>7 DEF LeadInv

\* Every step until the first switchover has begun.
LEMMA FoundedStep ==
  ASSUME NEW P \in Sites, Repeated(P), TypeInv, InOrder, ~Overlap => TurnInv,
         LeadInv(P), Unswitched, Next
  PROVE  LeadInv(P)' /\ (Pair!Next \/ UNCHANGED Pair!vars)
<1>1. PICK S \in Sites : S = Other(P)
  BY OtherSite
<1>2. Given /\ Founded(P, S) /\ (Founded(P, S)' => Founded(P, Other(P))')
  BY <1>1 DEF LeadInv, Other
<1>3. ASSUME NEW r \in Runs, Start(r) PROVE LeadInv(P)' /\ UNCHANGED Pair!vars
  <2>1. UNCHANGED Pair!vars
    BY <1>3, NotSeen DEF Start, siteVars
  <2>2. CASE Unswitched'
    <3>1. Given'
      BY <1>2, <1>3 DEF Start, Given, TypeInv, TypeOK
    <3> QED
      BY <1>2, <1>3, <2>1, <2>2, <3>1, FoundedStart DEF LeadInv
  <2>3. CASE ~Unswitched'
    BY <1>1, <1>2, <1>3, <2>1, <2>3, FirstSwitch DEF LeadInv
  <2> QED
    BY <2>2, <2>3
<1>4. CASE \A r \in Runs : ~Start(r)
  <2>1. Given'
    BY <1>2, <1>4, GivenStep
  <2>2. UNCHANGED cmd /\ \A r \in Runs : state'[r] = "idle" <=> state[r] = "idle"
    BY <1>2, <1>4, GivenStep
  <2>3. Unswitched'
    BY <2>2 DEF Unswitched
  <2>4. ASSUME NEW r \in Runs, Kill(r) \/ Step(r) PROVE Founded(P, S)' /\ UNCHANGED Pair!vars
    BY <1>1, <1>2, <2>4, FoundedRun, NotSeen
  <2>5. ASSUME NEW f \in Sites, Broker(f)
        PROVE  Founded(P, S)' /\ (Pair!Next \/ UNCHANGED Pair!vars)
    BY <1>1, <1>2, <2>5, FoundedBroker
  <2>6. Founded(P, S)' /\ (Pair!Next \/ UNCHANGED Pair!vars)
    BY <1>4, <2>4, <2>5 DEF Next
  <2> QED
    BY <1>2, <2>1, <2>3, <2>6 DEF LeadInv
<1> QED
  BY <1>3, <1>4

\* Every step from the first switchover on.
LEMMA TowardStep ==
  ASSUME NEW P \in Sites, Repeated(P), TypeInv, InOrder, ~Overlap => TurnInv,
         LeadInv(P), ~Unswitched, Next
  PROVE  LeadInv(P)' /\ (Pair!Next \/ UNCHANGED Pair!vars)
<1>1. PICK p \in Sites : Toward(p, Other(p))
  BY DEF LeadInv
<1>2. PICK s \in Sites : s = Other(p)
  BY OtherSite
<1>3. Toward(p, s) /\ Given /\ (Toward(p, s)' => \E q \in Sites : Toward(q, Other(q))')
  BY <1>1, <1>2 DEF LeadInv, Other
<1>4. ASSUME NEW r \in Runs, Start(r) PROVE LeadInv(P)' /\ UNCHANGED Pair!vars
  <2>1. UNCHANGED Pair!vars
    BY <1>4, NotSeen DEF Start, siteVars
  <2> QED
    BY <1>2, <1>3, <1>4, <2>1, LeadStart DEF LeadInv
<1>5. CASE \A r \in Runs : ~Start(r)
  <2>1. Given' /\ ~Unswitched'
    BY <1>3, <1>5, GivenStep
  <2>2. ASSUME NEW r \in Runs, Kill(r) \/ (Step(r) /\ ~Update(r))
        PROVE  Toward(p, s)' /\ UNCHANGED Pair!vars
    <3>1. UNCHANGED <<writable, follows>>
      BY <2>2 DEF Kill, Step, Answer, InstanceExists, InstancePlanName, PlanExists,
        CreateHostInfoKey, CreateCredentialsKey, CreateKey, Wait, siteVars
    <3> QED
      BY <1>2, <1>3, <2>2, <3>1, LeadQuiet, NotSeen
  <2>3. ASSUME NEW r \in Runs, Update(r) PROVE Toward(p, s)' /\ UNCHANGED Pair!vars
    BY <1>2, <1>3, <2>3, LeadUpdate, NotSeen DEF Update, siteVars
  <2>4. ASSUME NEW f \in Sites, Broker(f)
        PROVE  Toward(p, s)' /\ (Pair!Next \/ UNCHANGED Pair!vars)
    BY <1>2, <1>3, <2>4, LeadBroker
  <2>5. Toward(p, s)' /\ (Pair!Next \/ UNCHANGED Pair!vars)
    BY <1>5, <2>2, <2>3, <2>4 DEF Next
  <2> QED
    BY <1>3, <2>1, <2>5 DEF LeadInv
<1> QED
  BY <1>4, <1>5

\* Every step keeps LeadInv and is one of Leadership's, or nothing to it.
LEMMA LeadStep ==
  ASSUME NEW P \in Sites, Repeated(P), TypeInv, InOrder, ~Overlap => TurnInv, LeadInv(P), [Next]_vars
  PROVE  LeadInv(P)' /\ [Pair!Next]_(Pair!vars)
<1>1. CASE UNCHANGED vars
  <2> USE <1>1 DEF vars, runVars, siteVars, opVars
  <2>1. Given' /\ (Unswitched' <=> Unswitched) /\ UNCHANGED Pair!vars
    BY NotSeen DEF LeadInv, Given, Unswitched
  <2>2. Founded(P, Other(P)) => Founded(P, Other(P))'
    BY DEF Founded, Fresh, Resting, Other
  <2>3. ASSUME NEW q \in Sites, Toward(q, Other(q)) PROVE Toward(q, Other(q))'
    BY <2>3 DEF Toward, Shape, Fits, Reached, Settled, Resting, Active, Other
  <2> QED
    BY <2>1, <2>2, <2>3 DEF LeadInv
<1>2. CASE Next
  BY <1>2, FoundedStep, TowardStep
<1> QED
  BY <1>1, <1>2

\* Leadership is handed over, from two new instances that are set up or from a pair
\* that replicates, for any number of operators who each give one command until it
\* succeeds, in turns or all the same one at the same time, whichever calls,
\* operations and processes fail.
THEOREM LeadershipHandedOver ==
  ASSUME NEW P \in Sites, Repeated(P)
  PROVE  Spec => HandsOver
<1>1. Spec => [](TypeInv /\ InOrder)
  <2>1. Init => TypeInv /\ InOrder
    BY TypeInit DEF Init, InOrder
  <2>2. (TypeInv /\ InOrder) /\ [Next]_vars => (TypeInv /\ InOrder)'
    BY TypeStep, InOrderStep
  <2> QED
    BY <2>1, <2>2, PTL DEF Spec
<1>2. Init => LeadInv(P) /\ Pair!Init
  BY LeadInit
<1>3. CASE Overlap
  <2>1. TypeInv /\ InOrder /\ LeadInv(P) /\ [Next]_vars => LeadInv(P)' /\ [Pair!Next]_(Pair!vars)
    BY <1>3, LeadStep
  <2> QED
    BY <1>1, <1>2, <2>1, PTL DEF Spec, HandsOver, Pair!Spec
<1>4. CASE ~Overlap
  <2>1. TypeInv /\ InOrder /\ TurnInv /\ LeadInv(P) /\ [Next]_vars
          => LeadInv(P)' /\ [Pair!Next]_(Pair!vars)
    BY LeadStep
  <2> QED
    BY <1>1, <1>2, <1>4, <2>1, TurnInvariant, PTL DEF Spec, HandsOver, Pair!Spec
<1> QED
  BY <1>3, <1>4
=============================================================================
