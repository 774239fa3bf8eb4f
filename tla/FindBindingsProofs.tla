------------------------- MODULE FindBindingsProofs -------------------------
(***************************************************************************)
(* Proofs about find-bindings, for any plans, instances and bindings and   *)
(* any number of changes by others.  The argument is an account: each      *)
(* binding that has been there all along, and that no failure was about,   *)
(* is one row or is still to become one, and never both.                   *)
(***************************************************************************)
EXTENDS FindBindings, TLAPS

USE FindAssumption DEF Items, Asking, Ended

\* Every step of others keeps the types.
LEMMA OthersTypes == TypeOK /\ Others => TypeOK'
<1> SUFFICES ASSUME TypeOK, Others PROVE TypeOK'
  OBVIOUS
<1> USE DEF TypeOK
<1>1. Change => changes' \in 0 .. MaxChanges
  BY DEF Change
<1>6. Change => UNCHANGED <<token, finder, lost>>
  BY DEF Change
<1>2. ASSUME NEW i \in Instances, NEW p \in Plans, Create(i, p) \/ Update(i, p) PROVE TypeOK'
  <2>1. plan' = [plan EXCEPT ![i] = p] /\ plan' \in [Instances -> Plans \union {None}]
    BY <1>2 DEF Create, Update
  <2>2. bound' = bound /\ ever' = ever /\ steady' \subseteq steady
    BY <1>2 DEF Create, Update
  <2>3. \A b \in bound' : plan'[Of[b]] # None
    BY <2>1, <2>2
  <2> QED
    BY <1>1, <1>6, <1>2, <2>1, <2>2, <2>3 DEF Create, Update, finder
<1>3. ASSUME NEW i \in Instances, Delete(i) PROVE TypeOK'
  <2>1. plan' \in [Instances -> Plans \union {None}] /\ \A b \in bound : plan'[Of[b]] # None
    BY <1>3 DEF Delete
  <2> QED
    BY <1>1, <1>6, <1>3, <2>1 DEF Delete, finder
<1>4. ASSUME NEW b \in Items, Bind(b) \/ Unbind(b) PROVE TypeOK'
  BY <1>1, <1>6, <1>4 DEF Bind, Unbind, finder
<1>5. CASE Expire
  BY <1>5 DEF Expire, world, finder
<1> QED
  BY <1>2, <1>3, <1>4, <1>5 DEF Others

\* Every step of the finder keeps the types.
LEMMA FinderTypes == TypeOK /\ FindBindings => TypeOK'
<1> SUFFICES ASSUME TypeOK, FindBindings PROVE TypeOK'
  OBVIOUS
<1> USE DEF TypeOK, Ask, world
<1>0. ASSUME NEW S \in SUBSET Items, Refused(S)
      PROVE  lost' \in SUBSET Items /\ token' \in {"none", "good", "expired"}
  BY <1>0 DEF Refused
<1>1. CASE ListServices
  BY <1>0, <1>1 DEF ListServices, GiveUp, Answered
<1>2. CASE ListPlans
  BY <1>0, <1>2 DEF ListPlans, GiveUp, Answered
<1>3. ASSUME NEW p \in Plans, ListInstances(p) PROVE TypeOK'
  <2>1. left' \in [Instances -> Nat]
    BY <1>3 DEF ListInstances
  <2>2. lost' \subseteq Items /\ token' \in {"none", "good", "expired"} /\ errs' \in BOOLEAN
    BY <1>0, <1>3 DEF ListInstances, Answered
  <2> QED
    BY <1>3, <2>1, <2>2 DEF ListInstances
<1>4. ASSUME NEW i \in Instances \union {None}, NEW S \in SUBSET Items, ListItems(i, S)
      PROVE  /\ queue' \subseteq {b \in S : Of[b] = i}
             /\ lost' \subseteq Items /\ token' \in {"none", "good", "expired"} /\ errs' \in BOOLEAN
  BY <1>0, <1>4 DEF ListItems, Answered
<1>5. ASSUME NEW i \in Instances, ListBindings(i) PROVE TypeOK'
  <2>1. left' \in [Instances -> Nat]
    BY <1>5 DEF ListBindings
  <2> QED
    BY <1>4, <1>5, <2>1 DEF ListBindings
<1>6. CASE ListKeys
  BY <1>4, <1>6 DEF ListKeys
<1>7. ASSUME NEW b \in Items, LookUpItem(b) PROVE TypeOK'
  <2>1. rows' \in [Items -> Nat]
    BY <1>7 DEF LookUpItem, ItemFailed
  <2>2. lost' \subseteq Items /\ token' \in {"none", "good", "expired"} /\ errs' \in BOOLEAN
    BY <1>0, <1>7 DEF LookUpItem, ItemFailed, Answered
  <2> QED
    BY <1>7, <2>1, <2>2 DEF LookUpItem
<1>8. CASE Return
  BY <1>8 DEF Return, Report
<1> QED
  BY <1>1, <1>2, <1>3, <1>5, <1>6, <1>7, <1>8 DEF FindBindings

\* The types of the variables hold throughout.
THEOREM FindTypes == Spec => []TypeOK
<1>1. ASSUME Init PROVE TypeOK
  <2>1. bound \subseteq Items /\ \A b \in bound : plan[Of[b]] # None
    BY <1>1 DEF Init
  <2>2. left \in [Instances -> Nat] /\ rows \in [Items -> Nat]
    BY <1>1 DEF Init
  <2>3. changes \in 0 .. MaxChanges
    BY <1>1 DEF Init
  <2> QED
    BY <1>1, <2>1, <2>2, <2>3 DEF Init, TypeOK
<1>2. TypeOK /\ UNCHANGED vars => TypeOK'
  BY DEF TypeOK, vars, world, finder
<1> QED
  BY <1>1, <1>2, OthersTypes, FinderTypes, PTL DEF Spec, Next

-----------------------------------------------------------------------------
(* The account *)

\* Whether b is one the finder has yet to look up for the instance it is at.
Coming(b) ==
    \/ pc = "apps" /\ at = Of[b] /\ (b \in queue \/ b \in Keys)
    \/ pc = "keys" /\ b \in queue

AccountOf(b) ==
    /\ pc \in {"services", "plans"} => rows[b] = 0 /\ left[Of[b]] = 0
    /\ pc = "instances" => rows[b] = 0 /\ left[Of[b]] = IF plan[Of[b]] \in todo THEN 0 ELSE 1
    /\ pc \in {"apps", "keys"} => rows[b] + left[Of[b]] + (IF Coming(b) THEN 1 ELSE 0) = 1
    /\ pc \in Ended => rows[b] = 1

Account ==
    /\ \A b \in steady \ lost : AccountOf(b)
    /\ pc \in {"services", "plans", "instances"} => queue = {}
    /\ pc # "instances" => todo = {}
    /\ pc = "apps" => queue \subseteq Apps
    /\ pc = "keys" => queue \subseteq Keys
    /\ queue \subseteq ever /\ \A b \in Items : rows[b] > 0 => b \in ever
    /\ ~errs => lost = {}
    /\ Reported => ~errs
    /\ pc = "nothing" => \A b \in Items : rows[b] = 0

\* What others do disturbs no account that still counts.
LEMMA OthersAccount == TypeOK /\ Account /\ (Others \/ UNCHANGED vars) => Account'
<1> SUFFICES ASSUME TypeOK, Account, Others \/ UNCHANGED vars PROVE Account'
  OBVIOUS
<1>1. UNCHANGED finder /\ lost' = lost
  BY DEF Others, Create, Update, Delete, Bind, Unbind, Change, Expire, vars
<1>2. steady' \subseteq steady /\ ever \subseteq ever'
  BY DEF Others, Create, Update, Delete, Bind, Unbind, Expire, vars, world
<1>3. ASSUME NEW b \in steady' PROVE plan'[Of[b]] = plan[Of[b]]
  <2>1. b \in bound /\ b \in Items /\ plan[Of[b]] # None
    BY <1>2, <1>3 DEF TypeOK
  <2>2. ASSUME NEW i \in Instances, NEW p \in Plans, Create(i, p) \/ Update(i, p) \/ Delete(i)
        PROVE  Of[b] # i /\ \E x : plan' = [plan EXCEPT ![i] = x]
    BY <1>3, <2>1, <2>2 DEF Create, Update, Delete
  <2>3. ASSUME NEW i \in Instances, Delete(i) PROVE Of[b] # i /\ plan' = [plan EXCEPT ![i] = None]
    BY <2>1, <2>3 DEF Delete
  <2>4. CASE plan' = plan
    BY <2>4
  <2> QED
    BY <2>1, <2>2, <2>3, <2>4 DEF Others, Bind, Unbind, Expire, vars, world, TypeOK
<1>4. ASSUME NEW b \in steady' \ lost' PROVE AccountOf(b)'
  <2>1. AccountOf(b)
    BY <1>1, <1>2, <1>4 DEF Account
  <2> QED
    BY <1>1, <1>3, <1>4, <2>1 DEF AccountOf, Coming, finder
<1> QED
  BY <1>1, <1>2, <1>4 DEF Account, finder, Reported

\* Every step of the finder keeps the account.
LEMMA FinderAccount == TypeOK /\ Account /\ FindBindings => Account'
<1> SUFFICES ASSUME TypeOK, Account, FindBindings PROVE Account'
  OBVIOUS
<1>0. /\ plan \in [Instances -> Plans \union {None}] /\ \A b \in bound : plan[Of[b]] # None
      /\ left \in [Instances -> Nat] /\ rows \in [Items -> Nat] /\ queue \subseteq {b \in Items : Of[b] = at}
      /\ steady \subseteq bound /\ bound \subseteq ever /\ ever \subseteq Items /\ todo \subseteq Plans
      /\ errs \in BOOLEAN /\ lost \subseteq Items
  BY DEF TypeOK
<1>a. /\ pc \in {"services", "plans", "instances"} => queue = {}
      /\ pc # "instances" => todo = {}
      /\ pc = "apps" => queue \subseteq Apps
      /\ pc = "keys" => queue \subseteq Keys
      /\ queue \subseteq ever /\ \A b \in Items : rows[b] > 0 => b \in ever
      /\ ~errs => lost = {}
  BY DEF Account
<1>b. \A b \in steady \ lost : AccountOf(b)
  BY DEF Account
<1>1. ASSUME NEW S, GiveUp(Items), pc \in {"services", "plans"} PROVE Account'
  BY <1>0, <1>a, <1>1 DEF GiveUp, Refused, Account, Reported, world
<1>2. CASE ListServices
  <2>1. CASE pc' = "plans" /\ UNCHANGED <<world, errs, lost, todo, left, at, queue, rows>>
    BY <1>0, <1>a, <1>b, <1>2, <2>1 DEF ListServices, Ask, Account, AccountOf, Coming, Reported, world
  <2>2. CASE pc' = "failed" /\ errs' = TRUE /\ lost' = Items /\ UNCHANGED <<world, todo, left, at, queue, rows>>
    BY <1>0, <1>a, <1>2, <2>2 DEF ListServices, Ask, Account, Reported, world
  <2> QED
    BY <1>1, <1>2, <2>1, <2>2 DEF ListServices, Ask
<1>3. CASE ListPlans
  <2>1. CASE todo' = Plans /\ pc' = "instances" /\ UNCHANGED <<world, left, at, queue, rows, errs, lost>>
    <3>1. pc = "plans"
      BY <1>3 DEF ListPlans, Ask
    <3>2. \A b \in steady \ lost : AccountOf(b)'
      BY <1>0, <1>b, <2>1, <3>1 DEF AccountOf, world
    <3> QED
      BY <1>0, <1>a, <2>1, <3>1, <3>2 DEF Account, Reported, world
  <2> QED
    BY <1>1, <1>3, <2>1 DEF ListPlans, Ask
<1>4. ASSUME NEW p \in Plans, ListInstances(p) PROVE Account'
  <2>1. /\ pc = "instances" /\ p \in todo /\ todo' = todo \ {p}
        /\ UNCHANGED <<world, pc, at, queue, rows>>
    BY <1>4 DEF ListInstances, Ask
  <2>2. CASE /\ left' = [i \in Instances |-> IF plan[i] = p THEN left[i] + 1 ELSE left[i]]
             /\ UNCHANGED <<errs, lost>>
    <3>1. ASSUME NEW b \in steady \ lost PROVE AccountOf(b)'
      <4>1. rows[b] = 0 /\ left[Of[b]] = (IF plan[Of[b]] \in todo THEN 0 ELSE 1) /\ Of[b] \in Instances
        BY <1>0, <1>b, <2>1 DEF AccountOf
      <4>2. left'[Of[b]] = IF plan[Of[b]] = p THEN left[Of[b]] + 1 ELSE left[Of[b]]
        BY <2>2, <4>1
      <4> QED
        BY <2>1, <4>1, <4>2 DEF AccountOf, world
    <3> QED
      BY <1>0, <1>a, <2>1, <2>2, <3>1 DEF Account, Reported, world
  <2>3. CASE Refused({b \in Items : plan[Of[b]] = p}) /\ errs' = TRUE /\ UNCHANGED left
    <3>1. lost' = lost \union {b \in Items : plan[Of[b]] = p}
      BY <2>3 DEF Refused
    <3>2. ASSUME NEW b \in steady \ lost' PROVE AccountOf(b)'
      BY <1>0, <1>b, <2>1, <2>3, <3>1 DEF AccountOf, world
    <3> QED
      BY <1>0, <1>a, <2>1, <2>3, <3>1, <3>2 DEF Account, Reported, world
  <2> QED
    BY <1>4, <2>2, <2>3 DEF ListInstances
<1>5. ASSUME NEW i \in Instances, ListBindings(i) PROVE Account'
  <2>1. /\ pc \in {"instances", "keys"} /\ todo = {} /\ queue = {} /\ left[i] > 0
        /\ left' = [left EXCEPT ![i] = @ - 1] /\ at' = i /\ pc' = "apps"
        /\ UNCHANGED <<world, todo, rows>>
    BY <1>5 DEF ListBindings, Ready
  <2>2. ListItems(i, Apps)
    BY <1>5 DEF ListBindings
  <2>3. /\ queue' \subseteq {b \in bound \intersect Apps : Of[b] = i}
        /\ lost \subseteq lost' /\ (~errs' => ~errs /\ lost' = lost)
    BY <1>0, <2>2 DEF ListItems, Refused
  <2>4. ASSUME NEW b \in steady \ lost' PROVE AccountOf(b)'
    <3>1. b \in Items /\ b \in bound /\ Of[b] \in Instances /\ AccountOf(b)
      BY <1>0, <1>b, <2>3, <2>4
    <3>2. rows[b] + left[Of[b]] = 1 /\ rows[b] \in Nat
      BY <1>0, <2>1, <3>1 DEF AccountOf, Coming
    <3>3. CASE Of[b] = i
      <4>1. b \in Apps => b \in queue'
        BY <1>0, <2>2, <2>4, <3>1, <3>3 DEF ListItems, Refused
      <4>2. Coming(b)'
        BY <2>1, <3>1, <3>3, <4>1 DEF Coming
      <4>3. left'[Of[b]] = left[Of[b]] - 1
        BY <1>0, <2>1, <3>1, <3>3
      <4> QED
        BY <1>0, <2>1, <3>1, <3>2, <4>2, <4>3 DEF AccountOf
    <3>4. CASE Of[b] # i
      <4>1. ~Coming(b)' /\ left'[Of[b]] = left[Of[b]]
        BY <1>0, <2>1, <3>1, <3>4 DEF Coming
      <4> QED
        BY <1>0, <2>1, <3>1, <3>2, <4>1 DEF AccountOf
    <3> QED
      BY <3>3, <3>4
  <2>5. steady' = steady /\ ever' = ever /\ queue' \subseteq Apps /\ queue' \subseteq ever
    BY <1>0, <2>1, <2>3 DEF world
  <2> QED
    BY <1>0, <1>a, <2>1, <2>3, <2>4, <2>5 DEF Account, Reported
<1>6. CASE ListKeys
  <2>1. pc = "apps" /\ queue = {} /\ pc' = "keys" /\ UNCHANGED <<world, todo, left, at, rows>> /\ ListItems(at, Keys)
    BY <1>6 DEF ListKeys, Ask
  <2>3. /\ queue' \subseteq {b \in bound \intersect Keys : Of[b] = at}
        /\ lost \subseteq lost' /\ (~errs' => ~errs /\ lost' = lost)
    BY <1>0, <2>1 DEF ListItems, Refused
  <2>4. ASSUME NEW b \in steady \ lost' PROVE AccountOf(b)'
    <3>1. b \in Items /\ b \in bound /\ AccountOf(b)
      BY <1>0, <1>b, <2>3, <2>4
    <3>2. Coming(b) <=> Coming(b)'
      <4>1. Coming(b) <=> at = Of[b] /\ b \in Keys
        BY <2>1 DEF Coming
      <4>2. Coming(b)' <=> b \in queue'
        BY <2>1 DEF Coming
      <4>3. at = Of[b] /\ b \in Keys => b \in queue'
        BY <1>0, <2>1, <2>4, <3>1 DEF ListItems, Refused
      <4> QED
        BY <2>3, <4>1, <4>2, <4>3
    <3> QED
      BY <2>1, <3>1, <3>2 DEF AccountOf
  <2>5. steady' = steady /\ ever' = ever /\ queue' \subseteq Keys /\ queue' \subseteq ever
    BY <1>0, <2>1, <2>3 DEF world
  <2> QED
    BY <1>0, <1>a, <2>1, <2>3, <2>4, <2>5 DEF Account, Reported
<1>7. ASSUME NEW c \in Items, LookUpItem(c) PROVE Account'
  <2>1. /\ pc \in {"apps", "keys"} /\ c \in queue /\ queue' = queue \ {c}
        /\ UNCHANGED <<world, pc, todo, left, at>>
    BY <1>7 DEF LookUpItem
  <2>2. \/ rows' = [rows EXCEPT ![c] = @ + 1] /\ UNCHANGED <<errs, lost>>
        \/ rows' = rows /\ errs' = TRUE /\ lost' = lost \union {c}
    BY <1>7 DEF LookUpItem, ItemFailed, Refused
  <2>3. ASSUME NEW b \in steady \ lost' PROVE AccountOf(b)'
    <3>1. b \in Items /\ AccountOf(b) /\ rows[b] \in Nat /\ left[Of[b]] \in Nat
      BY <1>0, <1>b, <2>2, <2>3
    <3>2. CASE b = c
      <4>1. Coming(b) /\ ~Coming(b)'
        BY <1>0, <1>a, <2>1, <3>2 DEF Coming
      <4>2. rows'[b] = rows[b] + 1
        BY <1>0, <2>2, <2>3, <3>2
      <4> QED
        BY <2>1, <3>1, <4>1, <4>2 DEF AccountOf
    <3>3. CASE b # c
      <4>1. Coming(b)' <=> Coming(b)
        BY <2>1, <3>3 DEF Coming
      <4>2. rows'[b] = rows[b]
        BY <1>0, <2>2, <3>1, <3>3
      <4> QED
        BY <2>1, <3>1, <4>1, <4>2 DEF AccountOf
    <3> QED
      BY <3>2, <3>3
  <2>4. \A b \in Items : rows'[b] > 0 => b \in ever
    BY <1>0, <1>a, <2>1, <2>2
  <2>5. steady' = steady /\ ever' = ever
    BY <2>1 DEF world
  <2> QED
    BY <1>0, <1>a, <2>1, <2>2, <2>3, <2>4, <2>5 DEF Account, Reported
<1>8. CASE Return
  <2>1. /\ pc \in {"instances", "keys"} /\ todo = {} /\ queue = {} /\ \A i \in Instances : left[i] = 0
        /\ pc' \in Ended /\ UNCHANGED <<world, todo, left, at, queue, rows, errs, lost>>
    BY <1>8 DEF Return, Report, Ready
  <2>2. (pc' # "failed" => ~errs) /\ (pc' = "nothing" => \A b \in Items : rows[b] = 0)
    BY <1>8 DEF Return, Report
  <2>3. ASSUME NEW b \in steady \ lost PROVE AccountOf(b)'
    <3>1. b \in Items /\ AccountOf(b) /\ left[Of[b]] = 0 /\ rows[b] \in Nat
      BY <1>0, <1>b, <2>1, <2>3
    <3>2. rows[b] = 1
      BY <2>1, <3>1 DEF AccountOf, Coming
    <3> QED
      BY <2>1, <3>2 DEF AccountOf
  <2>4. steady' = steady /\ ever' = ever
    BY <2>1 DEF world
  <2> QED
    BY <1>0, <1>a, <2>1, <2>2, <2>3, <2>4 DEF Account, Reported
<1> QED
  BY <1>2, <1>3, <1>4, <1>5, <1>6, <1>7, <1>8 DEF FindBindings

\* The account is kept throughout.
LEMMA AccountInvariance == Spec => [](TypeOK /\ Account)
<1>1. Init => Account
  BY DEF Init, Account, AccountOf, Reported
<1> QED
  BY <1>1, FindTypes, OthersAccount, FinderAccount, PTL DEF Spec, Next

\* What is printed has one row for each binding that was there all along.
THEOREM ReportsAreExact == Spec => []ReportExact
<1>1. TypeOK /\ Account => ReportExact
  <2> SUFFICES ASSUME TypeOK, Account, Reported, NEW b \in Items
               PROVE  (b \in steady => Shown(b) = 1) /\ (b \notin ever => Shown(b) = 0)
    BY DEF ReportExact
  <2>1. lost = {} /\ (b \in steady => AccountOf(b)) /\ (b \notin ever => ~(rows[b] > 0)) /\ rows[b] \in Nat
    BY DEF Account, TypeOK
  <2>2. Shown(b) = rows[b]
    BY DEF Shown, Reported, Account
  <2> QED
    BY <2>1, <2>2 DEF AccountOf, Reported
<1> QED
  BY <1>1, AccountInvariance, PTL

\* A failure hides nothing but what it was about.
THEOREM FailuresAreContained == Spec => []OthersSurvive
<1>1. Account => OthersSurvive
  BY DEF Account, AccountOf, OthersSurvive
<1> QED
  BY <1>1, AccountInvariance, PTL
=============================================================================
