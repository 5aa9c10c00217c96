-------------------------- MODULE JitEngineProofs --------------------------
(***************************************************************************)
(* JitEngine for any number of mutators, functions and thresholds: the     *)
(* queue mutex is exclusive although it is only ever tried, the queue      *)
(* keeps its bound, and a registration is enqueued at most once.           *)
(***************************************************************************)
EXTENDS JitEngine, TLAPS

Inv == TypeOK /\ QueueExclusive /\ QueueBounded

LEMMA InitInv == Init => Inv
  BY EngineAssumption
     DEF Init, Inv, TypeOK, QueueExclusive, QueueBounded, Pcs

LEMMA NextInv == Inv /\ [Next]_vars => Inv'
<1> SUFFICES ASSUME Inv, [Next]_vars PROVE Inv'
  OBVIOUS
<1> USE EngineAssumption
    DEF Inv, TypeOK, QueueExclusive, QueueBounded, Pcs, Go, entryVars, queueVars
<1>1. ASSUME NEW f \in Functions, NEW n \in Thresholds, RegisterFunction(f, n)
      PROVE  Inv'
  BY <1>1 DEF RegisterFunction
<1>2. ASSUME NEW f \in Functions, InstallJitted(f) PROVE Inv'
  BY <1>2 DEF InstallJitted
<1>3. ASSUME NEW t \in Mutators, NEW f \in Functions, CountCall(t, f)
      PROVE  Inv'
  <2>1. invocations' \in [Functions -> Nat]
    BY <1>3 DEF CountCall
  <2>2. CASE pc' = [pc EXCEPT ![t] = "trylock"] /\ fn' = [fn EXCEPT ![t] = f]
    BY <1>3, <2>1, <2>2 DEF CountCall
  <2>3. CASE pc' = pc /\ fn' = fn
    BY <1>3, <2>1, <2>3 DEF CountCall
  <2>4. QED
    BY <1>3, <2>2, <2>3 DEF CountCall
<1>4. ASSUME NEW t \in Mutators, TryLock(t) PROVE Inv'
  BY <1>4 DEF TryLock
<1>5. ASSUME NEW t \in Mutators, CheckRoom(t) PROVE Inv'
  BY <1>5 DEF CheckRoom
<1>6. ASSUME NEW t \in Mutators, PushJob(t) PROVE Inv'
  <2>1. [fn |-> fn[t], jitted |-> jitted[fn[t]], reg |-> registered[fn[t]]]
          \in Job
    BY <1>6 DEF PushJob, Job
  <2>2. /\ pending' \in Seq(Job)
        /\ Len(pending') = Len(pending) + 1
    BY <1>6, <2>1 DEF PushJob
  <2>3. QueueBounded'
    BY <1>6, <2>2 DEF PushJob
  <2>4. QueueExclusive'
    BY <1>6 DEF PushJob
  <2>5. TypeOK'
    BY <1>6, <2>2 DEF PushJob
  <2>6. QED
    BY <2>3, <2>4, <2>5
<1>7. ASSUME NEW t \in Mutators, SkipJob(t) PROVE Inv'
  BY <1>7 DEF SkipJob
<1>8. ASSUME NEW t \in Mutators, Unlock(t) PROVE Inv'
  BY <1>8 DEF Unlock
<1>9. ASSUME NEW t \in Mutators, CountStarted(t) PROVE Inv'
  BY <1>9 DEF CountStarted
<1>10. CASE UNCHANGED vars
  BY <1>10 DEF vars
<1>11. QED
  BY <1>1, <1>2, <1>3, <1>4, <1>5, <1>6, <1>7, <1>8, <1>9, <1>10
     DEF Next, OnCallStep

\* The engine's state keeps its shape, and a mutator in on_call always knows
\* its function (JitEngine.cpp:36-62).
THEOREM TypeCorrect == Spec => []TypeOK
<1>1. Inv => TypeOK
  BY DEF Inv
<1>2. QED
  BY InitInv, NextInv, <1>1, PTL DEF Spec

\* pending_ never holds more than kMaxPendingJobs jobs, however many mutators
\* cross a threshold at once (JitEngine.cpp:47-50).
THEOREM QueueIsBounded == Spec => []QueueBounded
<1>1. Inv => QueueBounded
  BY DEF Inv
<1>2. QED
  BY InitInv, NextInv, <1>1, PTL DEF Spec

-----------------------------------------------------------------------------
(* At most one job per registration.  A mutator past fetch_add with the     *)
(* threshold count is the only one of its registration: the counter of the  *)
(* entry has reached the threshold, and only the increment that reaches it  *)
(* exactly triggers.                                                        *)

\* Mutators between the crossing and the push of the job.
Crossing(t) == pc[t] \in {"trylock", "check", "push"}

\* The entry of function f has had its crossing.
Crossed(f) == invocations[f] >= threshold[f] /\ registered[f] > 0

OneCrossing ==
  /\ \A t \in Mutators : Crossing(t) => Crossed(fn[t])
  /\ \A t, u \in Mutators :
       Crossing(t) /\ Crossing(u) /\ fn[t] = fn[u] => t = u
  /\ \A i \in DOMAIN pending :
       /\ pending[i].reg <= registered[pending[i].fn]
       /\ pending[i].reg = registered[pending[i].fn] =>
            /\ Crossed(pending[i].fn)
            /\ \A t \in Mutators : Crossing(t) => fn[t] # pending[i].fn

LEMMA InitOneCrossing == Init => OneCrossing /\ OneJobPerRegistration
  BY DEF Init, OneCrossing, Crossing, OneJobPerRegistration

LEMMA NextOneCrossing ==
  Inv /\ OneCrossing /\ OneJobPerRegistration /\ [Next]_vars
    => OneCrossing' /\ OneJobPerRegistration'
<1> SUFFICES ASSUME Inv, OneCrossing, OneJobPerRegistration, [Next]_vars
             PROVE  OneCrossing' /\ OneJobPerRegistration'
  OBVIOUS
<1>0. \A i \in DOMAIN pending :
        pending[i].fn \in Functions /\ pending[i].reg \in Nat
  <2>1. pending \in Seq(Job)
    BY DEF Inv, TypeOK
  <2>2. \A i \in DOMAIN pending :
          pending[i] \in Job
    BY <2>1
  <2>3. QED
    BY <2>2 DEF Job
<1>t. /\ registered \in [Functions -> Nat]
      /\ invocations \in [Functions -> Nat]
      /\ threshold \in [Functions -> Nat]
      /\ pc \in [Mutators -> Pcs]
      /\ fn \in [Mutators -> Functions \cup {NoFunction}]
      /\ \A t \in Mutators : pc[t] # "idle" => fn[t] \in Functions
  BY DEF Inv, TypeOK
<1> USE <1>t DEF Pcs, Go, entryVars, queueVars,
        OneCrossing, Crossing, Crossed, OneJobPerRegistration
<1>1. ASSUME NEW f \in Functions, NEW n \in Thresholds, RegisterFunction(f, n)
      PROVE  OneCrossing' /\ OneJobPerRegistration'
  <2>1. pending' = pending /\ pc' = pc /\ fn' = fn
    BY <1>1 DEF RegisterFunction
  <2>2. \A t \in Mutators : ~Crossing(t)
    BY <1>1 DEF RegisterFunction
  <2>3. \A i \in DOMAIN pending :
          pending[i].fn = f => pending[i].reg < registered'[f]
    BY <1>0, <1>1 DEF RegisterFunction
  <2>4. \A g \in Functions \ {f} :
          /\ registered'[g] = registered[g]
          /\ invocations'[g] = invocations[g]
          /\ threshold'[g] = threshold[g]
    BY <1>1 DEF RegisterFunction
  <2>5. registered'[f] \in Nat
    BY <1>1 DEF RegisterFunction
  <2>6. QED
    BY <1>0, <2>1, <2>2, <2>3, <2>4, <2>5
<1>2. ASSUME NEW f \in Functions, InstallJitted(f)
      PROVE  OneCrossing' /\ OneJobPerRegistration'
  BY <1>2 DEF InstallJitted
<1>3. ASSUME NEW t \in Mutators, NEW f \in Functions, CountCall(t, f)
      PROVE  OneCrossing' /\ OneJobPerRegistration'
  <2>1. /\ pending' = pending /\ registered' = registered
        /\ threshold' = threshold
        /\ invocations' = [invocations EXCEPT ![f] = @ + 1]
    BY <1>3 DEF CountCall
  <2>2. \A g \in Functions : Crossed(g) => Crossed(g)'
    BY <2>1
  <2>3. CASE invocations[f] + 1 = threshold[f]
    <3>1. ~Crossed(f) /\ Crossed(f)'
      BY <1>3, <2>1, <2>3 DEF CountCall
    <3>2. pc' = [pc EXCEPT ![t] = "trylock"] /\ fn' = [fn EXCEPT ![t] = f]
      BY <1>3, <2>3 DEF CountCall
    <3>3. \A u \in Mutators : Crossing(u) => fn[u] # f
      BY <3>1
    <3>4. \A i \in DOMAIN pending :
            pending[i].fn = f => pending[i].reg # registered[f]
      BY <3>1
    <3>5. QED
      BY <1>0, <2>1, <2>2, <3>1, <3>2, <3>3, <3>4
  <2>4. CASE invocations[f] + 1 # threshold[f]
    <3>1. pc' = pc /\ fn' = fn
      BY <1>3, <2>4 DEF CountCall
    <3>2. QED
      BY <1>0, <2>1, <2>2, <3>1
  <2>5. QED
    BY <2>3, <2>4
<1>4. ASSUME NEW t \in Mutators, TryLock(t)
      PROVE  OneCrossing' /\ OneJobPerRegistration'
  <2>1. UNCHANGED <<registered, invocations, threshold, pending, fn>>
    BY <1>4 DEF TryLock
  <2>2. \A u \in Mutators : Crossing(u)' => Crossing(u)
    BY <1>4 DEF TryLock
  <2>3. QED
    BY <2>1, <2>2
<1>5. ASSUME NEW t \in Mutators, CheckRoom(t)
      PROVE  OneCrossing' /\ OneJobPerRegistration'
  BY <1>5 DEF CheckRoom
<1>6. ASSUME NEW t \in Mutators, PushJob(t)
      PROVE  OneCrossing' /\ OneJobPerRegistration'
  <2> DEFINE job == [fn |-> fn[t], jitted |-> jitted[fn[t]],
                     reg |-> registered[fn[t]]]
             n == Len(pending)
  <2>1. /\ pending' = Append(pending, job)
        /\ pc' = [pc EXCEPT ![t] = "unlock"]
        /\ UNCHANGED <<registered, invocations, threshold, fn>>
    BY <1>6 DEF PushJob
  <2>2. job \in Job
    <3>1. fn[t] \in Functions
      BY <1>6 DEF PushJob
    <3>2. jitted[fn[t]] \in BOOLEAN /\ registered[fn[t]] \in Nat
      BY <3>1 DEF Inv, TypeOK
    <3>3. QED
      BY <3>1, <3>2 DEF Job
  <2>4. job.fn = fn[t] /\ job.reg = registered[fn[t]]
    OBVIOUS
  <2>5. pc[t] = "push" /\ Crossing(t) /\ Crossed(fn[t]) /\ fn[t] \in Functions
    <3>1. pc[t] = "push"
      BY <1>6 DEF PushJob
    <3>2. QED
      BY <3>1
  <2> HIDE DEF job
  <2>a. pending \in Seq(Job)
    BY DEF Inv, TypeOK
  <2>3. /\ n \in Nat /\ DOMAIN pending = 1..n
        /\ DOMAIN pending' = 1..(n + 1)
        /\ \A i \in 1..n : pending'[i] = pending[i]
        /\ pending'[n + 1] = job
    BY <2>1, <2>2, <2>a
  <2> HIDE DEF n
  <2>6. \A i \in 1..n : pending[i].fn = fn[t] => pending[i].reg # job.reg
    <3>1. SUFFICES ASSUME NEW i \in 1..n, pending[i].fn = fn[t],
                          pending[i].reg = job.reg
                   PROVE  FALSE
      OBVIOUS
    <3>2. i \in DOMAIN pending
      BY <2>3
    <3>3. pending[i].reg = registered[pending[i].fn]
      BY <2>4, <3>1
    <3>4. \A u \in Mutators : Crossing(u) => fn[u] # pending[i].fn
      BY <3>2, <3>3
    <3>5. QED
      BY <2>5, <3>1, <3>4
  <2>7. OneJobPerRegistration'
    <3>1. SUFFICES ASSUME NEW i \in 1..(n + 1), NEW j \in 1..(n + 1),
                          pending'[i].fn = pending'[j].fn,
                          pending'[i].reg = pending'[j].reg
                   PROVE  i = j
      BY <2>3
    <3>2. CASE i \in 1..n /\ j \in 1..n
      BY <2>3, <3>1, <3>2
    <3>3. CASE i = n + 1 /\ j \in 1..n
      BY <2>3, <2>4, <2>6, <3>1, <3>3
    <3>4. CASE j = n + 1 /\ i \in 1..n
      BY <2>3, <2>4, <2>6, <3>1, <3>4
    <3>5. QED
      BY <2>3, <3>1, <3>2, <3>3, <3>4
  <2>8. \A u \in Mutators : Crossing(u)' => u # t /\ Crossing(u) /\ fn[u] # fn[t]
    BY <2>1, <2>5
  <2>9. OneCrossing'
    <3>1. \A i \in 1..(n + 1) :
            /\ pending'[i].reg <= registered[pending'[i].fn]
            /\ pending'[i].reg = registered[pending'[i].fn] =>
                 /\ Crossed(pending'[i].fn)
                 /\ \A u \in Mutators : Crossing(u)' => fn[u] # pending'[i].fn
      <4>1. SUFFICES ASSUME NEW i \in 1..(n + 1)
                     PROVE /\ pending'[i].reg <= registered[pending'[i].fn]
                           /\ pending'[i].reg = registered[pending'[i].fn] =>
                                /\ Crossed(pending'[i].fn)
                                /\ \A u \in Mutators :
                                     Crossing(u)' => fn[u] # pending'[i].fn
        OBVIOUS
      <4>2. CASE i \in 1..n
        <5>1. i \in DOMAIN pending /\ pending'[i] = pending[i]
          BY <2>3, <4>2
        <5>2. /\ pending[i].reg <= registered[pending[i].fn]
              /\ pending[i].reg = registered[pending[i].fn] =>
                   /\ Crossed(pending[i].fn)
                   /\ \A u \in Mutators : Crossing(u) => fn[u] # pending[i].fn
          BY <5>1
        <5>3. QED
          BY <2>8, <5>1, <5>2
      <4>3. CASE i = n + 1
        <5>1. registered[fn[t]] \in Nat
          BY <2>5
        <5>2. QED
          BY <2>3, <2>4, <2>5, <2>8, <4>3, <5>1
      <4>4. QED
        BY <2>3, <4>1, <4>2, <4>3
    <3>2. QED
      BY <2>1, <2>3, <2>8, <3>1
  <2>10. QED
    BY <2>7, <2>9
<1>7. ASSUME NEW t \in Mutators, SkipJob(t) \/ Unlock(t)
      PROVE  OneCrossing' /\ OneJobPerRegistration'
  BY <1>7 DEF SkipJob, Unlock
<1>8. ASSUME NEW t \in Mutators, CountStarted(t)
      PROVE  OneCrossing' /\ OneJobPerRegistration'
  BY <1>8 DEF CountStarted
<1>9. CASE UNCHANGED vars
  BY <1>9 DEF vars
<1>10. QED
  BY <1>1, <1>2, <1>3, <1>4, <1>5, <1>6, <1>7, <1>8, <1>9 DEF Next, OnCallStep

\* Exactly one fetch_add returns the threshold, so concurrent callers enqueue a
\* function at most once for each time it was registered (JitEngine.cpp:40-52).
THEOREM OneJobPerRegistrationHolds == Spec => []OneJobPerRegistration
<1>1. QED
  BY InitInv, NextInv, InitOneCrossing, NextOneCrossing, PTL DEF Spec
=============================================================================
