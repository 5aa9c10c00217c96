--------------------------- MODULE ChannelProofs ---------------------------
(***************************************************************************)
(* Channel for any finite sets of producers and consumers: its type and    *)
(* lock discipline, the absence of lost wake-ups, and the refinement of    *)
(* the atomic FIFO of AbsChannel.                                          *)
(***************************************************************************)
EXTENDS Channel, FiniteSetTheorems, TLAPS

\* The two facts every step relies on: the ranges of the variables, and that
\* the code between lock and unlock runs in one thread at a time.
Inv == TypeOK /\ LockDiscipline

LEMMA InitInv == Init => Inv
  BY ThreadsAssumption, BoundsAssumption
     DEF Init, Inv, TypeOK, LockDiscipline, InCritical, Threads, SendPcs, RecvPcs

LEMMA NextInv == Inv /\ [Next]_vars => Inv'
<1> SUFFICES ASSUME Inv, [Next]_vars PROVE Inv'
  OBVIOUS
<1> USE ThreadsAssumption DEF Inv, TypeOK, LockDiscipline, InCritical, Threads,
        SendPcs, RecvPcs
<1>1. ASSUME NEW p \in Producers, SendLock(p) PROVE Inv'
  BY <1>1 DEF SendLock, Acquire
<1>2. ASSUME NEW p \in Producers, SendPush(p) PROVE Inv'
  BY <1>2 DEF SendPush, Abs!Value
<1>3. ASSUME NEW p \in Producers, SendNotify(p) PROVE Inv'
  BY <1>3 DEF SendNotify
<1>4. ASSUME NEW t \in Threads, Release(t) PROVE Inv'
  BY <1>4 DEF Release
<1>5. ASSUME NEW c \in Consumers, RecvLock(c) PROVE Inv'
  BY <1>5 DEF RecvLock, Acquire
<1>6. ASSUME NEW c \in Consumers, RecvReady(c) PROVE Inv'
  BY <1>6 DEF RecvReady
<1>7. ASSUME NEW c \in Consumers, RecvWait(c) PROVE Inv'
  BY <1>7 DEF RecvWait
<1>8. ASSUME NEW c \in Consumers, SpuriousWake(c) PROVE Inv'
  BY <1>8 DEF SpuriousWake
<1>9. ASSUME NEW c \in Consumers, RecvRelock(c) PROVE Inv'
  BY <1>9 DEF RecvRelock, Acquire
<1>10. ASSUME NEW c \in Consumers, RecvTake(c) PROVE Inv'
  <2>1. /\ queue # << >>
        /\ Head(queue) \in Producers \X Nat
        /\ Tail(queue) \in Seq(Producers \X Nat)
    BY <1>10 DEF RecvTake
  <2>2. queue' \in Seq(Producers \X Nat)
    BY <1>10, <2>1 DEF RecvTake
  <2>3. Append(got[c], Head(queue)) \in Seq(Producers \X Nat)
    BY <2>1
  <2>4. got' \in [Consumers -> Seq(Producers \X Nat)]
    BY <1>10, <2>3 DEF RecvTake
  <2>5. pc' = [pc EXCEPT ![c] = "unlock"] /\ UNCHANGED <<m, waiting, sent, spurious>>
    BY <1>10 DEF RecvTake
  <2>6. \A d \in Consumers : pc[d] = "take" => d = c
    BY <1>10 DEF RecvTake
  <2>7. LockDiscipline'
    BY <1>10, <2>5, <2>6 DEF RecvTake
  <2>8. TypeOK'
    BY <2>2, <2>4, <2>5
  <2>9. QED
    BY <2>7, <2>8
<1>11. CASE UNCHANGED vars
  BY <1>11 DEF vars
<1>12. QED
  BY <1>1, <1>2, <1>3, <1>4, <1>5, <1>6, <1>7, <1>8, <1>9, <1>10, <1>11
     DEF Next, SendStep, RecvStep

\* Every variable keeps its range (the state of channel.hpp:24-26).
THEOREM TypeCorrect == Spec => []TypeOK
<1>1. Inv => TypeOK
  BY DEF Inv
<1>2. QED
  BY InitInv, NextInv, <1>1, PTL DEF Spec

\* Only the holder of m_ is between a lock and its unlock, cv_ holds exactly
\* the threads in wait, and front() is never taken of an empty queue
\* (channel.hpp:12, 17-20).
THEOREM LockDisciplineHolds == Spec => []LockDiscipline
<1>1. Inv => LockDiscipline
  BY DEF Inv
<1>2. QED
  BY InitInv, NextInv, <1>1, PTL DEF Spec

-----------------------------------------------------------------------------
(* No lost wake-up.  The invariant counts, so each step that moves a thread *)
(* in or out of Awake or Notifying says how the cardinalities move.         *)

LEMMA AwakeFinite ==
  ASSUME Inv
  PROVE  /\ IsFiniteSet(Awake) /\ IsFiniteSet(Notifying)
         /\ Cardinality(Awake) \in Nat /\ Cardinality(Notifying) \in Nat
         /\ Len(queue) \in Nat
<1>1. Awake \in SUBSET Consumers /\ Notifying \in SUBSET Producers
  BY DEF Awake, Notifying
<1>2. IsFiniteSet(Awake) /\ IsFiniteSet(Notifying)
  BY <1>1, FS_Subset, ThreadsAssumption
<1>3. QED
  BY <1>2, FS_CardinalityType DEF Inv, TypeOK

LEMMA NextNoLostWakeup ==
  Inv /\ NoLostWakeup /\ [Next]_vars => NoLostWakeup'
<1> SUFFICES ASSUME Inv, NoLostWakeup, [Next]_vars PROVE NoLostWakeup'
  OBVIOUS
<1>0. Inv'
  BY NextInv
<1>a. /\ IsFiniteSet(Awake) /\ IsFiniteSet(Notifying)
      /\ Cardinality(Awake) \in Nat /\ Cardinality(Notifying) \in Nat
      /\ Len(queue) \in Nat
  BY AwakeFinite
<1> USE ThreadsAssumption DEF Inv, TypeOK, LockDiscipline, InCritical, Threads,
        SendPcs, RecvPcs
\* A step that moves nobody and nothing that the invariant counts.
<1>b. ASSUME Awake' = Awake, Notifying' = Notifying, queue' = queue,
             waiting' = waiting
      PROVE  NoLostWakeup'
  BY <1>b DEF NoLostWakeup
\* A step that wakes one more consumer without touching the queue.
<1>c. ASSUME NEW c, c \notin Awake, Awake' = Awake \cup {c},
             Notifying' = Notifying, queue' = queue,
             waiting' \subseteq waiting
      PROVE  NoLostWakeup'
  <2>1. Cardinality(Awake') = Cardinality(Awake) + 1
    BY <1>a, <1>c, FS_AddElement
  <2>2. QED
    BY <1>a, <1>c, <2>1 DEF NoLostWakeup
<1>1. ASSUME NEW p \in Producers, SendLock(p) PROVE NoLostWakeup'
  BY <1>1, <1>b DEF SendLock, Acquire, Awake, Notifying
<1>2. ASSUME NEW p \in Producers, SendPush(p) PROVE NoLostWakeup'
  <2>1. Awake' = Awake
    BY <1>2 DEF SendPush, Awake
  <2>2. p \notin Notifying /\ Notifying' = Notifying \cup {p}
    BY <1>2 DEF SendPush, Notifying
  <2>3. Cardinality(Notifying') = Cardinality(Notifying) + 1
    BY <1>a, <2>2, FS_AddElement
  <2>4. Len(queue') = Len(queue) + 1 /\ waiting' = waiting
    BY <1>2 DEF SendPush, Abs!Value
  <2> HIDE DEF Inv
  <2>5. QED
    BY <1>a, <2>1, <2>3, <2>4 DEF NoLostWakeup
<1>3. ASSUME NEW p \in Producers, SendNotify(p) PROVE NoLostWakeup'
  <2>1. CASE waiting = {} /\ waiting' = waiting
    BY <2>1 DEF NoLostWakeup
  <2>2. ASSUME NEW c \in waiting, waiting' = waiting \ {c},
               pc' = [pc EXCEPT ![p] = "unlock", ![c] = "relock"]
        PROVE  NoLostWakeup'
    <3>1. c \in Consumers /\ c \notin Awake /\ c # p
      BY DEF Awake
    <3>2. Awake' = Awake \cup {c}
      BY <1>3, <2>2, <3>1 DEF SendNotify, Awake
    <3>3. p \in Notifying /\ Notifying' = Notifying \ {p}
      BY <1>3, <2>2, <3>1 DEF SendNotify, Notifying
    <3>4. /\ Cardinality(Awake') = Cardinality(Awake) + 1
          /\ Cardinality(Notifying') = Cardinality(Notifying) - 1
      BY <1>a, <3>1, <3>2, <3>3, FS_AddElement, FS_RemoveElement
    <3>5. queue' = queue
      BY <1>3 DEF SendNotify
    <3>6. QED
      BY <1>a, <2>2, <3>4, <3>5 DEF NoLostWakeup
  <2>3. QED
    BY <1>3, <2>1, <2>2 DEF SendNotify
<1>4. ASSUME NEW t \in Threads, Release(t) PROVE NoLostWakeup'
  BY <1>4, <1>b DEF Release, Awake, Notifying
<1>5. ASSUME NEW c \in Consumers, RecvLock(c) PROVE NoLostWakeup'
  <2>1. c \notin Awake /\ Awake' = Awake \cup {c} /\ Notifying' = Notifying
    BY <1>5 DEF RecvLock, Acquire, Awake, Notifying
  <2>2. QED
    BY <1>5, <1>c, <2>1 DEF RecvLock
<1>6. ASSUME NEW c \in Consumers, RecvReady(c) PROVE NoLostWakeup'
  <2>1. Awake' = Awake /\ Notifying' = Notifying
    BY <1>6 DEF RecvReady, Awake, Notifying
  <2>2. QED
    BY <1>6, <1>b, <2>1 DEF RecvReady
<1>7. ASSUME NEW c \in Consumers, RecvWait(c) PROVE NoLostWakeup'
  <2>1. Len(queue') = 0
    BY <1>7 DEF RecvWait
  <2>2. Cardinality(Awake') \in Nat /\ Cardinality(Notifying') \in Nat
    <3>1. Awake' \in SUBSET Consumers /\ Notifying' \in SUBSET Producers
      BY DEF Awake, Notifying
    <3>2. QED
      BY <3>1, FS_Subset, FS_CardinalityType
  <2>3. QED
    BY <2>1, <2>2 DEF NoLostWakeup
<1>8. ASSUME NEW c \in Consumers, SpuriousWake(c) PROVE NoLostWakeup'
  <2>1. c \notin Awake /\ Awake' = Awake \cup {c} /\ Notifying' = Notifying
    BY <1>8 DEF SpuriousWake, Awake, Notifying
  <2>2. QED
    BY <1>8, <1>c, <2>1 DEF SpuriousWake
<1>9. ASSUME NEW c \in Consumers, RecvRelock(c) PROVE NoLostWakeup'
  <2>1. Awake' = Awake /\ Notifying' = Notifying
    BY <1>9 DEF RecvRelock, Acquire, Awake, Notifying
  <2>2. QED
    BY <1>9, <1>b, <2>1 DEF RecvRelock
<1>10. ASSUME NEW c \in Consumers, RecvTake(c) PROVE NoLostWakeup'
  <2>1. c \in Awake /\ Awake' = Awake \ {c} /\ Notifying' = Notifying
    BY <1>10 DEF RecvTake, Awake, Notifying
  <2>2. Cardinality(Awake') = Cardinality(Awake) - 1
    BY <1>a, <2>1, FS_RemoveElement
  <2>3. queue # << >> /\ queue' = Tail(queue) /\ waiting' = waiting
    BY <1>10 DEF RecvTake
  <2>4. Len(queue') = Len(queue) - 1
    BY <2>3
  <2>5. QED
    BY <1>a, <2>1, <2>2, <2>3, <2>4 DEF NoLostWakeup
<1>11. CASE UNCHANGED vars
  <2>1. Awake' = Awake /\ Notifying' = Notifying
    BY <1>11 DEF vars, Awake, Notifying
  <2>2. QED
    BY <1>11, <1>b, <2>1 DEF vars
<1>12. QED
  BY <1>1, <1>2, <1>3, <1>4, <1>5, <1>6, <1>7, <1>8, <1>9, <1>10, <1>11
     DEF Next, SendStep, RecvStep

\* While a consumer sleeps, every queued value has a consumer already awake
\* for it or a producer about to notify (channel.hpp:11-22).
THEOREM NoWakeupIsLost == Spec => []NoLostWakeup
<1>1. Init => NoLostWakeup
  BY DEF Init, NoLostWakeup
<1>2. QED
  BY InitInv, NextInv, NextNoLostWakeup, <1>1, PTL DEF Spec

-----------------------------------------------------------------------------
(* Refinement: SendPush is AbsSend, RecvTake is AbsRecv, the rest stutters. *)

LEMMA NextImplements == Inv /\ [Next]_vars => [Abs!AbsNext]_(Abs!absVars)
<1> SUFFICES ASSUME Inv, [Next]_vars PROVE [Abs!AbsNext]_(Abs!absVars)
  OBVIOUS
<1>1. ASSUME NEW p \in Producers, SendPush(p) PROVE Abs!AbsSend(p)
  BY <1>1 DEF SendPush, Abs!AbsSend
<1>2. ASSUME NEW c \in Consumers, RecvTake(c) PROVE Abs!AbsRecv(c)
  <2>1. queue # << >>
    BY <1>2 DEF RecvTake, Inv, LockDiscipline
  <2>2. QED
    BY <1>2, <2>1 DEF RecvTake, Abs!AbsRecv
<1>3. ASSUME NEW p \in Producers, SendLock(p) \/ SendNotify(p) \/ Release(p)
      PROVE  UNCHANGED Abs!absVars
  BY <1>3 DEF SendLock, SendNotify, Release, Abs!absVars
<1>4. ASSUME NEW c \in Consumers,
             \/ RecvLock(c) \/ RecvReady(c) \/ RecvWait(c) \/ RecvRelock(c)
             \/ Release(c) \/ SpuriousWake(c)
      PROVE  UNCHANGED Abs!absVars
  BY <1>4 DEF RecvLock, RecvReady, RecvWait, RecvRelock, Release, SpuriousWake,
              Abs!absVars
<1>5. CASE UNCHANGED vars
  BY <1>5 DEF vars, Abs!absVars
<1>6. QED
  BY <1>1, <1>2, <1>3, <1>4, <1>5 DEF Next, SendStep, RecvStep, Abs!AbsNext

\* The mutex-and-condvar channel behaves as one atomic FIFO queue: a push is
\* the abstract send, a pop the abstract receive (channel.hpp:11-22).
THEOREM Refinement == Spec => ImplementsFifo
<1>1. Init => Abs!AbsInit
  BY DEF Init, Abs!AbsInit
<1>2. QED
  BY InitInv, NextInv, NextImplements, <1>1, PTL DEF Spec, ImplementsFifo, Abs!AbsSpec
=============================================================================
