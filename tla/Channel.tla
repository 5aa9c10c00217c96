------------------------------ MODULE Channel ------------------------------
(***************************************************************************)
(* Channel<T> of runtime/sync: an unbounded queue behind one std::mutex    *)
(* and one condition variable.  send holds the mutex across the push and   *)
(* the notify_one; recv waits for the predicate "queue not empty", which   *)
(* releases the mutex and joins the wait set in one step, and re-acquires  *)
(* the mutex before the predicate is evaluated again.  Wake-ups may be     *)
(* spurious and the mutex may be taken by any thread that asks for it.     *)
(***************************************************************************)
EXTENDS Naturals, Sequences, FiniteSets

CONSTANTS
  Producers,      \* threads that call send
  Consumers,      \* threads that call recv
  NoThread,       \* "the mutex is free"
  MaxSends,       \* bound: calls of send per producer
  MaxSpurious     \* bound: spurious wake-ups in a behaviour

Threads == Producers \cup Consumers

ASSUME ThreadsAssumption ==
  /\ IsFiniteSet(Producers) /\ IsFiniteSet(Consumers)
  /\ Producers \cap Consumers = {}
  /\ NoThread \notin Threads

ASSUME BoundsAssumption == MaxSends \in Nat /\ MaxSpurious \in Nat

VARIABLES
  pc,         \* pc[t]: where thread t is in send or recv
  m,          \* m_: the thread that holds the mutex, or NoThread
  waiting,    \* cv_: the threads blocked in cv_.wait
  queue,      \* queue_
  sent,       \* sent[p]: values producer p has pushed
  got,        \* got[c]: values consumer c has taken, in order
  spurious    \* spurious wake-ups so far

vars == <<pc, m, waiting, queue, sent, got, spurious>>

SendPcs == {"idle", "push", "notify", "unlock"}
RecvPcs == {"idle", "test", "wait", "relock", "take", "unlock"}

Abs == INSTANCE AbsChannel

Init ==
  /\ pc = [t \in Threads |-> "idle"]
  /\ m = NoThread
  /\ waiting = {}
  /\ queue = << >>
  /\ sent = [p \in Producers |-> 0]
  /\ got = [c \in Consumers |-> << >>]
  /\ spurious = 0

-----------------------------------------------------------------------------
(* std::mutex and the scoped locks around it.                              *)

Acquire(t, from, to) ==
  /\ pc[t] = from
  /\ m = NoThread
  /\ m' = t
  /\ pc' = [pc EXCEPT ![t] = to]

Release(t) ==
  /\ pc[t] = "unlock"
  /\ m = t
  /\ m' = NoThread
  /\ pc' = [pc EXCEPT ![t] = "idle"]
  /\ UNCHANGED <<waiting, queue, sent, got, spurious>>

-----------------------------------------------------------------------------
(* send: lock_guard, push, notify_one, unlock.                             *)

SendLock(p) ==
  /\ sent[p] < MaxSends
  /\ Acquire(p, "idle", "push")
  /\ UNCHANGED <<waiting, queue, sent, got, spurious>>

\* Mutant: the value goes to the front of the queue.
SendPushFront(p) ==
  /\ pc[p] = "push"
  /\ queue' = <<Abs!Value(p, sent[p] + 1)>> \o queue
  /\ sent' = [sent EXCEPT ![p] = @ + 1]
  /\ pc' = [pc EXCEPT ![p] = "notify"]
  /\ UNCHANGED <<m, waiting, got, spurious>>

SendPush(p) ==
  /\ pc[p] = "push"
  /\ queue' = Append(queue, Abs!Value(p, sent[p] + 1))
  /\ sent' = [sent EXCEPT ![p] = @ + 1]
  /\ pc' = [pc EXCEPT ![p] = "notify"]
  /\ UNCHANGED <<m, waiting, got, spurious>>

\* Mutant: only the push that makes the queue non-empty notifies.
SendNotifyFirst(p) ==
  /\ pc[p] = "notify"
  /\ \/ /\ waiting = {} \/ Len(queue) > 1
        /\ waiting' = waiting
        /\ pc' = [pc EXCEPT ![p] = "unlock"]
     \/ \E c \in waiting :
          /\ Len(queue) = 1
          /\ waiting' = waiting \ {c}
          /\ pc' = [pc EXCEPT ![p] = "unlock", ![c] = "relock"]
  /\ UNCHANGED <<m, queue, sent, got, spurious>>

\* Mutant: send never notifies.
SendNotifyNobody(p) ==
  /\ pc[p] = "notify"
  /\ pc' = [pc EXCEPT ![p] = "unlock"]
  /\ UNCHANGED <<m, waiting, queue, sent, got, spurious>>

\* notify_one wakes one waiter when there is one and is a no-op otherwise.
SendNotify(p) ==
  /\ pc[p] = "notify"
  /\ \/ /\ waiting = {}
        /\ waiting' = waiting
        /\ pc' = [pc EXCEPT ![p] = "unlock"]
     \/ \E c \in waiting :
          /\ waiting' = waiting \ {c}
          /\ pc' = [pc EXCEPT ![p] = "unlock", ![c] = "relock"]
  /\ UNCHANGED <<m, queue, sent, got, spurious>>

-----------------------------------------------------------------------------
(* recv: unique_lock, cv_.wait(lk, predicate), front, pop, unlock.         *)

RecvLock(c) ==
  /\ Acquire(c, "idle", "test")
  /\ UNCHANGED <<waiting, queue, sent, got, spurious>>

\* The predicate holds: leave the wait loop with the mutex held.
RecvReady(c) ==
  /\ pc[c] = "test"
  /\ queue # << >>
  /\ pc' = [pc EXCEPT ![c] = "take"]
  /\ UNCHANGED <<m, waiting, queue, sent, got, spurious>>

\* It does not: release the mutex and join the wait set, atomically.
RecvWait(c) ==
  /\ pc[c] = "test"
  /\ queue = << >>
  /\ m' = NoThread
  /\ waiting' = waiting \cup {c}
  /\ pc' = [pc EXCEPT ![c] = "wait"]
  /\ UNCHANGED <<queue, sent, got, spurious>>

SpuriousWake(c) ==
  /\ c \in waiting
  /\ spurious < MaxSpurious
  /\ waiting' = waiting \ {c}
  /\ pc' = [pc EXCEPT ![c] = "relock"]
  /\ spurious' = spurious + 1
  /\ UNCHANGED <<m, queue, sent, got>>

\* Mutant: wait is guarded by an if, not a loop: no second test.
RecvRelockNoTest(c) ==
  /\ Acquire(c, "relock", "take")
  /\ UNCHANGED <<waiting, queue, sent, got, spurious>>

\* A woken thread queues for the mutex like any other, then tests again.
RecvRelock(c) ==
  /\ Acquire(c, "relock", "test")
  /\ UNCHANGED <<waiting, queue, sent, got, spurious>>

RecvTake(c) ==
  /\ pc[c] = "take"
  /\ got' = [got EXCEPT ![c] = Append(@, Head(queue))]
  /\ queue' = Tail(queue)
  /\ pc' = [pc EXCEPT ![c] = "unlock"]
  /\ UNCHANGED <<m, waiting, sent, spurious>>

-----------------------------------------------------------------------------

SendStep(p) == SendLock(p) \/ SendPush(p) \/ SendNotify(p) \/ Release(p)

RecvStep(c) ==
  RecvLock(c) \/ RecvReady(c) \/ RecvWait(c) \/ RecvRelock(c) \/ RecvTake(c)
    \/ Release(c)

Next ==
  \/ \E p \in Producers : SendStep(p)
  \/ \E c \in Consumers : RecvStep(c) \/ SpuriousWake(c)

Spec == Init /\ [][Next]_vars

\* Every thread inside an operation keeps running, and consumers keep calling
\* recv.  Nothing is assumed about starting a send, about spurious wake-ups,
\* or about the order in which a contended mutex is granted.
FairSpec ==
  /\ Spec
  /\ \A p \in Producers : WF_vars(pc[p] # "idle" /\ SendStep(p))
  /\ \A c \in Consumers : WF_vars(RecvStep(c))

-----------------------------------------------------------------------------
(* Properties.                                                             *)

\* Every variable stays in its range.
TypeOK ==
  /\ pc \in [Threads -> SendPcs \cup RecvPcs]
  /\ \A p \in Producers : pc[p] \in SendPcs
  /\ \A c \in Consumers : pc[c] \in RecvPcs
  /\ m \in Threads \cup {NoThread}
  /\ waiting \subseteq Consumers
  /\ sent \in [Producers -> Nat]
  /\ queue \in Seq(Producers \X Nat)
  /\ got \in [Consumers -> Seq(Producers \X Nat)]
  /\ spurious \in Nat

\* The threads between acquiring m_ and giving it up.
InCritical(t) == pc[t] \in {"push", "notify", "test", "take", "unlock"}

\* Exactly the holder of m_ is in a critical section, and cv_ holds exactly
\* the threads blocked in wait.
LockDiscipline ==
  /\ \A t \in Threads : InCritical(t) <=> m = t
  /\ \A c \in Consumers : pc[c] = "wait" <=> c \in waiting
  /\ \A c \in Consumers : pc[c] = "take" => queue # << >>

\* Consumers that were woken, or that hold the mutex, and have not yet taken
\* a value: the ones that will look at the queue without another notify.
Awake == {c \in Consumers : pc[c] \in {"relock", "test", "take"}}

\* The producers that have pushed and not yet notified.
Notifying == {p \in Producers : pc[p] = "notify"}

\* No wake-up is lost (channel.hpp:11-22): while a consumer sleeps in
\* cv_.wait, every queued value has a consumer already awake for it, or a
\* producer that is about to notify.
NoLostWakeup ==
  waiting # {} =>
    Len(queue) <= Cardinality(Awake) + Cardinality(Notifying)

\* The detailed channel implements the atomic FIFO (channel.hpp:13, 19-20):
\* nothing is lost or delivered twice, and every sender's order is kept.
ImplementsFifo == Abs!AbsSpec

\* What is sent is received: a queued value does not stay queued while
\* consumers keep calling recv (no deadlock of waiters, no lost wake-up).
EventuallyReceived ==
  \A p \in Producers : \A i \in 1..MaxSends :
    (sent[p] >= i) ~>
      (\E c \in Consumers : \E j \in DOMAIN got[c] : got[c][j] = Abs!Value(p, i))
=============================================================================
