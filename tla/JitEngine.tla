----------------------------- MODULE JitEngine -----------------------------
(***************************************************************************)
(* compiler/jit: hotness counting and the compile-job queue.  Mutator      *)
(* threads run on_call concurrently; registration is done while no mutator *)
(* is inside on_call (entries_ is a plain unordered_map).  on_call counts  *)
(* with an atomic fetch_add, and the call that hits the threshold exactly  *)
(* tries the queue mutex once, never waiting for it.                       *)
(***************************************************************************)
EXTENDS Naturals, Sequences, FiniteSets

CONSTANTS
  Mutators,           \* threads running compiled code
  Functions,          \* fn_id
  Thresholds,         \* hot thresholds register_function is called with
  KMaxPendingJobs,    \* kMaxPendingJobs
  NoThread, NoFunction,
  Steady,             \* the one mutator whose thread surely goes on running
  MaxCalls,           \* bound: invocations per registration
  MaxRegistrations    \* bound: registrations per function

ASSUME EngineAssumption ==
  /\ Thresholds \subseteq Nat
  /\ KMaxPendingJobs \in Nat
  /\ MaxCalls \in Nat /\ MaxRegistrations \in Nat
  /\ NoThread \notin Mutators
  /\ Steady \in Mutators
  /\ NoFunction \notin Functions

\* CompileJob, with the registration it belongs to.
Job == [fn : Functions, jitted : BOOLEAN, reg : Nat]

VARIABLES
  registered,   \* registered[f]: registrations of f so far; 0: no entry
  invocations,  \* Entry::invocations
  threshold,    \* Entry::threshold
  jitted,       \* Entry::current is JIT code (FALSE: the AOT entry)
  queueMutex,   \* queue_mutex_: its holder, or NoThread
  pending,      \* pending_: the queued CompileJobs
  started,      \* stats_.compiles_started
  finished,     \* stats_.compiles_finished
  skipped,      \* JitQueueFullSkipped telemetry events
  pc,           \* pc[t]: where mutator t is in on_call
  fn            \* fn[t]: the function of t's on_call

entryVars == <<registered, invocations, threshold, jitted>>
queueVars == <<queueMutex, pending>>
vars == <<entryVars, queueVars, started, finished, skipped, pc, fn>>

Pcs == {"idle", "trylock", "check", "push", "skip", "unlock", "stats"}

Init ==
  /\ registered = [f \in Functions |-> 0]
  /\ invocations = [f \in Functions |-> 0]
  /\ threshold = [f \in Functions |-> 0]
  /\ jitted = [f \in Functions |-> FALSE]
  /\ queueMutex = NoThread
  /\ pending = << >>
  /\ started = 0 /\ finished = 0 /\ skipped = 0
  /\ pc = [t \in Mutators |-> "idle"]
  /\ fn = [t \in Mutators |-> NoFunction]

Go(t, to) == pc' = [pc EXCEPT ![t] = to]

-----------------------------------------------------------------------------
(* register_function and install_jitted.                                   *)

\* A registration makes a fresh Entry: counter and code start over.
RegisterFunction(f, n) ==
  /\ \A t \in Mutators : pc[t] = "idle"
  /\ registered[f] < MaxRegistrations
  /\ registered' = [registered EXCEPT ![f] = @ + 1]
  /\ invocations' = [invocations EXCEPT ![f] = 0]
  /\ threshold' = [threshold EXCEPT ![f] = n]
  /\ jitted' = [jitted EXCEPT ![f] = FALSE]
  /\ UNCHANGED <<queueVars, started, finished, skipped, pc, fn>>

\* An unknown id is ignored; the model installs once per registration.
InstallJitted(f) ==
  /\ registered[f] > 0
  /\ ~jitted[f]
  /\ jitted' = [jitted EXCEPT ![f] = TRUE]
  /\ finished' = finished + 1
  /\ UNCHANGED <<registered, invocations, threshold, queueVars, started,
                 skipped, pc, fn>>

-----------------------------------------------------------------------------
(* on_call.                                                                *)

\* Mutant: every call at or past the threshold triggers.
CountCallAtLeast(t, f) ==
  /\ pc[t] = "idle"
  /\ registered[f] > 0
  /\ invocations[f] < MaxCalls
  /\ invocations' = [invocations EXCEPT ![f] = @ + 1]
  /\ IF invocations[f] + 1 >= threshold[f]
     THEN Go(t, "trylock") /\ fn' = [fn EXCEPT ![t] = f]
     ELSE UNCHANGED <<pc, fn>>
  /\ UNCHANGED <<registered, threshold, jitted, queueVars, started, finished,
                 skipped>>

\* find the entry, fetch_add, compare with the threshold.
CountCall(t, f) ==
  /\ pc[t] = "idle"
  /\ registered[f] > 0
  /\ invocations[f] < MaxCalls
  /\ invocations' = [invocations EXCEPT ![f] = @ + 1]
  /\ IF invocations[f] + 1 = threshold[f]
     THEN Go(t, "trylock") /\ fn' = [fn EXCEPT ![t] = f]
     ELSE UNCHANGED <<pc, fn>>
  /\ UNCHANGED <<registered, threshold, jitted, queueVars, started, finished,
                 skipped>>

\* Mutant: lock() instead of try_lock(): the mutator waits for the queue.
TryLockWaits(t) ==
  /\ pc[t] = "trylock"
  /\ queueMutex = NoThread
  /\ queueMutex' = t
  /\ Go(t, "check")
  /\ UNCHANGED <<entryVars, pending, started, finished, skipped, fn>>

\* Mutant: the result of try_lock is ignored.
TryLockIgnored(t) ==
  /\ pc[t] = "trylock"
  /\ queueMutex' = t
  /\ Go(t, "check")
  /\ UNCHANGED <<entryVars, pending, started, finished, skipped, fn>>

\* Mutant: a failed try_lock drops the function before the statistics.
TryLockForgets(t) ==
  /\ pc[t] = "trylock"
  /\ \/ /\ queueMutex = NoThread
        /\ queueMutex' = t
        /\ Go(t, "check")
        /\ UNCHANGED fn
     \/ /\ queueMutex # NoThread
        /\ UNCHANGED queueMutex
        /\ Go(t, "stats")
        /\ fn' = [fn EXCEPT ![t] = NoFunction]
  /\ UNCHANGED <<entryVars, pending, started, finished, skipped>>

\* try_lock: the mutex, or straight on to the statistics without it.
TryLock(t) ==
  /\ pc[t] = "trylock"
  /\ \/ /\ queueMutex = NoThread
        /\ queueMutex' = t
        /\ Go(t, "check")
     \/ /\ queueMutex # NoThread
        /\ UNCHANGED queueMutex
        /\ Go(t, "stats")
  /\ UNCHANGED <<entryVars, pending, started, finished, skipped, fn>>

CheckRoom(t) ==
  /\ pc[t] = "check"
  /\ Go(t, IF Len(pending) < KMaxPendingJobs THEN "push" ELSE "skip")
  /\ UNCHANGED <<entryVars, queueVars, started, finished, skipped, fn>>

\* The job carries the entry current at the time of the push.
PushJob(t) ==
  /\ pc[t] = "push"
  /\ pending' = Append(pending, [fn |-> fn[t], jitted |-> jitted[fn[t]],
                                 reg |-> registered[fn[t]]])
  /\ Go(t, "unlock")
  /\ UNCHANGED <<entryVars, queueMutex, started, finished, skipped, fn>>

SkipJob(t) ==
  /\ pc[t] = "skip"
  /\ skipped' = skipped + 1
  /\ Go(t, "unlock")
  /\ UNCHANGED <<entryVars, queueVars, started, finished, fn>>

Unlock(t) ==
  /\ pc[t] = "unlock"
  /\ queueMutex' = NoThread
  /\ Go(t, "stats")
  /\ UNCHANGED <<entryVars, pending, started, finished, skipped, fn>>

CountStarted(t) ==
  /\ pc[t] = "stats"
  /\ started' = started + 1
  /\ Go(t, "idle")
  /\ fn' = [fn EXCEPT ![t] = NoFunction]
  /\ UNCHANGED <<entryVars, queueVars, finished, skipped>>

OnCallStep(t) ==
  TryLock(t) \/ CheckRoom(t) \/ PushJob(t) \/ SkipJob(t) \/ Unlock(t)
    \/ CountStarted(t)

Next ==
  \/ \E f \in Functions, n \in Thresholds : RegisterFunction(f, n)
  \/ \E f \in Functions : InstallJitted(f)
  \/ \E t \in Mutators, f \in Functions : CountCall(t, f)
  \/ \E t \in Mutators : OnCallStep(t)

Spec == Init /\ [][Next]_vars

\* Only the steady thread is promised to be scheduled.
SteadySpec == Spec /\ WF_vars(OnCallStep(Steady))

-----------------------------------------------------------------------------
(* Properties.                                                             *)

TypeOK ==
  /\ registered \in [Functions -> Nat]
  /\ invocations \in [Functions -> Nat]
  /\ threshold \in [Functions -> Nat]
  /\ jitted \in [Functions -> BOOLEAN]
  /\ queueMutex \in Mutators \cup {NoThread}
  /\ pending \in Seq(Job)
  /\ started \in Nat /\ finished \in Nat /\ skipped \in Nat
  /\ pc \in [Mutators -> Pcs]
  /\ fn \in [Mutators -> Functions \cup {NoFunction}]
  /\ \A t \in Mutators : pc[t] # "idle" => fn[t] \in Functions

\* The holder of queue_mutex_ is the only mutator between try_lock and unlock.
QueueExclusive ==
  \A t \in Mutators :
    pc[t] \in {"check", "push", "skip", "unlock"} <=> queueMutex = t

\* However many mutators cross a threshold at once, the queue never holds more
\* than kMaxPendingJobs jobs (JitEngine.cpp:47-50).
QueueBounded ==
  /\ Len(pending) <= KMaxPendingJobs
  /\ \A t \in Mutators : pc[t] = "push" => Len(pending) < KMaxPendingJobs

\* Concurrent callers of one function enqueue it at most once for each time it
\* was registered: exactly one fetch_add returns the threshold
\* (JitEngine.cpp:40-41).
OneJobPerRegistration ==
  \A i, j \in DOMAIN pending :
    pending[i].fn = pending[j].fn /\ pending[i].reg = pending[j].reg => i = j

\* Law C.1: no mutator blocks another.  A thread that goes on running gets
\* through on_call even if every other mutator is stopped wherever it is, the
\* holder of queue_mutex_ included (JitEngine.cpp:42-48).
OnCallReturns == pc[Steady] # "idle" ~> pc[Steady] = "idle"
=============================================================================
