----------------------------- MODULE JitReclaim -----------------------------
(***************************************************************************)
(* JIT code replacement: JitEngine's entry_for and install_jitted composed *)
(* with MemManager.  Mutators fetch the entry of the function and run it   *)
(* until their next safe point; the compiler thread allocates a page,      *)
(* installs it, and releases the page it replaced.  The repository has     *)
(* both components and no driver: the protocol of their callers here (who  *)
(* releases, who advances the epoch) is the one MemManager.hpp describes.  *)
(***************************************************************************)
EXTENDS MemManager

CONSTANTS
  Mutators,
  Aot         \* the AOT entry, never unmapped

SafePoint == "safepoint"

ASSUME ReclaimAssumption ==
  /\ Aot \notin Addrs
  /\ SafePoint \notin Addrs \cup {Aot}

VARIABLES
  entry,      \* Entry::current: Aot or a page
  running,    \* running[t]: the code t is in, or SafePoint
  compiling,  \* the page being filled, installed or replaced
  phase       \* the compiler thread: "idle", "install" or "release"

vars == <<memVars, entry, running, compiling, phase>>

Code == Addrs \cup {Aot}

Init ==
  /\ MemInit
  /\ entry = Aot
  /\ running = [t \in Mutators |-> SafePoint]
  /\ compiling = Aot
  /\ phase = "idle"

-----------------------------------------------------------------------------
(* Mutators.                                                               *)

\* entry_for: one acquire load of Entry::current, then run what it points to.
Dispatch(t) ==
  /\ running[t] = SafePoint
  /\ running' = [running EXCEPT ![t] = entry]
  /\ UNCHANGED <<memVars, entry, compiling, phase>>

ReachSafePoint(t) ==
  /\ running[t] # SafePoint
  /\ running' = [running EXCEPT ![t] = SafePoint]
  /\ UNCHANGED <<memVars, entry, compiling, phase>>

-----------------------------------------------------------------------------
(* The compiler thread.                                                    *)

StartCompile(a) ==
  /\ phase = "idle"
  /\ Allocate(a, globalEpoch)
  /\ compiling' = a
  /\ phase' = "install"
  /\ UNCHANGED <<entry, running>>

\* install_jitted: one release store; the replaced code is remembered.
Install ==
  /\ phase = "install"
  /\ entry' = compiling
  /\ compiling' = entry
  /\ phase' = "release"
  /\ UNCHANGED <<memVars, running>>

\* The AOT entry is no page and is not released.
ReleaseReplaced ==
  /\ phase = "release"
  /\ IF compiling = Aot THEN UNCHANGED memVars
     ELSE Release(compiling, globalEpoch)
  /\ phase' = "idle"
  /\ UNCHANGED <<entry, running, compiling>>

-----------------------------------------------------------------------------
(* The runtime.                                                            *)

AtSafePoint == {t \in Mutators : running[t] = SafePoint}

\* advance_epoch is called "when mutator threads have advanced past a safe
\* point" (MemManager.hpp:43-44), read as: while all of them are at one.  Only
\* advances that can matter are modelled: a released page carries the stamp.
Advance ==
  /\ AtSafePoint = Mutators
  /\ \E a \in Addrs : Released(a) /\ pages[a].epoch = globalEpoch
  /\ AdvanceEpoch
  /\ UNCHANGED <<entry, running, compiling, phase>>

Reclaim ==
  /\ ReclaimOldPages
  /\ UNCHANGED <<entry, running, compiling, phase>>

MutatorStep(t) == Dispatch(t) \/ ReachSafePoint(t)
CompilerStep == (\E a \in Addrs : StartCompile(a)) \/ Install \/ ReleaseReplaced

Next ==
  \/ \E t \in Mutators : MutatorStep(t)
  \/ CompilerStep
  \/ Advance
  \/ Reclaim

Spec == Init /\ [][Next]_vars

\* Compiled code reaches its next safe point, the compiler thread finishes what
\* it started, and the runtime keeps advancing (whenever mutators let it,
\* again and again) and reclaiming.  Compilation and dispatch are not forced.
FairSpec ==
  /\ Spec
  /\ \A t \in Mutators : WF_vars(ReachSafePoint(t))
  /\ WF_vars(Install \/ ReleaseReplaced)
  /\ SF_vars(Advance)
  /\ WF_vars(Reclaim)

-----------------------------------------------------------------------------
(* Properties.                                                             *)

TypeOK ==
  /\ MemTypeOK
  /\ entry \in Code
  /\ running \in [Mutators -> Code \cup {SafePoint}]
  /\ compiling \in Code
  /\ phase \in {"idle", "install", "release"}

\* No mutator runs code in a page that was unmapped, and the entry the next
\* dispatch will load is a mapped page in use: no use after munmap, however
\* installs, releases, advances and reclaims interleave with running code
\* (JitEngine.cpp:64-75, MemManager.cpp:88-115).
NoUseAfterUnmap ==
  /\ \A t \in Mutators : running[t] \in Addrs => Mapped(running[t])
  /\ entry \in Addrs => Mapped(entry) /\ pages[entry].inUse

\* A page that code runs in is the published one, the one just replaced and not
\* yet released, or a released one that carries the current epoch: this, and not
\* the reclaim test alone, keeps it mapped (JitEngine.cpp:64-75,
\* MemManager.cpp:88-97, 104-105).
StampProtectsRunning ==
  \A t \in Mutators : running[t] \in Addrs =>
    \/ running[t] = entry
    \/ phase = "release" /\ compiling = running[t]
    \/ Released(running[t]) /\ pages[running[t]].epoch = globalEpoch

\* The page being installed or released is mapped and in use, and is not the one
\* the next dispatch loads: what the compiler thread holds between allocate,
\* install_jitted and release.
HandoverOK ==
  /\ phase = "install" => compiling \in Addrs
  /\ phase # "idle" /\ compiling \in Addrs =>
       Mapped(compiling) /\ pages[compiling].inUse
  /\ phase # "idle" => compiling # entry

\* A page that was released is unmapped in the end, provided all mutators are
\* at a safe point together again and again, and until the bound stops the
\* clock (MemManager.cpp:99-115).  Nothing in the code brings that about.
EventuallyReclaimed ==
  []<>(AtSafePoint = Mutators) =>
    \A a \in Addrs :
      (Released(a) /\ pages[a].epoch < MaxEpoch) ~> ~Released(a)
=============================================================================
