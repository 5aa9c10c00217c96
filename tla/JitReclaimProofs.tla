-------------------------- MODULE JitReclaimProofs --------------------------
(***************************************************************************)
(* JIT code reclamation for any number of mutators, pages and epochs: when *)
(* the epoch advances only while no mutator runs compiled code, one grace  *)
(* period is enough and no mutator ever runs an unmapped page.             *)
(***************************************************************************)
EXTENDS JitReclaim, TLAPS

Inv == TypeOK /\ NoUseAfterUnmap /\ StampProtectsRunning /\ HandoverOK

LEMMA InitInv == Init => Inv
  BY ReclaimAssumption
     DEF Init, MemInit, Inv, TypeOK, MemTypeOK, Unmapped, Code, SafePoint,
         NoUseAfterUnmap, StampProtectsRunning, HandoverOK

LEMMA NextInv == Inv /\ [Next]_vars => Inv'
<1> SUFFICES ASSUME Inv, [Next]_vars PROVE Inv'
  OBVIOUS
<1> USE ReclaimAssumption, MemAssumption
    DEF Inv, TypeOK, MemTypeOK, Code, NoUseAfterUnmap, StampProtectsRunning,
        HandoverOK, Mapped, Released
<1>1. ASSUME NEW t \in Mutators, Dispatch(t) PROVE Inv'
  BY <1>1 DEF Dispatch, memVars
<1>2. ASSUME NEW t \in Mutators, ReachSafePoint(t) PROVE Inv'
  BY <1>2 DEF ReachSafePoint, memVars
<1>3. ASSUME NEW a \in Addrs, StartCompile(a) PROVE Inv'
  BY <1>3 DEF StartCompile, Allocate, Page
<1>4. CASE Install
  BY <1>4 DEF Install, memVars
<1>5. CASE ReleaseReplaced
  <2>1. CASE compiling = Aot
    BY <1>5, <2>1 DEF ReleaseReplaced, memVars
  <2>2. CASE compiling # Aot
    <3>1. /\ phase = "release" /\ phase' = "idle"
          /\ compiling \in Addrs /\ compiling # entry
          /\ UNCHANGED <<entry, running, compiling, globalEpoch>>
      BY <1>5, <2>2 DEF ReleaseReplaced, Release
    <3>2. pages' = [pages EXCEPT ![compiling] =
                      IF Mapped(compiling) THEN Page(globalEpoch, FALSE) ELSE @]
      BY <1>5, <2>2 DEF ReleaseReplaced, Release
    <3>3. pages' \in [Addrs -> [mapped : BOOLEAN, epoch : Nat, inUse : BOOLEAN]]
      BY <3>1, <3>2 DEF Page
    <3>4. \A a \in Addrs : a # compiling => pages'[a] = pages[a]
      BY <3>2
    <3>5. /\ Mapped(compiling)' <=> Mapped(compiling)
          /\ Mapped(compiling) => pages'[compiling].epoch = globalEpoch
      BY <3>1, <3>2 DEF Page
    <3>6. TypeOK'
      BY <3>1, <3>3
    <3>7. NoUseAfterUnmap' /\ HandoverOK'
      BY <3>1, <3>4, <3>5
    <3>8. StampProtectsRunning'
      <4>1. SUFFICES ASSUME NEW t \in Mutators, running[t] \in Addrs, running[t] # entry
                     PROVE  Released(running[t])' /\ pages'[running[t]].epoch = globalEpoch
        BY <3>1
      <4>2. CASE running[t] = compiling
        <5>1. pages'[compiling] = Page(globalEpoch, FALSE)
          BY <3>1, <3>2
        <5> QED BY <3>1, <4>2, <5>1 DEF Page
      <4>3. CASE running[t] # compiling
        BY <3>1, <3>4, <4>1, <4>3
      <4> QED BY <4>2, <4>3
    <3>9. QED
      BY <3>6, <3>7, <3>8
  <2>3. QED
    BY <2>1, <2>2
<1>6. CASE Advance
  <2>1. \A t \in Mutators : running[t] = SafePoint
    BY <1>6 DEF Advance, AtSafePoint
  <2>2. \A t \in Mutators : running[t] \notin Addrs
    BY <2>1
  <2>3. QED
    BY <1>6, <2>2 DEF Advance, AdvanceEpoch
<1>7. CASE Reclaim
  BY <1>7 DEF Reclaim, ReclaimOldPages, Reclaimable, Unmapped
<1>8. CASE UNCHANGED vars
  BY <1>8 DEF vars, memVars
<1>9. QED
  BY <1>1, <1>2, <1>3, <1>4, <1>5, <1>6, <1>7, <1>8
     DEF Next, MutatorStep, CompilerStep

\* No mutator runs code in an unmapped page and the published entry is mapped
\* (JitEngine.cpp:64-75, MemManager.cpp:88-115), if advance_epoch is called
\* only when every mutator is at a safe point.
THEOREM NoUseAfterUnmapHolds == Spec => []NoUseAfterUnmap
<1>1. Inv => NoUseAfterUnmap
  BY DEF Inv
<1>2. Inv /\ [Next]_vars => Inv'
  BY NextInv
<1>3. QED
  BY InitInv, <1>1, <1>2, PTL DEF Spec

\* Every page a mutator runs is published, replaced and about to be released, or
\* released with the stamp of the current epoch (JitEngine.cpp:64-75,
\* MemManager.cpp:88-97).
THEOREM StampProtectsRunningHolds == Spec => []StampProtectsRunning
<1>1. Inv => StampProtectsRunning
  BY DEF Inv
<1>2. Inv /\ [Next]_vars => Inv'
  BY NextInv
<1>3. QED
  BY InitInv, <1>1, <1>2, PTL DEF Spec
=============================================================================
