-------------------------- MODULE LinearScanProofs --------------------------
(* The allocator is right about registers for any machine functions and any    *)
(* register file.  AllocInv is the inductive invariant: NoSharing needs to know*)
(* that an interval which can still meet a later one has an active entry.      *)
EXTENDS ExecEncoder, FiniteSetTheorems, TLAPS

IntervalType == [vreg : Nat, start : Nat, end : Nat, spansCall : BOOLEAN]

Typed ==
  /\ intervals \subseteq IntervalType
  /\ \A a, b \in intervals : a.vreg = b.vreg => a = b
  /\ todo \subseteq intervals
  /\ \A iv \in intervals : iv.vreg \in DOMAIN assignment

(* Entries stand for placed, unspilled intervals and hold distinct registers.  *)
ActiveHolds ==
  /\ \A e \in active :
       /\ \E iv \in Placed : iv.vreg = e.vreg /\ iv.end = e.end
       /\ e.vreg \notin spilled
       /\ assignment[e.vreg] = e.preg
  /\ \A d, e \in active : d # e => d.preg # e.preg /\ d.vreg # e.vreg

(* Intervals are placed in order of start, and what lives on is still active.  *)
InOrder == \A b \in Placed : \A c \in todo : b.start =< c.start
LivesOn ==
  \A b \in Placed : b.vreg \notin spilled =>
    \/ \E e \in active : e.vreg = b.vreg
    \/ \A c \in todo : b.end =< c.start

SpilledPlaced == \A v \in spilled : \E b \in Placed : b.vreg = v

AllocInv == Typed /\ ActiveHolds /\ InOrder /\ LivesOn /\ SpilledPlaced /\ NoSharing

-----------------------------------------------------------------------------
(* compute_intervals gives each vreg one interval.                             *)
LEMMA IntervalsTyped ==
  ASSUME NEW f \in Functions
  PROVE  /\ Intervals(f) \subseteq IntervalType
         /\ \A a, b \in Intervals(f) : a.vreg = b.vreg => a = b
         /\ \A a \in Intervals(f) : a.vreg \in VRegsOf(f)
<1>0. Len(f) \in Nat /\ DOMAIN f = 1 .. Len(f) /\ VRegsOf(f) \subseteq Nat
  BY LinearScanAssumption
<1>1. ASSUME NEW a \in Intervals(f)
      PROVE  \E t \in VRegsOf(f) \X DOMAIN f : \E e \in DOMAIN f :
               /\ IsFirst(f, t[1], t[2]) /\ e \in LastIndex(f, t[1], t[2])
               /\ a = [vreg |-> t[1], start |-> t[2], end |-> e + 1, spansCall |-> SpansCall(f, t[2], e)]
  BY DEF Intervals, Starts, LastIndex
<1>2. ASSUME NEW v, NEW i \in DOMAIN f, NEW j \in DOMAIN f, IsFirst(f, v, i), IsFirst(f, v, j)
      PROVE  i = j
  BY <1>0, <1>2 DEF IsFirst
<1>3. ASSUME NEW v, NEW s, NEW i \in LastIndex(f, v, s), NEW j \in LastIndex(f, v, s)
      PROVE  i = j
  <2>1. PICK l \in DOMAIN f : IsLast(f, v, l) /\ i = Widened(f, s, l)
    BY DEF LastIndex
  <2>2. PICK m \in DOMAIN f : IsLast(f, v, m) /\ j = Widened(f, s, m)
    BY DEF LastIndex
  <2>3. l = m
    BY <1>0, <2>1, <2>2 DEF IsLast
  <2> QED
    BY <2>1, <2>2, <2>3
<1>4. ASSUME NEW a \in Intervals(f) PROVE a \in IntervalType /\ a.vreg \in VRegsOf(f)
  <2>1. PICK t \in VRegsOf(f) \X DOMAIN f, e \in DOMAIN f :
          a = [vreg |-> t[1], start |-> t[2], end |-> e + 1, spansCall |-> SpansCall(f, t[2], e)]
    BY <1>1
  <2>2. SpansCall(f, t[2], e) \in BOOLEAN
    BY DEF SpansCall
  <2> QED
    BY <1>0, <2>1, <2>2 DEF IntervalType
<1>5. ASSUME NEW a \in Intervals(f), NEW b \in Intervals(f), a.vreg = b.vreg PROVE a = b
  <2>1. PICK t \in VRegsOf(f) \X DOMAIN f, e \in DOMAIN f :
          /\ IsFirst(f, t[1], t[2]) /\ e \in LastIndex(f, t[1], t[2])
          /\ a = [vreg |-> t[1], start |-> t[2], end |-> e + 1, spansCall |-> SpansCall(f, t[2], e)]
    BY <1>1
  <2>2. PICK u \in VRegsOf(f) \X DOMAIN f, d \in DOMAIN f :
          /\ IsFirst(f, u[1], u[2]) /\ d \in LastIndex(f, u[1], u[2])
          /\ b = [vreg |-> u[1], start |-> u[2], end |-> d + 1, spansCall |-> SpansCall(f, u[2], d)]
    BY <1>1
  <2>3. t[1] = u[1] /\ t[2] = u[2]
    BY <1>2, <1>5, <2>1, <2>2
  <2>4. e = d
    BY <1>3, <2>1, <2>2, <2>3
  <2> QED
    BY <2>1, <2>2, <2>3, <2>4
<1> QED
  BY <1>4, <1>5

(* What any placement does, whatever register the interval gets.               *)
LEMMA Placing ==
  ASSUME AllocInv, NEW iv \in todo, NextUp(iv), todo' = todo \ {iv}, intervals' = intervals
  PROVE  /\ Placed' = Placed \cup {iv} /\ iv \notin Placed
         /\ \A b \in Placed : b.start =< iv.start /\ b.vreg # iv.vreg
         /\ InOrder'
<1>1. Placed' = Placed \cup {iv} /\ iv \notin Placed
  BY DEF Placed, AllocInv, Typed
<1>2. \A c \in todo : iv.start =< c.start
  BY DEF NextUp, AllocInv, Typed, IntervalType
<1>3. \A b \in Placed : b.start =< iv.start
  BY DEF AllocInv, InOrder
<1>4. \A b \in Placed : b.vreg # iv.vreg
  BY <1>1 DEF AllocInv, Typed, Placed
<1>5. InOrder'
  BY <1>1, <1>2 DEF InOrder, AllocInv
<1> QED
  BY <1>1, <1>3, <1>4, <1>5

(* An active entry whose interval ends by iv's start is gone; the rest overlap *)
(* iv.                                                                         *)
LEMMA Expiring ==
  ASSUME AllocInv, NEW iv \in todo, NEW b \in Placed, b.vreg \notin spilled,
         \A e \in Expire(iv) : e.vreg # b.vreg
  PROVE  b.end =< iv.start
<1>1. CASE \E e \in active : e.vreg = b.vreg
  <2>1. PICK e \in active : e.vreg = b.vreg
    BY <1>1
  <2>2. PICK c \in Placed : c.vreg = e.vreg /\ c.end = e.end
    BY DEF AllocInv, ActiveHolds
  <2>3. c = b
    BY <2>1, <2>2 DEF AllocInv, Typed, Placed
  <2>4. ~ (e.end > iv.start)
    BY <2>1 DEF Expire
  <2> QED
    BY <2>2, <2>3, <2>4 DEF AllocInv, Typed, IntervalType, Placed
<1>2. CASE \A c \in todo : b.end =< c.start
  BY <1>2
<1> QED
  BY <1>1, <1>2 DEF AllocInv, LivesOn

(* iv gets register p, and the entries dropped from those still alive are just *)
(* the ones whose vreg is spilled: TakeFree drops none, Steal one.             *)
LEMMA Taking ==
  ASSUME AllocInv, NEW iv \in todo, NextUp(iv), NEW p, NEW A \in SUBSET Expire(iv),
         todo' = todo \ {iv}, intervals' = intervals,
         active' = A \cup {Entry(iv, p)},
         assignment' = [assignment EXCEPT ![iv.vreg] = p],
         spilled' = spilled \cup {e.vreg : e \in Expire(iv) \ A},
         \A e \in A : e.preg # p
  PROVE  AllocInv'
<1> DEFINE new == Entry(iv, p)
<1>0. /\ Placed' = Placed \cup {iv} /\ iv \notin Placed
      /\ \A b \in Placed : b.start =< iv.start /\ b.vreg # iv.vreg
      /\ InOrder'
  BY Placing
<1>1. new.vreg = iv.vreg /\ new.end = iv.end /\ new.preg = p
  BY DEF Entry
<1>2. A \subseteq active /\ Expire(iv) \subseteq active
  BY DEF Expire
<1>3. \A e \in active : e.vreg # iv.vreg
  BY <1>0 DEF AllocInv, ActiveHolds
<1>4. iv.vreg \notin spilled /\ iv.vreg \notin spilled'
  BY <1>0, <1>2, <1>3 DEF AllocInv, SpilledPlaced
<1>5. \A b \in Placed : b.vreg \in DOMAIN assignment
  BY DEF AllocInv, Typed, Placed
<1>6. \A b \in Placed : assignment'[b.vreg] = assignment[b.vreg]
  BY <1>0, <1>5
<1>7. assignment'[iv.vreg] = p
  BY DEF AllocInv, Typed
<1>8. Typed'
  BY DEF AllocInv, Typed
<1>9. ActiveHolds'
  <2>1. ASSUME NEW e \in A
        PROVE  /\ \E b \in Placed' : b.vreg = e.vreg /\ b.end = e.end
               /\ e.vreg \notin spilled' /\ assignment'[e.vreg] = e.preg
    <3>1. PICK b \in Placed : b.vreg = e.vreg /\ b.end = e.end
      BY <1>2 DEF AllocInv, ActiveHolds
    <3>2. e.vreg \notin spilled'
      BY <1>2 DEF AllocInv, ActiveHolds
    <3>3. assignment'[e.vreg] = e.preg
      BY <1>2, <1>6, <3>1 DEF AllocInv, ActiveHolds
    <3> QED
      BY <1>0, <3>1, <3>2, <3>3
  <2>2. /\ \E b \in Placed' : b.vreg = new.vreg /\ b.end = new.end
        /\ new.vreg \notin spilled' /\ assignment'[new.vreg] = new.preg
    BY <1>0, <1>1, <1>4, <1>7
  <2>3. ASSUME NEW d \in active', NEW e \in active', d # e PROVE d.preg # e.preg /\ d.vreg # e.vreg
    <3>1. CASE d \in A /\ e \in A
      BY <1>2, <2>3, <3>1 DEF AllocInv, ActiveHolds
    <3>2. CASE d \in A /\ e = new
      BY <1>1, <1>2, <1>3, <3>2
    <3>3. CASE d = new /\ e \in A
      BY <1>1, <1>2, <1>3, <3>3
    <3> QED
      BY <2>3, <3>1, <3>2, <3>3
  <2> QED
    BY <2>1, <2>2, <2>3 DEF ActiveHolds
<1>10. ASSUME NEW b \in Placed, b.vreg \notin spilled'
       PROVE  (\E e \in A : e.vreg = b.vreg) \/ b.end =< iv.start
  <2>1. b.vreg \notin spilled
    BY <1>10
  <2>2. CASE \E e \in Expire(iv) : e.vreg = b.vreg
    BY <1>10, <2>2
  <2>3. CASE \A e \in Expire(iv) : e.vreg # b.vreg
    BY <2>1, <2>3, Expiring
  <2> QED
    BY <2>2, <2>3
<1>11. \A c \in todo : iv.start =< c.start
  BY DEF NextUp, AllocInv, Typed, IntervalType
<1>12. LivesOn'
  <2>1. ASSUME NEW b \in Placed, b.vreg \notin spilled'
        PROVE  (\E e \in active' : e.vreg = b.vreg) \/ \A c \in todo' : b.end =< c.start
    <3>1. CASE b.end =< iv.start
      <4>1. \A c \in todo' : b.end =< c.start
        BY <1>11, <3>1 DEF AllocInv, Typed, IntervalType, Placed
      <4> QED
        BY <4>1
    <3> QED
      BY <1>10, <2>1, <3>1
  <2> QED
    BY <1>0, <1>1, <2>1 DEF LivesOn
<1>13. SpilledPlaced'
  BY <1>0, <1>2 DEF AllocInv, SpilledPlaced, ActiveHolds
<1>14. ASSUME NEW b \in Placed, b.vreg \notin spilled', Overlap(b, iv) PROVE assignment'[b.vreg] # p
  <2>1. ~ (b.end =< iv.start)
    BY <1>14 DEF Overlap, AllocInv, Typed, IntervalType, Placed
  <2>2. PICK e \in A : e.vreg = b.vreg
    BY <1>10, <1>14, <2>1
  <2>3. assignment[b.vreg] = e.preg
    BY <1>2, <2>2 DEF AllocInv, ActiveHolds
  <2> QED
    BY <1>6, <2>2, <2>3
<1>15. NoSharing'
  <2> SUFFICES ASSUME NEW a \in Placed', NEW b \in Placed',
                      a.vreg # b.vreg, Overlap(a, b), {a.vreg, b.vreg} \cap spilled' = {}
               PROVE  assignment'[a.vreg] # assignment'[b.vreg]
    BY DEF NoSharing, Overlap
  <2>1. CASE a \in Placed /\ b \in Placed
    <3>1. {a.vreg, b.vreg} \cap spilled = {}
      OBVIOUS
    <3>2. assignment[a.vreg] # assignment[b.vreg]
      BY <2>1, <3>1 DEF AllocInv, NoSharing
    <3> QED
      BY <1>6, <2>1, <3>2
  <2>2. CASE a = iv /\ b \in Placed
    <3>1. Overlap(b, iv)
      BY <2>2 DEF Overlap
    <3> QED
      BY <1>7, <1>14, <2>2, <3>1
  <2>3. CASE a \in Placed /\ b = iv
    BY <1>7, <1>14, <2>3
  <2> QED
    BY <1>0, <2>1, <2>2, <2>3
<1> QED
  BY <1>0, <1>8, <1>9, <1>12, <1>13, <1>15 DEF AllocInv

(* An interval that gets no register leaves the others as they were.           *)
LEMMA Spilling ==
  ASSUME AllocInv, NEW iv \in todo, SpillNew(iv)
  PROVE  AllocInv'
<1>0. /\ Placed' = Placed \cup {iv} /\ iv \notin Placed
      /\ \A b \in Placed : b.start =< iv.start /\ b.vreg # iv.vreg
      /\ InOrder'
  BY Placing DEF SpillNew
<1>1. /\ active' = Expire(iv) /\ Expire(iv) \subseteq active
      /\ spilled' = spilled \cup {iv.vreg} /\ intervals' = intervals /\ todo' = todo \ {iv}
      /\ assignment' = [assignment EXCEPT ![iv.vreg] = NoPReg]
  BY DEF SpillNew, Expire
<1>2. \A b \in Placed : assignment'[b.vreg] = assignment[b.vreg]
  BY <1>0, <1>1 DEF AllocInv, Typed, Placed
<1>3. Typed'
  BY <1>1 DEF AllocInv, Typed
<1>4. ActiveHolds'
  <2>1. ASSUME NEW e \in active'
        PROVE  /\ \E b \in Placed' : b.vreg = e.vreg /\ b.end = e.end
               /\ e.vreg \notin spilled' /\ assignment'[e.vreg] = e.preg
    <3>1. PICK b \in Placed : b.vreg = e.vreg /\ b.end = e.end
      BY <1>1 DEF AllocInv, ActiveHolds
    <3>2. assignment'[e.vreg] = assignment[e.vreg] /\ e.vreg # iv.vreg
      BY <1>0, <1>2, <3>1
    <3>3. e.vreg \notin spilled /\ assignment[e.vreg] = e.preg
      BY <1>1 DEF AllocInv, ActiveHolds
    <3>4. e.vreg \notin spilled' /\ assignment'[e.vreg] = e.preg
      BY <1>1, <3>2, <3>3
    <3> QED
      BY <1>0, <3>1, <3>4
  <2>2. \A d, e \in active' : d # e => d.preg # e.preg /\ d.vreg # e.vreg
    BY <1>1 DEF AllocInv, ActiveHolds
  <2> QED
    BY <2>1, <2>2 DEF ActiveHolds
<1>5. \A c \in todo : iv.start =< c.start
  BY DEF SpillNew, NextUp, AllocInv, Typed, IntervalType
<1>6. LivesOn'
  <2>1. ASSUME NEW b \in Placed, b.vreg \notin spilled'
        PROVE  (\E e \in active' : e.vreg = b.vreg) \/ \A c \in todo' : b.end =< c.start
    <3>1. b.vreg \notin spilled
      BY <1>1, <2>1
    <3>2. CASE \E e \in Expire(iv) : e.vreg = b.vreg
      BY <1>1, <3>2
    <3>3. CASE \A e \in Expire(iv) : e.vreg # b.vreg
      <4>1. b.end =< iv.start
        BY <3>1, <3>3, Expiring
      <4>2. \A c \in todo' : b.end =< c.start
        BY <1>1, <1>5, <4>1 DEF AllocInv, Typed, IntervalType, Placed
      <4> QED
        BY <4>2
    <3> QED
      BY <3>2, <3>3
  <2> QED
    BY <1>0, <1>1, <2>1 DEF LivesOn
<1>7. SpilledPlaced'
  BY <1>0, <1>1 DEF AllocInv, SpilledPlaced
<1>8. NoSharing'
  <2> SUFFICES ASSUME NEW a \in Placed', NEW b \in Placed',
                      a.vreg # b.vreg, Overlap(a, b), {a.vreg, b.vreg} \cap spilled' = {}
               PROVE  assignment'[a.vreg] # assignment'[b.vreg]
    BY DEF NoSharing, Overlap
  <2>1. a \in Placed /\ b \in Placed
    BY <1>0, <1>1
  <2>2. assignment[a.vreg] # assignment[b.vreg]
    BY <1>1, <2>1 DEF AllocInv, NoSharing
  <2> QED
    BY <1>2, <2>1, <2>2
<1> QED
  BY <1>0, <1>3, <1>4, <1>6, <1>7, <1>8 DEF AllocInv

LEMMA TakeFreeKeeps ==
  ASSUME AllocInv, NEW iv \in todo, TakeFree(iv)
  PROVE  AllocInv'
<1>1. PICK p \in Free(iv) : /\ assignment' = [assignment EXCEPT ![iv.vreg] = p]
                            /\ active' = Expire(iv) \cup {Entry(iv, p)}
  BY DEF TakeFree
<1>2. \A e \in Expire(iv) : e.preg # p
  BY DEF Free
<1>3. spilled' = spilled \cup {e.vreg : e \in Expire(iv) \ Expire(iv)}
  BY DEF TakeFree
<1>4. NextUp(iv) /\ todo' = todo \ {iv} /\ intervals' = intervals
  BY DEF TakeFree
<1> QED
  BY <1>1, <1>2, <1>3, <1>4, Taking

LEMMA StealKeeps ==
  ASSUME AllocInv, NEW iv \in todo, Steal(iv)
  PROVE  AllocInv'
<1>1. PICK e \in Furthest(iv) : /\ spilled' = spilled \cup {e.vreg}
                                /\ assignment' = [assignment EXCEPT ![iv.vreg] = e.preg]
                                /\ active' = (Expire(iv) \ {e}) \cup {Entry(iv, e.preg)}
  BY DEF Steal
<1>2. e \in Expire(iv) /\ Expire(iv) \subseteq active
  BY DEF Furthest, Expire
<1>3. \A d \in Expire(iv) \ {e} : d.preg # e.preg
  BY <1>2 DEF AllocInv, ActiveHolds
<1>4. spilled' = spilled \cup {d.vreg : d \in Expire(iv) \ (Expire(iv) \ {e})}
  BY <1>1, <1>2
<1>5. NextUp(iv) /\ todo' = todo \ {iv} /\ intervals' = intervals
  BY DEF Steal
<1>6. PICK A \in SUBSET Expire(iv) : A = Expire(iv) \ {e}
  OBVIOUS
<1>7. /\ active' = A \cup {Entry(iv, e.preg)}
      /\ spilled' = spilled \cup {d.vreg : d \in Expire(iv) \ A}
      /\ \A d \in A : d.preg # e.preg
  BY <1>1, <1>3, <1>4, <1>6
<1> QED
  BY <1>1, <1>5, <1>7, Taking

-----------------------------------------------------------------------------
LEMMA AllocInitially == AllocInit => AllocInv
<1> SUFFICES ASSUME AllocInit PROVE AllocInv
  OBVIOUS
<1>1. Typed
  BY IntervalsTyped DEF AllocInit, Typed
<1>2. Placed = {}
  BY DEF AllocInit, Placed
<1>3. ActiveHolds /\ SpilledPlaced
  BY DEF AllocInit, ActiveHolds, SpilledPlaced
<1>4. InOrder /\ LivesOn
  BY <1>2 DEF InOrder, LivesOn
<1>5. NoSharing
  BY <1>2 DEF NoSharing
<1> QED
  BY <1>1, <1>3, <1>4, <1>5 DEF AllocInv

LEMMA AllocSteps == AllocInv /\ [Place]_rvars => AllocInv'
<1> SUFFICES ASSUME AllocInv, [Place]_rvars PROVE AllocInv'
  OBVIOUS
<1>1. CASE Place
  <2>1. PICK iv \in todo : TakeFree(iv) \/ Steal(iv) \/ SpillNew(iv)
    BY <1>1 DEF Place
  <2> QED
    BY <2>1, TakeFreeKeeps, StealKeeps, Spilling
<1>2. CASE UNCHANGED rvars
  BY <1>2 DEF rvars, AllocInv, Typed, ActiveHolds, InOrder, LivesOn, SpilledPlaced, NoSharing, Placed, Overlap
<1> QED
  BY <1>1, <1>2

(* The encoder and the code it emits leave the allocation alone.               *)
LEMMA NextAllocates == [Next]_xvars => [Place]_rvars
BY DEF Next, xvars, Allocate, Encode, Param, Operate, Mov, CallFn, Label, Jmp, Jz, Ret

(* No two values that are alive together share a register, for any functions   *)
(* and any number of registers.                                                *)
THEOREM NoSharingHolds == Spec => []NoSharing
<1>1. Init => AllocInv
  BY AllocInitially DEF Init
<1>2. AllocInv /\ [Next]_xvars => AllocInv'
  BY AllocSteps, NextAllocates
<1>3. AllocInv => NoSharing
  BY DEF AllocInv
<1> QED
  BY <1>1, <1>2, <1>3, PTL DEF Spec

-----------------------------------------------------------------------------
(* While nothing has been spilled, each interval took a free register at or    *)
(* above its floor.                                                            *)
FloorKept == spills = 0 => \A iv \in Placed : iv.spansCall => assignment[iv.vreg] >= CalleeSavedFrom

SpansKnown ==
  /\ intervals = Intervals(mf)
  /\ \A iv \in intervals : iv.spansCall = SpansCall(mf, iv.start, iv.end - 1)

CountInv == spills \in Nat /\ IsFiniteSet(spilled) /\ spills = Cardinality(spilled)

LEMMA SpansOfIntervals ==
  ASSUME NEW f \in Functions, NEW iv \in Intervals(f)
  PROVE  iv.spansCall = SpansCall(f, iv.start, iv.end - 1)
<1>1. PICK t \in Starts(f), e \in DOMAIN f :
        iv = [vreg |-> t[1], start |-> t[2], end |-> e + 1, spansCall |-> SpansCall(f, t[2], e)]
  BY DEF Intervals, LastIndex
<1>2. e \in Nat
  BY LinearScanAssumption
<1>3. iv.start = t[2] /\ iv.end - 1 = e /\ iv.spansCall = SpansCall(f, t[2], e)
  BY <1>1, <1>2
<1> QED
  BY <1>3

LEMMA FloorSteps ==
  ASSUME AllocInv, FloorKept, CountInv, [Place]_rvars
  PROVE  FloorKept'
<1>1. ASSUME NEW iv \in todo, TakeFree(iv) PROVE FloorKept'
  <2>1. PICK p \in Free(iv) : assignment' = [assignment EXCEPT ![iv.vreg] = p]
    BY <1>1 DEF TakeFree
  <2>2. Placed' = Placed \cup {iv} /\ \A b \in Placed : b.vreg # iv.vreg
    BY <1>1, Placing DEF TakeFree
  <2>3. spills' = spills
    BY <1>1 DEF TakeFree
  <2>4. iv.spansCall => assignment'[iv.vreg] >= CalleeSavedFrom
    BY <2>1 DEF Free, Floor, AllocInv, Typed
  <2>5. \A b \in Placed : assignment'[b.vreg] = assignment[b.vreg]
    BY <2>1, <2>2 DEF AllocInv, Typed, Placed
  <2> QED
    BY <2>2, <2>3, <2>4, <2>5 DEF FloorKept
<1>2. ASSUME NEW iv \in todo, Steal(iv) \/ SpillNew(iv) PROVE FloorKept'
  <2>1. spills' = spills + 1
    BY <1>2 DEF Steal, SpillNew
  <2>2. spills' # 0
    BY <2>1 DEF CountInv
  <2> QED
    BY <2>2 DEF FloorKept
<1>3. CASE UNCHANGED rvars
  BY <1>3 DEF rvars, FloorKept, Placed
<1> QED
  BY <1>1, <1>2, <1>3 DEF Place

LEMMA CountSteps ==
  ASSUME AllocInv, CountInv, [Place]_rvars
  PROVE  CountInv'
<1>1. ASSUME NEW iv \in todo, TakeFree(iv) PROVE CountInv'
  BY <1>1 DEF TakeFree, CountInv
<1>2. ASSUME NEW v, v \notin spilled, spilled' = spilled \cup {v}, spills' = spills + 1 PROVE CountInv'
  <2>1. IsFiniteSet(spilled') /\ Cardinality(spilled') = Cardinality(spilled) + 1
    BY <1>2, FS_AddElement DEF CountInv
  <2> QED
    BY <1>2, <2>1 DEF CountInv
<1>3. ASSUME NEW iv \in todo, Steal(iv) PROVE CountInv'
  <2>1. PICK e \in Furthest(iv) : spilled' = spilled \cup {e.vreg}
    BY <1>3 DEF Steal
  <2>2. e.vreg \notin spilled
    BY DEF Furthest, Expire, AllocInv, ActiveHolds
  <2>3. spills' = spills + 1
    BY <1>3 DEF Steal
  <2> QED
    BY <1>2, <2>1, <2>2, <2>3
<1>4. ASSUME NEW iv \in todo, SpillNew(iv) PROVE CountInv'
  <2>1. iv.vreg \notin spilled
    BY <1>4, Placing DEF SpillNew, AllocInv, SpilledPlaced
  <2> QED
    BY <1>2, <1>4, <2>1 DEF SpillNew
<1>5. CASE UNCHANGED rvars
  BY <1>5 DEF rvars, CountInv
<1> QED
  BY <1>1, <1>3, <1>4, <1>5 DEF Place

LEMMA SpansSteps ==
  /\ AllocInit => SpansKnown
  /\ SpansKnown /\ [Place]_rvars => SpansKnown'
<1>1. AllocInit => SpansKnown
  BY SpansOfIntervals DEF AllocInit, SpansKnown
<1>2. [Place]_rvars => mf' = mf /\ intervals' = intervals
  BY DEF Place, TakeFree, Steal, SpillNew, rvars
<1>3. SpansKnown /\ mf' = mf /\ intervals' = intervals => SpansKnown'
  BY DEF SpansKnown, SpansCall
<1> QED
  BY <1>1, <1>2, <1>3

LEMMA CountInitially == AllocInit => CountInv /\ FloorKept
<1>1. IsFiniteSet({}) /\ Cardinality({}) = 0
  BY FS_EmptySet
<1> QED
  BY <1>1 DEF AllocInit, CountInv, FloorKept, Placed

(* What lives across a call is in a callee-saved register whenever run()       *)
(* returns no spills, and the number run() returns is that of spilled vregs.   *)
THEOREM CallsSpareTheLivingHolds == Spec => [](CallsSpareTheLiving /\ SpillsCounted)
<1> DEFINE Inv == AllocInv /\ CountInv /\ FloorKept /\ SpansKnown
<1>1. Init => Inv
  BY AllocInitially, CountInitially, SpansSteps DEF Init
<1>2. Inv /\ [Next]_xvars => Inv'
  BY NextAllocates, AllocSteps, CountSteps, FloorSteps, SpansSteps
<1>3. Inv => CallsSpareTheLiving /\ SpillsCounted
  <2>1. SpansKnown /\ FloorKept => CallsSpareTheLiving
    BY DEF FloorKept, SpansKnown, CallsSpareTheLiving, SpansCall, Placed
  <2>2. CountInv => SpillsCounted
    BY DEF CountInv, SpillsCounted
  <2> QED
    BY <2>1, <2>2
<1> QED
  BY <1>1, <1>2, <1>3, PTL DEF Spec
=============================================================================
