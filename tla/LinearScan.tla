----------------------------- MODULE LinearScan -----------------------------
(* The linear-scan register allocator (backend/src/RegAlloc/LinearScan.cpp).   *)
(* A machine function is a sequence of instructions [op, def, uses, imm]; def  *)
(* is NoVReg when there is none and imm also carries a label's id.  Every      *)
(* instruction the selector makes is of the General class, so there is one     *)
(* register file.  Registers are numbered as pregs; those below                *)
(* CalleeSavedFrom do not survive a call.                                      *)
EXTENDS Integers, FiniteSets, Sequences

CONSTANTS Functions,        \* the machine functions to allocate
          NumGpr,           \* num_gpr_
          CalleeSavedFrom   \* callee_saved_from_

NoVReg == -1
NoPReg == -1
PRegs == 0 .. NumGpr - 1

Mentions(f, v) == {i \in DOMAIN f : v = f[i].def \/ \E k \in DOMAIN f[i].uses : f[i].uses[k] = v}
VRegsOf(f) == ({f[i].def : i \in DOMAIN f} \ {NoVReg})
              \cup UNION {{f[i].uses[k] : k \in DOMAIN f[i].uses} : i \in DOMAIN f}

ASSUME LinearScanAssumption ==
  /\ NumGpr \in Nat /\ CalleeSavedFrom \in Nat
  /\ \A f \in Functions : Len(f) \in Nat /\ DOMAIN f = 1 .. Len(f) /\ VRegsOf(f) \subseteq Nat

VARIABLES mf, intervals, todo, active, assignment, spilled, spills
rvars == <<mf, intervals, todo, active, assignment, spilled, spills>>

-----------------------------------------------------------------------------
(* compute_intervals.                                                          *)
IsFirst(f, v, i) == i \in Mentions(f, v) /\ \A j \in Mentions(f, v) : i =< j
IsLast(f, v, i)  == i \in Mentions(f, v) /\ \A j \in Mentions(f, v) : j =< i

BackEdge(f, h, t) ==
  LET closes(j) == j > h /\ f[j].op = "jmp" /\ f[j].imm = f[h].imm
  IN  f[h].op = "label" /\ closes(t) /\ \A j \in h + 1 .. t - 1 : ~ closes(j)

(* Loop widening, loop head by loop head in code order: a value defined before *)
(* a loop and still mentioned in it lives on to the loop's jump.               *)
NotWidened(f, first, last) == last                 \* mutant: straight-line intervals

WidenAt(f, h, first, last) ==
  IF \E t \in DOMAIN f : BackEdge(f, h, t) /\ first < h /\ h =< last /\ last < t
  THEN CHOOSE t \in DOMAIN f : BackEdge(f, h, t)
  ELSE last

WidenedBy(f, first, last) ==
  LET upto[h \in 0 .. Len(f)] == IF h = 0 THEN last ELSE WidenAt(f, h, first, upto[h - 1])
  IN  upto
Widened(f, first, last) == WidenedBy(f, first, last)[Len(f)]

SpansCallTooFew(f, first, last) ==                 \* mutant: a last read right after the call does not count
  \E i \in DOMAIN f : f[i].op = "call" /\ first < i /\ i + 1 < last

SpansCall(f, first, last) == \E i \in DOMAIN f : f[i].op = "call" /\ first < i /\ i < last

Starts(f) == {t \in VRegsOf(f) \X DOMAIN f : IsFirst(f, t[1], t[2])}
LastIndex(f, v, first) == {e \in DOMAIN f : \E l \in DOMAIN f : IsLast(f, v, l) /\ e = Widened(f, first, l)}

Intervals(f) ==
  UNION {{[vreg |-> t[1], start |-> t[2], end |-> e + 1, spansCall |-> SpansCall(f, t[2], e)] :
            e \in LastIndex(f, t[1], t[2])} : t \in Starts(f)}

-----------------------------------------------------------------------------
(* run: intervals in order of start, then end; std::sort leaves the order of   *)
(* equal ones open.                                                            *)
NextUp(iv) ==
  /\ iv \in todo
  /\ \A o \in todo : iv.start < o.start \/ (iv.start = o.start /\ iv.end =< o.end)

ExpireInclusive(iv) == {e \in active : e.end > iv.start + 1}     \* mutant: a last reader may be overwritten

Expire(iv) == {e \in active : e.end > iv.start}
Floor(iv) == IF iv.spansCall THEN CalleeSavedFrom ELSE 0
FreeBeyond(iv) ==                                  \* mutant: p =< num_preg
  {p \in 0 .. NumGpr : p >= Floor(iv) /\ \A e \in Expire(iv) : e.preg # p}
Free(iv) == {p \in PRegs : p >= Floor(iv) /\ \A e \in Expire(iv) : e.preg # p}

(* An ActiveEntry; left tells its place in the vector: entries are appended, so*)
(* the more intervals were left, the earlier it stands.                        *)
Entry(iv, p) == [vreg |-> iv.vreg, end |-> iv.end, preg |-> p, left |-> Cardinality(todo)]

(* std::max_element: the first of those that end last.                         *)
Furthest(iv) ==
  {e \in Expire(iv) : \A o \in Expire(iv) : o.end < e.end \/ (o.end = e.end /\ o.left =< e.left)}

TakeFree(iv) ==
  /\ NextUp(iv)
  /\ \E p \in Free(iv) :
       /\ \A q \in Free(iv) : p =< q
       /\ assignment' = [assignment EXCEPT ![iv.vreg] = p]
       /\ active' = Expire(iv) \cup {Entry(iv, p)}
  /\ todo' = todo \ {iv}
  /\ UNCHANGED <<mf, intervals, spilled, spills>>

Steal(iv) ==
  /\ NextUp(iv) /\ Free(iv) = {}
  /\ \E e \in Furthest(iv) :
       /\ e.end > iv.end
       /\ spilled' = spilled \cup {e.vreg}
       /\ assignment' = [assignment EXCEPT ![iv.vreg] = e.preg]
       /\ active' = (Expire(iv) \ {e}) \cup {Entry(iv, e.preg)}
  /\ spills' = spills + 1
  /\ todo' = todo \ {iv}
  /\ UNCHANGED <<mf, intervals>>

SpillNew(iv) ==
  /\ NextUp(iv) /\ Free(iv) = {}
  /\ \A e \in Furthest(iv) : e.end =< iv.end
  /\ spilled' = spilled \cup {iv.vreg}
  /\ assignment' = [assignment EXCEPT ![iv.vreg] = NoPReg]
  /\ active' = Expire(iv)
  /\ spills' = spills + 1
  /\ todo' = todo \ {iv}
  /\ UNCHANGED <<mf, intervals>>

Place == \E iv \in todo : TakeFree(iv) \/ Steal(iv) \/ SpillNew(iv)

AllocInit ==
  /\ mf \in Functions
  /\ intervals = Intervals(mf)
  /\ todo = intervals
  /\ active = {} /\ spilled = {} /\ spills = 0
  /\ assignment = [v \in VRegsOf(mf) |-> 0]

AllocSpec == AllocInit /\ [][Place]_rvars

-----------------------------------------------------------------------------
Placed == intervals \ todo
Overlap(a, b) == a.start < b.end /\ b.start < a.end

(* Two values alive at the same instruction never share a register: neither    *)
(* expiry, nor a stolen register, nor the order of equal intervals breaks it.  *)
NoSharing ==
  \A a, b \in Placed :
    a.vreg # b.vreg /\ Overlap(a, b) /\ {a.vreg, b.vreg} \cap spilled = {} =>
      assignment[a.vreg] # assignment[b.vreg]

(* Without spills - the executable path accepts nothing else - every value     *)
(* that lives across a call sits in a register the callee saves.               *)
CallsSpareTheLiving ==
  spills = 0 => \A iv \in Placed : \A i \in DOMAIN mf :
    mf[i].op = "call" /\ iv.start < i /\ i < iv.end - 1 => assignment[iv.vreg] >= CalleeSavedFrom

(* The count run() returns is that of the values without a register.           *)
SpillsCounted == spills = Cardinality(spilled)
=============================================================================
