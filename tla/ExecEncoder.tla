----------------------------- MODULE ExecEncoder -----------------------------
(* The executable encoder (backend/src/x86/ExecEncoder.cpp): which machine     *)
(* functions it accepts, and what the sequence it emits for each instruction   *)
(* does to the registers.  Two runs go side by side: env is the machine        *)
(* function on its virtual registers, regs the emitted code on the homes that  *)
(* LinearScan assigned.  A value is a token naming where it was computed;      *)
(* phase tells one round of a loop from the next.                              *)
EXTENDS LinearScan

CONSTANT ArgRegs           \* kAbiArgRegs

Rax == NumGpr              \* never a home
Rdx == NumGpr + 1
Homes == PRegs             \* kHomeRegs, by preg
Saved == CalleeSavedFrom .. NumGpr - 1

(* The argument registers are distinct and the callee saves none of them.      *)
ASSUME EncoderAssumption ==
  /\ NumGpr > 0
  /\ ArgRegs \in Seq((Homes \cup {Rdx}) \ Saved)
  /\ \A j, k \in DOMAIN ArgRegs : ArgRegs[j] = ArgRegs[k] => j = k

-----------------------------------------------------------------------------
(* What the encoder takes for granted of a machine function.  The selector     *)
(* gives every function operands, labels and an end.  What the code computes    *)
(* rests on Conforming as well, which not every function it gives satisfies    *)
(* (the README names programs for which it does not).                          *)
Computing == {"param", "mov_imm", "alu", "div", "cmp", "mov", "call"}
Uses(f, i) == {f[i].uses[k] : k \in DOMAIN f[i].uses}

(* The operands each operation has; the result of a sum is not one of them.       *)
WellTyped(f) ==
  /\ f # << >>
  /\ \A i \in DOMAIN f :
       /\ f[i].op \in Computing \cup {"label", "jmp", "jz", "ret"}
       /\ f[i].uses \in Seq(VRegsOf(f))
       /\ f[i].op \in Computing <=> f[i].def # NoVReg
       /\ f[i].op \in {"param", "mov_imm"} => f[i].uses = << >>
       /\ f[i].op \in {"mov", "ret"} => Len(f[i].uses) = 1
       /\ f[i].op = "call" => Len(f[i].uses) =< Len(ArgRegs)
       /\ f[i].op = "alu" => f[i].def \notin Uses(f, i)

(* A label stands once, a jz goes forward, and one jmp goes back to a label.   *)
Targets(f, i) == {l \in DOMAIN f : f[l].op = "label" /\ f[l].imm = f[i].imm}
Structured(f) ==
  \A i \in DOMAIN f :
    /\ f[i].op = "label" => Targets(f, i) = {i}
    /\ f[i].op = "jz" => \A l \in Targets(f, i) : i < l
    /\ f[i].op = "jmp" => \A l \in Targets(f, i) : l < i =>
         \A j \in l + 1 .. Len(f) : f[j].op = "jmp" /\ f[j].imm = f[i].imm => j = i

Succs(f, i) ==
  CASE f[i].op = "ret" -> {}
    [] f[i].op = "jmp" -> Targets(f, i)
    [] f[i].op = "jz"  -> Targets(f, i) \cup {i + 1}
    [] OTHER -> {i + 1}

(* Control never runs past the last instruction: a ret or a jump is there.     *)
StaysInside(f) == \A i \in DOMAIN f : Succs(f, i) \subseteq DOMAIN f

ASSUME SelectorAssumption ==
  \A f \in Functions : WellTyped(f) /\ Structured(f) /\ StaysInside(f)

(* Parameters come first, each with a vreg of its own that is read: not so     *)
(* where an arm is the only reader of one, which is then inside the arm, nor   *)
(* where a function with loops keeps a parameter nothing reads.                *)
ParamsFirst(f) ==
  \A j \in DOMAIN f : f[j].op = "param" =>
    /\ \A i \in 1 .. j - 1 : f[i].op = "param" /\ f[i].def # f[j].def
    /\ \E i \in DOMAIN f : f[i].op # "param" /\ f[j].def \in Uses(f, i)

(* The vregs that some way forward to an instruction has not assigned.         *)
Unset(f) ==
  LET unset[j \in DOMAIN f] ==
        (VRegsOf(f) \ {f[i].def : i \in 1 .. j - 1})
        \cup UNION {unset[i] \ {f[i].def} : i \in {i \in 1 .. j - 1 : j \in Succs(f, i)}}
  IN  unset

(* Every way through the function assigns a vreg before it reads it: not so    *)
(* where two arms share a value and only the first computes it.                *)
DefinedFirst(f) ==
  LET unset == Unset(f)
  IN  \A i \in DOMAIN f :
        /\ VRegsOf(f) \ {f[j].def : j \in 1 .. i - 1} \subseteq unset[i]
        /\ Uses(f, i) \cap unset[i] = {}
        /\ \A j \in Succs(f, i) : unset[i] \ {f[i].def} \subseteq unset[j]

Conforming(f) == ParamsFirst(f) /\ DefinedFirst(f)

VARIABLES stage,           \* "allocate", "run", "returned", "rejected"
          pc, phase, env, regs,
          stack,           \* the homes the prologue pushed
          handed           \* what the last call or return was to pass on, and what it did
xvars == <<rvars, stage, pc, phase, env, regs, stack, handed>>

Junk == <<"junk", 0, 0>>
Made == <<"made", pc, phase>>
Home(v) == assignment[v]

-----------------------------------------------------------------------------
(* Parallel moves: an order in which no move overwrites a source still to be   *)
(* read; failing that, one more try with the first source staged in RAX.       *)
SafeAnyOrder(moves, o) == TRUE                     \* mutant: moves in the order they were collected

Safe(moves, o) ==
  \A i \in DOMAIN moves : \A j \in 1 .. i - 1 :
    moves[o[j]].dst = moves[o[i]].src => moves[o[i]].src = moves[o[i]].dst

Orders(moves) ==
  {o \in [DOMAIN moves -> DOMAIN moves] :
     (\A i, j \in DOMAIN moves : i # j => o[i] # o[j]) /\ Safe(moves, o)}

Staged(moves) == [moves EXCEPT ![1].src = Rax]
Resolvable(moves) == Orders(moves) # {} \/ Orders(Staged(moves)) # {}

(* std::next_permutation starts from the order of the moves and goes up        *)
(* lexicographically: the first safe order is taken.                           *)
LexBefore(o, q) == \E i \in DOMAIN o : o[i] < q[i] /\ \A j \in 1 .. i - 1 : o[j] = q[j]
Ordered(moves) ==
  LET o == CHOOSE o \in Orders(moves) : \A q \in Orders(moves) : q = o \/ LexBefore(o, q)
  IN  [k \in DOMAIN moves |-> moves[o[k]]]
Emitted(moves) ==
  IF Orders(moves) # {} THEN Ordered(moves)
  ELSE <<[src |-> moves[1].src, dst |-> Rax]>> \o Ordered(Staged(moves))

MovRR(r, m) == [r EXCEPT ![m.dst] = r[m.src]]
AfterEach(r, moves) ==
  LET at[k \in 0 .. Len(moves)] == IF k = 0 THEN r ELSE MovRR(at[k - 1], moves[k])
  IN  at
AfterMoves(r, moves) == AfterEach(r, moves)[Len(moves)]

ParamsUpTo(i) == {j \in 1 .. i : mf[j].op = "param"}
ParamMoves ==
  LET param(k) == CHOOSE i \in ParamsUpTo(Len(mf)) : Cardinality(ParamsUpTo(i)) = k
  IN  [k \in 1 .. Cardinality(ParamsUpTo(Len(mf))) |->
         [src |-> ArgRegs[mf[param(k)].imm + 1], dst |-> Home(mf[param(k)].def)]]

CallMoves(uses) == [k \in DOMAIN uses |-> [src |-> Home(uses[k]), dst |-> ArgRegs[k]]]

-----------------------------------------------------------------------------
(* encode_one: everything it can refuse, checked before any code runs.         *)
HomesKnown == \A v \in VRegsOf(mf) : v \notin spilled /\ Home(v) \in Homes
ParamsInRange ==
  \A i \in DOMAIN mf : mf[i].op = "param" => mf[i].imm \in 0 .. Len(ArgRegs) - 1
CallsResolvable == \A i \in DOMAIN mf : mf[i].op = "call" => Resolvable(CallMoves(mf[i].uses))
Returns == \E i \in DOMAIN mf : mf[i].op = "ret"
LabelsPlaced ==
  \A i \in DOMAIN mf : mf[i].op \in {"jmp", "jz"} =>
    \E l \in DOMAIN mf : mf[l].op = "label" /\ mf[l].imm = mf[i].imm

Encodable == HomesKnown /\ ParamsInRange /\ Resolvable(ParamMoves) /\ CallsResolvable /\ Returns /\ LabelsPlaced

(* The prologue pushes every callee-saved home.                                *)
Encode ==
  /\ stage = "allocate" /\ todo = {}
  /\ IF Encodable
     THEN /\ stage' = "run"
          /\ stack' = [k \in 1 .. Cardinality(Saved) |-> regs[CalleeSavedFrom + k - 1]]
     ELSE stage' = "rejected" /\ UNCHANGED stack
  /\ UNCHANGED <<rvars, pc, phase, env, regs, handed>>

At(op) == stage = "run" /\ mf[pc].op = op
Goto(n) == pc' = n
NextInstr == Goto(pc + 1)
LabelAt(id) == CHOOSE l \in DOMAIN mf : mf[l].op = "label" /\ mf[l].imm = id

(* All parameter moves are made at the first param.                            *)
ParamBlock(r, k) == IF k = 1 THEN AfterMoves(r, Emitted(ParamMoves)) ELSE r

Param ==
  /\ At("param")
  /\ regs' = ParamBlock(regs, Cardinality(ParamsUpTo(pc)))
  /\ env' = [env EXCEPT ![mf[pc].def] = <<"arg", mf[pc].imm, 0>>]
  /\ NextInstr
  /\ UNCHANGED <<rvars, stage, phase, stack, handed>>

(* What an operation leaves in its result register when it read the given      *)
(* values: the right ones, or garbage.                                         *)
Result(read) ==
  IF read = [k \in DOMAIN mf[pc].uses |-> env[mf[pc].uses[k]]] THEN Made ELSE Junk

(* dst = a OP b is mov dst, a; OP dst, b: b is read after dst was written.     *)
TwoOperand ==
  LET u == mf[pc].uses
      d == Home(mf[pc].def)
      r == IF u = << >> THEN regs ELSE [regs EXCEPT ![d] = regs[Home(u[1])]]
      read == [k \in DOMAIN u |-> IF k = 1 THEN r[d] ELSE r[Home(u[k])]]
  IN  [r EXCEPT ![d] = Result(read)]

(* dst = a / b goes through RAX and RDX; dst = a < b leaves the flag in AL     *)
(* before dst is written.                                                      *)
ThroughRax(scratch) ==
  LET u == mf[pc].uses
      v == Result([k \in DOMAIN u |-> regs[Home(u[k])]])
  IN  [r \in DOMAIN regs |-> IF r = Home(mf[pc].def) THEN v
                             ELSE IF r \in scratch THEN Junk ELSE regs[r]]

Operate ==
  /\ stage = "run"
  /\ \/ mf[pc].op \in {"mov_imm", "alu"} /\ regs' = TwoOperand
     \/ mf[pc].op = "div" /\ regs' = ThroughRax({Rax, Rdx})
     \/ mf[pc].op = "cmp" /\ regs' = ThroughRax({Rax})
  /\ env' = [env EXCEPT ![mf[pc].def] = Made]
  /\ NextInstr
  /\ UNCHANGED <<rvars, stage, phase, stack, handed>>

Mov ==
  /\ At("mov")
  /\ regs' = [regs EXCEPT ![Home(mf[pc].def)] = regs[Home(mf[pc].uses[1])]]
  /\ env'  = [env EXCEPT ![mf[pc].def] = env[mf[pc].uses[1]]]
  /\ NextInstr
  /\ UNCHANGED <<rvars, stage, phase, stack, handed>>

(* Arguments into place, the call, which owns every caller-saved register, and *)
(* the result from RAX to its home.                                            *)
CallFn ==
  /\ At("call")
  /\ LET u == mf[pc].uses
         r == AfterMoves(regs, Emitted(CallMoves(u)))
     IN  /\ handed' = [want |-> [k \in DOMAIN u |-> env[u[k]]], got |-> [k \in DOMAIN u |-> r[ArgRegs[k]]]]
         /\ regs' = [q \in DOMAIN r |-> IF q = Home(mf[pc].def) THEN Made
                                        ELSE IF q \in Saved THEN r[q] ELSE Junk]
  /\ env' = [env EXCEPT ![mf[pc].def] = Made]
  /\ NextInstr
  /\ UNCHANGED <<rvars, stage, phase, stack>>

Label == At("label") /\ NextInstr /\ UNCHANGED <<rvars, stage, phase, env, regs, stack, handed>>

Jmp ==
  /\ At("jmp")
  /\ Goto(LabelAt(mf[pc].imm))
  /\ phase' = IF pc' < pc THEN 1 - phase ELSE phase
  /\ UNCHANGED <<rvars, stage, env, regs, stack, handed>>

Jz ==
  /\ At("jz")
  /\ Goto(LabelAt(mf[pc].imm)) \/ NextInstr
  /\ UNCHANGED <<rvars, stage, phase, env, regs, stack, handed>>

PoppedInOrder(k) == stack[Len(stack) + 1 - k]     \* mutant: popped in the order pushed
Popped(k) == stack[k]

(* The value into RAX, then the pops, last pushed first.                       *)
Ret ==
  /\ At("ret")
  /\ LET v == mf[pc].uses[1]
     IN  /\ handed' = [want |-> <<env[v]>>, got |-> <<regs[Home(v)]>>]
         /\ regs' = [r \in DOMAIN regs |-> IF r = Rax THEN regs[Home(v)]
                                           ELSE IF r \in Saved THEN Popped(r - CalleeSavedFrom + 1)
                                           ELSE regs[r]]
  /\ stage' = "returned"
  /\ UNCHANGED <<rvars, pc, phase, env, stack>>

-----------------------------------------------------------------------------
Entered ==
  [r \in 0 .. NumGpr + 1 |->
     IF \E k \in DOMAIN ArgRegs : ArgRegs[k] = r
     THEN <<"arg", (CHOOSE k \in DOMAIN ArgRegs : ArgRegs[k] = r) - 1, 0>>
     ELSE IF r \in Saved THEN <<"saved", r, 0>> ELSE Junk]

Init ==
  /\ AllocInit
  /\ stage = "allocate" /\ pc = 1 /\ phase = 0
  /\ env = [v \in VRegsOf(mf) |-> Junk]
  /\ regs = Entered /\ stack = << >>
  /\ handed = [want |-> << >>, got |-> << >>]

Allocate == stage = "allocate" /\ Place /\ UNCHANGED <<stage, pc, phase, env, regs, stack, handed>>

Next == Allocate \/ Encode \/ Param \/ Operate \/ Mov \/ CallFn \/ Label \/ Jmp \/ Jz \/ Ret
Spec == Init /\ [][Next]_xvars

-----------------------------------------------------------------------------
TypeOK ==
  /\ todo \subseteq intervals
  /\ \A e \in active : e.vreg \in VRegsOf(mf) /\ e.preg \in PRegs /\ e.end \in 2 .. Len(mf) + 1
  /\ assignment \in [VRegsOf(mf) -> PRegs \cup {NoPReg}]
  /\ spilled \subseteq VRegsOf(mf) /\ spills \in Nat
  /\ stage \in {"allocate", "run", "returned", "rejected"}
  /\ pc \in DOMAIN mf /\ phase \in 0 .. 1 /\ DOMAIN env = VRegsOf(mf)
  /\ DOMAIN regs = 0 .. NumGpr + 1

(* While the code of a conforming function runs, every instruction finds in    *)
(* the homes of its operands the values the machine function gave them: no     *)
(* other value, no later round of a loop, no call and no parameter move has    *)
(* overwritten one that is still to be read (encode_one).                      *)
UsesReadTheirDefs ==
  stage = "run" /\ Conforming(mf) => \A k \in DOMAIN mf[pc].uses :
    LET v == mf[pc].uses[k] IN regs[Home(v)] = env[v]

(* In a conforming function a callee gets its arguments in the argument        *)
(* registers, in order, and the caller its result, whatever homes they had to  *)
(* be moved out of (encode_one's ordering loop).                               *)
ArgumentsArrive == Conforming(mf) => handed.got = handed.want

(* Whatever the function, its caller finds the callee-saved registers as they  *)
(* were (prologue and epilogue of encode_one).                                 *)
SavedRestored == stage = "returned" => \A r \in Saved : regs[r] = Entered[r]
=============================================================================
