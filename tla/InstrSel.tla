------------------------------ MODULE InstrSel ------------------------------
(* Instruction selection (backend/src/x86/InstrSel_x86.cpp) after the pipeline:*)
(* which nodes become instructions, the order they are emitted in, the branch  *)
(* regions of the merge phis and the regions of the loops.  A node's virtual   *)
(* register is named by the node; machine code is a sequence of instructions   *)
(* [op, def, uses, imm].                                                       *)
EXTENDS Pipeline

VARIABLE code              \* the selected instructions
cvars == <<pvars, code>>

NoDef == 0
Instr(op, def, uses, imm) == [op |-> op, def |-> def, uses |-> uses, imm |-> imm]

-----------------------------------------------------------------------------
(* Which If decided how control got to a merge: the first one met on every     *)
(* predecessor's way up.                                                       *)
RECURSIVE CollectIfs(_, _, _)
CollectIfs(G, c, out) ==
  CASE Is(G, c, "Proj") /\ Is(G, Ins(G, c)[1], "If") ->
         LET if == Ins(G, c)[1]
         IN  CollectIfs(G, Ins(G, if)[1], IF if \in ToSet(out) THEN out ELSE Append(out, if))
    [] Is(G, c, "Region") -> FoldLeft(LAMBDA o, pred : CollectIfs(G, pred, o), out, Ins(G, c))
    [] OTHER -> out

GoverningIf(G, region) ==
  LET chains == SelectSeq([i \in DOMAIN Ins(G, region) |-> CollectIfs(G, Ins(G, region)[i], << >>)],
                          LAMBDA c : c # << >>)
      common == IF chains = << >> THEN << >>
                ELSE SelectSeq(chains[1], LAMBDA f : \A i \in DOMAIN chains : f \in ToSet(chains[i]))
  IN  IF common = << >> THEN NoNode ELSE common[1]

IsSelect(G, n) == Is(G, n, "Phi") /\ Len(Ins(G, n)) = 3 /\ Is(G, Ins(G, n)[1], "Region")
CondOf(G, phi) == Ins(G, GoverningIf(G, Ins(G, phi)[1]))[2]
IsLoopPhi(G, n)  == Is(G, n, "Phi") /\ Is(G, Ins(G, n)[1], "Loop")
IsEffMerge(G, n) == Is(G, n, "Phi") /\ Is(G, Ins(G, n)[1], "Proj")

ValueOfItself(G, n) == n                             \* mutant: no alias for a call's value

(* The value projection of a call shares the call's register.                  *)
ValueOf(G, n) ==
  IF Is(G, n, "Proj") /\ G.nodes[n].val = 0 /\ Is(G, Ins(G, n)[1], "CallAltered") THEN Ins(G, n)[1] ELSE n

ParamIndex(G, n) == Cardinality({q \in LiveIds(G) : Kind(G, q) = "Parameter" /\ q =< n})

Collected(G) ==
  {n \in LiveIds(G) : \/ Kind(G, n) \in Foldable \cup UnaryKinds
                      \/ Kind(G, n) \in {"Constant", "CallAltered", "Parameter", "Return"}
                      \/ IsSelect(G, n) /\ GoverningIf(G, Ins(G, n)[1]) # NoNode}

InstrOf(G, n) ==
  LET k == Kind(G, n)
      u == [i \in DOMAIN DataIns(G, n) |-> ValueOf(G, DataIns(G, n)[i])]
  IN  CASE k = "Constant"    -> Instr("mov_imm", n, << >>, G.nodes[n].val)
        [] k = "Parameter"   -> Instr("param", n, << >>, ParamIndex(G, n))
        [] k = "CallAltered" -> Instr("call", n, u, 0)
        [] k = "Return"      -> Instr("ret", NoDef, <<u[3]>>, 0)
        [] k = "Shl" /\ Is(G, u[2], "Constant") -> Instr("Shl", n, <<u[1]>>, G.nodes[u[2]].val)
        [] OTHER -> Instr(k, n, u, 0)

-----------------------------------------------------------------------------
(* Ownership: what a merge phi's arms and condition reach over any edge, down  *)
(* to other merge phis.  The check that would free a node with an outside user *)
(* asks for a user that is and is not the owner of a select: it frees none.    *)
RECURSIVE Reach(_, _)
Reach(G, S) ==
  LET more == S \cup {in \in UNION {ToSet(Ins(G, n)) : n \in S} \ {NoNode} :
                          ~ IsSelect(G, in) /\ ~ IsLoopPhi(G, in)}
  IN  IF more = S THEN S ELSE Reach(G, more)
OwnedBy(G, phi) ==
  Reach(G, {n \in {Ins(G, phi)[2], Ins(G, phi)[3], CondOf(G, phi)} : ~ IsSelect(G, n)})
OwnedByNone(G) == {}                                 \* mutant: arms are emitted where they stand
Owned(G) == Collected(G) \cap UNION {OwnedBy(G, phi) : phi \in {n \in Collected(G) : IsSelect(G, n)}}

-----------------------------------------------------------------------------
(* Emission.  e is [code, done, labels, loops]; S holds what selection worked  *)
(* out.  Labels of loops are counted apart from those of selects.              *)
NothingEmitted == [code |-> << >>, done |-> {}, labels |-> 1, loops |-> {}]
Emit(e, instrs) == [e EXCEPT !.code = @ \o instrs]
EmitNode(S, e, n) ==
  IF n \in e.done THEN e ELSE [e EXCEPT !.code = Append(@, InstrOf(S.g, n)), !.done = @ \cup {n}]
Label(l)  == Instr("label", NoDef, << >>, l)
Jump(l)   == Instr("jmp", NoDef, << >>, l)
Jz(c, l)  == Instr("jz", NoDef, <<c>>, l)
Mov(d, s) == Instr("mov", d, <<s>>, 0)

ArmCalls(G, proj) ==
  IF proj = NoNode THEN << >>
  ELSE SelectSeq(Users(G, proj), LAMBDA u : u \in LiveIds(G) /\ Kind(G, u) = "CallAltered" /\ Ins(G, u)[1] = proj)

(* emit_value_closure: everything a value needs that was not emitted yet, in   *)
(* post-order over all inputs; within an arm's effect chain not out of the arm.*)
(* A loop's phi stands for its loop, whose region comes before anything else   *)
(* the node needs; the merge of a loop's effects stands for both of them.      *)
(* Loop nodes themselves, no instruction's inputs, come from SelectedLoops.    *)
RECURSIVE EmitClosure(_, _, _, _), EmitSelect(_, _, _), EmitLoop(_, _, _)
EmitClosure(S, e, root, scope) ==
  LET n == ValueOf(S.g, root)
      outOfArm(i) == /\ i = 2 /\ ~ IsPure(Kind(S.g, n)) /\ scope # NoNode
                     /\ \/ Ins(S.g, n)[i] = NoNode
                        \/ Ins(S.g, Ins(S.g, n)[i]) = << >>
                        \/ Ins(S.g, Ins(S.g, n)[i])[1] # scope
      child(in)   == IF IsEffMerge(S.g, in) THEN <<Ins(S.g, in)[3], Ins(S.g, in)[2]>> ELSE <<in>>
      children    == FlattenSeq([i \in DOMAIN Ins(S.g, n) |-> IF outOfArm(i) THEN << >> ELSE child(Ins(S.g, n)[i])])
      region(a, in) == IF IsLoopPhi(S.g, in) THEN EmitLoop(S, a, Ins(S.g, in)[1]) ELSE a
      visit(a, in)  == IF IsEffMerge(S.g, in) THEN a ELSE EmitClosure(S, a, in, scope)
  IN  CASE Is(S.g, n, "Loop") -> EmitLoop(S, e, n)
        [] IsLoopPhi(S.g, n) -> EmitLoop(S, e, Ins(S.g, n)[1])
        [] IsEffMerge(S.g, n) -> EmitClosure(S, EmitClosure(S, e, Ins(S.g, n)[2], scope), Ins(S.g, n)[3], scope)
        [] n \in S.nodes \ e.done /\ IsSelect(S.g, n) -> EmitSelect(S, e, n)
        [] n \in S.nodes \ e.done /\ ~ IsSelect(S.g, n) ->
             EmitNode(S, FoldLeft(visit, FoldLeft(region, e, Reverse(children)), children), n)
        [] OTHER -> e

(* emit_select_region: condition, branch, one arm, jump, other arm; each arm's *)
(* values, then its calls, then the move into the phi's register.              *)
EmitSelect(S, e, phi) ==
  LET if    == GoverningIf(S.g, Ins(S.g, phi)[1])
      else  == e.labels
      end   == e.labels + 1
      arm(a, i) ==
        FoldLeft(LAMBDA b, call : EmitClosure(S, b, call, ProjOf(S.g, if, i)),
                 EmitClosure(S, a, Ins(S.g, phi)[i + 2], NoNode), ArmCalls(S.g, ProjOf(S.g, if, i)))
      move(i) == Mov(phi, ValueOf(S.g, Ins(S.g, phi)[i + 2]))
      c  == EmitClosure(S, [e EXCEPT !.done = @ \cup {phi}, !.labels = @ + 2], CondOf(S.g, phi), NoNode)
      t  == arm(Emit(c, <<Jz(ValueOf(S.g, CondOf(S.g, phi)), else)>>), 0)
      f  == arm(Emit(t, <<move(0), Jump(end), Label(else)>>), 1)
  IN  Emit(f, <<move(1), Label(end)>>)

(* emit_loop_region, once per loop: the phis' entry values; the head; what the *)
(* body does, last effect first of all, then the next values and the test; the *)
(* exit; the phis' next values, one move after the other; back to the head.    *)
InductionOnly(G, loop) ==                            \* mutant: accumulators are not carried
  SubSeq(SelectSeq(LiveUsers(G, loop), LAMBDA u : Kind(G, u) = "Phi"), 1, 1)

LoopPhis(G, loop) == SelectSeq(LiveUsers(G, loop), LAMBDA u : Kind(G, u) = "Phi" /\ Ins(G, u)[1] = loop)
LastTest(G, loop) == Last(SelectSeq(LiveUsers(G, loop), LAMBDA u : Kind(G, u) = "If" /\ Ins(G, u)[1] = loop))
NoBodyEffect(G, loop) == NoNode                       \* mutant: only what data needs is emitted

BodyEffect(G, loop) ==
  LET projs  == UsersOf(G, LastTest(G, loop), "Proj")
      merges == FlattenSeq([i \in DOMAIN projs |->
                  SelectSeq(UsersOf(G, projs[i], "Phi"), LAMBDA m : Ins(G, m)[1] = projs[i])])
  IN  IF merges = << >> THEN NoNode ELSE Ins(G, Last(merges))[3]

EmitLoop(S, e, loop) ==
  LET G     == S.g
      phis  == LoopPhis(G, loop)
      cond  == Ins(G, LastTest(G, loop))[2]
      head  == -(2 * Cardinality(e.loops) + 1)
      value(a, n) == EmitClosure(S, a, n, NoNode)
      enter(a, phi) ==
        LET entry == Ins(G, phi)[2]
        IN  IF Is(G, entry, "Constant") THEN Emit(a, <<Instr("mov_imm", phi, << >>, G.nodes[entry].val)>>)
            ELSE Emit(value(a, entry), <<Mov(phi, ValueOf(G, entry))>>)
      init == FoldLeft(enter, [e EXCEPT !.loops = @ \cup {loop}], phis)
      body == FoldLeft(LAMBDA a, phi : value(a, Ins(G, phi)[3]),
                       value(Emit(init, <<Label(head)>>), BodyEffect(G, loop)), phis)
      next == [i \in DOMAIN phis |-> Mov(phis[i], ValueOf(G, Ins(G, phis[i])[3]))]
  IN  IF loop \in e.loops THEN e
      ELSE Emit(value(body, cond), <<Jz(ValueOf(G, cond), head - 1)>> \o next \o <<Jump(head), Label(head - 1)>>)

(* The straight-line scheduler: post-order over the inputs, node by node; owned*)
(* nodes are left to their select.                                             *)
RECURSIVE Schedule(_, _, _)
Schedule(S, e, root) ==
  LET n == ValueOf(S.g, root)
      visit(a, in) == IF in \in S.owned THEN a ELSE Schedule(S, a, in)
  IN  CASE n \notin S.nodes \/ n \in e.done \/ n \in S.owned -> e
        [] n \in S.nodes \ (e.done \cup S.owned) /\ IsSelect(S.g, n) -> EmitSelect(S, e, n)
        [] OTHER -> EmitNode(S, FoldLeft(visit, e, Ins(S.g, n)), n)

(* One sweep: instructions whose result nothing reads are dropped.             *)
DropDead(c) ==
  LET read == UNION {ToSet(c[i].uses) : i \in DOMAIN c}
  IN  SelectSeq(c, LAMBDA i : i.op = "ret" \/ i.def = NoDef \/ i.def \in read)

SelectedFromReturn(G) ==                             \* mutant: only what a Return reads is scheduled
  LET S == [g |-> G, nodes |-> Collected(G), owned |-> Owned(G)]
  IN  FoldLeft(LAMBDA e, n : Schedule(S, e, n), NothingEmitted,
               SelectSeq(AllIds(G), LAMBDA n : n \in LiveOf(G, "Return")))

Selected(G) ==
  LET S == [g |-> G, nodes |-> Collected(G), owned |-> Owned(G)]
  IN  FoldLeft(LAMBDA e, n : Schedule(S, e, n), NothingEmitted,
               SelectSeq(AllIds(G), LAMBDA n : n \in S.nodes))

(* emit_structured_loops, the path of a function with a loop: the parameters;  *)
(* the effect chain of the first return, in order, a call or a whole loop each;*)
(* the loops that were not on it; what the return needs, and the return.       *)
RECURSIVE Events(_, _)
Events(G, n) ==
  CASE IsEffMerge(G, n) -> Append(Events(G, Ins(G, n)[2]), Ins(G, Ins(G, Ins(G, n)[1])[1])[1])
    [] Is(G, n, "CallAltered") -> Append(Events(G, EffIn(G, n)), n)
    [] OTHER -> << >>

SelectedLoops(G) ==
  LET S   == [g |-> G, nodes |-> Collected(G)]
      ret == SelectSeq(AllIds(G), LAMBDA n : n \in LiveOf(G, "Return"))[1]
      params  == SelectSeq(AllIds(G), LAMBDA n : n \in LiveOf(G, "Parameter"))
      place(a, n) == IF Is(G, n, "Parameter") \/ Is(G, n, "Return") THEN EmitNode(S, a, n)
                     ELSE EmitClosure(S, a, n, NoNode)
  IN  FoldLeft(place, NothingEmitted,
               params \o Events(G, Ins(G, ret)[2]) \o LoopIds(G) \o <<Ins(G, ret)[3], Ins(G, ret)[2], ret>>)

(* InstrSelector::lower.  Without loops an instruction nothing reads is dropped*)
(* and a collected node that was never emitted aborts it; with loops neither.  *)
SelectLoops ==
  /\ stage = "optimised" /\ LoopIds(g) # << >>
  /\ code' = SelectedLoops(g).code
  /\ stage' = "selected"
  /\ UNCHANGED <<state, ifs, size, run, pos, iters, totalRemoved, telemetry>>

SelectInstrs ==
  /\ stage = "optimised" /\ LoopIds(g) = << >>
  /\ \E e \in {Selected(g)} :
       /\ code' = DropDead(e.code)
       /\ stage' = IF Collected(g) \subseteq e.done THEN "selected" ELSE "aborted"
  /\ UNCHANGED <<state, ifs, size, run, pos, iters, totalRemoved, telemetry>>

CompileInit == Init /\ code = << >>
CompileNext == (Next /\ UNCHANGED code) \/ SelectInstrs \/ SelectLoops
CompileSpec == CompileInit /\ [][CompileNext]_cvars

-----------------------------------------------------------------------------
(* What the machine code does with the arguments p: [ret, calls].  A read of a *)
(* register nothing wrote ends the run with Poison, and so does a run of more  *)
(* than MachineFuel instructions.                                              *)
MachineFuel == 400
Step(c, p, m) ==
  LET at(l) == CHOOSE i \in DOMAIN c : c[i].op = "label" /\ c[i].imm = l
      i == c[m.pc]
      v(j) == m.env[i.uses[j]]
      set(x) == [m EXCEPT !.env = (i.def :> x) @@ @, !.pc = @ + 1]
  IN  IF ~ ToSet(i.uses) \subseteq DOMAIN m.env THEN [m EXCEPT !.ret = <<Poison>>]
      ELSE CASE i.op = "mov_imm" -> set(i.imm)
             [] i.op = "param" -> set(p[i.imm])
             [] i.op = "mov"   -> set(v(1))
             [] i.op = "call"  -> [set(CallResult(v(1))) EXCEPT !.calls = Append(@, <<i.def, v(1)>>)]
             [] i.op = "ret"   -> [m EXCEPT !.ret = <<v(1)>>]
             [] i.op = "jmp"   -> [m EXCEPT !.pc = at(i.imm)]
             [] i.op = "jz"    -> [m EXCEPT !.pc = IF v(1) = 0 THEN at(i.imm) ELSE @ + 1]
             [] i.op = "label" -> [m EXCEPT !.pc = @ + 1]
             [] i.op \in UnaryKinds -> set(ApplyUn(i.op, v(1)))
             [] OTHER -> set(ApplyBin(i.op, v(1), IF Len(i.uses) = 1 THEN i.imm ELSE v(2)))
RECURSIVE Steps(_, _, _, _)
Steps(c, p, m, fuel) ==
  CASE m.ret # << >> \/ m.pc > Len(c) -> m
    [] fuel = 0 -> [m EXCEPT !.ret = <<Poison>>]
    [] OTHER -> Steps(c, p, Step(c, p, m), fuel - 1)
MachineRun(c, p) == Steps(c, p, [pc |-> 1, env |-> << >>, calls |-> << >>, ret |-> << >>], MachineFuel)

MeansSource(c, p) == MachineRun(c, p).ret = run[p].ret

(* What a select's arms compute for themselves: reached from arm i and not     *)
(* from the condition, which is emitted before the branch.                     *)
ArmOf(G, phi, i) ==
  (Reach(G, {n \in {Ins(G, phi)[i]} : ~ IsSelect(G, n)}) \cap Collected(G)) \ Reach(G, {CondOf(G, phi)})

(* No arm shares what it computes: not with the other arm, an instruction      *)
(* outside or any branch's test, and it holds no call from before its branch.  *)
ArmsAreClosed(G) ==
  LET selects == {n \in Collected(G) : IsSelect(G, n)}
      closed(phi, i) ==
        \A n \in ArmOf(G, phi, i) :
          /\ \A u \in Collected(G) : n \in ToSet(InstrOf(G, u).uses) => u \in ArmOf(G, phi, i) \cup {phi}
          /\ \A if \in LiveOf(G, "If") : n # Ins(G, if)[2]
          /\ Is(G, n, "CallAltered") =>
                GoverningIf(G, Ins(G, phi)[1]) \in ToSet(CollectIfs(G, Ins(G, n)[1], << >>))
  IN  \A phi \in selects : /\ closed(phi, 2) /\ closed(phi, 3)
                            /\ ArmOf(G, phi, 2) \cap ArmOf(G, phi, 3) = {}

(* No select's branch stands inside another's: the phi of an inner branch is a *)
(* root of the scheduler by itself and its region comes before the outer one.  *)
RECURSIVE Guards(_, _)
Guards(G, c) ==
  CASE Is(G, c, "Proj") /\ Is(G, Ins(G, c)[1], "If") -> {Ins(G, c)[1]}
    [] Is(G, c, "Region") /\ GoverningIf(G, c) # NoNode -> Guards(G, Ins(G, GoverningIf(G, c))[1])
    [] OTHER -> {}
SelectsAreFlat(G) ==
  \A phi \in {n \in Collected(G) : IsSelect(G, n)} : Guards(G, Ins(G, GoverningIf(G, Ins(G, phi)[1]))[1]) = {}

(* The moves into a loop's phis at its back edge are made one after the other: *)
(* none of them reads a phi that an earlier one has overwritten.               *)
BackMovesIndependent(G) ==
  \A loop \in LiveOf(G, "Loop") :
    LET phis == LoopPhis(G, loop)
    IN  \A i, j \in DOMAIN phis : i < j => Ins(G, phis[j])[3] # phis[i]

(* The selected function returns what the source returns, for every graph      *)
(* whose arms share nothing and whose loops carry no phi over from another.    *)
MachineReturns ==
  stage = "selected" /\ ArmsAreClosed(g) /\ BackMovesIndependent(g) => \A p \in Params : MeansSource(code, p)

(* ... and for every other loop too: "SOUNDNESS: the phi register holds the    *)
(* CURRENT iteration's value during the body (updates come last)".             *)
LoopsReturn == stage = "selected" => \A p \in Params : MeansSource(code, p)

(* It makes no call the source does not make, none twice, none with other      *)
(* arguments and none before an earlier one, for every graph without nested    *)
(* selects: a branch guards the calls of its arms.                             *)
MachineCalls ==
  stage = "selected" /\ SelectsAreFlat(g) => \A p \in Params :
    LET calls == MachineRun(code, p).calls
    IN  /\ ToSet(calls) \subseteq ToSet(run[p].calls)
        /\ \A i, j \in DOMAIN calls : i < j => calls[i][1] < calls[j][1]

(* The loops whose body a control node is in.                                  *)
RECURSIVE LoopsAround(_, _)
LoopsAround(G, c) ==
  LET from == Ins(G, c)[1]
      body == IF Is(G, c, "Proj") /\ Is(G, Ins(G, from)[1], "Loop") /\ G.nodes[c].val = 0
              THEN {Ins(G, from)[1]} ELSE {}
  IN  CASE Is(G, from, "Start")   -> {}
        [] Kind(G, c) = "Loop"    -> LoopsAround(G, Ins(G, c)[2])
        [] Is(G, from, "If")      -> body \cup LoopsAround(G, Ins(G, from)[1])
        [] OTHER                  -> LoopsAround(G, from)
CallsAreInFlatLoops(G) ==
  \A n \in LiveOf(G, "CallAltered") : Cardinality(LoopsAround(G, Ins(G, n)[1])) < 2

(* A function with loops loses no call of the source and keeps their order;    *)
(* a call of a loop's body is made at most once more than the source makes it, *)
(* in the round whose test then fails.  For every graph without a call in an   *)
(* inner loop.                                                                 *)
MatchedIn(calls, of) ==
  FoldLeft(LAMBDA k, c : IF k < Len(of) /\ of[k + 1] = c THEN k + 1 ELSE k, 0, calls)
TimesCalled(calls, site) == Cardinality({i \in DOMAIN calls : calls[i][1] = site})
LoopsKeepCalls ==
  stage = "selected" /\ LoopIds(g) # << >> /\ CallsAreInFlatLoops(g) => \A p \in Params :
    LET calls == MachineRun(code, p).calls
    IN  /\ MatchedIn(calls, run[p].calls) = Len(run[p].calls)
        /\ \A site \in {c[1] : c \in ToSet(calls)} :
             TimesCalled(calls, site) =< TimesCalled(run[p].calls, site) + 1

(* "source-level loops (NESTED loops included, recursively emitted)": no call  *)
(* is lost in any nest of loops.                                               *)
NestsKeepCalls ==
  stage = "selected" /\ LoopIds(g) # << >> => \A p \in Params : MatchedIn(MachineRun(code, p).calls, run[p].calls) = Len(run[p].calls)

(* Everything collected gets emitted: selection aborts on no graph whose arms  *)
(* share nothing, although owned nodes are left to a select that must come.    *)
NeverAborts == stage = "aborted" => ~ ArmsAreClosed(g)
=============================================================================
