------------------------------ MODULE Lowering ------------------------------
(* Lowerer::lower_fn (frontend/Lowering.cpp) on one function: each action is   *)
(* one statement of a program the TypeChecker accepts, lowered into the graph. *)
(* Beside the lowerer's own state the module runs the program: run[p] is what  *)
(* the source does when the function is called with the arguments p, the       *)
(* reference the graph is compared with.                                       *)
(* Bounds: MaxStmts statements, MaxDepth nested ifs, MaxLoops loops.           *)
EXTENDS SeaGraph, TLC

CONSTANTS Vars,        \* names a program may bind
          LoopVars,    \* names its loops run over
          ParamNames,  \* the function's parameters, in order
          Params,      \* the argument lists it is called with
          Exprs,       \* expressions a statement may use: [op, l, r]
          Conds,       \* expressions an if may test
          Loops,       \* for statements it may use, with their bodies
          MaxStmts, MaxDepth, MaxLoops,
          DeadCode,     \* statements may follow a return
          EarlyReturns, \* returns may stand inside an if
          ElseCalls     \* calls may stand inside an else

VARIABLES g, ctrl, eff,   \* the graph, current_ctrl_, current_eff_
          bindings, hc,   \* bindings_ and the HashCons table
          visible,        \* the names in the TypeChecker's frame
          ifs,            \* the if statements being lowered, innermost last
          stage,          \* "body" or "lowered"
          size,           \* statements so far
          run             \* what the source does, per argument list
state == <<g, ctrl, eff, bindings, hc, visible>>
lvars == <<state, ifs, stage, size, run>>

Names == Vars \cup LoopVars \cup ToSet(ParamNames)
Lit(v)        == [op |-> "lit", v |-> v]
Name(x)       == [op |-> "name", x |-> x]
Atom(a)       == [op |-> "atom", l |-> a, r |-> a]
Bin(k, l, r)  == [op |-> k, l |-> l, r |-> r]
Call(l)       == [op |-> "Call", l |-> l, r |-> l]
UnaryKinds    == {"Neg", "Not"}
BinaryKinds   == {"Add", "Sub", "Mul", "Shl", "CmpEq", "CmpLt"}

(* A statement is a sequence of steps: one for a simple statement; for a loop  *)
(* its head, the steps of its body and its end.                                *)
Stmt(d, x, e) == [do |-> d, x |-> x, e |-> e]
End           == [do |-> "end"]
For(x, l, h, body) == <<[do |-> "for", x |-> x, lo |-> l, hi |-> h]>> \o body \o <<End>>

Atoms       == [op : {"lit"}, v : Int] \cup [op : {"name"}, x : Names]
Expressions == [op : {"atom", "Call"} \cup UnaryKinds \cup BinaryKinds, l : Atoms, r : Atoms]
StepsOf     == [do : {"let", "assign", "expr"}, x : Names, e : Expressions]
                 \cup [do : {"for"}, x : LoopVars, lo : Expressions, hi : Expressions] \cup {End}

(* The loops that are open after k steps.                                      *)
Heads(prog, k) == {i \in 1 .. k : prog[i].do = "for"}
Ends(prog, k)  == {i \in 1 .. k : prog[i].do = "end"}
Depth(prog, k) == Cardinality(Heads(prog, k)) - Cardinality(Ends(prog, k))
EndOf(prog, k) ==
  CHOOSE j \in k + 1 .. Len(prog) : /\ Depth(prog, j) = Depth(prog, k) - 1
                                    /\ \A i \in k .. j - 1 : Depth(prog, i) >= Depth(prog, k)
Body(prog, k) == SubSeq(prog, k + 1, EndOf(prog, k) - 1)
IsLoop(prog) ==
  /\ prog \in Seq(StepsOf) /\ prog # << >> /\ prog[1].do = "for"
  /\ \A k \in 1 .. Len(prog) - 1 : Depth(prog, k) > 0
  /\ Depth(prog, Len(prog)) = 0

ASSUME LoweringAssumption ==
  /\ IsFiniteSet(Vars) /\ IsFiniteSet(LoopVars) /\ ParamNames \in Seq(STRING)
  /\ ToSet(ParamNames) \cap (Vars \cup LoopVars) = {}
  /\ Exprs \cup Conds \subseteq Expressions
  /\ \A f \in Loops : IsLoop(f)
  /\ {MaxStmts, MaxDepth, MaxLoops} \subseteq Nat
  /\ {DeadCode, EarlyReturns, ElseCalls} \subseteq BOOLEAN

-----------------------------------------------------------------------------
(* Arithmetic of the modelled operators, shared by the source's meaning, the   *)
(* graph's meaning and SCCP's folding.  A callee returns its argument plus 3,  *)
(* which no operation of a configuration returns for the same argument.        *)
BoolInt(b) == IF b THEN 1 ELSE 0
ApplyBin(k, a, b) ==
  CASE k = "Add" -> a + b  [] k = "Sub" -> a - b  [] k = "Mul" -> a * b
    [] k = "Shl" -> a * 2 ^ b
    [] k = "CmpEq" -> BoolInt(a = b)  [] k = "CmpLt" -> BoolInt(a < b)
ApplyUn(k, a) == IF k = "Neg" THEN -a ELSE BoolInt(a = 0)
CallResult(a) == a + 3

SourceAtom(a, env) == IF a.op = "lit" THEN a.v ELSE env[a.x]
SourceValue(e, env) ==
  LET l == SourceAtom(e.l, env)  r == SourceAtom(e.r, env)
  IN  CASE e.op = "atom" -> l
        [] e.op = "Call" -> CallResult(l)
        [] e.op \in UnaryKinds -> ApplyUn(e.op, l)
        [] OTHER -> ApplyBin(e.op, l, r)

(* What the source does with a statement: run r is [on, ret, calls, env]; a    *)
(* call is recorded as <<call node, argument>>, with the call nodes the steps  *)
(* made in sites.  "lo .. hi" is evaluated once.  A loop of more than          *)
(* SourceFuel steps ends the run with Poison.                                  *)
Poison == -1000
SourceFuel == 60
SourceStep(m, prog, sites) ==
  LET st   == prog[m.pc]
      lo   == SourceValue(st.lo, m.env)
      hi   == SourceValue(st.hi, m.env)
      loop == Last(m.open)
      round(i, at) == [m EXCEPT !.env = (prog[at].x :> i) @@ @, !.pc = at + 1]
      next == [m EXCEPT !.pc = @ + 1]
      observed == IF st.e.op = "Call" THEN [next EXCEPT !.calls = Append(@, <<sites[m.pc], SourceAtom(st.e.l, m.env)>>)]
                  ELSE next
  IN  CASE m.pc > Len(prog) -> m
        [] st.do = "for" /\ lo < hi  -> [round(lo, m.pc) EXCEPT !.open = Append(@, [at |-> m.pc, i |-> lo, hi |-> hi])]
        [] st.do = "for" /\ lo >= hi -> [m EXCEPT !.pc = EndOf(prog, @) + 1]
        [] st.do = "end" /\ loop.i + 1 < loop.hi ->
             [round(loop.i + 1, loop.at) EXCEPT !.open = Append(Front(@), [loop EXCEPT !.i = @ + 1])]
        [] st.do = "end" /\ loop.i + 1 >= loop.hi -> [next EXCEPT !.open = Front(@)]
        [] st.do = "expr" -> observed
        [] OTHER -> [observed EXCEPT !.env = (st.x :> SourceValue(st.e, m.env)) @@ @]
Executed(r, prog, sites) ==
  LET after[k \in 0 .. SourceFuel] ==
        IF k = 0 THEN [on |-> r.on, ret |-> r.ret, calls |-> r.calls, env |-> r.env, pc |-> 1, open |-> << >>]
        ELSE SourceStep(after[k - 1], prog, sites)
      end == after[IF Len(prog) = 1 THEN 1 ELSE SourceFuel]
  IN  [on |-> end.on, calls |-> end.calls, env |-> end.env,
       ret |-> IF end.pc > Len(prog) THEN end.ret ELSE <<Poison>>]

(* The meaning of a graph for one argument list, by walking its control from   *)
(* Start's control projection: at a control node the calls that hang on it are *)
(* made, then control passes to its one successor.  A merge gives its phis the *)
(* value of the predecessor control came from - all at once; a Loop's are      *)
(* [back, entry] where its phis have [entry, back].  env holds what phis and   *)
(* calls are worth so far; a node that reads another phi or call is Poison.    *)
LoopFuel == 60                                      \* control nodes a walk with loops visits
UnIn(k, a)     == IF a = Poison THEN Poison ELSE ApplyUn(k, a)
BinIn(k, a, b) == IF Poison \in {a, b} THEN Poison ELSE ApplyBin(k, a, b)
ValueIn(G, p, env, n) ==
  LET value[m \in Ids(G)] ==
        LET k == Kind(G, m)
            v(i) == IF Ins(G, m)[i] = NoNode THEN Poison ELSE value[Ins(G, m)[i]]
        IN  IF m \in DOMAIN env THEN env[m]
            ELSE CASE k = "Constant"  -> G.nodes[m].val
                   [] k = "Parameter" -> p[G.nodes[m].val]
                   [] k = "Proj" -> v(1)
                   [] k \in UnaryKinds -> UnIn(k, v(1))
                   [] k \in BinaryKinds -> BinIn(k, v(1), v(2))
                   [] OTHER -> Poison
  IN  IF n = NoNode THEN Poison ELSE value[n]

LiveOf(G, kind) == {n \in LiveIds(G) : Kind(G, n) = kind}
CallsAt(G, c) ==
  SelectSeq([i \in Ids(G) |-> i],
            LAMBDA n : Kind(G, n) = "CallAltered" /\ Ins(G, n)[1] = c /\ ~ G.nodes[n].dead)
Successors(G, c) ==
  {n \in LiveIds(G) : \/ Kind(G, n) \in {"Region", "Loop"} /\ c \in ToSet(Ins(G, n))
                      \/ Kind(G, n) \in {"If", "Return"} /\ Ins(G, n)[1] = c}
PhisOf(G, c) == {n \in LiveOf(G, "Phi") : Ins(G, n)[1] = c}

WalkStep(G, p, m) ==
  LET call(a, n) == LET arg == ValueIn(G, p, a.env, Ins(G, n)[3])
                    IN  [a EXCEPT !.calls = Append(@, <<n, arg>>), !.env = (n :> CallResult(arg)) @@ @]
      r    == FoldLeft(call, m, CallsAt(G, m.at))
      succ == Successors(G, m.at)
      next == CHOOSE n \in succ : TRUE
      side == IF ValueIn(G, p, r.env, Ins(G, next)[2]) = 0 THEN 1 ELSE 0
      arm  == {n \in LiveOf(G, "Proj") : Ins(G, n)[1] = next /\ G.nodes[n].val = side}
      pred == CHOOSE i \in DOMAIN Ins(G, next) : Ins(G, next)[i] = m.at
      operand == IF Kind(G, next) = "Loop" THEN 4 - pred ELSE pred + 1
      phis == [n \in PhisOf(G, next) |-> IF operand \in DOMAIN Ins(G, n)
                                         THEN ValueIn(G, p, r.env, Ins(G, n)[operand]) ELSE Poison]
      stop(v) == [r EXCEPT !.ret = v, !.on = FALSE]
  IN  CASE ~ m.on -> m
        [] succ = {} -> stop(<< >>)
        [] Cardinality(succ) > 1 -> stop(<<Poison>>)
        [] OTHER ->
           CASE Kind(G, next) = "Return" -> [stop(<<ValueIn(G, p, r.env, Ins(G, next)[3])>>) EXCEPT !.at = next]
             [] Kind(G, next) = "If" /\ Cardinality(arm) # 1 -> stop(<<Poison>>)
             [] Kind(G, next) = "If" /\ Cardinality(arm) = 1 -> [r EXCEPT !.at = CHOOSE n \in arm : TRUE]
             [] OTHER -> [r EXCEPT !.at = next, !.env = phis @@ @]

(* Without a loop no control node is visited twice.                            *)
FirstCtrl == 2
GraphRun(G, p) ==
  LET fuel == IF LiveOf(G, "Loop") = {} THEN 1 + Len(G.nodes) ELSE LoopFuel
      walk[k \in 0 .. fuel] ==
        IF k = 0 THEN [at |-> FirstCtrl, env |-> << >>, calls |-> << >>, ret |-> << >>, on |-> TRUE]
        ELSE WalkStep(G, p, walk[k - 1])
      end == walk[fuel]
  IN  [end EXCEPT !.ret = IF end.on THEN <<Poison>> ELSE @]

-----------------------------------------------------------------------------
(* lower_expr.  Constants and calls are fresh nodes; operators go through      *)
(* HashCons::lookup_or_insert.  The lowerer is passed as a record s of its     *)
(* state, in which id is the node the last expression was lowered to, heads    *)
(* the loops that are open and sites what each step left as effect.            *)
Here == [g |-> g, hc |-> hc, ctrl |-> ctrl, eff |-> eff, b |-> bindings, id |-> NoNode,
         heads |-> << >>, sites |-> << >>]

LowerAtom(s, a) ==
  IF a.op = "lit" THEN [s EXCEPT !.g = MakeConstant(s.g, a.v), !.id = NewId(s.g)]
                  ELSE [s EXCEPT !.id = s.b[a.x]]

LookupOrInsert(s, kind, ins) ==
  LET key == <<kind, ins>>
  IN  IF key \in DOMAIN s.hc THEN [s EXCEPT !.id = s.hc[key]]
      ELSE [s EXCEPT !.g = MakeNode(s.g, kind, 0, ins), !.id = NewId(s.g),
                     !.hc = [k \in DOMAIN @ \cup {key} |-> IF k = key THEN NewId(s.g) ELSE @[k]]]

LowerCall(s, arg) ==
  LET call == NewId(s.g)
      G    == MakeNode(s.g, "CallAltered", 0, <<s.ctrl, s.eff, arg>>)
  IN  [s EXCEPT !.g = MakeProj(G, call, 0), !.eff = call, !.id = call + 1]

LowerExpr(s, e) ==
  LET s1 == LowerAtom(s, e.l)
      s2 == LowerAtom(s1, e.r)
  IN  CASE e.op = "atom" -> s1
        [] e.op = "Call" -> LowerCall(s1, s1.id)
        [] e.op \in UnaryKinds -> LookupOrInsert(s1, e.op, <<s1.id>>)
        [] OTHER -> LookupOrInsert(s2, e.op, <<s1.id, s2.id>>)

-----------------------------------------------------------------------------
(* ForStmt: the Loop header, the induction phi, one phi for each name of the   *)
(* enclosing scope the body assigns, the exit test, the body, the back edges   *)
(* and the effect phi on the exit projection.                                  *)
NoAccumulators(b, body) == << >>                      \* mutant: only the loop variable is carried

(* collect_loop_accumulators: an explicit stack, so the last assignment first. *)
Noted(b, out, st) ==
  IF st.do = "assign" /\ b[st.x] # NoNode /\ st.x \notin ToSet(out) THEN Append(out, st.x) ELSE out
Collect(b, body) ==
  LET out[k \in 0 .. Len(body)] ==
        IF k = 0 THEN << >> ELSE Noted(b, out[k - 1], body[Len(body) + 1 - k])
  IN  out
Accumulators(b, body) == Collect(b, body)[Len(body)]

PhiAt(loop, k) == loop + 1 + k                        \* 0: the loop variable's, k: the k-th accumulator's
TestAt(loop, accs) == loop + Len(accs) + 3
InLoop(b, loop, accs) ==
  [x \in DOMAIN b |-> IF x \in ToSet(accs) THEN PhiAt(loop, CHOOSE k \in DOMAIN accs : accs[k] = x) ELSE b[x]]

(* The accumulators' phis, and their back edges.                               *)
AccPhis(G, loop, b, accs) ==
  LET made[k \in 0 .. Len(accs)] ==
        IF k = 0 THEN G ELSE MakeNode(made[k - 1], "Phi", 0, <<loop, b[accs[k]], NoNode>>)
  IN  made
BackEdges(G, loop, b, accs) ==
  LET wired[k \in 0 .. Len(accs)] ==
        IF k = 0 THEN G ELSE SetInput(wired[k - 1], PhiAt(loop, k), 3, b[accs[k]])
  IN  wired

(* Entered from s, with the bounds lowered: the lower to the node lo, then the *)
(* upper, which left the lowerer at hi.                                        *)
LoopOpened(s, lo, hi, x, loop, accs) ==
  LET test == TestAt(loop, accs)
      head == MakeNode(MakeNode(hi.g, "Loop", 0, <<s.ctrl, s.ctrl>>), "Phi", 0, <<loop, lo, NoNode>>)
      phis == AccPhis(head, loop, s.b, accs)[Len(accs)]
      G    == MakeNode(MakeNode(phis, "CmpLt", 0, <<PhiAt(loop, 0), hi.id>>), "If", 0, <<loop, test - 1>>)
  IN  [hi EXCEPT !.g = MakeProj(MakeProj(G, test, 0), test, 1), !.ctrl = test + 1,
                 !.b = [InLoop(s.b, loop, accs) EXCEPT ![x] = PhiAt(loop, 0)],
                 !.heads = Append(@, [loop |-> loop, accs |-> accs, b |-> s.b, eff |-> hi.eff])]
ForHeader(s, f, body) ==
  LET lo == LowerExpr(s, f.lo)
      hi == LowerExpr(lo, f.hi)
  IN  LoopOpened(s, lo.id, hi, f.x, NewId(hi.g), Accumulators(s.b, body))

ForEnd(s) ==
  LET h    == Last(s.heads)
      exit == TestAt(h.loop, h.accs) + 2
      next == LookupOrInsert([s EXCEPT !.g = MakeConstant(@, 1)], "Add", <<PhiAt(h.loop, 0), NewId(s.g)>>)
      back == BackEdges(SetInput(next.g, PhiAt(h.loop, 0), 3, next.id), h.loop, next.b, h.accs)[Len(h.accs)]
  IN  [next EXCEPT !.g = MakeNode(SetInput(back, h.loop, 1, next.ctrl), "Phi", 0, <<exit, h.eff, next.eff>>),
                   !.ctrl = exit, !.eff = NewId(next.g), !.b = InLoop(h.b, h.loop, h.accs), !.heads = Front(@)]

(* One step, with its effect noted; the steps of a statement in turn.          *)
LowerStmt(s, prog, k) ==
  LET st == prog[k]
      r  == CASE st.do = "for"  -> ForHeader(s, st, Body(prog, k))
              [] st.do = "end"  -> ForEnd(s)
              [] st.do = "expr" -> LowerExpr(s, st.e)
              [] OTHER -> LET v == LowerExpr(s, st.e) IN [v EXCEPT !.b[st.x] = v.id]
  IN  [r EXCEPT !.sites = Append(@, r.eff)]
LowerBody(s, prog) ==
  LET after[k \in 0 .. Len(prog)] == IF k = 0 THEN s ELSE LowerStmt(after[k - 1], prog, k)
  IN  after

(* What the TypeChecker admits: expressions over visible names; a let of a new *)
(* name, an assignment to a mutable one; a loop body in a frame of its own.    *)
UsesOf(e)        == {a.x : a \in {b \in {e.l, e.r} : b.op = "name"}}
Checks(e, names) == UsesOf(e) \subseteq names
ChecksStmt(acc, st) ==
  LET here == Last(acc.frames)
      body == [names |-> here.names \cup {st.x}, fixed |-> here.fixed \cup {st.x}]
      in   == IF st.do = "let" THEN [here EXCEPT !.names = @ \cup {st.x}] ELSE here
  IN  CASE st.do = "for" ->
             [ok |-> acc.ok /\ Checks(st.lo, here.names) /\ Checks(st.hi, here.names) /\ st.x \notin here.names,
              frames |-> Append(acc.frames, body)]
        [] st.do = "end" -> [acc EXCEPT !.frames = Front(@)]
        [] OTHER ->
             [ok |-> /\ acc.ok /\ Checks(st.e, here.names)
                     /\ st.do = "let" => st.x \notin here.names
                     /\ st.do = "assign" => st.x \in here.names \ here.fixed,
              frames |-> Append(Front(acc.frames), in)]
ChecksBody(prog, names) ==
  FoldLeft(ChecksStmt, [ok |-> TRUE, frames |-> <<[names |-> names, fixed |-> {}]>>], prog).ok
InElse    == \E i \in DOMAIN ifs : ifs[i].half = "else"
Continues(c) ==                       \* some path gets to the control node c
  /\ c # NoNode
  /\ ~ \E cut \in SUBSET {n \in Ids(g) : Kind(g, n) = "Region"} :
        c \in cut /\ \A n \in cut : ToSet(Ins(g, n)) \ {NoNode} \subseteq cut
MayLower(e) ==
  /\ stage = "body" /\ size < MaxStmts
  /\ DeadCode \/ Continues(ctrl)
  /\ Checks(e, visible)
  /\ e.op = "Call" /\ InElse => ElseCalls

(* One statement is lowered and, wherever the source gets to it, executed.     *)
Perform(prog) ==
  /\ \E s \in {LowerBody(Here, prog)[Len(prog)]} :
       /\ g' = s.g /\ hc' = s.hc /\ ctrl' = s.ctrl /\ eff' = s.eff /\ bindings' = s.b
       /\ run' = [p \in Params |-> IF run[p].on THEN Executed(run[p], prog, s.sites) ELSE run[p]]
  /\ size' = size + 1
  /\ UNCHANGED <<ifs, stage>>
Evaluated(e, s, Then(_, _)) ==
  [p \in Params |-> IF run[p].on
                    THEN Then(Executed(run[p], <<[do |-> "expr", e |-> e]>>, <<s.eff>>), SourceValue(e, run[p].env))
                    ELSE run[p]]

-----------------------------------------------------------------------------
(* LetStmt with an initialiser, and AssignExpr to a name.                      *)
Bind(x, e) ==
  /\ MayLower(e)
  /\ Perform(<<Stmt("let", x, e)>>)
  /\ visible' = visible \cup {x}

ExprStmt(e) ==
  /\ MayLower(e)
  /\ Perform(<<[do |-> "expr", e |-> e]>>)
  /\ UNCHANGED visible

ForStmt(f) ==
  /\ MayLower(f[1].lo) /\ ChecksBody(f, visible)
  /\ Cardinality(LiveOf(g, "Loop")) < MaxLoops
  /\ Perform(f)
  /\ UNCHANGED visible

ReturnStmt(e) ==
  /\ MayLower(e)
  /\ EarlyReturns \/ ifs = << >>
  /\ LET s == LowerExpr(Here, e)
     IN  /\ g' = MakeNode(s.g, "Return", 0, <<ctrl, s.eff, s.id>>)
         /\ hc' = s.hc
         /\ run' = Evaluated(e, s, LAMBDA r, v : [r EXCEPT !.ret = <<v>>, !.on = FALSE])
  /\ ctrl' = NoNode /\ eff' = NoNode
  /\ size' = size + 1
  /\ UNCHANGED <<bindings, visible, ifs, stage>>

(* IfStmt up to its then branch.                                               *)
IfBegin(e) ==
  /\ MayLower(e) /\ Len(ifs) < MaxDepth
  /\ LET s  == LowerExpr(Here, e)
         n  == NewId(s.g)
         G  == MakeNode(s.g, "If", 0, <<ctrl, s.id>>)
         hold == {p \in Params : SourceValue(e, run[p].env) # 0}
         r  == Evaluated(e, s, LAMBDA x, v : [x EXCEPT !.on = v # 0])
     IN  /\ g' = MakeProj(MakeProj(G, n, 0), n, 1)
         /\ hc' = s.hc /\ eff' = s.eff
         /\ ctrl' = n + 1
         /\ ifs' = Append(ifs, [half |-> "then", fproj |-> n + 2, eff |-> s.eff,
                                bindings |-> bindings, visible |-> visible,
                                took |-> hold, on |-> {p \in Params : run[p].on}])
         /\ run' = r
  /\ size' = size + 1
  /\ UNCHANGED <<bindings, visible, stage>>

(* Between the branches: keep what the then branch left, start again from the  *)
(* state before it.                                                            *)
IfElse ==
  /\ stage = "body" /\ ifs # << >>
  /\ LET f == Last(ifs)
     IN  /\ f.half = "then"
         /\ ifs' = Append(Front(ifs), [half |-> "else", eff |-> eff, ctrl |-> ctrl,
                                       bindings |-> bindings, visible |-> visible,
                                       before |-> f.visible, on |-> f.on])
         /\ ctrl' = f.fproj /\ eff' = f.eff
         /\ bindings' = f.bindings /\ visible' = f.visible
         /\ run' = [p \in Params |-> [run[p] EXCEPT !.on = p \in f.on \ f.took]]
  /\ UNCHANGED <<g, hc, stage, size>>

MergeBindingsOnly(G, merge, then, else) ==          \* mutant: no phi, the then branch's node
  [g |-> G, b |-> [x \in Names |-> IF then[x] # NoNode THEN then[x] ELSE else[x]]]

(* After the branches: the merge region, one phi per name they left different, *)
(* and the effect of whichever branch still falls through, the then branch's   *)
(* first.                                                                      *)
MergePhi(acc, merge, x, then, else) ==
  [g |-> MakeNode(acc.g, "Phi", 0, <<merge, then[x], else[x]>>), b |-> [acc.b EXCEPT ![x] = NewId(acc.g)]]
MergedPhis(G, merge, then, else, names) ==
  LET merged[k \in 0 .. Len(names)] ==
        IF k = 0 THEN [g |-> G, b |-> [x \in Names |-> IF then[x] # NoNode THEN then[x] ELSE else[x]]]
        ELSE MergePhi(merged[k - 1], merge, names[k], then, else)
  IN  merged
MergePhis(G, merge, then, else) ==
  LET differ == SetToSeq({x \in Names : then[x] # NoNode /\ else[x] # NoNode /\ then[x] # else[x]})
  IN  MergedPhis(G, merge, then, else, differ)[Len(differ)]

EffAfterIfElseFirst(then, else) == IF else # NoNode THEN else ELSE then   \* mutant

EffAfterIf(then, else) == IF then # NoNode THEN then ELSE else

(* TypeChecker::merge_branch_frames: a name bound in both branches stays.      *)
VisibleAfterIf(before, then, else) == before \cup (then \cap else)

IfEnd ==
  /\ stage = "body" /\ ifs # << >>
  /\ LET f == Last(ifs)
         m == NewId(g)
         r == MergePhis(MakeNode(g, "Region", 0, <<f.ctrl, ctrl>>), m, f.bindings, bindings)
     IN  /\ f.half = "else"
         /\ g' = r.g /\ bindings' = r.b
         /\ ctrl' = m
         /\ eff' = EffAfterIf(f.eff, eff)
         /\ visible' = VisibleAfterIf(f.before, f.visible, visible)
         /\ run' = [p \in Params |-> [run[p] EXCEPT !.on = p \in f.on /\ run[p].ret = << >>]]
  /\ ifs' = Front(ifs)
  /\ UNCHANGED <<hc, stage, size>>

(* lower_fn after the last statement: a void return if control can get there.  *)
FinishFn ==
  /\ stage = "body" /\ ifs = << >>
  /\ IF ctrl # NoNode /\ eff # NoNode
     THEN g' = MakeNode(MakeConstant(g, 0), "Return", 0, <<ctrl, eff, NewId(g)>>)
     ELSE g' = g
  /\ run' = [p \in Params |-> IF run[p].on THEN [run[p] EXCEPT !.ret = <<0>>, !.on = FALSE]
                              ELSE run[p]]
  /\ stage' = "lowered"
  /\ UNCHANGED <<ctrl, eff, bindings, hc, visible, ifs, size>>

(* lower_fn up to the body: Start's projections and the parameters.            *)
ParamNode(x) == 3 + CHOOSE i \in DOMAIN ParamNames : ParamNames[i] = x
ParamNodes(G) ==
  LET made[i \in 0 .. Len(ParamNames)] ==
        IF i = 0 THEN G ELSE MakeNode(made[i - 1], "Parameter", i, << >>)
  IN  made
LowerInit ==
  /\ g = ParamNodes(MakeProj(MakeProj(EmptyGraph, StartNode, 0), StartNode, 1))[Len(ParamNames)]
  /\ ctrl = 2 /\ eff = 3
  /\ bindings = [x \in Names |-> IF x \in ToSet(ParamNames) THEN ParamNode(x) ELSE NoNode]
  /\ hc = << >> /\ visible = ToSet(ParamNames) /\ ifs = << >>
  /\ stage = "body" /\ size = 0
  /\ run = [p \in Params |-> [on |-> TRUE, ret |-> << >>, calls |-> << >>,
                              env |-> [x \in Names |-> IF x \in ToSet(ParamNames) THEN p[ParamNode(x) - 3] ELSE 0]]]

LowerStep ==
  \/ \E x \in Vars, e \in Exprs : Bind(x, e)
  \/ \E e \in Exprs : ExprStmt(e)
  \/ \E f \in Loops : ForStmt(f)
  \/ \E e \in Exprs : ReturnStmt(e)
  \/ \E e \in Conds : IfBegin(e)
  \/ IfElse
  \/ IfEnd
  \/ FinishFn

LowerSpec == LowerInit /\ [][LowerStep]_lvars

-----------------------------------------------------------------------------
(* Lowering keeps the source's meaning at every statement: control gets to the *)
(* current control node exactly when the source runs on, and each visible name *)
(* is bound to a node with the name's value - across branch merges, loops and  *)
(* the values they carry round, and hash-consed operators.                     *)
BindingsMeanSource ==
  stage = "body" =>
    \A p \in Params :
      LET m == GraphRun(g, p)
      IN  /\ m.at = ctrl <=> run[p].on
          /\ run[p].on => \A x \in visible : ValueIn(g, p, m.env, bindings[x]) = run[p].env[x]

(* The lowered function returns what the source returns, once, and makes the   *)
(* source's calls, each as often, with the arguments and in the order of the   *)
(* source.                                                                     *)
ReturnsMeanSource ==
  stage # "body" => \A p \in Params : GraphRun(g, p).ret = run[p].ret
CallsMeanSource ==
  stage # "body" => \A p \in Params : GraphRun(g, p).calls = run[p].calls

(* The graph is one the verifier accepts, and every input edge has exactly one *)
(* user entry, whatever was built or rewired.                                  *)
GraphIsSound == Verify(g) /\ UseDefBalanced(g)

(* The effect chain "threads through every effectful node up to Return": each  *)
(* call a run makes can be reached from the Return it leaves by, backwards     *)
(* along effect inputs.  False of calls in an else branch: after an if the     *)
(* chain goes on from the then branch alone (Lowering.cpp:300), so it is       *)
(* checked of programs without such calls (ElseCalls = FALSE).                 *)
EffectChain(G, n) ==
  LET effectsOf(c) == CASE c = NoNode -> {}
                        [] Kind(G, c) \in AlteredKinds \cup {"Return"} -> {EffIn(G, c)}
                        [] Kind(G, c) = "Phi" /\ Is(G, Ins(G, c)[1], "Proj") -> {Ins(G, c)[2], Ins(G, c)[3]}
                        [] OTHER -> {}
      back[k \in 0 .. Len(G.nodes)] ==
        IF k = 0 THEN {n} ELSE UNION {{c} \cup effectsOf(c) : c \in back[k - 1]}
  IN  back[Cardinality(LiveOf(G, "CallAltered") \cup LiveOf(G, "Loop")) + 1]
ChainCoversCalls ==
  stage # "body" =>
    \A p \in Params :
      LET m == GraphRun(g, p)
      IN  Is(g, m.at, "Return") => {c[1] : c \in ToSet(run[p].calls)} \subseteq EffectChain(g, m.at)
=============================================================================
