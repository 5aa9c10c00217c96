---------------------------- MODULE ScalarPasses ----------------------------
(* The rewriting passes of the standard pipeline (passes/src/mid) that act on  *)
(* loop-free, allocation-free graphs, each an operator from a graph to         *)
(* [g, n]: the graph it leaves and the count it returns.                       *)
EXTENDS Lowering

Result(G, n) == [g |-> G, n |-> n]

(* "for id in 0 .. n: body(g, id)" with the count accumulated.                 *)
Visit(G, ids, body(_, _)) ==
  FoldLeft(LAMBDA acc, id : LET r == body(acc.g, id) IN Result(r.g, acc.n + r.n), Result(G, 0), ids)
AllIds(G) == [i \in 1 .. Len(G.nodes) |-> i]
IdsOf(G, kinds) == SelectSeq(AllIds(G), LAMBDA n : Kind(G, n) \in kinds /\ ~ G.nodes[n].dead)

(* Replace every use of a node and mark it dead.                               *)
Replaced(G, old, new) == Result(MarkDead(ReplaceUses(G, old, new), old), 1)
Kept(G) == Result(G, 0)

-----------------------------------------------------------------------------
(* SCCP: the lattice, the in-order sweeps to a fixpoint, the rewrite.          *)
Top == [tag |-> "top", v |-> 0]
Bottom == [tag |-> "bottom", v |-> 0]
Const(v) == [tag |-> "const", v |-> v]
MergeVal(a, b) ==
  CASE b = Top \/ a = Bottom -> a
    [] a = Top  -> b
    [] a = b    -> a
    [] OTHER    -> Bottom

Foldable == BinaryKinds

(* The value a phi takes: a constant only when every value input is that       *)
(* constant; an unknown input poisons it.                                      *)
PhiVal(G, st, n) ==
  LET vals == {st[in] : in \in {i \in ToSet(Ins(G, n)) \ {NoNode} : Kind(G, i) \notin {"Region", "Loop"}}}
  IN  IF Cardinality(vals) = 1 /\ \A v \in vals : v.tag = "const"
      THEN CHOOSE v \in vals : TRUE ELSE Bottom

(* The value of a unary operator, of a binary one, and - the same loop - of    *)
(* every other node: the fold of its known data inputs from left to right.     *)
UnVal(G, st, n) ==
  LET v == st[DataIns(G, n)[1]]
  IN  IF v.tag = "const" THEN Const(ApplyUn(Kind(G, n), v.v)) ELSE v
FoldVal(G, st, n) ==
  LET vals == [i \in DOMAIN DataIns(G, n) |->
                 IF DataIns(G, n)[i] = NoNode THEN Top ELSE st[DataIns(G, n)[i]]]
      step(acc, v) ==
        CASE acc = Bottom \/ v = Bottom -> Bottom
          [] acc.tag = "start" -> IF v = Top THEN [tag |-> "unknown", v |-> 0] ELSE v
          [] acc.tag = "unknown" \/ v = Top -> [tag |-> "unknown", v |-> 0]
          [] OTHER -> IF Kind(G, n) \in Foldable THEN Const(ApplyBin(Kind(G, n), acc.v, v.v))
                      ELSE [tag |-> "unknown", v |-> 0]
      r == FoldLeft(step, [tag |-> "start", v |-> 0], vals)
  IN  IF r.tag \in {"const", "bottom"} THEN r ELSE Top

NodeVal(G, st, n) ==
  CASE Kind(G, n) = "Phi" -> PhiVal(G, st, n)
    [] Kind(G, n) \in UnaryKinds -> UnVal(G, st, n)
    [] OTHER -> FoldVal(G, st, n)

Sweep(G, st) ==
  FoldLeft(LAMBDA s, n : [s EXCEPT ![n] = MergeVal(@, NodeVal(G, s, n))],
           st, SelectSeq(AllIds(G), LAMBDA n : ~ G.nodes[n].dead /\ Kind(G, n) # "Constant"))
RECURSIVE SweepToFixpoint(_, _)
SweepToFixpoint(G, st) ==
  LET next == Sweep(G, st) IN IF next = st THEN st ELSE SweepToFixpoint(G, next)

SCCP(G) ==
  LET st == SweepToFixpoint(G, [n \in Ids(G) |-> IF n \in LiveIds(G) /\ Kind(G, n) = "Constant"
                                                 THEN Const(G.nodes[n].val) ELSE Top])
      known == SelectSeq(AllIds(G), LAMBDA n : /\ ~ G.nodes[n].dead /\ Kind(G, n) # "Constant"
                                               /\ IsPure(Kind(G, n)) /\ st[n].tag = "const")
  IN  Visit(G, known, LAMBDA h, n : Replaced(MakeConstant(h, st[n].v), n, NewId(h)))

-----------------------------------------------------------------------------
SimplerIdempotent(G, k, l, r) ==                     \* mutant: x - x taken for x
  IF k = "Sub" /\ l = r THEN [by |-> "node", n |-> l]
  ELSE [by |-> "none"]

(* StrengthReduction: what a two-operand node is rewritten to.  Its loop runs  *)
(* over the nodes it appends too; those are constants and shifts, which no     *)
(* rule rewrites.                                                              *)
PowersOfTwo == {2 ^ k : k \in 0 .. 6}
Log2(v) == CHOOSE k \in 0 .. 6 : 2 ^ k = v
Simpler(G, k, l, r) ==
  LET is(n, v) == Kind(G, n) = "Constant" /\ G.nodes[n].val = v
      pow(n)   == Kind(G, n) = "Constant" /\ G.nodes[n].val \in PowersOfTwo
      use(n)   == [by |-> "node", n |-> n]
      zero     == [by |-> "zero"]
  IN  CASE k = "Mul" /\ is(r, 1) -> use(l)
        [] k = "Mul" /\ is(r, 0) -> zero
        [] k = "Mul" /\ ~ is(r, 1) /\ pow(r) -> [by |-> "shift", n |-> Log2(G.nodes[r].val)]
        [] k = "Add" /\ is(r, 0) -> use(l)
        [] k = "Add" /\ ~ is(r, 0) /\ is(l, 0) -> use(r)
        [] k = "Sub" /\ is(r, 0) -> use(l)
        [] k = "Sub" /\ ~ is(r, 0) /\ l = r -> zero
        [] OTHER -> [by |-> "none"]

StrengthReduction(G) ==
  LET reduce(h, n) ==
        LET l == Ins(h, n)[1]
            s == Simpler(h, Kind(h, n), l, Ins(h, n)[2])
            c == NewId(h)
        IN  CASE s.by = "none"  -> Kept(h)
              [] s.by = "node"  -> Replaced(h, n, s.n)
              [] s.by = "zero"  -> Replaced(MakeConstant(h, 0), n, c)
              [] s.by = "shift" -> Replaced(MakeNode(MakeConstant(h, s.n), "Shl", 0, <<l, c>>), n, c + 1)
  IN  Visit(G, IdsOf(G, {"Add", "Sub", "Mul"}), reduce)

-----------------------------------------------------------------------------
(* CopyPropagation: a Select of one value, a Phi of one value, a Cast (with no *)
(* types yet, every cast is an identity cast).                                 *)
CopyOf(G, n) ==
  LET ins  == Ins(G, n)
      vals == {ins[i] : i \in {j \in 2 .. Len(ins) : ins[j] # NoNode /\ Kind(G, ins[j]) \notin {"Region", "Loop"}}}
  IN  CASE Kind(G, n) = "Cast" /\ Len(ins) = 1 -> ins[1]
        [] Kind(G, n) = "Select" /\ Len(ins) = 3 /\ ins[2] = ins[3] -> ins[2]
        [] Kind(G, n) = "Phi" /\ Cardinality(vals) = 1 -> CHOOSE v \in vals : TRUE
        [] OTHER -> NoNode

CopyPropagation(G) ==
  Visit(G, IdsOf(G, {"Cast", "Select", "Phi"}),
        LAMBDA h, n : IF CopyOf(h, n) = NoNode THEN Kept(h) ELSE Replaced(h, n, CopyOf(h, n)))

-----------------------------------------------------------------------------
(* GVN: one pass over the pure nodes finds, for each, the first live node with *)
(* the same kind, payload and data inputs; all inputs are then rewired and the *)
(* duplicates marked dead.  Keys are taken before any rewiring.                *)
SameValue(G, m, n) ==
  /\ Kind(G, m) = Kind(G, n) /\ G.nodes[m].val = G.nodes[n].val
  /\ DataIns(G, m) = DataIns(G, n)

GVN(G) ==
  LET numbered == {n \in LiveIds(G) : IsPure(Kind(G, n)) /\ Kind(G, n) # "Parameter"}
      leader(n) == CHOOSE m \in numbered : SameValue(G, m, n) /\ \A k \in numbered : SameValue(G, k, n) => m =< k
      dups == {n \in numbered : leader(n) # n}
      rewire(h, n) ==
        FoldLeft(LAMBDA f, i : IF Ins(f, n)[i] \in dups THEN SetInput(f, n, i, leader(Ins(f, n)[i])) ELSE f,
                 h, [i \in DOMAIN Ins(h, n) |-> i])
      readers == SelectSeq(AllIds(G), LAMBDA n : ~ G.nodes[n].dead /\ ToSet(Ins(G, n)) \cap dups # {})
      rewired == FoldLeft(rewire, G, readers)
  IN  Result(MarkAllDead(rewired, dups), Cardinality(dups))

-----------------------------------------------------------------------------
(* RCOptimization, CSE and DSE walk the effect chain, each from a projection   *)
(* of Start it makes itself.                                                   *)
WalkFromFirst(G) == [g |-> G, from |-> 3]       \* mutant: from the projection calls hang on

WalkStart(G) == [g |-> MakeProj(G, StartNode, 1), from |-> NewId(G)]

(* What a walk visits: from each node its first user that takes its effect     *)
(* from it.                                                                    *)
RECURSIVE Chain(_, _)
Chain(G, n) ==
  LET next == SelectSeq(Users(G, n), LAMBDA u : ~ IsPure(Kind(G, u)) /\ EffIn(G, u) = n)
  IN  IF next = << >> THEN << >> ELSE <<next[1]>> \o Chain(G, next[1])

(* Two calls in a row whose first argument is the same node are taken for an   *)
(* increment and a decrement and both marked dead.                             *)
RCOptimization(G) ==
  LET w == WalkStart(G)
      sameCall(acc, n) == acc.last # NoNode /\ Ins(acc.g, acc.last)[3] = Ins(acc.g, n)[3]
      visit(acc, n) ==
        CASE Kind(acc.g, n) # "CallAltered" -> [acc EXCEPT !.last = NoNode]
          [] Kind(acc.g, n) = "CallAltered" /\ sameCall(acc, n) ->
               [g |-> MarkDead(MarkDead(acc.g, acc.last), n), n |-> acc.n + 2, last |-> NoNode]
          [] OTHER -> [acc EXCEPT !.last = n]
      r == FoldLeft(visit, [g |-> w.g, n |-> 0, last |-> NoNode], Chain(w.g, w.from))
  IN  Result(r.g, r.n)

(* CSE looks for repeated loads along the walk, DSE for overwritten stores;    *)
(* these graphs have neither, so what either leaves behind is its projection.  *)
LoadStoreWalk(G) == Kept(WalkStart(G).g)

-----------------------------------------------------------------------------
(* EDCE: what no Crowded node, Return or Stop reaches backwards is dead.       *)
Feeds(G, n) == ToSet(Ins(G, n)) \cap LiveIds(G)
Roots(G) == {n \in LiveIds(G) : Kind(G, n) \in CrowdedKinds \cup {"Return", "Stop"}}
RECURSIVE Backwards(_, _)
Backwards(G, live) ==
  LET more == live \cup UNION {Feeds(G, n) : n \in live}
  IN  IF more = live THEN live ELSE Backwards(G, more)

EDCEUncounted(G) ==                                  \* mutant: the sweep does not count
  Kept(MarkAllDead(G, LiveIds(G) \ (Backwards(G, Roots(G)) \cup {StartNode})))

EDCE(G) ==
  LET gone == LiveIds(G) \ (Backwards(G, Roots(G)) \cup {StartNode})
  IN  Result(MarkAllDead(G, gone), Cardinality(gone))

-----------------------------------------------------------------------------
(* SimplifyControl, pass A: fold a Region with one live predecessor into it.   *)
FoldRegion(G, n) ==
  LET preds == ToSet(Ins(G, n)) \cap LiveIds(G)
      pred  == CHOOSE x \in preds : TRUE
  IN  IF Cardinality(preds) # 1 THEN Kept(G)
      ELSE Result(MarkDead(FoldLeft(LAMBDA h, u : IF u = n THEN h ELSE SwapInput(h, u, n, pred), G, Users(G, n)), n), 1)

(* Pass B, first part: the phis of a Region that merges exactly the two        *)
(* projections of the constant branch become the taken side's value.           *)
CollapsePhis(G, projs, takenIn) ==
  LET pairs(h) == {n \in LiveIds(h) : Kind(h, n) = "Region" /\ Len(Ins(h, n)) = 2
                                      /\ ToSet(Ins(h, n)) \subseteq projs}
      collapse(h, n) == IF Len(Ins(h, n)) = 3 /\ Ins(h, n)[1] \in pairs(h)
                        THEN Replaced(h, n, Ins(h, n)[takenIn]) ELSE Kept(h)
  IN  Visit(G, IdsOf(G, {"Phi"}), collapse)

(* Pass B: a branch on a constant - its projections' users move to the         *)
(* branch's own control input, projections and If die.                         *)
ThreadIf(G, n) ==
  LET proj(i) == {u \in ToSet(Users(G, n)) : Kind(G, u) = "Proj" /\ G.nodes[u].val = i}
      projs   == proj(0) \cup proj(1)
      cond    == Ins(G, n)[2]
      up      == Ins(G, n)[1]
  IN  IF up = NoNode \/ ~ Is(G, cond, "Constant") \/ projs = {}
      THEN Kept(G)
      ELSE LET c == CollapsePhis(G, projs, IF G.nodes[cond].val # 0 THEN 2 ELSE 3)
               h == FoldLeft(LAMBDA f, q : MarkDead(ReplaceUses(f, q, up), q), c.g, SetToSeq(projs))
           IN  Result(MarkDead(h, n), c.n + 1)

SimplifyControl(G) ==
  LET a == Visit(G, IdsOf(G, {"Region"}), FoldRegion)
      b == Visit(a.g, IdsOf(a.g, {"If"}), ThreadIf)
  IN  Result(b.g, a.n + b.n)
=============================================================================
