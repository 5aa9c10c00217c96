----------------------------- MODULE LoopPasses -----------------------------
(* The loop passes of the standard pipeline (passes/src/mid): the recurrences  *)
(* SCEV recognises, derived induction variables, and the two passes that take  *)
(* a loop out, LoopFusion and LoopUnrolling.                                   *)
EXTENDS ScalarPasses

FullUnrollTripCount == 8       \* kLoopUnrollFullUnrollTripCount

LoopIds(G) == IdsOf(G, {"Loop"})
UsersOf(G, n, kind) == SelectSeq(Users(G, n), LAMBDA u : Kind(G, u) = kind)
LiveUsers(G, n) == SelectSeq(Users(G, n), LAMBDA u : ~ G.nodes[u].dead)

-----------------------------------------------------------------------------
(* SCEVAnalysis: a phi of a Loop that starts at a constant and whose back value*)
(* is an Add with a constant operand is the recurrence {start, step}, with a   *)
(* trip count if it is compared with a constant.                               *)
StepOperand(G, phi) ==
  LET others == SelectSeq(Ins(G, Ins(G, phi)[3]), LAMBDA in : in # phi)
  IN  IF others = << >> THEN NoNode ELSE Last(others)
IsRecurrence(G, phi) ==
  /\ Kind(G, phi) = "Phi" /\ Len(Ins(G, phi)) = 3
  /\ Is(G, Ins(G, phi)[1], "Loop") /\ ~ G.nodes[Ins(G, phi)[1]].dead
  /\ Is(G, Ins(G, phi)[2], "Constant") /\ Is(G, Ins(G, phi)[3], "Add")
  /\ Is(G, StepOperand(G, phi), "Constant")

UnknownTrip == -1
Recurrence(G, phi) ==
  LET start  == G.nodes[Ins(G, phi)[2]].val
      limits == SelectSeq(UsersOf(G, phi, "CmpLt"),
                          LAMBDA c : /\ Ins(G, c)[1] = phi /\ Is(G, Ins(G, c)[2], "Constant")
                                     /\ G.nodes[Ins(G, c)[2]].val > start)
  IN  [start |-> start, step |-> G.nodes[StepOperand(G, phi)].val,
       trip  |-> IF limits = << >> THEN UnknownTrip ELSE G.nodes[Ins(G, limits[1])[2]].val - start]

(* The analysis pass changes nothing and returns how many it recognised.       *)
SCEV(G) == Result(G, Cardinality({n \in Ids(G) : IsRecurrence(G, n)}))

-----------------------------------------------------------------------------
(* InductionVarSimplification: phi * K becomes a phi of its own that starts at *)
(* start * K and is stepped by step * K.                                       *)
LiveConstant(G, n) == Is(G, n, "Constant") /\ ~ G.nodes[n].dead
Factor(G, phi, mul) ==
  LET d == Ins(G, mul)
  IN  CASE d[1] = phi /\ LiveConstant(G, d[2]) -> d[2]
        [] ~ (d[1] = phi /\ LiveConstant(G, d[2])) /\ d[2] = phi /\ LiveConstant(G, d[1]) -> d[1]
        [] OTHER -> NoNode
StepUnscaled(step, factor) == step            \* mutant: the derived variable steps as the old one
StepOfDerived(step, factor) == step * factor

DerivedIV(G, phi, rec, mul) ==
  LET k     == Factor(G, phi, mul)
      entry == Ins(G, phi)[2]
      f     == G.nodes[k].val
      start == IF LiveConstant(G, entry) THEN MakeConstant(G, G.nodes[entry].val * f)
               ELSE MakeNode(G, "Mul", 0, <<entry, k>>)
      j     == NewId(start)
      step  == MakeConstant(MakeNode(start, "Phi", 0, <<Ins(G, phi)[1], j - 1, NoNode>>),
                            StepOfDerived(rec.step, f))
      back  == SetInput(MakeNode(step, "Add", 0, <<j, j + 1>>), j, 3, j + 2)
  IN  IF Kind(G, mul) # "Mul" \/ G.nodes[mul].dead \/ k = NoNode \/ LiveUsers(G, mul) = << >>
      THEN Kept(G)
      ELSE Replaced(back, mul, j)

InductionVarSimplification(G) ==
  LET ofPhi(h, phi) ==
        IF ~ IsRecurrence(G, phi) \/ Recurrence(G, phi).step = 0 THEN Kept(h)
        ELSE Visit(h, Users(h, phi), LAMBDA f, mul : DerivedIV(f, phi, Recurrence(G, phi), mul))
      phisOf(loop) == SelectSeq(IdsOf(G, {"Phi"}), LAMBDA n : Ins(G, n)[1] = loop)
  IN  Visit(G, LoopIds(G), LAMBDA h, loop : Visit(h, phisOf(loop), ofPhi))

-----------------------------------------------------------------------------
(* The exit test of a loop and its projections, body first.                    *)
ProjOf(G, if, i) ==
  LET ps == SelectSeq(Users(G, if), LAMBDA u : Kind(G, u) = "Proj" /\ G.nodes[u].val = i)
  IN  IF ps = << >> THEN NoNode ELSE Last(ps)
ExitIf(G, loop) ==
  LET tests == SelectSeq(UsersOf(G, loop, "If"), LAMBDA u : Ins(G, u)[1] = loop)
  IN  IF tests = << >> THEN NoNode ELSE tests[1]
BodyIsIdle(G, loop) ==
  LET body == ProjOf(G, ExitIf(G, loop), 0)
  IN  /\ ProjOf(G, ExitIf(G, loop), 1) # NoNode
      /\ body = NoNode \/ \A u \in ToSet(LiveUsers(G, body)) : u = loop

(* Both passes end the same way: the uses of the induction phi move to a node  *)
(* outside, what comes after the loop moves to its entry, and the loop, the    *)
(* phi, its increment, its tests and their projections die.                    *)
Retired(G, loop, phi, replacement, increments) ==
  LET if    == ExitIf(G, loop)
      tests == SelectSeq(LiveUsers(G, phi), LAMBDA u : Kind(G, u) = "CmpLt")
      moved == ReplaceUses(ReplaceUses(G, phi, replacement), ProjOf(G, if, 1), Ins(G, loop)[2])
      gone  == {loop, phi, increments, if, ProjOf(G, if, 0), ProjOf(G, if, 1)}
                 \cup (IF tests = << >> THEN {} ELSE {Last(tests)})
  IN  MarkAllDead(moved, gone)

OnlyStructural(G, phi, except) ==
  \A u \in ToSet(LiveUsers(G, phi)) : u \in except \/ Kind(G, u) = "CmpLt"

(* LoopFusion: the second of two loops over the same recurrence goes if its    *)
(* phi serves the loop only and its body does nothing.                         *)
LoopFusion(G) ==
  LET loops == LoopIds(G)
      firstPhi(h, loop) ==
        LET ps == SelectSeq(LiveUsers(h, loop), LAMBDA u : Kind(h, u) = "Phi")
        IN  IF ps = << >> THEN NoNode ELSE ps[1]
      known(phi) == phi # NoNode /\ phi \in Ids(G) /\ IsRecurrence(G, phi)
      fuse(h, i) ==
        LET a == firstPhi(h, loops[i])
            b == firstPhi(h, loops[i + 1])
            adds == SelectSeq(LiveUsers(h, b), LAMBDA u : Kind(h, u) = "Add")
        IN  IF /\ known(a) /\ known(b) /\ Recurrence(G, a) = Recurrence(G, b)
               /\ Recurrence(G, a).trip > 0
               /\ OnlyStructural(h, b, ToSet(adds)) /\ adds # << >>
               /\ BodyIsIdle(h, loops[i + 1])
            THEN Result(Retired(h, loops[i + 1], b, a, Last(adds)), 1)
            ELSE Kept(h)
  IN  Visit(G, [i \in 1 .. Len(loops) - 1 |-> i], fuse)

(* collect_loop_body: whose first inputs lead to the loop.                     *)
RECURSIVE LeadsTo(_, _, _, _)
LeadsTo(G, n, loop, seen) ==
  CASE n = loop -> TRUE
    [] n = NoNode \/ n \in seen -> FALSE
    [] OTHER -> Ins(G, n) # << >> /\ LeadsTo(G, Ins(G, n)[1], loop, seen \cup {n})
HasInnerIf(G, loop) ==
  \E n \in LiveOf(G, "If") \ {ExitIf(G, loop)} : LeadsTo(G, Ins(G, n)[1], loop, {})

(* LoopUnrolling: a loop of a known, small number of rounds whose induction    *)
(* phi serves the loop only and whose body does nothing goes altogether.       *)
LoopUnrolling(G) ==
  LET unroll(h, loop) ==
        LET recs == SelectSeq(UsersOf(h, loop, "Phi"), LAMBDA u : u \in Ids(G) /\ IsRecurrence(G, u))
            phi  == recs[1]
            adds == UsersOf(h, phi, "Add")
        IN  IF /\ recs # << >>
               /\ Recurrence(G, phi).trip \in 1 .. FullUnrollTripCount
               /\ ~ HasInnerIf(h, loop)
               /\ adds # << >> /\ OnlyStructural(h, phi, {adds[1]})
               /\ BodyIsIdle(h, loop)
            THEN Result(Retired(MakeConstant(h, Recurrence(G, phi).start), loop, phi, NewId(h), adds[1]), 1)
            ELSE Kept(h)
  IN  Visit(G, LoopIds(G), unroll)
=============================================================================
