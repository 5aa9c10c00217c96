------------------------------ MODULE Pipeline ------------------------------
(* PassManager::run over the standard pipeline (passes/PassManager.cpp,        *)
(* passes/mid/StandardPipeline.cpp): each pass is run to a fixpoint within a   *)
(* budget, then the graph is verified, then the next pass starts.  Order lists *)
(* the passes that can act on the graphs Lowering builds; the others visit     *)
(* Alloc, Guard or tail-call shapes only, count (LICM), or tag loops with more *)
(* than 16 calls (LoopFission), and leave such a graph as it is.               *)
EXTENDS LoopPasses

CONSTANT Budget            \* kFixpointBudgetPerPass

ASSUME PipelineAssumption == Budget \in Nat

VARIABLES pos,             \* the pass being run
          iters,           \* runs of it so far
          totalRemoved,    \* the count PassManager::run returns
          telemetry        \* the events emitted
pvars == <<lvars, pos, iters, totalRemoved, telemetry>>

Order == <<"RCOptimization", "SCCP", "StrengthReduction", "CopyPropagation", "GVN",
           "CSE", "SCEV", "InductionVarSimplification", "LoopFusion", "LoopUnrolling",
           "DeadStoreElim", "SimplifyControl", "EDCE">>

RunPass(name, G) ==
  CASE name = "RCOptimization"    -> RCOptimization(G)
    [] name = "SCCP"              -> SCCP(G)
    [] name = "StrengthReduction" -> StrengthReduction(G)
    [] name = "CopyPropagation"   -> CopyPropagation(G)
    [] name = "GVN"               -> GVN(G)
    [] name \in {"CSE", "DeadStoreElim"} -> LoadStoreWalk(G)
    [] name = "SCEV"              -> SCEV(G)
    [] name = "InductionVarSimplification" -> InductionVarSimplification(G)
    [] name = "LoopFusion"        -> LoopFusion(G)
    [] name = "LoopUnrolling"     -> LoopUnrolling(G)
    [] name = "SimplifyControl"   -> SimplifyControl(G)
    [] name = "EDCE"              -> EDCE(G)

Exceeded == iters + 1 > Budget
Settled(r) == Exceeded \/ r.n =< 0

Iterations(settled) == IF settled THEN 0 ELSE iters + 1

(* One p->run: the loop goes round again while the pass changed something and  *)
(* the budget lasts; otherwise the count is added, the graph verified (an      *)
(* AEGIS_VERIFY_IR build aborts on a bad one) and the next pass is up.         *)
PassStep ==
  /\ stage = "lowered" /\ pos =< Len(Order)
  /\ \E r \in {RunPass(Order[pos], g)} :
       /\ g' = r.g
       /\ telemetry' = IF Exceeded THEN telemetry \cup {<<"PassBudgetExceeded", Order[pos]>>}
                       ELSE telemetry
       /\ iters' = Iterations(Settled(r))
       /\ IF Settled(r)
          THEN /\ pos' = pos + 1
               /\ totalRemoved' = totalRemoved + r.n
               /\ stage' = IF ~ Verify(r.g) THEN "aborted"
                           ELSE IF pos = Len(Order) THEN "optimised" ELSE stage
          ELSE UNCHANGED <<pos, totalRemoved, stage>>
  /\ UNCHANGED <<ctrl, eff, bindings, hc, visible, ifs, size, run>>

Init == LowerInit /\ pos = 1 /\ iters = 0 /\ totalRemoved = 0 /\ telemetry = {}
Next == \/ LowerStep /\ UNCHANGED <<pos, iters, totalRemoved, telemetry>>
        \/ PassStep
Spec == Init /\ [][Next]_pvars

-----------------------------------------------------------------------------
(* PassManager goes on to the next pass at a fixpoint of the last one, unless  *)
(* it says that it gave up (PassManager.cpp:34-54, law B.5): the last run left *)
(* the nodes it was given as they were, and so would another. It has only the  *)
(* count each pass keeps by hand to tell.                                      *)
KeepsNodes(G, H) == \A n \in Ids(G) : H.nodes[n] = G.nodes[n]
StopsAtFixpoint ==
  [][pos' = pos + 1 /\ telemetry' = telemetry =>
       KeepsNodes(g, g') /\ KeepsNodes(g', RunPass(Order[pos], g').g)]_pvars
=============================================================================
