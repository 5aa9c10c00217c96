------------------------------ MODULE SeaGraph ------------------------------
(* The Sea-of-Nodes graph (ir/Graph.cpp, ir/Node.hpp): nodes with ordered      *)
(* inputs, a parallel list of users per node with one entry per edge, and the  *)
(* edge mutations every optimisation pass is written with.                     *)
(* A graph is a value [nodes, outs].  Ids start at 1 (the code starts at 0);   *)
(* NoNode is kInvalidNodeId.  type_id is kInvalidTypeId on every node the      *)
(* frontend builds and is left out.                                            *)
EXTENDS Integers, Sequences, FiniteSets, SequencesExt

NoNode    == 0
StartNode == 1

AlteredKinds == {"Load", "Store", "Alloc", "CallAltered"}
CrowdedKinds == {"CallCrowded", "AtomicLoad", "AtomicStore", "AtomicRMW",
                 "Fence", "Guard", "Deopt"}
IsPure(kind) == kind \notin AlteredKinds \cup CrowdedKinds

EmptyGraph == [nodes |-> << [kind |-> "Start", val |-> 0, ins |-> << >>, dead |-> FALSE] >>,
               outs  |-> << << >> >>]

Ids(g)     == 1 .. Len(g.nodes)
LiveIds(g) == {n \in Ids(g) : ~ g.nodes[n].dead}
Kind(g, n) == g.nodes[n].kind
Ins(g, n)  == g.nodes[n].ins
Is(g, n, kind) == n # NoNode /\ Kind(g, n) = kind
EffIn(g, n)    == IF Len(Ins(g, n)) > 1 THEN Ins(g, n)[2] ELSE NoNode
DataIns(g, n)  == IF IsPure(Kind(g, n)) THEN Ins(g, n) ELSE SubSeq(Ins(g, n), 3, Len(Ins(g, n)))
Users(g, n)    == g.outs[n]

(* OutputList::remove: the first entry equal to x goes, the last takes its     *)
(* place (SmallVector::remove_first on top of erase_unordered).                *)
DropEntry(s, x) ==
  LET at   == {i \in DOMAIN s : s[i] = x}
      hole == CHOOSE i \in at : \A j \in at : i =< j
  IN  IF at = {} THEN s ELSE Front([s EXCEPT ![hole] = Last(s)])

Link(g, n, in)   == IF in = NoNode THEN g ELSE [g EXCEPT !.outs[in] = Append(@, n)]
Unlink(g, n, in) == IF in = NoNode THEN g ELSE [g EXCEPT !.outs[in] = DropEntry(@, n)]

NewId(g) == Len(g.nodes) + 1

(* The edges of a node to x are the places of x in its list of inputs; the     *)
(* user list of x has one entry for each.                                      *)
EdgeCount(s, x) == Cardinality({i \in DOMAIN s : s[i] = x})

(* make_node and its callers: append the node, give it a user list, and link   *)
(* it to each of its inputs, once per edge.                                    *)
MakeNode(g, kind, val, ins) ==
  LET users(n) == IF n \in Ids(g) THEN Users(g, n) ELSE << >>
  IN  [nodes |-> Append(g.nodes, [kind |-> kind, val |-> val, ins |-> ins, dead |-> FALSE]),
       outs  |-> [n \in 1 .. NewId(g) |-> users(n) \o [e \in 1 .. EdgeCount(ins, n) |-> NewId(g)]]]

MakeConstant(g, v)     == MakeNode(g, "Constant", v, << >>)
MakeProj(g, src, which) == MakeNode(g, "Proj", which, << src >>)

(* n with every edge to old led to new instead.                                *)
Redirected(g, n, old, new) ==
  [g EXCEPT !.nodes[n].ins = [i \in DOMAIN @ |-> IF @[i] = old THEN new ELSE @[i]]]

(* The user entries of k edges of n, moved from old to new one by one.         *)
MovedUses(g, n, old, new, edges) ==
  LET moved[k \in 0 .. edges] ==
        IF k = 0 THEN g ELSE Link(Unlink(moved[k - 1], n, old), n, new)
  IN  moved

SwapInputOnce(g, n, old, new) ==                \* mutant: one user entry whatever the edges
  IF old \notin ToSet(Ins(g, n)) THEN g ELSE Link(Unlink(Redirected(g, n, old, new), n, old), n, new)

(* swap_input replaces every edge n -> old and moves one user entry per edge.  *)
SwapInput(g, n, old, new) ==
  LET edges == EdgeCount(Ins(g, n), old)
  IN  MovedUses(Redirected(g, n, old, new), n, old, new, edges)[edges]

SetInput(g, n, i, new) ==
  LET old == Ins(g, n)[i]
  IN  IF old = new THEN g
      ELSE Link(Unlink([g EXCEPT !.nodes[n].ins[i] = new], n, old), n, new)

AppendInput(g, n, new) ==
  IF new \notin Ids(g) THEN g ELSE Link([g EXCEPT !.nodes[n].ins = Append(@, new)], n, new)

MarkDead(g, n) == [g EXCEPT !.nodes[n].dead = TRUE]
MarkAllDead(g, gone) ==
  [g EXCEPT !.nodes = [n \in DOMAIN @ |-> [@[n] EXCEPT !.dead = @ \/ n \in gone]]]

(* The pattern of the rewriting passes: move every user in a snapshot of       *)
(* users(old) to new.                                                          *)
UsesReplaced(g, old, new) ==
  LET replaced[k \in 0 .. Len(Users(g, old))] ==
        IF k = 0 THEN g ELSE SwapInput(replaced[k - 1], Users(g, old)[k], old, new)
  IN  replaced
ReplaceUses(g, old, new) == UsesReplaced(g, old, new)[Len(Users(g, old))]

-----------------------------------------------------------------------------
(* Graph::verify, its four checks (the third is about speculation flags, which *)
(* no node of the standard AOT pipeline carries).                              *)
InputsAlive(g) ==
  \A n \in LiveIds(g) : \A in \in ToSet(Ins(g, n)) \ {NoNode} :
     in \in Ids(g) /\ ~ g.nodes[in].dead
EffectChained(g) ==
  \A n \in LiveIds(g) : IsPure(Kind(g, n)) \/ EffIn(g, n) # NoNode
UsersConsistent(g) ==
  \A n \in Ids(g) : \A u \in ToSet(Users(g, n)) :
     g.nodes[u].dead \/ n \in ToSet(Ins(g, u))
Verify(g) == InputsAlive(g) /\ EffectChained(g) /\ UsersConsistent(g)

(* What OutputList promises and verify does not test: one user entry per edge. *)
Balanced(g, n, u) == EdgeCount(Users(g, n), u) = EdgeCount(Ins(g, u), n)
UseDefBalanced(g) ==
  \A m \in Ids(g) : /\ \A u \in ToSet(Users(g, m)) : Balanced(g, m, u)
                    /\ \A n \in ToSet(Ins(g, m)) \ {NoNode} : Balanced(g, n, m)
=============================================================================
