# Aegis in TLA+

Models of the Aegis compiler and runtime (`src/`), the TLC runs that check them
on small instances, and theorems proved with TLAPS. Everything is translated
from the source; `PROJECT.json` maps each definition to the lines it stands
for. Paths below are relative to `src/`.

## 1. The system

Aegis compiles a small language to x86-64 through an effect-typed Sea-of-Nodes
IR, ahead of time (`aegisc`) or in process through a JIT engine; a runtime
library gives programs channels, allocators and I/O.

```
source --Lexer/Parser--> AST --TypeChecker--> checked AST --Lowering--> Graph
   Graph --PassManager: standard pipeline, each pass to a fixpoint--> Graph
   Graph --InstrSel--> MachineFunction --LinearScan--> homes --ExecEncoder--> bytes
JitEngine: call counters -> job queue;  MemManager: executable pages and epochs
Runtime: Channel, Mutex, allocators, I/O
```

| part | state | operations | hard part | correct when |
|---|---|---|---|---|
| Channel (`runtime/sync`) | queue, mutex, condition variable | send, recv | barging receivers, spurious wake-ups | it is an atomic FIFO queue, no wake-up is lost |
| SwissTable (`compiler/support`) | control bytes, slots, size | emplace, find, get, erase, clear, reserve | tombstones, probing that wraps, growth | it reads like a map; each key has one slot |
| SparseSet (`compiler/support`) | dense_ and sparse_, a wrapping epoch | insert, erase, contains, clear, resize | the member moved into the hole; the epoch's wrap | it reads like a set |
| JitEngine (`compiler/jit`) | entries with atomic counters, job queue | register_function, on_call, entry_for, install_jitted | several mutators in on_call, queue mutex only tried | one job per registration, bound kept, on_call returns |
| MemManager (`compiler/jit`) | pages with epoch stamps, global epoch | allocate, release, advance_epoch, reclaim_old_pages | a mutator still running a replaced page | no page is unmapped under a mutator |
| Lexer, Parser (`compiler/frontend`) | position in the text, in the tokens; errors | tokenize; one parse function per construct | precedence, `expect` that goes on without its token, dots of ranges and fractions | a program's tree is the program |
| TypeChecker, Lowering (`compiler/frontend`) | scopes; current control and effect, bindings, hash-consing table | one per statement and expression | branches that return, loops whose names change, merges, effect order | the graph means what the source means |
| Graph (`compiler/ir`) | nodes, inputs, user lists | make_node, swap_input, set_input, mark_dead, verify | user lists edited while walked; equal edges | inputs and user lists agree |
| Passes, PassManager (`compiler/passes`) | the graph; budget, count, telemetry | run of each pass, fixpoint loop | each pass on what its predecessors left; loops taken apart while user lists still name the dead | meaning kept; a pass is left at its fixpoint, or gives up with a telemetry event |
| InstrSel (`compiler/backend`) | virtual registers, ownership, labels | lower | which branch or which round of a loop an instruction ends up in | machine code means the source |
| LinearScan | intervals, active set, assignment | run | loops, calls, spills | values alive together do not share |
| ExecEncoder | code bytes | encode per instruction | parallel moves, scratch registers | each operand is where it is read |
| Deopt, PGO, allocators, I/O, peephole, frame layout, emitters, tools | see PROJECT.json | | | not modelled (section 5) |

The compiler is sequential: what is hard there is the order of rewriting and
emission steps. Concurrency is in the channel and the JIT.

## 2. Modules

| module | models | built on |
|---|---|---|
| `AbsChannel` / `Channel` / `ChannelProofs` | the FIFO queue promised / channel.hpp, one action per lock, wait, push, pop, notify / proofs | `Channel` implements `AbsChannel` |
| `AbsMap` / `SwissTable` / `SwissTableProofs` | a finite map / SwissTable.hpp, one action per call, the probe loop as a function / proofs | `SwissTable` implements `AbsMap` |
| `AbsSet` / `SparseSet` / `SparseSetProofs` | a set / SparseSet.hpp, one action per call / proofs | `SparseSet` implements `AbsSet` |
| `JitEngine` / `JitEngineProofs` | on_call as it interleaves: counter, try_lock, room test, push, unlock, counters / proofs | |
| `MemManager`, `JitReclaim` / `JitReclaimProofs` | pages and epochs; composed with mutators that run the code and a compiler that replaces it / proofs | `JitReclaim` EXTENDS `MemManager` |
| `Lexer`, `Parser`, `Frontend` | tokenize; the recursive descent, one operator per parse function over a parser state; texts written item by item, token by token and character by character | each EXTENDS the one before |
| `SeaGraph` | the graph as a value: nodes, inputs, user lists, edge replacement, verify | |
| `Lowering` / `LoweringProofs` | lower_fn, one action per statement, on programs the TypeChecker accepts - a loop is one statement, given as the sequence of its head, the steps of its body and its end; beside it the source is executed / proofs | `SeaGraph` |
| `ScalarPasses` | each pass as an operator from a graph to [graph, count] | `Lowering` |
| `LoopPasses` | the passes that rewrite loops, and SCEV | `ScalarPasses` |
| `Pipeline` | PassManager::run: one action per run of a pass | `LoopPasses` |
| `InstrSel` | selection and scheduling, branch regions and loop regions; one action | `Pipeline` |
| `LinearScan`, `ExecEncoder` / `LinearScanProofs`, `ExecEncoderProofs` | allocation, one action per interval; then the encoded function executed on registers beside the machine function on virtual registers / proofs | `ExecEncoder` EXTENDS `LinearScan`; `ExecEncoderProofs` EXTENDS `LinearScanProofs` |
| `MC*` | constants for TLC | |

`Lowering`, `Pipeline` and `InstrSel` are one behaviour, a compilation. Its
first actions write the program statement by statement, so TLC covers all
programs within the bounds. `run[p]` holds what the source does for the
arguments `p`; `GraphRun` gives what a graph does, `MachineRun` what the selected
code does, and the properties compare them. A call is observable: it is recorded
under the id of its node with its argument, and a callee returns its argument
plus 3, so that no argument can pass for a result.

A definition marked `mutant` next to a modelled one is a plausible mistake in
that code; with it in place the property it is listed for fails.

## 3. Runs

| run | module, cfg | shows | bounds |
|---|---|---|---|
| `channel` | MCChannel | mutual exclusion, no lost wake-up, refinement of the FIFO queue (each value once, in its sender's order), every sent value received | 2 senders of 2 values, 3 receivers, 1 spurious wake-up: a third receiver can barge in while one is woken and one sleeps |
| `swisstable_map` | MCSwissTable | one slot per key, unbroken probe paths, refinement of a map; the size stays below seven eighths of the capacity | keys that collide and wrap in tables of 4 and of 8 slots (the smallest and one growth), so growth and tombstone reuse happen |
| `sparse_set` | MCSparseSet | the arrays mirror each other, refinement of a set | 3 numbers, words of 4 values: the epoch wraps after 3 clears |
| `jit_hotness` | MCJitEngine | queue bound, one job per registration, every on_call of a mutator that keeps running returns | 3 mutators, 2 functions registered twice, queue of 2 |
| `jit_reclaim` | MCJitReclaim | no use after unmap, stamps protect running code, every released page unmapped in the end | 2 mutators, 3 pages, 4 epochs |
| `frontend_text` | MCFrontend | trees parse from their own text; text accepted in silence is kept whole in its tree; tokens are the longest | one item holding every statement form and every pair of precedence levels; 4 free tokens out of 13 in a body; 5 characters out of 9 |
| `lowering_meaning` | MCLowering | every name has its source value at every statement, every return its value | 4 statements over 2 names, 2 nested ifs, 2 loops or a loop in a loop, early returns, calls in both branches |
| `compile_meaning` | MCCompile | meaning kept by every pass run; graph sound after each; calls on the effect chain; selected code returns the same and makes no call that the source does not make, nor one twice, out of order or outside its branch; selection emits everything | 4 statements, 2 nested ifs, arithmetic and calls, one argument on each side of the condition (Budget 5 is the code's kFixpointBudgetPerPass) |
| `compile_loops` | MCCompile, Loops | the same returns through the loop passes and the loop regions of selection; no call of a loop is lost; a pass left without a telemetry event left the nodes as they were and would again | 3 statements with up to 2 of 7 loops; arguments 0, 1, 2, so no round, one, several |
| `loop_lost_copy`, `loop_nested_call` | MCCompile, LostCopy and Nest | violations: see 6 | |
| `regalloc_homes` | MCExecEncoder | no shared homes, call-crossing values callee-saved, every operand read from where it is, arguments in place, saved registers restored | 492 functions: straight line, crowded, branches, loops, nested loops, and 12 that are not conforming; 3 caller-saved and 3 callee-saved homes, 4 argument registers overlapping them |

**Preconditions, all named.** `frontend_text` compares whole texts only where no
error is reported. `compile_meaning` keeps to programs without
statements after a return, early returns, constant conditions and calls in an
else branch (`DeadCode`, `EarlyReturns`, `ElseCalls`, `MCConds`): each breaks
the compiler in a way section 6 describes. `MachineReturns` and `NeverAborts`
speak of graphs whose select arms share nothing (`ArmsAreClosed`), `MachineReturns`
also of loops whose back-edge moves do not read each other (`BackMovesIndependent`),
`MachineCalls` of selects that are not nested (`SelectsAreFlat`), `LoopsKeepCalls`
of graphs with no call in an inner loop (`CallsAreInFlatLoops`); without them they
are false.
`MachineCalls` lets calls be missing: the dead sweep drops a call whose result is
unused, which the test harness detects by counting; `LoopsKeepCalls` lets a
loop's calls be made once more than the source makes them. The loop runs have no
ifs beside the loops. `regalloc_homes`, and the theorems about it, take functions
that satisfy `SelectorAssumption`, which the selector gives every function:
operands of the right number (`WellTyped`); labels that stand once, `jz` only
forward, one `jmp` back to a label (`Structured`); control that ends in a ret
or a jump (`StaysInside`). Of such functions the ranges, the homes, the calls and the
saved registers are claimed. What an instruction reads and what is handed over
(`UsesReadTheirDefs`, `ArgumentsArrive`) is claimed only of `Conforming` ones:
parameters first, distinct and read (`ParamsFirst`), and every vreg assigned on
every way to where it is read (`DefinedFirst`). The selector also gives functions
that are not: section 6 names programs with parameters inside arms, with unread
parameters in a loop function, and with a value that two arms share. Twelve of the
run's functions have these shapes; 480 conform.

**Scaled down.** Six homes for thirteen (the allocator and encoder are
parameters of the number); epochs and counters stop at the cfg's bound, named in
the module's comment; the 64-bit hashes of GVN and HashCons are injective;
the loop runs give each pass two runs instead of five, since SCEV spends any
budget on a loop - what `StopsAtFixpoint` says of a pass that stops earlier
does not depend on how many it has;
integers are unbounded, with operands too small to overflow 64 bits.

**Deadlock** is off where the modelled party may stop: a program ends, a
compilation ends, a text is full, a channel's senders run out.

**Fairness.** `jit_hotness`: weak fairness of on_call's steps of one mutator and of
nothing else - the others may stop anywhere, the holder of the queue mutex
included, which is what "never blocks the mutator" promises. `channel`: weak fairness of a sender's steps once it is inside send
and of every receiver's steps, calling recv again included - a scheduler that
starves no thread. `jit_reclaim`: weak fairness of mutators reaching safe points,
of the compiler finishing a replacement and of reclamation, which its caller runs
periodically (without it nothing is ever unmapped); strong fairness of advancing
the epoch, because all mutators are at a safe point again and again but not for
good.

## 4. Proofs

TLAPS checks these for every value of the constants.

| theorem | says | argument |
|---|---|---|
| `ChannelProofs!LockDisciplineHolds` (and `TypeCorrect`) | only the holder of `m_` is in a critical section; `front()` never on an empty queue | inductive: the holder and the program counters determine each other |
| `ChannelProofs!NoWakeupIsLost` | while a receiver sleeps, queued values are covered by awake receivers and pending notifications | counting invariant over the sets of woken receivers and notifying senders; the lock discipline is needed for each step |
| `ChannelProofs!Refinement` | the channel implements the FIFO queue | each step is an abstract send, an abstract recv or a stutter |
| `JitEngineProofs!TypeCorrect` | the mutex has at most one holder, each mutator one place in on_call, counters stay in their ranges | inductive with the bounds on calls and registrations |
| `JitEngineProofs!QueueIsBounded` | `pending_` never exceeds the bound | room tested under the mutex still holds at the push: the mutex holder is unique |
| `JitEngineProofs!OneJobPerRegistrationHolds` | a registration is enqueued at most once | the counter passes the threshold once; the invariant ties the thread that saw it to the absence of a job |
| `JitReclaimProofs!NoUseAfterUnmapHolds` | no mutator runs an unmapped page | a running page is installed, in hand-over or stamped with the current epoch; `Advance` needs every mutator at a safe point, so the last case ends with the epoch |
| `JitReclaimProofs!StampProtectsRunningHolds` | every page a mutator runs, released or not, is the published one, the one the compiler is about to release, or released with the current epoch as its stamp | a conjunct of the same inductive invariant |
| `SparseSetProofs!MirroredHolds`, `TypeCorrect` | dense_ and sparse_ name each other's places, whatever the word width and the universe | inductive with `Dated`: no entry is from a later epoch, so the one after a clear is new; a set that lacks a number has room for it (members stand at different places, by cardinality) |
| `SparseSetProofs!SetRefinement` | SparseSet implements a set, the epoch's wrap included | each call is the abstract call under the mapping that reads membership from the mirrored arrays |
| `LinearScanProofs!NoSharingHolds` | values alive together have different homes | the active set holds exactly the placed intervals that may still overlap the next one; intervals are placed in order of start |
| `LinearScanProofs!CallsSpareTheLivingHolds` | without spills a value across a call is in a callee-saved home; spills are counted | the floor is kept by every placement; each spill adds one vreg to a finite set |
| `SwissTableProofs!OneSlotPerKeyHolds`, `TypeCorrect` | no key has two slots, in any table of any size, through growth and tombstone reuse | the invariant `Sound`: the control bytes say what the slots hold, no key stands twice, no EMPTY slot comes before a key on its probe path; a rehash carries the slots over one by one, and each insertion keeps it. The capacity is a power of two, `IsPow2`, of any size: it starts as one and doubling keeps it one |
| `SwissTableProofs!LoadLeavesRoomHolds` | the size stays below seven eighths of the capacity, and a table in which a probe finds no slot to insert in holds a tombstone | `must_grow` is asked before each new key, and a table twice the size has room for it |
| `SwissTableProofs!ProbePathUnbrokenHolds` | a lookup's walk never stops before the slot of its key | the part of `Sound` that erasing keeps by writing a tombstone instead of EMPTY |
| `SwissTableProofs!MapRefinement` | SwissTable implements a finite map | the walk ends at the key's slot if there is one; a rehash keeps the set of entries, so it stutters |
| `ExecEncoderProofs!UsesReadTheirDefsHolds` | in a conforming function every instruction of the encoded code reads its operands' values | the inductive invariant `XInv`, below |
| `ExecEncoderProofs!ArgumentsArriveHolds` | in a conforming function a call gets its arguments, a return its result | ordered moves assign in parallel: the least safe order exists, no move in it overwrites a later source, and staging through RAX leaves the other moves alone |
| `LoweringProofs!LowererKeepsItsState` | while a function is lowered, the bindings, the hash-consing table, the current control and effect and the pending ifs name nodes of the graph or none | the inductive invariant `LowererInv`, below |
| `LoweringProofs!GraphIsSoundHolds` | without statements after a return, the verifier accepts the graph after every statement, whatever the program: any loops, ifs at any depth, early returns, calls | a part of `LowererInv`; a call always has an effect to hang on |
| `LoweringProofs!EdgesAgreeHolds` | with statements after a return too, inputs are alive, and every edge has its one user entry and every user entry its edge | a part of `LowererInv` |
| `ExecEncoderProofs!SavedRestoredHolds`, `TypeCorrect` | for every function, conforming or not, callee-saved registers come back and everything stays in its range | the inductive invariant `BInv`: the stack holds the registers as entered from the prologue on, control goes to a successor, moves write registers that there are |

**The encoder's invariant.** It has a part for every function, `BInv`, and one for
conforming functions, `Meaning`; together they are `XInv`. `UsesReadTheirDefs` alone
is not inductive: what the next instruction reads was written long before. `Meaning`
has `Agree` - every value
that is set and whose interval reaches past `pc` is in its home - and, while the
parameters are read, that the arguments stand in their homes already
(`ParamsPlaced`). A step keeps `Agree` because two intervals that reach past `pc`
do not share (`NoSharing`), those across a call are out of the callee's hands
(`CallsSpareTheLiving`), and a value alive at a successor was alive before:
forward because an interval covers all mentions, backward because widening takes
it to the end of every loop it enters (`WidenedOverLoops`).

**The lowerer's invariant.** That the verifier accepts the graph is not inductive:
the next statement uses what the lowerer holds beside it. `LowererInv` has three
parts. `g \in Sound`: each input is a node or none, as many as the kind has;
the user list of a node names a user as often as the user's inputs name the node
(`Matched`, counted, since an operator may take one node twice); every call has
an effect (`Chained`). `ScopeFits` and `IfsFit`: bindings, hash-consing table,
control, effect and the ifs still open name nodes of this graph, or none, so that
each of them still fits after the graph has grown. `OnlyDead`: the effect is
missing only where control cannot arrive. The last part is the subtle one. A branch
that returned leaves no control and no effect, and the merge takes the
then branch's effect, or else the other's (Lowering.cpp:300-301), so one has to know that a merge without an
effect is a region neither of whose inputs is reached. `Unreached` says it by a set
of regions closed under inputs, which stays closed because a region's inputs never
change later, and at the end of an if the sets of the two branches are united.
Replacing a node's uses when a loop closes keeps `Matched` one edge at a time.

**Recursion.** The probe walk, the rehash, widening, a sequence of moves, and in
the lowerer the steps of a loop, the phis of its accumulators, their back edges,
the merges of an if and the parameters are recursive functions over an interval of
naturals. Their steps are unfolded by hand (`Iterates` and `Follows` give the
lowerer's existence and steps), and facts about all of them come by induction on a set of
naturals (`NatSetInduction`), which follows from the well-foundedness of `<`.

**Assumptions** are the named ASSUMEs of the modules: finite, non-empty sets and
positive bounds; of the lowerer, that names are finitely many, parameters apart from
the names a program binds, expressions those that are modelled and every loop well
bracketed (`LoweringAssumption`); of the encoder, that its argument registers are
distinct and not callee-saved (`EncoderAssumption`, the tables at
ExecEncoder.cpp:104-124) and that it is given the functions of `SelectorAssumption` (section 3);
of the table, that its smallest capacity is a power of two above one. (The model also
has a largest capacity, any positive number, so the theorems hold for tables of every size.)

`GraphIsSoundHolds` is about lowering (`LowerSpec`). That the passes keep the graph sound
(the same invariant, after each pass run) is checked by `compile_meaning` only.

**Only model-checked**: liveness (outside the prover's reach, with ENABLED); the
front end; what a program means, from `Lowering` through the passes to selection; the
calls on the effect chain; that a pass is left at its fixpoint; and what `InstrSel` emits. The
meaning properties compare what recursive evaluations compute, which would need
induction over data, and `Lexer`, `Parser`, `Frontend`, `ScalarPasses`, `LoopPasses` and
`InstrSel` declare RECURSIVE operators (and `Pipeline` reaches them).

## 5. Not modelled, and why

- *Statements*: match, structs, indices, fields. The parser reads them, lowering
  does not: its default case makes each the constant 0 and drops the arms of a match
  (Lowering.cpp:462-466, 591-593). No part of the compiler builds a load, a store, an
  allocation or a guard, so the passes over them (escape analysis, bounds checks,
  null checks) and their selection have no input; TCO wants a Return whose control
  is the call, which lowering never makes. An
  assignment with an operator and a block as an expression lower like the statements
  they stand for and are left out.
- *LICM, LoopFission, CSE, DSE* stand in the pass order as what they do to the
  modelled graphs: count, tag or append a projection.
- *Types*: the modelled expressions have one type, so the checker's type rules
  have nothing to tell apart. *Effect inference* is used by no part of the compiler.
- *Runtime*: allocators (addresses and alignment are data), I/O (system calls),
  mutex and rwlock (one library call each), panic.
- *Deopt, profile counters*: nothing in src/ emits code that reaches them.
- *Graph colouring, peephole, frame layout, instruction scheduling, SSA
  construction*: nothing in src/ constructs them. Object formats, debug and EH
  tables, tools and scripts are output and drivers; the research passes are off by
  default.
- *Encodings*: the bytes of an instruction; the encoder's model is what the bytes
  do to the registers.

## 6. Where code and documentation disagree

Shown by a run:

- `loop_lost_copy`: the updates of a loop's phis at the back edge are plain moves
  in phi order (InstrSel_x86.cpp:1058-1065), so one can read what another has just
  overwritten, against the comment at 714-717. `u = s + t; s = t; t = u` in a loop
  computes no Fibonacci numbers.
- `loop_nested_call`: a call in an inner loop that uses nothing of that loop is
  emitted in the outer body, once a round of the outer loop; the inner region comes
  empty after the outer loop (779-786, 1041, 1162-1168), where
  docs/pass_status.md:65-66 has nested loops recursively emitted. (The comment at
  479-482 still says nested loops are not emitted at all.)

Met while modelling, without a run:

- *Front end.* `let x: T = e` takes `T = e` for the type, because a type is parsed
  as an expression, assignments included (Parser.cpp:219-228, 352-355). A token that
  `expect` misses is reported, but parse_module then returns a module, against
  Parser.hpp:29. `else if` is not in the grammar (246-261). `/=` has a token kind
  and a precedence and is never lexed (Lexer.cpp:224). An unterminated block
  comment leaves its last character to be lexed (83-88).
- *SwissTable.* Churn of inserts and erases leaves no EMPTY slot, since the load
  counts no tombstones; the next insert of a new key runs past the end of the probe
  loop into `__builtin_unreachable()` (SwissTable.hpp:187). The model ends there
  (`fault`). Only tombstones lead there (`LoadLeavesRoom`).
- *Selection.* The ownership validation never frees a node (441-445), so a value
  both arms need is computed in the then arm only:
  `x = p + p; if p < 1 { x = x + x } return x + x`. `fn f(q, p) { return p; }`
  returns `q`: indices are counted over the parameters dead-code elimination left
  (340). The dead sweep drops result-unused calls of loop-free functions (646-672;
  docs/pass_status.md:65-68 lists them as executable). A loop's exit test comes
  after its body, so the calls of the body are made once more than the source has
  rounds (1041-1057). Calls of a branch in a function with loops are emitted
  unguarded. An inner select of a nested if is scheduled before the outer
  branch, so a call in an inner arm runs unguarded (513-519:
  phis are exempt from ownership). The condition of an if without a phi, reached
  from an arm of a later select through its calls' control, is owned and never
  emitted: the cycle guard aborts (674-683). A call before a branch that is also
  the effect input of an arm's call is emitted in that arm. Two Returns are
  emitted one after the other.
- *Encoder.* All parameter moves are made at the first `param`, while the
  allocator's intervals start at each: `if p < 1 { x = q } else { x = r }` puts
  the params of q and r in the arms and gives the three one home
  (ExecEncoder.cpp:318). In a loop function, unread parameters can share a home,
  and a move of a register to itself is exempt from the clobber test. A cycle of
  parameter moves not through the first move is refused although the comment
  calls it unreachable (ExecEncoder.cpp:361-366):
  `fn f(a, b, c, d) { y = g(b + d); return y + a + c }`.
- *Loops.* The accumulator of an otherwise idle loop keeps a live phi on the loop
  that unrolling retires, which the verifier refuses (LoopUnrolling.cpp:271-293).
  SCEVPass returns the number of recurrences on every run, so it exceeds its budget
  on every function with a counted loop. It takes `x = y + 2` for a recurrence of
  x (SCEV.cpp:57-67). LICM finds invariants and moves none.
- *Passes.* SCCP folds `f(5)` to 5 (SCCP.cpp:175-205). A branch on a constant
  leaves both Returns live (SimplifyControl.cpp:148-160). Folding a Region with one live predecessor
  leaves its phi on a plain projection (59). GVN merges one level of equal
  expressions per run, and RCOptimization, CSE and DSE append a projection of
  Start on every run, where StandardPipeline.cpp:30-31 calls all passes
  idempotent and shrinking. PassManager::run returns the sum of the last counts,
  not of all (PassManager.cpp:58, PassManager.hpp:19). "-1 skips the rest"
  (Pass.hpp:49-50) is not implemented.
- *Lowering.* After an if, the effect chain goes on from the then branch alone
  (Lowering.cpp:300; docs/effect_system.md:92-93): calls of the else branch are off
  the chain. A call after a return has no effect input (Lowering.cpp:251).
- *JIT.* A failed `try_lock` drops the only crossing of a function without a
  telemetry event (JitEngine.cpp:47; JitConstants.hpp:21-22 and law Rule 65 ask
  for one). No thread takes jobs from the queue (JitEngine.cpp:8-9 says one
  does). Reclamation keeps no mutator epochs (MemManager.cpp:104-105,
  MemManager.hpp:10-12): it is safe only if the epoch advances while every
  mutator is at a safe point, which `JitReclaim` assumes of the caller. The
  retention constant of four epochs is unused (JitConstants.hpp:33-35).
