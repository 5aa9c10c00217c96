----------------------------- MODULE SparseSet ------------------------------
(* SparseSet (support/SparseSet.hpp): a dense array of the members and, for    *)
(* each number of the universe, its place in that array and the epoch the      *)
(* entry was made in.  clear only counts the epoch up, so entries of earlier   *)
(* epochs stay behind.  Places count from 0, as in the code.                   *)
EXTENDS Naturals, Sequences

CONSTANTS Modulus,      \* values of a uint32_t
          MaxUniverse   \* the largest universe resize is called with

ASSUME WidthAssumption ==
  /\ Modulus \in Nat /\ Modulus > 1
  /\ MaxUniverse \in 0 .. Modulus - 1

Word     == 0 .. Modulus - 1
Sentinel == Modulus - 1                              \* kSentinel
Entry(i, e) == [idx |-> i, epoch |-> e]

VARIABLES n,        \* sparse_.size()
          sparse,   \* sparse_[v]: an entry
          dense,    \* dense_
          epoch,    \* epoch_
          answer    \* what the last call of insert, erase or contains returned
vars == <<n, sparse, dense, epoch, answer>>

Universe == 0 .. n - 1
Untouched(size) == [v \in 0 .. size - 1 |-> Entry(Sentinel, 0)]

Contains(v) == v \in Universe /\ sparse[v].epoch = epoch /\ sparse[v].idx # Sentinel

-----------------------------------------------------------------------------
ResizeInPlace(size) ==                               \* mutant: vector::resize in place of assign
  /\ n' = size
  /\ sparse' = [v \in 0 .. size - 1 |-> IF v \in Universe THEN sparse[v] ELSE Entry(Sentinel, 0)]
  /\ dense' = SelectSeq(dense, LAMBDA v : v < size)
  /\ UNCHANGED <<epoch, answer>>

\* resize: the set is empty afterwards, whatever its size was.
Resize(size) ==
  /\ n' = size
  /\ sparse' = Untouched(size)
  /\ dense' = << >>
  /\ epoch' = 1
  /\ UNCHANGED answer

\* insert: v is assumed to be in the universe.
Insert(v) ==
  /\ v \in Universe
  /\ answer' = ~ Contains(v)
  /\ IF Contains(v) THEN UNCHANGED <<sparse, dense>>
     ELSE /\ sparse' = [sparse EXCEPT ![v] = Entry(Len(dense), epoch)]
          /\ dense' = Append(dense, v)
  /\ UNCHANGED <<n, epoch>>

LeftBehind(entries, v) ==                            \* mutant: the moved member keeps its place
  [entries EXCEPT ![v] = Entry(Sentinel, 0)]

\* erase: the last member moves into v's place, then v's entry is invalid.
MovedInto(entries, v) ==
  [entries EXCEPT ![dense[Len(dense)]].idx = entries[v].idx, ![v] = Entry(Sentinel, 0)]
Erase(v) ==
  /\ answer' = Contains(v)
  /\ IF ~ Contains(v) THEN UNCHANGED <<sparse, dense>>
     ELSE LET last == dense[Len(dense)]
          IN  /\ dense' = SubSeq([dense EXCEPT ![sparse[v].idx + 1] = last], 1, Len(dense) - 1)
              /\ sparse' = MovedInto(sparse, v)
  /\ UNCHANGED <<n, epoch>>

Ask(v) == answer' = Contains(v) /\ UNCHANGED <<n, sparse, dense, epoch>>

\* clear: the epoch wraps to 0 once in a while, and then nothing may stay
\* behind.
Survivors(next) == IF next = 0 THEN Untouched(n) ELSE sparse
Clear ==
  LET next == (epoch + 1) % Modulus
  IN  /\ dense' = << >>
      /\ epoch' = IF next = 0 THEN 1 ELSE next
      /\ sparse' = Survivors(next)
      /\ UNCHANGED <<n, answer>>

Init == n = 0 /\ sparse = Untouched(0) /\ dense = << >> /\ epoch = 1 /\ answer = FALSE
Next == \/ \E size \in 0 .. MaxUniverse : Resize(size)
        \/ \E v \in 0 .. MaxUniverse : Insert(v) \/ Erase(v) \/ Ask(v)
        \/ Clear
Spec == Init /\ [][Next]_vars

-----------------------------------------------------------------------------
TypeOK ==
  /\ n \in 0 .. MaxUniverse
  /\ sparse \in [Universe -> [idx : Word, epoch : Word]]
  /\ dense \in Seq(Universe)
  /\ epoch \in Word \ {0}
  /\ answer \in BOOLEAN

\* sparse_ and dense_ mirror each other, whatever was inserted, moved and
\* cleared: the entry at each place of dense_ names that place, and the entry
\* of each member names a place of dense_ that holds it (SparseSet.hpp:36-58).
\* So iteration meets every member once and size() is their number.
Mirrored ==
  /\ \A i \in 1 .. Len(dense) : sparse[dense[i]] = Entry(i - 1, epoch)
  /\ \A v \in Universe : Contains(v) => sparse[v].idx < Len(dense) /\ dense[sparse[v].idx + 1] = v

Abs == INSTANCE AbsSet WITH universe <- n, members <- {v \in Universe : Contains(v)}

\* The class is a set: no entry left behind by erase, clear or an epoch that
\* wraps ever reads as a member, and none is lost (SparseSet.hpp:36-77).
ImplementsSet == Abs!AbsSpec
=============================================================================
