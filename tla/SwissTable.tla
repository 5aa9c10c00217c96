----------------------------- MODULE SwissTable -----------------------------
(***************************************************************************)
(* support/SwissTable: an open-addressing hash table with linear probing   *)
(* and tombstones.  A control byte and its slot are one model value here:  *)
(* empty, deleted or a live entry.  The 7 hash bits a live                *)
(* control byte carries only filter the key comparison (equal keys have    *)
(* equal bits), so a live slot matches k exactly when its key is k.        *)
(***************************************************************************)
EXTENDS Integers, FiniteSets, FiniteSetsExt

CONSTANTS
  Keys, Vals, NoVal,
  Hash,           \* Hash[k]: std::hash of k
  MinCapacity,    \* 16 in the code: the capacity of the first rehash
  MaxCapacity     \* bound: no step that would grow past it is taken

\* n is a power of two: it has no odd divisor but 1.
IsPow2(n) == n \in Nat \ {0} /\ \A a, q \in 1..n : (2 * a + 1) * q # n

ASSUME HashAssumption == Hash \in [Keys -> Nat]
ASSUME CapacityAssumption ==
  /\ IsPow2(MinCapacity) /\ MinCapacity >= 2
  /\ MaxCapacity \in Nat \ {0}
ASSUME NoValAssumption == NoVal \notin Vals

Empty == [ctrl |-> "empty"]
Deleted == [ctrl |-> "deleted"]
Entry(k, v) == [ctrl |-> "live", key |-> k, val |-> v]

VARIABLES
  slots,      \* slots[i]: ctrl_[i] and slots_[i], for i in 0..capacity-1
  capacity,   \* capacity_
  size,       \* size_: live entries
  fault       \* a probe ran off its loop: __builtin_unreachable was reached

vars == <<slots, capacity, size, fault>>

Live(s) == s.ctrl = "live"
LiveAt(t) == {i \in DOMAIN t : Live(t[i])}
Holds(t, i, k) == Live(t[i]) /\ t[i].key = k

\* The i-th position of k's probe sequence in a table of c slots.
Probe(c, k, i) == (Hash[k] + i) % c

NotFound == 0 - 1

-----------------------------------------------------------------------------
(* find and find_or_insert on a table t of c slots.                        *)

\* The probe stops at the key or at the first EMPTY slot, whichever is first.
Stops(t, c, k) ==
  {i \in 0..(c - 1) :
     LET p == Probe(c, k, i) IN t[p] = Empty \/ Holds(t, p, k)}

\* find: the position of k, or NotFound.
Find(t, c, k) ==
  IF Stops(t, c, k) = {} THEN NotFound
  ELSE LET p == Probe(c, k, Min(Stops(t, c, k)))
       IN  IF Holds(t, p, k) THEN p ELSE NotFound

\* The tombstones passed on the way to the stop, as probe numbers.
Passed(t, c, k) ==
  {i \in 0..(Min(Stops(t, c, k)) - 1) : t[Probe(c, k, i)] = Deleted}

\* Mutant: the first tombstone is taken without looking for the key behind it.
FindOrInsertEager(t, c, k) ==
  LET stops == Stops(t, c, k) \cup {i \in 0..(c - 1) : t[Probe(c, k, i)] = Deleted}
      p == Probe(c, k, Min(stops))
  IN  [pos |-> p, isNew |-> ~Holds(t, p, k)]

\* find_or_insert: the key's own slot, else the first tombstone passed, else
\* the EMPTY slot.  Undefined (the unreachable end of the loop) when the table
\* has neither the key nor an EMPTY slot.
FindOrInsert(t, c, k) ==
  LET stop == Probe(c, k, Min(Stops(t, c, k)))
  IN  IF Holds(t, stop, k) THEN [pos |-> stop, isNew |-> FALSE]
      ELSE IF Passed(t, c, k) = {} THEN [pos |-> stop, isNew |-> TRUE]
      ELSE [pos |-> Probe(c, k, Min(Passed(t, c, k))), isNew |-> TRUE]

\* Mutant: the buffers are copied slot by slot instead of re-probed.
RehashCopy(t, n, c) ==
  [i \in 0..(c - 1) |-> IF i \in LiveAt(t) THEN t[i] ELSE Empty]

\* rehash of the n slots of t: every live entry, in slot order, goes into a fresh
\* table of c slots.  Carried(t, n, c)[i] is that table after i slots.
CarryOver(u, c, s) ==
  IF Live(s) THEN [u EXCEPT ![FindOrInsert(u, c, s.key).pos] = s] ELSE u
Carried(t, n, c) ==
  LET carried[i \in 0..n] ==
        IF i = 0 THEN [p \in 0..(c - 1) |-> Empty] ELSE CarryOver(carried[i - 1], c, t[i - 1])
  IN  carried
Rehash(t, n, c) == Carried(t, n, c)[n]

-----------------------------------------------------------------------------
(* Operations.                                                             *)

Init ==
  /\ slots = << >>
  /\ capacity = 0
  /\ size = 0
  /\ fault = FALSE

\* Mutant: the load test leaves out the entry about to be added.
MustGrowLate == size * 8 >= capacity * 7

\* The 7/8 load test of emplace, before it looks for the key.
MustGrow == (size + 1) * 8 >= capacity * 7

Grown ==
  IF ~MustGrow THEN capacity
  ELSE IF capacity = 0 THEN MinCapacity ELSE 2 * capacity

\* emplace: grow if the load asks for it, then insert or assign.  A rehash counts
\* size_ anew.
Emplace(k, v) ==
  LET c == Grown
      t == IF c = capacity THEN slots ELSE Rehash(slots, capacity, c)
      n == IF c = capacity THEN size ELSE Cardinality(LiveAt(slots))
      r == FindOrInsert(t, c, k)
  IN  /\ ~fault
      /\ c <= MaxCapacity
      /\ IF Stops(t, c, k) = {}
         THEN /\ fault' = TRUE
              /\ UNCHANGED <<slots, capacity, size>>
         ELSE /\ slots' = [t EXCEPT ![r.pos] = Entry(k, v)]
              /\ capacity' = c
              /\ size' = n + (IF r.isNew THEN 1 ELSE 0)
              /\ UNCHANGED fault

\* Mutant: the slot becomes EMPTY, not DELETED.
EraseToEmpty(k) ==
  /\ ~fault
  /\ capacity > 0
  /\ LET i == Find(slots, capacity, k)
     IN  /\ i # NotFound
         /\ slots' = [slots EXCEPT ![i] = Empty]
         /\ size' = size - 1
  /\ UNCHANGED <<capacity, fault>>

\* erase of a key that is there; erase of any other key changes nothing.
Erase(k) ==
  /\ ~fault
  /\ capacity > 0
  /\ LET i == Find(slots, capacity, k)
     IN  /\ i # NotFound
         /\ slots' = [slots EXCEPT ![i] = Deleted]
         /\ size' = size - 1
  /\ UNCHANGED <<capacity, fault>>

Clear ==
  /\ ~fault
  /\ capacity > 0
  /\ slots' = [i \in DOMAIN slots |-> Empty]
  /\ size' = 0
  /\ UNCHANGED <<capacity, fault>>

\* Mutant: the capacity is not rounded up to a power of two.
ReserveUnrounded(n) ==
  LET want == Max({MinCapacity, (n * 8 + 6) \div 7})
  IN  /\ ~fault
      /\ want > capacity
      /\ want <= MaxCapacity
      /\ slots' = Rehash(slots, capacity, want)
      /\ capacity' = want
      /\ UNCHANGED <<size, fault>>

\* reserve(n): at least n * 8 / 7 slots, a power of two, never fewer than now.
Reserve(n) ==
  LET want == Min({p \in 1..MaxCapacity : IsPow2(p) /\ p >= (n * 8 + 6) \div 7
                                                  /\ p >= MinCapacity}
                    \cup {2 * MaxCapacity})
  IN  /\ ~fault
      /\ want > capacity
      /\ want <= MaxCapacity
      /\ slots' = Rehash(slots, capacity, want)
      /\ capacity' = want
      /\ size' = Cardinality(LiveAt(slots))
      /\ UNCHANGED fault

Next ==
  \/ \E k \in Keys, v \in Vals : Emplace(k, v)
  \/ \E k \in Keys : Erase(k)
  \/ Clear
  \/ \E n \in 1..MaxCapacity : Reserve(n)

Spec == Init /\ [][Next]_vars

-----------------------------------------------------------------------------
(* Properties.                                                             *)

\* What get(k) returns, through find's probe.
Lookup(k) ==
  IF capacity = 0 \/ Find(slots, capacity, k) = NotFound THEN NoVal
  ELSE slots[Find(slots, capacity, k)].val

Abs == INSTANCE AbsMap WITH map <- [k \in Keys |-> Lookup(k)]

\* The table has capacity_ slots, each empty, a tombstone or an entry.
TypeOK ==
  /\ capacity = 0 \/ IsPow2(capacity)
  /\ DOMAIN slots = (IF capacity = 0 THEN {} ELSE 0..(capacity - 1))
  /\ \A i \in DOMAIN slots :
       slots[i] \in {Empty, Deleted} \cup [ctrl : {"live"}, key : Keys, val : Vals]
  /\ size \in Nat
  /\ fault \in BOOLEAN

\* No key is live in two slots, and size_ counts the live slots, whatever
\* inserts, erases and rehashes came before (SwissTable.hpp:63-76, 135-158).
OneSlotPerKey ==
  /\ \A i, j \in LiveAt(slots) : slots[i].key = slots[j].key => i = j
  /\ size = Cardinality(LiveAt(slots))

\* Every live entry is still found: no EMPTY slot lies on the probe path from
\* its home slot to where it is (SwissTable.hpp:81-94, 106-111).
ProbePathUnbroken ==
  \A p \in LiveAt(slots) : Find(slots, capacity, slots[p].key) = p

\* The live entries never fill 7/8 of the table, whatever came before, so only
\* the tombstones erase leaves, which the load does not count, can run a probe
\* off its loop (SwissTable.hpp:54, 63-66, 106-111, 187).
LoadLeavesRoom ==
  /\ capacity > 0 => 8 * size < 7 * capacity
  /\ fault => \E i \in DOMAIN slots : slots[i] = Deleted

\* get sees exactly the inserts, erases and clears of a map: growing the table
\* and reusing tombstones are invisible.
ImplementsMap == Abs!AbsSpec
=============================================================================
