----------------------------- MODULE MemManager -----------------------------
(***************************************************************************)
(* compiler/jit MemManager: executable pages stamped with an epoch.  Every *)
(* operation runs under mutex_ and is one atomic action.  A page is one    *)
(* address; mmap returns any address that is not mapped, or fails.         *)
(***************************************************************************)
EXTENDS Naturals

CONSTANTS
  Addrs,      \* page-aligned addresses mmap can return
  MaxEpoch    \* bound: the global epoch

ASSUME MemAssumption == MaxEpoch \in Nat \ {0}

VARIABLES
  pages,        \* pages[a]: the Page at a, or Unmapped
  globalEpoch   \* global_epoch_

memVars == <<pages, globalEpoch>>

Unmapped == [mapped |-> FALSE, epoch |-> 0, inUse |-> FALSE]
Page(e, used) == [mapped |-> TRUE, epoch |-> e, inUse |-> used]

Mapped(a) == pages[a].mapped
Released(a) == Mapped(a) /\ ~pages[a].inUse

MemInit ==
  /\ pages = [a \in Addrs |-> Unmapped]
  /\ globalEpoch = 1

\* allocate: a fresh page, in use, stamped with the caller's epoch.
Allocate(a, e) ==
  /\ ~Mapped(a)
  /\ pages' = [pages EXCEPT ![a] = Page(e, TRUE)]
  /\ UNCHANGED globalEpoch

\* Mutant: the stamp of the allocation is kept.
ReleaseKeepsStamp(a, e) ==
  /\ pages' = [pages EXCEPT ![a] = IF Mapped(a) THEN Page(@.epoch, FALSE) ELSE @]
  /\ UNCHANGED globalEpoch

\* release: not in use any more, stamped anew; an unknown address is ignored.
Release(a, e) ==
  /\ pages' = [pages EXCEPT ![a] = IF Mapped(a) THEN Page(e, FALSE) ELSE @]
  /\ UNCHANGED globalEpoch

\* Mutant: the clock runs backwards.
AdvanceEpochBack ==
  /\ globalEpoch < MaxEpoch
  /\ globalEpoch' = globalEpoch - 2
  /\ UNCHANGED pages

AdvanceEpoch ==
  /\ globalEpoch < MaxEpoch
  /\ globalEpoch' = globalEpoch + 1
  /\ UNCHANGED pages

\* Mutant: pages stamped with the current epoch go too.
ReclaimableNow(a) == Released(a) /\ pages[a].epoch <= globalEpoch

\* Mutant: a page waits for an epoch that never comes.
ReclaimableNever(a) == Released(a) /\ pages[a].epoch > globalEpoch

\* The remove_if predicate of reclaim_old_pages.
Reclaimable(a) == Released(a) /\ pages[a].epoch < globalEpoch

ReclaimOldPages ==
  /\ pages' = [a \in Addrs |-> IF Reclaimable(a) THEN Unmapped ELSE pages[a]]
  /\ UNCHANGED globalEpoch

MemTypeOK ==
  /\ pages \in [Addrs -> [mapped : BOOLEAN, epoch : Nat, inUse : BOOLEAN]]
  /\ globalEpoch \in Nat
=============================================================================
