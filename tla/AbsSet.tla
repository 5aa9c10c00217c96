------------------------------- MODULE AbsSet -------------------------------
(* What support/SparseSet promises: a set of the numbers below a bound, where  *)
(* every call answers whether its number was in the set.  No dense array, no   *)
(* epochs.                                                                     *)
EXTENDS Naturals

CONSTANT MaxUniverse

VARIABLES universe,  \* the bound given to resize
          members,   \* what is in the set
          answer     \* what the last call returned

AbsInit == universe = 0 /\ members = {} /\ answer = FALSE

AbsInsert(v) == answer' = (v \notin members) /\ members' = members \cup {v} /\ UNCHANGED universe
AbsErase(v)  == answer' = (v \in members) /\ members' = members \ {v} /\ UNCHANGED universe
AbsAsk(v)    == answer' = (v \in members) /\ UNCHANGED <<members, universe>>
AbsClear     == members' = {} /\ UNCHANGED <<universe, answer>>
AbsResize(n) == universe' = n /\ members' = {} /\ UNCHANGED answer

AbsNext ==
  \/ \E v \in 0 .. MaxUniverse :
       (v < universe /\ AbsInsert(v)) \/ AbsErase(v) \/ AbsAsk(v)
  \/ AbsClear
  \/ \E n \in 0 .. MaxUniverse : AbsResize(n)

AbsSpec == AbsInit /\ [][AbsNext]_<<universe, members, answer>>
=============================================================================
