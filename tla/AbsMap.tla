------------------------------- MODULE AbsMap -------------------------------
(***************************************************************************)
(* What support/SwissTable promises: a finite map with insert-or-assign,   *)
(* erase and clear.  No capacity, no probing, no tombstones.               *)
(***************************************************************************)
CONSTANTS Keys, Vals, NoVal

VARIABLE map    \* map[k]: the value of k, or NoVal

AbsInit == map = [k \in Keys |-> NoVal]

AbsPut(k, v) == map' = [map EXCEPT ![k] = v]
AbsErase(k) == map' = [map EXCEPT ![k] = NoVal]
AbsClear == map' = [k \in Keys |-> NoVal]

AbsNext ==
  \/ \E k \in Keys, v \in Vals : AbsPut(k, v)
  \/ \E k \in Keys : AbsErase(k)
  \/ AbsClear

AbsSpec == AbsInit /\ [][AbsNext]_map
=============================================================================
