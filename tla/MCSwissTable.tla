---------------------------- MODULE MCSwissTable ----------------------------
(* SwissTable with four-slot tables: hashes that collide and wrap in four slots,
   and collide in eight too. *)
EXTENDS SwissTable, TLC

CONSTANTS k0, k1, k2, k3, v0, v1

MCKeys == {k0, k1, k2, k3}
MCHash == k0 :> 0 @@ k1 :> 4 @@ k2 :> 3 @@ k3 :> 11
MCVals == {v0, v1}
=============================================================================
