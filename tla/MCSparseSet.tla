---------------------------- MODULE MCSparseSet -----------------------------
(* SparseSet with words of four values: an epoch wraps after three clears. *)
EXTENDS SparseSet
=============================================================================
