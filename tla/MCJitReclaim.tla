---------------------------- MODULE MCJitReclaim ----------------------------
(* JitReclaim with two mutators and three pages, so that addresses come back. *)
EXTENDS JitReclaim, TLC

CONSTANTS t1, t2, a1, a2, a3

MCMutators == {t1, t2}
MCAddrs == {a1, a2, a3}
=============================================================================
