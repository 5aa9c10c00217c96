---------------------------- MODULE MCJitEngine ----------------------------
(* JitEngine with a two-job queue, two functions and racing mutators. *)
EXTENDS JitEngine
=============================================================================
