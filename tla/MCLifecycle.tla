----------------------------- MODULE MCLifecycle -----------------------------
(* Instances of Lifecycle for TLC: a roadmap of two tasks. *)
EXTENDS Lifecycle
===============================================================================
