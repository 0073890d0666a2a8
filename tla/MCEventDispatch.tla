-------------------------- MODULE MCEventDispatch --------------------------
(***************************************************************************)
(* EventDispatch for TLC: two activations of the plugin one after the      *)
(* other, at most one other client, two bus threads.                       *)
(***************************************************************************)
EXTENDS EventDispatch, TLC

(* No property names an object, a thread or a sink.                        *)
Interchangeable ==
  Permutations(Instance) \cup Permutations(Thread) \cup Permutations(Sink)
=============================================================================
