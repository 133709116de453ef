---------------------------- MODULE MCControlPlane ----------------------------
(* Model checking ControlPlane: callers that share a pool of one connection. *)
EXTENDS ControlPlane, TLC

CallerSymmetry == Permutations(Callers)
===============================================================================
