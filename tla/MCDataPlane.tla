----------------------------- MODULE MCDataPlane -----------------------------
(* DataPlane for model checking. *)
EXTENDS DataPlane
===============================================================================
