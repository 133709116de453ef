----------------------------- MODULE MCKvManager -----------------------------
(* Model checking KvManager: two requests with a common first block. *)
EXTENDS KvManager

SharedPrefix == {<<1>>, <<1, 2>>}
Symmetry == Permutations(Blocks) \cup Permutations(Requests)
===============================================================================
