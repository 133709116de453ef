----------------------------- MODULE MCLeaseKeeper -----------------------------
(* LeaseKeeper for model checking. *)
EXTENDS LeaseKeeper
===============================================================================
