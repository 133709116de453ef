---------------------------- MODULE MCTcpDiscovery ----------------------------
(* TcpDiscovery for model checking. *)
EXTENDS TcpDiscovery
===============================================================================
