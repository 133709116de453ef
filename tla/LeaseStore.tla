------------------------------ MODULE LeaseStore ------------------------------
(***************************************************************************)
(* What a discovery backend promises about keys and leases (discovery.h):  *)
(* a key bound to a lease lives exactly as long as the lease; it is bound  *)
(* only to a lease that is alive; and it goes away in no other way than    *)
(* with its lease, all keys of the lease in one step.  A key that is not   *)
(* bound to a lease (lease 0) never goes away.  A backend that keeps its   *)
(* store in memory may lose all of it at once when its process restarts.   *)
(***************************************************************************)
EXTENDS Integers

CONSTANTS Keys, Values, LeaseIds

VARIABLES store,  \* key |-> [value, lease], a partial function on Keys
          live    \* the ids of the leases that are alive

absVars == <<store, live>>

NoLease == 0

AbsInit == store = << >> /\ live = {}

(* A new lease is granted, under an id that is not alive. *)
Grant == \E id \in LeaseIds \ live : live' = live \cup {id} /\ UNCHANGED store

(* Write a key, binding it to a live lease or to none. *)
Write(k, v, l) ==
  /\ l \in live \cup {NoLease}
  /\ store' = [x \in DOMAIN store \cup {k} |->
                 IF x = k THEN [value |-> v, lease |-> l] ELSE store[x]]
  /\ UNCHANGED live

(* Some leases die, and every key bound to one of them with it. *)
Die(dead) ==
  /\ dead \subseteq live
  /\ live' = live \ dead
  /\ store' = [k \in {x \in DOMAIN store : store[x].lease \notin dead} |-> store[k]]

(* The backend restarts with an empty store. *)
Wipe == store' = << >> /\ live' = {}

AbsNext == \/ Grant
           \/ \E k \in Keys, v \in Values, l \in live \cup {NoLease} : Write(k, v, l)
           \/ \E dead \in SUBSET live : Die(dead)
           \/ Wipe

AbsSpec == AbsInit /\ [][AbsNext]_absVars
===============================================================================
