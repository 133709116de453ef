------------------------ MODULE DiscoveryServerProofs ------------------------
(***************************************************************************)
(* Theorems about discoveryd, for all sets of keys, values, prefixes and   *)
(* connections, every log capacity and every ttl.                          *)
(***************************************************************************)
EXTENDS DiscoveryLogProofs, FiniteSetTheorems

(* Lease ids are issued in order and never twice by one daemon. *)
IdsIssued == \A l \in DOMAIN leases : l < next_lease_id

ServerInv == ServerTypeOK /\ IdsIssued /\ LeaseBinding /\ LogFaithful

(* The events that mutate_and_notify makes of the mutations muts. *)
Events(muts) == [i \in 1..Len(muts) |-> [rev |-> revision + i, is_put |-> muts[i].is_put,
                                         key |-> muts[i].key, value |-> muts[i].value]]

(* The keys of a set in some order: every one of them is there. *)
LEMMA OrderCovers ==
  ASSUME NEW S, IsFiniteSet(S), NEW order \in SetToSeqs(S)
  PROVE  /\ order \in Seq(S)
         /\ Len(order) \in Nat
         /\ \A x \in S : \E i \in 1..Len(order) : order[i] = x
         /\ S # {} => Len(order) > 0
  <1> DEFINE n == Cardinality(S)
  <1>1. n \in Nat
    BY FS_CardinalityType
  <1>2. order \in [1..n -> S] /\ \A i, j \in 1..n : i # j => order[i] # order[j]
    BY DEF SetToSeqs
  <1>3. order \in Injection(1..n, S)
    BY <1>2 DEF Injection, IsInjective
  <1>4. Cardinality(1..n) = n
    BY <1>1, FS_Interval
  <1>5. order \in Surjection(1..n, S)
    BY <1>3, <1>4, FS_Injection
  <1>6. order \in Seq(S) /\ Len(order) = n
    BY <1>1, <1>2
  <1>7. \A x \in S : \E i \in 1..n : order[i] = x
    BY <1>5 DEF Surjection
  <1> QED
    BY <1>1, <1>6, <1>7

(* What mutate_and_notify does to the log and to the registrations. *)
LEMMA MutateStep ==
  ASSUME NEW muts, NEW lost, mutate_and_notify(muts, lost)
  PROVE  /\ revision + Len(muts) <= MaxRevision
         /\ revision' = revision + Len(muts)
         /\ event_log' = Trimmed(event_log \o Events(muts))
         /\ watchers' \subseteq watchers
  BY Zenon DEF mutate_and_notify, Events

(* A put, create or create_or_validate that mutates the store (Set). *)
LEMMA SetStep ==
  ASSUME ServerInv, NEW key \in Keys, NEW value \in Values, NEW lease \in LeaseIds \cup {NoLease},
         lease_ok(lease), NEW lost, Set(key, value, lease, lost)
  PROVE  ServerInv'
  <1> DEFINE muts == <<[is_put |-> TRUE, key |-> key, value |-> value]>>
             evs == Events(muts)
  <1>1. /\ revision \in Nat /\ revision + 1 <= MaxRevision /\ revision' = revision + 1
        /\ event_log' = Trimmed(event_log \o evs)
        /\ watchers' \subseteq watchers
        /\ next_lease_id' = next_lease_id /\ conns' = conns /\ broken' = broken /\ now' = now
    <2>3. revision \in Nat
      BY DEF ServerInv, ServerTypeOK
    <2>4. mutate_and_notify(muts, lost)
      BY DEF Set
    <2>5. UNCHANGED <<next_lease_id, conns, broken, now>>
      BY DEF Set
    <2>6. Len(muts) = 1
      OBVIOUS
    <2> HIDE DEF muts
    <2> QED
      BY Zenon, <2>3, <2>4, <2>5, <2>6, MutateStep
  <1>2. /\ kvs' = [k \in DOMAIN kvs \cup {key} |->
                     IF k = key THEN [value |-> value, lease_id |-> lease, mod_revision |-> revision + 1]
                     ELSE kvs[k]]
        /\ leases' = Rebound(key, lease)
    BY <1>1 DEF Set
  <1>3. evs \in Seq(Logged) /\ Len(evs) = 1
        /\ evs[1] = [rev |-> revision + 1, is_put |-> TRUE, key |-> key, value |-> value]
    <2>1. Len(muts) = 1 /\ muts[1] = [is_put |-> TRUE, key |-> key, value |-> value]
      OBVIOUS
    <2> HIDE DEF muts
    <2>2. evs[1] = [rev |-> revision + 1, is_put |-> TRUE, key |-> key, value |-> value]
      <3>1. 1 \in 1..Len(muts)
        BY <2>1
      <3>2. evs[1] = [rev |-> revision + 1, is_put |-> muts[1].is_put,
                      key |-> muts[1].key, value |-> muts[1].value]
        BY <3>1 DEF Events
      <3>3. muts[1].is_put = TRUE /\ muts[1].key = key /\ muts[1].value = value
        BY <2>1
      <3> HIDE DEF evs
      <3> QED
        BY Zenon, <3>2, <3>3
    <2>3. evs = [i \in 1..1 |-> evs[i]]
      BY <2>1 DEF Events
    <2> HIDE DEF evs
    <2>4. \A i \in 1..1 : evs[i] \in Logged
      <3>1. \A i \in 1..1 : i = 1
        OBVIOUS
      <3>2. evs[1] \in Logged
        BY <2>2, <1>1, ServerAssumption DEF Logged
      <3> QED
        BY <3>1, <3>2
    <2>5. evs \in [1..1 -> Logged]
      BY <2>3, <2>4
    <2>6. evs \in Seq(Logged) /\ Len(evs) = 1
      BY Zenon, <2>5, FunctionIsSeq
    <2> QED
      BY <2>2, <2>6
  <1> HIDE DEF evs
  <1>4. Logs(evs)
    BY <1>1, <1>3 DEF Logs
  <1>5. Tells(evs, {key})
    BY <1>2, <1>3 DEF Tells, Says
  <1>6. LogFaithful'
    BY <1>3, <1>4, <1>5, FaithfulStep DEF ServerInv
  <1>7. event_log' \in Seq(Logged) /\ Len(event_log') <= LogCapacity
    BY <1>3, <1>4, LogStep DEF ServerInv
  <1>8. /\ DOMAIN leases' = DOMAIN leases
        /\ \A l \in DOMAIN leases :
             /\ leases'[l].deadline = leases[l].deadline
             /\ leases'[l].keys = IF l = lease THEN leases[l].keys \cup {key}
                                  ELSE IF key \in DOMAIN kvs /\ l = kvs[key].lease_id
                                       THEN leases[l].keys \ {key} ELSE leases[l].keys
             /\ leases'[l] \in [deadline : Nat, keys : SUBSET Keys]
    BY Zenon, <1>2 DEF Rebound, ServerInv, ServerTypeOK
  <1>9. ServerTypeOK'
    <2>1. \A k \in DOMAIN kvs' : k \in Keys /\ kvs'[k] \in Entry
      BY <1>1, <1>2, ServerAssumption DEF Entry, ServerInv, ServerTypeOK
    <2> QED
      <3>1. revision' \in 0..MaxRevision
        BY <1>1, ServerAssumption
      <3>2. /\ DOMAIN leases \subseteq LeaseIds /\ next_lease_id \in 1..MaxLeases + 1
            /\ watchers \subseteq Watcher /\ conns \subseteq Conns /\ broken \subseteq conns
            /\ now \in Nat
        BY DEF ServerInv, ServerTypeOK
      <3> QED
        BY Zenon, <2>1, <3>1, <3>2, <1>1, <1>7, <1>8 DEF ServerTypeOK
  <1>10. IdsIssued'
    BY <1>1, <1>8 DEF ServerInv, IdsIssued
  <1>11. LeaseBinding'
    <2>1. \A k \in DOMAIN kvs' : kvs'[k].lease_id \in DOMAIN leases' \cup {NoLease}
      BY <1>2, <1>8 DEF ServerInv, LeaseBinding, lease_ok
    <2>2. ASSUME NEW l \in DOMAIN leases'
          PROVE  leases'[l].keys = {k \in DOMAIN kvs' : kvs'[k].lease_id = l}
      <3>1. l # NoLease
        BY <1>8, ServerAssumption DEF ServerInv, ServerTypeOK, LeaseIds, NoLease
      <3>2. leases[l].keys = {k \in DOMAIN kvs : kvs[k].lease_id = l}
        BY <1>8 DEF ServerInv, LeaseBinding
      <3>3. CASE l = lease
        BY ZenonT(30), <3>1, <3>2, <3>3, <1>2, <1>8
      <3>4. CASE l # lease
        <4>1. \A k \in DOMAIN kvs' : kvs'[k].lease_id = l =>
                 k # key /\ k \in DOMAIN kvs /\ kvs[k].lease_id = l
          BY <3>4, <1>2
        <4>2. \A k \in DOMAIN kvs : k # key => k \in DOMAIN kvs' /\ kvs'[k] = kvs[k]
          BY <1>2
        <4>3. leases'[l].keys = {k \in DOMAIN kvs : kvs[k].lease_id = l} \ {key}
          <5>1. CASE key \in DOMAIN kvs /\ l = kvs[key].lease_id
            BY Zenon, <5>1, <3>2, <3>4, <1>8
          <5>2. CASE ~(key \in DOMAIN kvs /\ l = kvs[key].lease_id)
            <6>1. leases'[l].keys = leases[l].keys
              BY Zenon, <5>2, <3>4, <1>8
            <6> QED
              BY <5>2, <6>1, <3>2
          <5> QED
            BY <5>1, <5>2
        <4> QED
          BY <4>1, <4>2, <4>3
      <3> QED
        BY <3>3, <3>4
    <2> QED
      BY <2>1, <2>2 DEF LeaseBinding
  <1> QED
    BY <1>6, <1>9, <1>10, <1>11 DEF ServerInv

(* A revoke, or a pass of the sweeper. *)
LEMMA ExpireStep ==
  ASSUME ServerInv, NEW ids \in SUBSET DOMAIN leases, NEW lost, expire_leases(ids, lost)
  PROVE  ServerInv'
  <1> DEFINE keys == (UNION {leases[l].keys : l \in ids}) \cap DOMAIN kvs
  <1>1. PICK order \in SetToSeqs(keys) :
          mutate_and_notify([i \in 1..Len(order) |->
             [is_put |-> FALSE, key |-> order[i], value |-> kvs[order[i]].value]], lost)
    BY Zenon DEF expire_leases
  <1>2. /\ kvs' = [k \in DOMAIN kvs \ keys |-> kvs[k]]
        /\ leases' = [l \in DOMAIN leases \ ids |-> leases[l]]
        /\ next_lease_id' = next_lease_id /\ conns' = conns /\ broken' = broken /\ now' = now
    BY DEF expire_leases
  <1>3. \A k \in DOMAIN kvs : k \in keys <=> kvs[k].lease_id \in ids
    <2> TAKE k \in DOMAIN kvs
    <2>1. \A l \in ids : k \in leases[l].keys <=> kvs[k].lease_id = l
      BY DEF ServerInv, LeaseBinding
    <2>2. k \in keys <=> \E l \in ids : k \in leases[l].keys
      OBVIOUS
    <2> HIDE DEF keys
    <2> QED
      BY <2>1, <2>2
  <1>4. keys \subseteq DOMAIN kvs /\ keys \subseteq Keys /\ IsFiniteSet(keys)
    <2>1. keys \subseteq DOMAIN kvs
      OBVIOUS
    <2> HIDE DEF keys
    <2>2. keys \subseteq Keys
      BY <2>1 DEF ServerInv, ServerTypeOK
    <2> QED
      BY <2>1, <2>2, FS_Subset, ServerAssumption
  <1> HIDE DEF keys
  <1>5. /\ order \in Seq(keys) /\ Len(order) \in Nat
        /\ \A x \in keys : \E i \in 1..Len(order) : order[i] = x
    BY <1>4, OrderCovers
  <1> DEFINE muts == [i \in 1..Len(order) |->
                        [is_put |-> FALSE, key |-> order[i], value |-> kvs[order[i]].value]]
             evs == Events(muts)
  <1>6. Len(muts) = Len(order)
    BY <1>5
  <1>7. /\ revision \in Nat /\ revision + Len(order) <= MaxRevision
        /\ revision' = revision + Len(order)
        /\ event_log' = Trimmed(event_log \o evs)
        /\ watchers' \subseteq watchers
    <2>1. mutate_and_notify(muts, lost)
      BY <1>1
    <2>2. revision \in Nat
      BY DEF ServerInv, ServerTypeOK
    <2> HIDE DEF muts
    <2> QED
      BY <1>6, <2>1, <2>2, MutateStep
  <1>8. /\ evs = [i \in 1..Len(order) |-> evs[i]]
        /\ \A i \in 1..Len(order) :
             evs[i] = [rev |-> revision + i, is_put |-> FALSE, key |-> order[i],
                       value |-> kvs[order[i]].value]
    <2>1. \A i \in 1..Len(order) : /\ muts[i].is_put = FALSE /\ muts[i].key = order[i]
                                   /\ muts[i].value = kvs[order[i]].value
      OBVIOUS
    <2> HIDE DEF muts
    <2>2. evs = [i \in 1..Len(order) |-> [rev |-> revision + i, is_put |-> muts[i].is_put,
                                          key |-> muts[i].key, value |-> muts[i].value]]
      BY <1>6 DEF Events
    <2> HIDE DEF evs
    <2> QED
      BY Zenon, <2>1, <2>2
  <1> HIDE DEF muts, evs
  <1>9. evs \in Seq(Logged) /\ Len(evs) = Len(order)
    <2>1. \A i \in 1..Len(order) : order[i] \in keys
      BY <1>5
    <2>2. \A i \in 1..Len(order) : evs[i] \in Logged
      <3> TAKE i \in 1..Len(order)
      <3>1. order[i] \in Keys /\ kvs[order[i]].value \in Values
        BY <2>1, <1>4 DEF ServerInv, ServerTypeOK, Entry
      <3>2. revision + i \in 1..MaxRevision
        BY <1>5, <1>7, ServerAssumption
      <3>3. evs[i] = [rev |-> revision + i, is_put |-> FALSE, key |-> order[i],
                      value |-> kvs[order[i]].value]
        BY <1>8
      <3> QED
        BY <3>1, <3>2, <3>3 DEF Logged
    <2> QED
      BY <2>2, <1>5, <1>8, FunctionIsSeq
  <1>10. Logs(evs)
    BY <1>7, <1>8, <1>9 DEF Logs
  <1>11. Tells(evs, keys)
    <2>1. \A i \in 1..Len(evs) : evs[i].key = order[i] /\ ~evs[i].is_put /\ order[i] \in keys
      BY <1>5, <1>8, <1>9
    <2>2. DOMAIN kvs' = DOMAIN kvs \ keys /\ \A k \in DOMAIN kvs' : kvs'[k] = kvs[k]
      BY <1>2
    <2> QED
      BY <2>1, <2>2, <1>5, <1>9 DEF Tells, Says
  <1>12. LogFaithful'
    BY <1>9, <1>10, <1>11, FaithfulStep DEF ServerInv
  <1>13. event_log' \in Seq(Logged) /\ Len(event_log') <= LogCapacity
    BY <1>9, <1>10, LogStep DEF ServerInv
  <1>14. ServerTypeOK'
    <2>1. revision' \in 0..MaxRevision
      BY <1>5, <1>7, ServerAssumption
    <2> QED
      BY <2>1, <1>2, <1>7, <1>13 DEF ServerInv, ServerTypeOK
  <1>15. IdsIssued'
    BY <1>2 DEF ServerInv, IdsIssued
  <1>16. LeaseBinding'
    <2>1. \A k \in DOMAIN kvs' : k \in DOMAIN kvs /\ kvs'[k] = kvs[k] /\ kvs[k].lease_id \notin ids
      BY <1>2, <1>3
    <2>2. \A k \in DOMAIN kvs : kvs[k].lease_id \notin ids => k \in DOMAIN kvs'
      BY <1>2, <1>3
    <2>3. \A k \in DOMAIN kvs' : kvs'[k].lease_id \in DOMAIN leases' \cup {NoLease}
      BY <2>1, <1>2 DEF ServerInv, LeaseBinding
    <2>4. ASSUME NEW l \in DOMAIN leases'
          PROVE  leases'[l].keys = {k \in DOMAIN kvs' : kvs'[k].lease_id = l}
      <3>1. l \notin ids /\ leases'[l] = leases[l] /\ l \in DOMAIN leases
        BY <1>2
      <3>2. leases[l].keys = {k \in DOMAIN kvs : kvs[k].lease_id = l}
        BY <3>1 DEF ServerInv, LeaseBinding
      <3> QED
        BY <3>1, <3>2, <2>1, <2>2
    <2> QED
      BY <2>3, <2>4 DEF LeaseBinding
  <1> QED
    BY <1>12, <1>14, <1>15, <1>16 DEF ServerInv

(* Steps that leave the store, the log and the leases alone. *)
LEMMA ConnStep ==
  ASSUME ServerInv, UNCHANGED storeVars,
         watchers' \subseteq Watcher, conns' \subseteq Conns, broken' \subseteq conns', now' \in Nat
  PROVE  ServerInv'
  BY DEF ServerInv, storeVars, ServerTypeOK, IdsIssued, LeaseBinding, LogFaithful

(* A daemon that has just started satisfies the invariant. *)
LEMMA InvInit == ServerInit => ServerInv
  <1> SUFFICES ASSUME ServerInit PROVE ServerInv
    OBVIOUS
  <1>1. ServerTypeOK
    BY ServerAssumption DEF ServerInit, ServerTypeOK
  <1>2. IdsIssued /\ LeaseBinding /\ LogFaithful
    BY DEF ServerInit, IdsIssued, LeaseBinding, LogFaithful
  <1> QED
    BY <1>1, <1>2 DEF ServerInv

(* Every request, every pass of the sweeper, every event of a connection and  *)
(* a restart preserve it.                                                     *)
LEMMA InvNext == ServerInv /\ [ServerNext]_serverVars => ServerInv'
  <1> SUFFICES ASSUME ServerInv, [ServerNext]_serverVars PROVE ServerInv'
    OBVIOUS
  <1>t. /\ watchers \subseteq Watcher /\ conns \subseteq Conns /\ broken \subseteq conns
        /\ now \in Nat /\ next_lease_id \in Nat
    BY ServerAssumption DEF ServerInv, ServerTypeOK
  <1>1. CASE create_lease
    <2>1. /\ UNCHANGED <<kvs, revision, event_log, watchers, conns, broken, now>>
          /\ next_lease_id' = next_lease_id + 1 /\ next_lease_id \in LeaseIds
          /\ DOMAIN leases' = DOMAIN leases \cup {next_lease_id}
          /\ leases'[next_lease_id] = [deadline |-> now + Ttl, keys |-> {}]
          /\ \A l \in DOMAIN leases : l # next_lease_id => leases'[l] = leases[l]
      BY <1>1, ServerAssumption DEF create_lease, connVars, ServerInv, ServerTypeOK, LeaseIds
    <2>2. next_lease_id \notin DOMAIN leases /\ next_lease_id # NoLease
      BY <2>1, <1>t DEF ServerInv, IdsIssued, LeaseIds, NoLease
    <2>3. \A k \in DOMAIN kvs : kvs[k].lease_id # next_lease_id
      BY <2>2 DEF ServerInv, LeaseBinding
    <2>4. leases'[next_lease_id] \in [deadline : Nat, keys : SUBSET Keys]
      BY <2>1, <1>t, ServerAssumption
    <2>5. ServerTypeOK'
      BY <2>1, <2>2, <2>4, ServerAssumption DEF ServerInv, ServerTypeOK, LeaseIds
    <2>6. IdsIssued'
      BY <2>1, <1>t DEF ServerInv, ServerTypeOK, IdsIssued, LeaseIds
    <2>7. LeaseBinding'
      BY <2>1, <2>2, <2>3 DEF ServerInv, LeaseBinding
    <2>8. LogFaithful'
      BY <2>1 DEF ServerInv, LogFaithful
    <2> QED
      BY <2>5, <2>6, <2>7, <2>8 DEF ServerInv
  <1>2. ASSUME NEW l \in DOMAIN leases, keepalive(l) PROVE ServerInv'
    <2>1. /\ UNCHANGED <<kvs, revision, event_log, next_lease_id, watchers, conns, broken, now>>
          /\ DOMAIN leases' = DOMAIN leases
          /\ \A m \in DOMAIN leases : /\ leases'[m].keys = leases[m].keys
                                      /\ leases'[m] \in [deadline : Nat, keys : SUBSET Keys]
      BY <1>2, <1>t, ServerAssumption DEF keepalive, connVars, ServerInv, ServerTypeOK
    <2> QED
      BY <2>1 DEF ServerInv, ServerTypeOK, IdsIssued, LeaseBinding, LogFaithful
  <1>3. ASSUME NEW lost, NEW l \in DOMAIN leases, revoke(l, lost) PROVE ServerInv'
    BY <1>3, ExpireStep DEF revoke
  <1>4. ASSUME NEW lost, sweep(lost) PROVE ServerInv'
    <2> DEFINE expired == {l \in DOMAIN leases : leases[l].deadline <= now}
    <2>1. expire_leases(expired, lost) /\ expired \in SUBSET DOMAIN leases
      BY <1>4 DEF sweep
    <2> HIDE DEF expired
    <2> QED
      BY <2>1, ExpireStep
  <1>5. ASSUME NEW lost, NEW k \in Keys, NEW v \in Values, NEW l \in LeaseIds \cup {NoLease},
               kv_create(k, v, l, lost) \/ kv_put(k, v, l, lost)
                                        \/ kv_create_or_validate(k, v, l, lost)
        PROVE  ServerInv'
    BY <1>5, SetStep DEF kv_create, kv_put, kv_create_or_validate
  <1>6. ASSUME NEW c \in Conns, accept(c) PROVE ServerInv'
    BY <1>6, <1>t, ConnStep DEF accept
  <1>7. ASSUME NEW c \in Conns, lose(c) PROVE ServerInv'
    BY <1>7, <1>t, ConnStep DEF lose
  <1>8. ASSUME NEW c \in Conns, close(c) PROVE ServerInv'
    BY <1>8, <1>t, ConnStep DEF close
  <1>9. ASSUME NEW c \in Conns, receive(c) PROVE ServerInv'
    BY <1>9, <1>t, ConnStep DEF receive
  <1>10. ASSUME NEW id \in WatchIds, unwatch(id) PROVE ServerInv'
    BY <1>10, <1>t, ConnStep DEF unwatch
  <1>11. ASSUME NEW c \in Conns, NEW id \in WatchIds, NEW p \in KeyPrefixes, NEW r, NEW req,
                watch(c, id, p, r, req)
         PROVE  ServerInv'
    <2>1. [id |-> id, prefix |-> p, conn |-> c] \in Watcher
      BY DEF Watcher
    <2> QED
      BY <1>11, <2>1, <1>t, ConnStep DEF watch
  <1>12. CASE restart
    <2>1. now' = now
      BY <1>12 DEF restart
    <2>2. ServerTypeOK'
      BY <1>12, <1>t, <2>1, ServerAssumption DEF restart, ServerTypeOK
    <2>3. IdsIssued' /\ LeaseBinding' /\ LogFaithful'
      BY <1>12 DEF restart, IdsIssued, LeaseBinding, LogFaithful
    <2> QED
      BY <2>2, <2>3 DEF ServerInv
  <1>13. CASE tick
    BY <1>13, <1>t, ConnStep DEF tick, connVars
  <1>14. CASE UNCHANGED serverVars
    BY <1>14, <1>t, ConnStep DEF serverVars, storeVars
  <1> QED
    BY <1>1, <1>2, <1>3, <1>4, <1>5, <1>6, <1>7, <1>8, <1>9, <1>10, <1>11, <1>12, <1>13, <1>14
    DEF ServerNext, StoreNext, ConnNext

-------------------------------------------------------------------------------
(* The invariant of discoveryd, from which the theorems follow. *)
THEOREM Invariant == ServerSpec => []ServerInv
  BY InvInit, InvNext, PTL DEF ServerSpec

(* discoveryd's State keeps its types, and the log its capacity, whatever the *)
(* clients do and however connections and the daemon itself come and go.      *)
THEOREM TypeCorrect == ServerSpec => []ServerTypeOK
  <1>1. ServerInv => ServerTypeOK
    BY DEF ServerInv
  <1> QED
    BY <1>1, Invariant, PTL

(* A key and its lease always agree on each other, so that the death of a     *)
(* lease takes exactly the keys that are bound to it.                         *)
THEOREM BindingsAgree == ServerSpec => []LeaseBinding
  <1>1. ServerInv => LeaseBinding
    BY DEF ServerInv
  <1> QED
    BY <1>1, Invariant, PTL

(* The bounded event log is a gapless account of the latest mutations and     *)
(* ends in what the store holds, for every log capacity.                      *)
THEOREM LogIsFaithful == ServerSpec => []LogFaithful
  <1>1. ServerInv => LogFaithful
    BY DEF ServerInv
  <1> QED
    BY <1>1, Invariant, PTL

-------------------------------------------------------------------------------
(* Refinement *)

(* An empty daemon is an empty abstract store. *)
LEMMA RefineInit == ServerInit => Abs!AbsInit
  <1> SUFFICES ASSUME ServerInit PROVE Abs!AbsInit
    OBVIOUS
  <1>1. kvs = << >> /\ DOMAIN kvs = {} /\ DOMAIN leases = {}
    BY DEF ServerInit
  <1>2. [k \in DOMAIN kvs |-> [value |-> kvs[k].value, lease |-> kvs[k].lease_id]] = << >>
    BY <1>1
  <1> QED
    BY <1>1, <1>2 DEF Abs!AbsInit

(* Every step is a grant, a write, the death of some leases, a wipe, or       *)
(* invisible to the abstract store.                                           *)
LEMMA RefineNext ==
  ASSUME ServerInv, ServerInv', [ServerNext]_serverVars
  PROVE  [Abs!AbsNext]_(Abs!absVars)
  <1> DEFINE st == [k \in DOMAIN kvs |-> [value |-> kvs[k].value, lease |-> kvs[k].lease_id]]
             st2 == [k \in DOMAIN kvs' |-> [value |-> kvs'[k].value, lease |-> kvs'[k].lease_id]]
  <1>0. ASSUME kvs' = kvs, DOMAIN leases' = DOMAIN leases
        PROVE  UNCHANGED Abs!absVars
    BY <1>0 DEF Abs!absVars
  <1>s. ASSUME UNCHANGED storeVars PROVE UNCHANGED Abs!absVars
    BY <1>s, <1>0 DEF storeVars
  <1>1. CASE create_lease
    <2>1. DOMAIN leases' = DOMAIN leases \cup {next_lease_id} /\ kvs' = kvs
      BY <1>1 DEF create_lease
    <2>2. next_lease_id \in LeaseIds \ DOMAIN leases
      BY <1>1, ServerAssumption DEF create_lease, ServerInv, ServerTypeOK, IdsIssued, LeaseIds
    <2> QED
      BY <2>1, <2>2 DEF Abs!AbsNext, Abs!Grant
  <1>2. ASSUME NEW l \in DOMAIN leases, keepalive(l) PROVE UNCHANGED Abs!absVars
    BY <1>2, <1>0 DEF keepalive
  <1>3. ASSUME NEW ids \in SUBSET DOMAIN leases, NEW lost, expire_leases(ids, lost)
        PROVE  Abs!AbsNext
    <2> DEFINE keys == (UNION {leases[l].keys : l \in ids}) \cap DOMAIN kvs
    <2>1. /\ kvs' = [k \in DOMAIN kvs \ keys |-> kvs[k]]
          /\ DOMAIN leases' = DOMAIN leases \ ids
      BY <1>3 DEF expire_leases
    <2>2. \A k \in DOMAIN kvs : k \in keys <=> kvs[k].lease_id \in ids
      <3> TAKE k \in DOMAIN kvs
      <3>1. \A l \in ids : k \in leases[l].keys <=> kvs[k].lease_id = l
        BY DEF ServerInv, LeaseBinding
      <3>2. k \in keys <=> \E l \in ids : k \in leases[l].keys
        OBVIOUS
      <3> HIDE DEF keys
      <3> QED
        BY <3>1, <3>2
    <2> HIDE DEF keys
    <2>3. /\ DOMAIN st = DOMAIN kvs
          /\ \A k \in DOMAIN kvs : st[k].lease = kvs[k].lease_id
      OBVIOUS
    <2>4. st2 = [k \in {x \in DOMAIN st : st[x].lease \notin ids} |-> st[k]]
      BY <2>1, <2>2
    <2>5. Abs!Die(ids)
      BY ZenonT(30), <2>1, <2>4 DEF Abs!Die
    <2> QED
      BY <2>5 DEF Abs!AbsNext
  <1>4. ASSUME NEW k \in Keys, NEW v \in Values, NEW l \in LeaseIds \cup {NoLease}, NEW lost,
               lease_ok(l), Set(k, v, l, lost)
        PROVE  Abs!AbsNext
    <2>1. /\ kvs' = [x \in DOMAIN kvs \cup {k} |->
                       IF x = k THEN [value |-> v, lease_id |-> l, mod_revision |-> revision']
                       ELSE kvs[x]]
          /\ DOMAIN leases' = DOMAIN leases
      BY <1>4 DEF Set, Rebound
    <2>2. st2 = [x \in DOMAIN st \cup {k} |->
                   IF x = k THEN [value |-> v, lease |-> l] ELSE st[x]]
      BY <2>1
    <2>3. l \in DOMAIN leases \cup {Abs!NoLease}
      BY <1>4 DEF lease_ok, NoLease, Abs!NoLease
    <2>4. Abs!Write(k, v, l)
      BY <2>1, <2>2, <2>3 DEF Abs!Write
    <2> QED
      BY <2>3, <2>4 DEF Abs!AbsNext
  <1>5. CASE restart
    <2>1. kvs' = << >> /\ DOMAIN kvs' = {} /\ DOMAIN leases' = {}
      BY <1>5 DEF restart
    <2>2. st2 = << >>
      BY <2>1
    <2> QED
      BY <2>1, <2>2 DEF Abs!AbsNext, Abs!Wipe
  <1>6. ASSUME ConnNext \/ tick \/ UNCHANGED serverVars PROVE UNCHANGED Abs!absVars
    <2>1. UNCHANGED storeVars
      BY <1>6 DEF ConnNext, accept, lose, close, receive, unwatch, watch, tick, serverVars, storeVars
    <2> QED
      BY <2>1, <1>s
  <1>7. ASSUME NEW lost, sweep(lost) PROVE Abs!AbsNext
    <2> DEFINE expired == {l \in DOMAIN leases : leases[l].deadline <= now}
    <2>1. expire_leases(expired, lost) /\ expired \in SUBSET DOMAIN leases
      BY <1>7 DEF sweep
    <2> HIDE DEF expired
    <2> QED
      BY <2>1, <1>3
  <1>8. ASSUME NEW lost, NEW l \in DOMAIN leases, revoke(l, lost) PROVE Abs!AbsNext
    BY <1>8, <1>3 DEF revoke
  <1>9. ASSUME NEW lost, NEW k \in Keys, NEW v \in Values, NEW l \in LeaseIds \cup {NoLease},
               kv_create(k, v, l, lost) \/ kv_put(k, v, l, lost)
                                        \/ kv_create_or_validate(k, v, l, lost)
        PROVE  Abs!AbsNext
    BY <1>9, <1>4 DEF kv_create, kv_put, kv_create_or_validate
  <1> HIDE DEF st, st2
  <1> QED
    BY SMTT(20), <1>1, <1>2, <1>5, <1>6, <1>7, <1>8, <1>9 DEF ServerNext, StoreNext

(* The store and the leases of discoveryd implement LeaseStore: keys are bound *)
(* only to leases that are alive, and go away only with their lease, all of a  *)
(* lease's keys at once, or when the daemon restarts.                          *)
THEOREM Refinement == ServerSpec => ImplementsLeaseStore
  BY RefineInit, RefineNext, Invariant, PTL DEF ServerSpec, ImplementsLeaseStore, Abs!AbsSpec
===============================================================================
