--------------------------- MODULE DiscoveryServer ---------------------------
(***************************************************************************)
(* discoveryd (src/discovery/server.cpp): the key/value store with leases, *)
(* its revision counter and bounded event log, the watch registrations,    *)
(* and what is written to each connection.  Every request is handled under *)
(* one mutex, so every operation of handle_request is one action; so is    *)
(* one pass of the sweeper thread.                                         *)
(*                                                                         *)
(* Abstractions.  A key is a number, its place in the order of the store's *)
(* std::map; a prefix is the set of the keys it matches.  A request that   *)
(* is refused changes no state, so it is no action here: the module of the *)
(* client gives the reply.  Subscriptions are not modelled here.           *)
(***************************************************************************)
EXTENDS Integers, Sequences, FiniteSets, SequencesExt

CONSTANTS Keys,         \* the keys, numbered in lexicographic order
          Values,       \* the values
          KeyPrefixes,  \* the prefixes, each the set of keys it matches
          WatchIds,     \* the watch ids the clients choose (each counts from 1)
          Conns,        \* names of connections; one is reused when it is gone
          Ttl,          \* the ttl of every lease, in ticks
          LogCapacity,  \* kEventLogCapacity
          MaxRevision,  \* bound: no mutation beyond this revision
          MaxLeases,    \* bound: number of leases granted
          MaxTime       \* bound: the clock stops here

ASSUME ServerAssumption ==
  /\ Keys \subseteq Nat /\ IsFiniteSet(Keys)
  /\ KeyPrefixes \subseteq SUBSET Keys
  /\ WatchIds \subseteq Nat
  /\ Ttl \in Nat
  /\ LogCapacity \in Nat \ {0}
  /\ MaxRevision \in Nat /\ MaxLeases \in Nat /\ MaxTime \in Nat

VARIABLES kvs,            \* key |-> [value, lease_id, mod_revision], partial
          revision,       \* bumps on every put and delete
          event_log,      \* the last LogCapacity mutations, oldest first
          leases,         \* lease id |-> [deadline, keys], partial
          next_lease_id,
          watchers,       \* registrations [id, prefix, conn]
          conns,          \* the open connections
          broken,         \* those of them whose link is gone
          wire,           \* per connection, frames written and not yet read
          now             \* the steady clock

storeVars == <<kvs, revision, event_log, leases, next_lease_id>>
connVars  == <<watchers, conns, broken, wire>>
serverVars == <<kvs, revision, event_log, leases, next_lease_id,
                watchers, conns, broken, wire, now>>

NoLease == 0
NoRevision == -1    \* a watch request without from_rev

LeaseIds == 1..MaxLeases
Entry    == [value : Values, lease_id : LeaseIds \cup {NoLease}, mod_revision : 1..MaxRevision]
Logged   == [rev : 1..MaxRevision, is_put : BOOLEAN, key : Keys, value : Values]
Watcher  == [id : WatchIds, prefix : KeyPrefixes, conn : Conns]

-------------------------------------------------------------------------------
(* Frames.  Events of the log and of the store, the end of a resync, and a *)
(* reply to a watch request.                                               *)

EventFrame(id, e) == [watch |-> id, kind |-> IF e.is_put THEN "put" ELSE "delete",
                      key |-> e.key, value |-> e.value, rev |-> e.rev]
SyncFrame(id, mode, rev) == [watch |-> id, kind |-> "sync", mode |-> mode, rev |-> rev]
ReplyFrame(req) == [kind |-> "reply", req |-> req]

(* A frame written to a connection whose link is gone reaches nobody. *)
Write(conn, frames) == [wire EXCEPT ![conn] = IF conn \in broken THEN @ ELSE @ \o frames]

-------------------------------------------------------------------------------
(* The event log *)

(* Mutants: the log is never trimmed; the newest event goes, not the oldest. *)
Trimmed_Never(s) == s
Trimmed_Newest(s) == IF Len(s) > LogCapacity THEN SubSeq(s, 1, LogCapacity) ELSE s

Trimmed(s) == IF Len(s) > LogCapacity
              THEN SubSeq(s, Len(s) - LogCapacity + 1, Len(s)) ELSE s

(* Mutant: off by one, the event after from_rev may be gone. *)
can_replay_from_Off(from_rev) ==
  \/ from_rev >= revision
  \/ event_log # << >> /\ event_log[1].rev <= from_rev + 2

can_replay_from(from_rev) ==
  \/ from_rev >= revision
  \/ event_log # << >> /\ event_log[1].rev <= from_rev + 1

(* The frames of the mutations evs for the watchers ws of one connection. *)
Fanout(ws, evs) ==
  FlattenSeq([i \in 1..Len(evs) |->
    LET ids == SetToSortSeq({w.id : w \in {x \in ws : evs[i].key \in x.prefix}}, <)
    IN [j \in 1..Len(ids) |-> EventFrame(ids[j], evs[i])]])

(* mutate_and_notify_locked for each of the mutations muts, in their order: *)
(* log it, write it to every watcher whose prefix it matches, and drop the  *)
(* watchers whose connection could not be written to (lost).                *)
mutate_and_notify(muts, lost) ==
  LET evs == [i \in 1..Len(muts) |-> [rev |-> revision + i, is_put |-> muts[i].is_put,
                                      key |-> muts[i].key, value |-> muts[i].value]]
      touched == {w \in watchers : \E i \in 1..Len(muts) : muts[i].key \in w.prefix}
  IN /\ revision + Len(muts) <= MaxRevision
     /\ revision' = revision + Len(muts)
     /\ event_log' = Trimmed(event_log \o evs)
     /\ lost \subseteq {w \in touched : w.conn \in broken}
     /\ watchers' = watchers \ lost
     /\ wire' = [c \in Conns |->
                   IF c \in conns \ broken
                   THEN wire[c] \o Fanout({w \in watchers : w.conn = c}, evs)
                   ELSE wire[c]]

-------------------------------------------------------------------------------
(* Leases *)

create_lease ==
  /\ next_lease_id <= MaxLeases
  /\ next_lease_id' = next_lease_id + 1
  /\ leases' = [l \in DOMAIN leases \cup {next_lease_id} |->
                  IF l = next_lease_id THEN [deadline |-> now + Ttl, keys |-> {}]
                  ELSE leases[l]]
  /\ UNCHANGED <<kvs, revision, event_log, connVars, now>>

(* Mutants: the deadline is not moved; it is moved by a ttl from where it was. *)
keepalive_Same(id) ==
  id \in DOMAIN leases /\ UNCHANGED <<storeVars, connVars, now>>
keepalive_Add(id) ==
  /\ id \in DOMAIN leases
  /\ leases' = [leases EXCEPT ![id].deadline = @ + Ttl]
  /\ UNCHANGED <<kvs, revision, event_log, next_lease_id, connVars, now>>

keepalive(id) ==
  /\ id \in DOMAIN leases
  /\ leases' = [leases EXCEPT ![id].deadline = now + Ttl]
  /\ UNCHANGED <<kvs, revision, event_log, next_lease_id, connVars, now>>

(* Mutant: the lease goes, its keys stay. *)
expire_leases_KeepKeys(ids, lost) ==
  /\ leases' = [l \in DOMAIN leases \ ids |-> leases[l]]
  /\ UNCHANGED <<kvs, revision, event_log, next_lease_id, connVars, now>>

(* expire_lease_locked for each lease of ids: a delete event for each of    *)
(* its keys that the store holds, then the lease is gone.  The order is     *)
(* that of the keys' binding; any order is allowed here.                    *)
expire_leases(ids, lost) ==
  LET keys == (UNION {leases[l].keys : l \in ids}) \cap DOMAIN kvs
  IN /\ \E order \in SetToSeqs(keys) :
          mutate_and_notify([i \in 1..Len(order) |->
             [is_put |-> FALSE, key |-> order[i], value |-> kvs[order[i]].value]], lost)
     /\ kvs' = [k \in DOMAIN kvs \ keys |-> kvs[k]]
     /\ leases' = [l \in DOMAIN leases \ ids |-> leases[l]]
     /\ UNCHANGED <<next_lease_id, conns, broken, now>>

revoke(id, lost) == id \in DOMAIN leases /\ expire_leases({id}, lost)

(* One pass of the sweeper thread over the leases past their deadline. *)
sweep(lost) ==
  LET expired == {l \in DOMAIN leases : leases[l].deadline <= now}
  IN expired # {} /\ expire_leases(expired, lost)

-------------------------------------------------------------------------------
(* The store.  A key moves from the lease it was bound to, if any, to the   *)
(* lease given.                                                             *)

lease_ok(l) == l = NoLease \/ l \in DOMAIN leases

(* Mutant: a put under another lease leaves the key on the old lease's list. *)
Rebound_NoUnbind(key, lease) ==
  [l \in DOMAIN leases |->
     [leases[l] EXCEPT !.keys = IF l = lease THEN @ \cup {key} ELSE @]]

Rebound(key, lease) ==
  [l \in DOMAIN leases |->
     [leases[l] EXCEPT !.keys =
        IF l = lease THEN @ \cup {key}
        ELSE IF key \in DOMAIN kvs /\ l = kvs[key].lease_id THEN @ \ {key} ELSE @]]

Set(key, value, lease, lost) ==
  /\ mutate_and_notify(<<[is_put |-> TRUE, key |-> key, value |-> value]>>, lost)
  /\ leases' = Rebound(key, lease)
  /\ kvs' = [k \in DOMAIN kvs \cup {key} |->
               IF k = key THEN [value |-> value, lease_id |-> lease, mod_revision |-> revision']
               ELSE kvs[k]]
  /\ UNCHANGED <<next_lease_id, conns, broken, now>>

kv_create(key, value, lease, lost) ==
  key \notin DOMAIN kvs /\ lease_ok(lease) /\ Set(key, value, lease, lost)

kv_put(key, value, lease, lost) == lease_ok(lease) /\ Set(key, value, lease, lost)

(* An existing key is only compared (validated or refused): no mutation. *)
kv_create_or_validate(key, value, lease, lost) ==
  key \notin DOMAIN kvs /\ lease_ok(lease) /\ Set(key, value, lease, lost)

-------------------------------------------------------------------------------
(* Watches *)

SnapshotFrames(id, prefix) ==
  LET ks == SetToSortSeq(DOMAIN kvs \cap prefix, <)
  IN [i \in 1..Len(ks) |->
        EventFrame(id, [rev |-> kvs[ks[i]].mod_revision, is_put |-> TRUE,
                        key |-> ks[i], value |-> kvs[ks[i]].value])]

ReplayFrames(id, prefix, from_rev) ==
  LET evs == SelectSeq(event_log, LAMBDA e : e.rev > from_rev /\ e.key \in prefix)
  IN [i \in 1..Len(evs) |-> EventFrame(id, evs[i])]

ResyncFrames(id, prefix, from_rev) ==
  IF from_rev >= 0 /\ can_replay_from(from_rev)
  THEN Append(ReplayFrames(id, prefix, from_rev), SyncFrame(id, "replay", revision))
  ELSE Append(SnapshotFrames(id, prefix), SyncFrame(id, "snapshot", revision))

(* The resync is written, then the watcher registered in place of an older  *)
(* one with its id on this connection, then the reply written.              *)
watch(conn, id, prefix, from_rev, req) ==
  /\ conn \in conns
  /\ wire' = Write(conn, Append(ResyncFrames(id, prefix, from_rev), ReplyFrame(req)))
  /\ watchers' = {w \in watchers : ~(w.id = id /\ w.conn = conn)}
                   \cup {[id |-> id, prefix |-> prefix, conn |-> conn]}
  /\ UNCHANGED <<storeVars, conns, broken, now>>

(* The registration is looked up by the id alone. *)
unwatch(id) ==
  /\ watchers' = {w \in watchers : w.id # id}
  /\ UNCHANGED <<storeVars, conns, broken, wire, now>>

-------------------------------------------------------------------------------
(* Connections *)

accept(conn) ==
  /\ conn \notin conns
  /\ conns' = conns \cup {conn}
  /\ wire' = [wire EXCEPT ![conn] = << >>]
  /\ UNCHANGED <<storeVars, watchers, broken, now>>

(* The link goes down (external): what was on it is lost, and so is what the *)
(* server writes from now on.                                                *)
lose(conn) ==
  /\ conn \in conns \ broken
  /\ broken' = broken \cup {conn}
  /\ wire' = [wire EXCEPT ![conn] = << >>]
  /\ UNCHANGED <<storeVars, watchers, conns, now>>

(* The connection thread sees the end of its stream. Leases are kept. *)
close(conn) ==
  /\ conn \in broken
  /\ watchers' = {w \in watchers : w.conn # conn}
  /\ conns' = conns \ {conn}
  /\ broken' = broken \ {conn}
  /\ UNCHANGED <<storeVars, wire, now>>

(* The client reads the next frame (external). *)
receive(conn) ==
  /\ wire[conn] # << >>
  /\ wire' = [wire EXCEPT ![conn] = Tail(@)]
  /\ UNCHANGED <<storeVars, watchers, conns, broken, now>>

(* The daemon stops or dies and a new one starts: its state is in memory. *)
restart ==
  /\ kvs' = << >> /\ revision' = 0 /\ event_log' = << >>
  /\ leases' = << >> /\ next_lease_id' = 1
  /\ watchers' = {} /\ conns' = {} /\ broken' = {}
  /\ wire' = [c \in Conns |-> << >>]
  /\ UNCHANGED now

tick == now < MaxTime /\ now' = now + 1 /\ UNCHANGED <<storeVars, connVars>>

-------------------------------------------------------------------------------
ServerInit ==
  /\ kvs = << >> /\ revision = 0 /\ event_log = << >>
  /\ leases = << >> /\ next_lease_id = 1
  /\ watchers = {} /\ conns = {} /\ broken = {}
  /\ wire = [c \in Conns |-> << >>]
  /\ now = 0

(* Requests that mutate the store, from any client, and the sweeper. *)
StoreNext ==
  \/ create_lease
  \/ \E l \in DOMAIN leases : keepalive(l)
  \/ \E lost \in SUBSET watchers :
       \/ \E l \in DOMAIN leases : revoke(l, lost)
       \/ sweep(lost)
       \/ \E k \in Keys, v \in Values, l \in LeaseIds \cup {NoLease} :
            \/ kv_create(k, v, l, lost)
            \/ kv_put(k, v, l, lost)
            \/ kv_create_or_validate(k, v, l, lost)

ConnNext ==
  \E c \in Conns :
     \/ accept(c) \/ lose(c) \/ close(c) \/ receive(c)
     \/ \E id \in WatchIds : unwatch(id)
     \/ \E id \in WatchIds, p \in KeyPrefixes, r \in {NoRevision} \cup 1..MaxRevision,
           req \in WatchIds \cup {0} : watch(c, id, p, r, req)

ServerNext == StoreNext \/ ConnNext \/ restart \/ tick

ServerSpec == ServerInit /\ [][ServerNext]_serverVars

-------------------------------------------------------------------------------
(* Properties *)

(* The values every variable of discoveryd's State takes (server.cpp:52-126). *)
ServerTypeOK ==
  /\ DOMAIN kvs \subseteq Keys
  /\ \A k \in DOMAIN kvs : kvs[k] \in Entry
  /\ revision \in 0..MaxRevision
  /\ event_log \in Seq(Logged) /\ Len(event_log) <= LogCapacity
  /\ DOMAIN leases \subseteq LeaseIds
  /\ \A l \in DOMAIN leases : leases[l] \in [deadline : Nat, keys : SUBSET Keys]
  /\ next_lease_id \in 1..MaxLeases + 1
  /\ watchers \subseteq Watcher
  /\ conns \subseteq Conns /\ broken \subseteq conns
  /\ now \in Nat

(* The two records of a key's lease agree: a key names a lease that is alive *)
(* or none, and a lease lists exactly the keys that name it.  Expiry walks   *)
(* the lease's list, so a key that was re-put under another lease must have  *)
(* left the old list, or the old lease's death would take it.                *)
LeaseBinding ==
  /\ \A k \in DOMAIN kvs : kvs[k].lease_id \in DOMAIN leases \cup {NoLease}
  /\ \A l \in DOMAIN leases : leases[l].keys = {k \in DOMAIN kvs : kvs[k].lease_id = l}

(* The log is the last mutations without a hole, and the last one of a key   *)
(* in it is what the store holds for the key: replaying the log after any    *)
(* revision that can_replay_from accepts gives the store.                    *)
LogFaithful ==
  /\ \A i \in 1..Len(event_log) : event_log[i].rev = revision - Len(event_log) + i
  /\ \A i \in 1..Len(event_log) :
       LET e == event_log[i] IN
       (\A j \in i + 1..Len(event_log) : event_log[j].key # e.key) =>
          IF e.is_put
          THEN e.key \in DOMAIN kvs /\ kvs[e.key].value = e.value
                                    /\ kvs[e.key].mod_revision = e.rev
          ELSE e.key \notin DOMAIN kvs
  /\ \A k \in DOMAIN kvs :
       \/ kvs[k].mod_revision <= revision - Len(event_log)
       \/ \E i \in 1..Len(event_log) : event_log[i].key = k /\ event_log[i].rev = kvs[k].mod_revision

(* discoveryd's store implements the promise of LeaseStore. *)
Abs == INSTANCE LeaseStore WITH
         store <- [k \in DOMAIN kvs |-> [value |-> kvs[k].value, lease |-> kvs[k].lease_id]],
         live  <- DOMAIN leases

ImplementsLeaseStore == Abs!AbsSpec
===============================================================================
