----------------------------- MODULE TcpDiscovery -----------------------------
(***************************************************************************)
(* Watches of one discoveryd client (src/discovery/tcp.cpp) composed with  *)
(* the daemon: the manager thread that connects, resubscribes and reads;   *)
(* the callers of kv_get_and_watch_prefix, which run on other threads; the *)
(* link to the daemon, which may break at any moment; the consumer of each *)
(* watch, seen through the mirror it builds from the events; and the other *)
(* clients of the daemon, which change the store and drop their watches.   *)
(*                                                                         *)
(* The mutex of the client is held in short sections; each is one action.  *)
(* The writes that follow the unlock of a section are actions of their own *)
(* where another thread can come between.                                  *)
(*                                                                         *)
(* The client notices in the step in which its link goes down.  In the     *)
(* program it may notice later; until then it reads frames that had been   *)
(* written and writes requests that nobody handles, and both are steps     *)
(* here before the link goes down.                                         *)
(*                                                                         *)
(* The channel of a watch is the number of events in it: it is first in,   *)
(* first out, and the mirror is the one its consumer has when it has read  *)
(* them all.                                                               *)
(***************************************************************************)
EXTENDS DiscoveryServer

CONSTANTS NoConn,
          ChannelCapacity, \* of the channel of a watch (1024)
          MaxRestarts,   \* bound: restarts of the daemon
          MaxRevisionAfterRestart, \* bound: revisions of a restarted daemon
          MaxShutdowns   \* bound: 1 if the client may shut down, else 0

ASSUME ClientAssumption ==
  /\ NoConn \notin Conns /\ 0 \notin WatchIds /\ MaxRestarts \in Nat
  /\ ChannelCapacity \in Nat \ {0}
  /\ MaxRevisionAfterRestart \in 0..MaxRevision /\ MaxShutdowns \in 0..1

VARIABLES sock,      \* the client's connection, NoConn when it has none
          mgr,       \* where the manager thread is
          connected, \* the flag request() looks at
          closing,   \* how far shutdown() is; then whether it shut the socket in use
          resub,     \* the watches listed by resubscribe_all, to be written
          to_send,   \* the watch and the number of events route_watch_frame has to send
          queued,    \* per watch id, the events in its channel
          reqs,      \* per connection, requests written and not yet handled
          watches,   \* watch id |-> WatchRecord, a partial function
          call,      \* per watch id, where the caller of kv_get_and_watch_prefix is
          view,      \* history: the mirror built from the events of a watch
          taint,     \* history: why a watch may have missed something
          restarts

clientVars == <<sock, mgr, connected, closing, resub, to_send, queued, reqs, watches,
                call, view, taint, restarts>>
managerVars == <<sock, mgr, connected, closing, resub, to_send>>
historyVars == <<view, taint, restarts>>
vars == <<serverVars, clientVars>>

WatchRecord == [prefix : KeyPrefixes, live_keys : SUBSET Keys, sync_keys : SUBSET Keys,
                syncing : BOOLEAN, last_rev : 0..MaxRevision]

shutdown_requested == closing # "no"

NoEvents == [watch |-> 0, left |-> 0]

(* The receiver of the watch is still held: by the caller until the request *)
(* throws, then by the consumer until it drops it.                          *)
sink_open(id) == call[id] # "gone"

-------------------------------------------------------------------------------
(* kv_get_and_watch_prefix *)

(* next_watch_id counts up from 1. *)
NextWatchId(id) == call[id] = "unused" /\ \A j \in WatchIds : j < id => call[j] # "unused"

AddRecord(id, p) ==
  /\ NextWatchId(id)
  /\ ~shutdown_requested
  /\ watches' = [j \in DOMAIN watches \cup {id} |->
        IF j = id THEN [prefix |-> p, live_keys |-> {}, sync_keys |-> {},
                        syncing |-> TRUE, last_rev |-> 0] ELSE watches[j]]
  /\ call' = [call EXCEPT ![id] = "recorded"]
  /\ UNCHANGED <<serverVars, managerVars, queued, reqs, historyVars>>

WatchReq(id, from_rev, req) ==
  [op |-> "watch", id |-> id, prefix |-> watches[id].prefix, from |-> from_rev, req |-> req]

Sent(rs) == IF sock = NoConn THEN reqs ELSE [reqs EXCEPT ![sock] = @ \o rs]

(* The request has thrown or the consumer is gone: the receiver is dropped. *)
DropReceiver(id) ==
  /\ call' = [call EXCEPT ![id] = "gone"]
  /\ queued' = [queued EXCEPT ![id] = 0]
  /\ view' = [view EXCEPT ![id] = << >>]
  /\ taint' = [taint EXCEPT ![id] = {}]
  /\ UNCHANGED restarts

(* request(): take a request id, or throw. The record stays when it throws. *)
BeginRequest(id) ==
  /\ call[id] = "recorded"
  /\ IF shutdown_requested \/ ~connected
     THEN DropReceiver(id)
     ELSE call' = [call EXCEPT ![id] = "pending"] /\ UNCHANGED <<queued, historyVars>>
  /\ UNCHANGED <<serverVars, managerVars, reqs, watches>>

(* request(): the write, to whatever socket the client has by now.  A request *)
(* dropped meanwhile by a disconnect is written all the same, but its caller  *)
(* finds the reply channel closed.                                            *)
WriteRequest(id) ==
  /\ call[id] \in {"pending", "dropped"}
  /\ reqs' = IF id \in DOMAIN watches THEN Sent(<<WatchReq(id, NoRevision, id)>>) ELSE reqs
  /\ IF call[id] = "dropped"
     THEN DropReceiver(id)
     ELSE call' = [call EXCEPT ![id] = "waiting"] /\ UNCHANGED <<queued, historyVars>>
  /\ UNCHANGED <<serverVars, managerVars, watches>>

(* The consumer reads an event of its WatchStream. *)
Consume(id) ==
  /\ call[id] = "open" /\ queued[id] > 0
  /\ queued' = [queued EXCEPT ![id] = @ - 1]
  /\ UNCHANGED <<serverVars, managerVars, reqs, watches, call, historyVars>>

(* The consumer drops its WatchStream. *)
DropStream(id) ==
  /\ call[id] = "open"
  /\ DropReceiver(id)
  /\ UNCHANGED <<serverVars, managerVars, reqs, watches>>

-------------------------------------------------------------------------------
(* The manager thread *)

(* manager_loop: the flag is looked at before the connection is made. *)
CheckShutdown ==
  /\ mgr = "connect" /\ ~shutdown_requested
  /\ mgr' = "dial"
  /\ UNCHANGED <<serverVars, sock, connected, closing, resub, to_send, queued, reqs, watches,
                 call, historyVars>>

(* The attempt fails: another one after a pause. *)
ConnectFails ==
  /\ mgr = "dial" /\ mgr' = "connect"
  /\ UNCHANGED <<serverVars, sock, connected, closing, resub, to_send, queued, reqs, watches,
                 call, historyVars>>

(* A new connection takes the place of the socket, shutdown or not.  Until    *)
(* then nobody uses it, so connect and exchange are one step.                 *)
Reconnect ==
  /\ mgr = "dial"
  /\ Conns \ conns # {}
  /\ LET s == CHOOSE s \in Conns \ conns : TRUE
     IN accept(s) /\ sock' = s
  /\ mgr' = "resub"
  /\ UNCHANGED <<connected, closing, resub, to_send, queued, reqs, watches, call, historyVars>>

(* resubscribe_all, under the mutex: list the watches, enter resync mode. *)
ListWatches ==
  /\ mgr = "resub"
  /\ resub' = DOMAIN watches
  /\ watches' = [id \in DOMAIN watches |->
                   [watches[id] EXCEPT !.syncing = TRUE, !.sync_keys = {}]]
  /\ mgr' = "write"
  /\ UNCHANGED <<serverVars, sock, connected, closing, to_send, queued, reqs, call, historyVars>>

(* Mutant: nothing is resubscribed. *)
WriteWatches_None ==
  /\ mgr = "write"
  /\ resub' = {} /\ connected' = TRUE /\ mgr' = "read"
  /\ UNCHANGED <<serverVars, sock, closing, to_send, queued, reqs, watches, call, historyVars>>

(* resubscribe_all, after the mutex: write them; then connected is set. *)
WriteWatches ==
  LET ids == SetToSortSeq(resub, <)
      from(id) == IF watches[id].last_rev > 0 THEN watches[id].last_rev ELSE NoRevision
  IN /\ mgr = "write"
     /\ reqs' = Sent([i \in 1..Len(ids) |-> WatchReq(ids[i], from(ids[i]), 0)])
     /\ resub' = {}
     /\ connected' = TRUE
     /\ mgr' = "read"
     /\ UNCHANGED <<serverVars, sock, closing, to_send, queued, watches, call, historyVars>>

(* route_watch_frame, under the mutex: the record becomes rec; n events follow *)
(* from the frame, which make the mirror mirror, and are sent after the mutex. *)
Emit(id, rec, n, mirror) ==
  /\ watches' = [watches EXCEPT ![id] = rec]
  /\ view' = IF sink_open(id) THEN [view EXCEPT ![id] = mirror] ELSE view
  /\ IF n = 0 THEN UNCHANGED <<mgr, to_send>>
     ELSE mgr' = "send" /\ to_send' = [watch |-> id, left |-> n]

Larger(a, b) == IF a > b THEN a ELSE b

RoutePut(f) ==
  LET rec == watches[f.watch]
      old == view[f.watch]
  IN /\ f.kind = "put"
     /\ Emit(f.watch,
             [rec EXCEPT !.live_keys = @ \cup {f.key},
                         !.sync_keys = IF rec.syncing THEN @ \cup {f.key} ELSE @,
                         !.last_rev = Larger(@, f.rev)],
             1,
             [k \in DOMAIN old \cup {f.key} |->
                IF k = f.key THEN [value |-> f.value, rev |-> f.rev] ELSE old[k]])
     /\ UNCHANGED taint

(* Mutant: the deleted key stays in live_keys. *)
RouteDelete_Keep(f) ==
  /\ f.kind = "delete"
  /\ Emit(f.watch, [watches[f.watch] EXCEPT !.last_rev = Larger(@, f.rev)], 1,
          [k \in DOMAIN view[f.watch] \ {f.key} |-> view[f.watch][k]])
  /\ UNCHANGED taint

RouteDelete(f) ==
  LET rec == watches[f.watch]
      old == view[f.watch]
  IN /\ f.kind = "delete"
     /\ Emit(f.watch,
             [rec EXCEPT !.live_keys = @ \ {f.key}, !.last_rev = Larger(@, f.rev)],
             1, [k \in DOMAIN old \ {f.key} |-> old[k]])
     /\ UNCHANGED taint

(* Mutant: only the marker of a snapshot ends a resync. *)
RouteSync_Snapshot(f) ==
  /\ f.kind = "sync"
  /\ IF f.mode = "snapshot" /\ watches[f.watch].syncing
     THEN Emit(f.watch, [watches[f.watch] EXCEPT !.live_keys = watches[f.watch].sync_keys,
                                                 !.sync_keys = {}, !.syncing = FALSE],
               0, [k \in watches[f.watch].sync_keys |-> view[f.watch][k]])
     ELSE UNCHANGED <<mgr, to_send, watches, view>>
  /\ UNCHANGED taint

(* The end of a resync.  After a snapshot, deletes are emitted for the keys   *)
(* not in it; a marker outside a resync is ignored.                           *)
RouteSync(f) ==
  LET rec == watches[f.watch]
      old == view[f.watch]
      vanished == IF f.mode = "snapshot" THEN rec.live_keys \ rec.sync_keys ELSE {}
  IN /\ f.kind = "sync"
     /\ IF ~rec.syncing
        THEN UNCHANGED <<mgr, to_send, watches, view, taint>>
        ELSE /\ Emit(f.watch,
                     [rec EXCEPT !.live_keys = IF f.mode = "snapshot" THEN rec.sync_keys ELSE @,
                                 !.sync_keys = {}, !.syncing = FALSE,
                                 !.last_rev = Larger(@, f.rev)],
                     Cardinality(vanished), [k \in DOMAIN old \ vanished |-> old[k]])
             /\ taint' = [taint EXCEPT ![f.watch] =
                            IF f.mode = "snapshot" THEN @ \cap {"unwatched"} ELSE @]

(* route_reply: the caller's request has been answered. *)
RouteReply(f) ==
  /\ f.kind = "reply"
  /\ call' = IF f.req # 0 /\ call[f.req] = "waiting"
             THEN [call EXCEPT ![f.req] = "open"] ELSE call
  /\ UNCHANGED <<mgr, to_send, watches, view, taint>>

(* read_until_disconnect: the next frame.  One for a watch the client no      *)
(* longer has is ignored.                                                     *)
ReadFrame ==
  /\ mgr = "read"
  /\ receive(sock)
  /\ LET f == Head(wire[sock]) IN
       \/ RouteReply(f)
       \/ /\ f.kind # "reply"
          /\ IF f.watch \in DOMAIN watches
             THEN RoutePut(f) \/ RouteDelete(f) \/ RouteSync(f)
             ELSE UNCHANGED <<mgr, to_send, watches, view, taint>>
          /\ UNCHANGED call
  /\ UNCHANGED <<sock, connected, closing, resub, queued, reqs, restarts>>

(* route_watch_frame, after the mutex: the next event is sent, which blocks    *)
(* while the channel is full; or the consumer is gone, and the record is       *)
(* erased and the daemon told so.                                              *)
SendIf(wakes) ==
  LET id == to_send.watch
  IN /\ mgr = "send" /\ wakes
     /\ IF sink_open(id)
        THEN /\ queued[id] < ChannelCapacity
             /\ queued' = [queued EXCEPT ![id] = @ + 1]
             /\ to_send' = IF to_send.left = 1 THEN NoEvents ELSE [to_send EXCEPT !.left = @ - 1]
             /\ UNCHANGED <<reqs, watches>>
        ELSE /\ to_send' = NoEvents
             /\ watches' = [j \in DOMAIN watches \ {id} |-> watches[j]]
             /\ reqs' = Sent(<<[op |-> "unwatch", id |-> id]>>)
             /\ UNCHANGED queued
     /\ mgr' = IF to_send' = NoEvents THEN "read" ELSE "send"
     /\ UNCHANGED <<serverVars, sock, connected, closing, resub, call, historyVars>>

SendEvent_Deaf == SendIf(sink_open(to_send.watch))  \* mutant: a consumer that goes is not noticed

SendEvent == SendIf(TRUE)

(* The link goes down while a snapshot is partly read: a put of it has been   *)
(* routed, its marker is still on the wire.                                   *)
TornSnapshot(id) ==
  LET rest == SelectSeq(wire[sock], LAMBDA f : f.kind = "sync" /\ f.watch = id)
  IN /\ rest # << >> /\ rest[1].mode = "snapshot"
     /\ watches[id].syncing => watches[id].sync_keys # {}

(* The reader sees the end of the stream: requests in flight fail, watches    *)
(* are kept, unless the client is shutting down.  What the daemon has not     *)
(* handled of the requests written is lost.  cause: what else befell watches. *)
EndOfStream(cause) ==
  LET failed(id)  == call[id] = "waiting" \/ id \notin DOMAIN watches'
      torn(id) == IF TornSnapshot(id) THEN {"torn"} ELSE {}
      missed(id) == IF "unwatched" \in taint[id] THEN {"missed"} ELSE {}
  IN /\ mgr = "read"
     /\ reqs' = [reqs EXCEPT ![sock] = << >>]
     /\ sock' = NoConn
     /\ connected' = FALSE
     /\ mgr' = IF shutdown_requested THEN "down" ELSE "connect"
     /\ watches' = IF shutdown_requested THEN << >> ELSE watches
     /\ call' = [id \in WatchIds |-> CASE call[id] = "waiting" -> "gone"
                                       [] call[id] = "pending" -> "dropped"
                                       [] OTHER -> call[id]]
     /\ view' = [id \in WatchIds |-> IF failed(id) THEN << >> ELSE view[id]]
     /\ taint' = [id \in WatchIds |-> IF failed(id) \/ ~sink_open(id) THEN {}
                                      ELSE (taint[id] \ {"unwatched"}) \cup missed(id) \cup torn(id) \cup cause]
     /\ queued' = [id \in WatchIds |-> IF call'[id] = "gone" THEN 0 ELSE queued[id]]
     /\ UNCHANGED <<closing, resub, to_send>>

Disconnect == sock # NoConn /\ lose(sock) /\ EndOfStream({}) /\ UNCHANGED restarts

(* The daemon restarts.  A client that is about to read finds its link gone; *)
(* one without a link finds the new daemon when it connects.                 *)
Restart ==
  /\ restarts < MaxRestarts
  /\ restarts' = restarts + 1
  /\ restart
  /\ \/ EndOfStream({"restarted"})
     \/ /\ mgr \in {"connect", "dial"}
        /\ taint' = [id \in WatchIds |-> IF id \in DOMAIN watches /\ sink_open(id)
                                         THEN taint[id] \cup {"restarted"} ELSE taint[id]]
        /\ UNCHANGED <<managerVars, queued, reqs, watches, call, view>>

(* Mutant: the loop ends only when no watch is left. *)
GiveUp_Idle ==
  /\ mgr = "connect" /\ shutdown_requested /\ watches = << >>
  /\ mgr' = "down"
  /\ UNCHANGED <<serverVars, sock, connected, closing, resub, to_send, queued, reqs, watches,
                 call, historyVars>>

(* manager_loop finds shutdown_requested instead of reconnecting. *)
GiveUp ==
  /\ mgr = "connect" /\ shutdown_requested
  /\ mgr' = "down"
  /\ watches' = << >>
  /\ view' = [id \in WatchIds |-> << >>] /\ taint' = [id \in WatchIds |-> {}]
  /\ UNCHANGED <<serverVars, sock, connected, closing, resub, to_send, queued, reqs, call,
                 restarts>>

(* shutdown(): the flag, and then the socket, whichever the client has by now;  *)
(* to shut the one in use ends its stream.                                      *)
Shutdown ==
  /\ closing = "no" /\ MaxShutdowns = 1
  /\ closing' = "flag"
  /\ UNCHANGED <<serverVars, sock, mgr, connected, resub, to_send, queued, reqs, watches, call,
                 historyVars>>

ShutSocket ==
  /\ closing = "flag"
  /\ closing' = IF sock = NoConn THEN "missed" ELSE "shut"
  /\ UNCHANGED <<serverVars, sock, mgr, connected, resub, to_send, queued, reqs, watches, call,
                 historyVars>>

-------------------------------------------------------------------------------
(* The daemon *)

HandleWatch(conn) ==
  LET r == Head(reqs[conn])
  IN /\ r.op = "watch"
     /\ watch(conn, r.id, r.prefix, r.from, r.req)

HandleUnwatch(conn) == Head(reqs[conn]).op = "unwatch" /\ unwatch(Head(reqs[conn]).id)

Handle(conn) ==
  /\ conn \in conns /\ reqs[conn] # << >>
  /\ HandleWatch(conn) \/ HandleUnwatch(conn)
  /\ reqs' = [reqs EXCEPT ![conn] = Tail(@)]
  /\ UNCHANGED <<managerVars, queued, watches, call, historyVars>>

(* Another client drops its watch that has the id of one of this client's. *)
ForeignUnwatch(id) ==
  /\ unwatch(id)
  /\ taint' = IF \E w \in watchers : w.id = id /\ w.conn = sock
              THEN [taint EXCEPT ![id] = @ \cup {"unwatched"}] ELSE taint
  /\ UNCHANGED <<managerVars, queued, reqs, watches, call, view, restarts>>

-------------------------------------------------------------------------------
(* TcpDiscovery::connect has returned: the client is connected, and may be   *)
(* used before its manager thread runs.                                      *)
Init ==
  /\ sock = CHOOSE s \in Conns : TRUE
  /\ kvs = << >> /\ revision = 0 /\ event_log = << >>
  /\ leases = << >> /\ next_lease_id = 1
  /\ watchers = {} /\ conns = {sock} /\ broken = {}
  /\ wire = [c \in Conns |-> << >>] /\ now = 0
  /\ mgr = "resub" /\ connected = TRUE /\ closing = "no"
  /\ resub = {} /\ to_send = NoEvents /\ queued = [id \in WatchIds |-> 0] /\ reqs = [s \in Conns |-> << >>]
  /\ watches = << >> /\ call = [id \in WatchIds |-> "unused"]
  /\ view = [id \in WatchIds |-> << >>]
  /\ taint = [id \in WatchIds |-> {}]
  /\ restarts = 0

Manager == CheckShutdown \/ Reconnect \/ ListWatches \/ WriteWatches \/ ReadFrame \/ SendEvent
           \/ GiveUp \/ (closing = "shut" /\ Disconnect)

Caller(id) == \/ \E p \in KeyPrefixes : AddRecord(id, p)
              \/ BeginRequest(id) \/ WriteRequest(id) \/ Consume(id) \/ DropStream(id)

Next ==
  \/ Manager \/ ConnectFails \/ Disconnect \/ Shutdown \/ ShutSocket
  \/ \E id \in WatchIds : Caller(id) \/ ForeignUnwatch(id)
  \/ \E s \in Conns : Handle(s) \/ (close(s) /\ UNCHANGED clientVars)
  \/ StoreNext /\ UNCHANGED clientVars
               /\ (restarts > 0 => revision' <= MaxRevisionAfterRestart)
  \/ Restart

Spec == Init /\ [][Next]_vars

(* The manager thread, the daemon, the caller of a watch and of shutdown() run; *)
(* a consumer that has a stream reads it; a client that retries does connect in *)
(* the end.                                                                     *)
Fairness ==
  /\ WF_vars(Manager) /\ SF_vars(Reconnect) /\ WF_vars(ShutSocket)
  /\ \A id \in WatchIds : /\ WF_vars(BeginRequest(id)) /\ WF_vars(WriteRequest(id))
                          /\ WF_vars(Consume(id))
  /\ \A s \in Conns : WF_vars(Handle(s)) /\ WF_vars(close(s) /\ UNCHANGED clientVars)

FairSpec == Spec /\ Fairness

-------------------------------------------------------------------------------
(* Properties *)

(* The values of the client's variables (tcp.cpp:31-71). *)
TypeOK ==
  /\ ServerTypeOK
  /\ sock \in Conns \cup {NoConn}
  /\ mgr \in {"connect", "dial", "resub", "write", "read", "send", "down"}
  /\ mgr = "send" <=> to_send.left > 0
  /\ queued \in [WatchIds -> 0..ChannelCapacity]
  /\ resub \subseteq DOMAIN watches
  /\ DOMAIN watches \subseteq WatchIds
  /\ \A id \in DOMAIN watches : watches[id] \in WatchRecord
  /\ \A id \in WatchIds : call[id] \in
       {"unused", "recorded", "pending", "dropped", "waiting", "open", "gone"}

(* Nothing about the watch is on its way: it is not resyncing, its link is   *)
(* up, and nothing is queued on the link in either direction.                *)
Quiet(id) ==
  /\ id \in DOMAIN watches /\ sink_open(id)
  /\ mgr = "read" /\ ~watches[id].syncing
  /\ wire[sock] = << >> /\ reqs[sock] = << >>

(* The mirror holds exactly the daemon's keys under the prefix. *)
Exact(id) ==
  LET keys == DOMAIN kvs \cap watches[id].prefix
  IN view[id] = [k \in keys |-> [value |-> kvs[k].value, rev |-> kvs[k].mod_revision]]

(* However the link breaks and the watch resyncs, by replay or by snapshot,  *)
(* the mirror of a quiet watch is the daemon's store, unless one of three    *)
(* things happened since the last complete snapshot: the link broke inside a *)
(* snapshot, another client's unwatch hit it, or the daemon restarted.       *)
MirrorExact == \A id \in WatchIds : Quiet(id) /\ taint[id] = {} => Exact(id)

(* discovery.h:47 "current keys arrive first as Put events (no gaps, no      *)
(* dupes), followed by updates": the mirror is exact also after the link     *)
(* broke in the middle of a snapshot (route_watch_frame has advanced         *)
(* last_rev by then, and resubscribe_all sends it as from_rev).              *)
NoGaps == \A id \in WatchIds : Quiet(id) /\ taint[id] \subseteq {"torn"} => Exact(id)

(* docs/architecture.md:244 "a *restarted* discoveryd converges back to a    *)
(* correct view": a watch that saw a restart and nothing else is exact when  *)
(* it is quiet again.                                                        *)
RestartConverges ==
  \A id \in WatchIds : Quiet(id) /\ taint[id] \subseteq {"restarted"} => Exact(id)

(* live_keys, from which the deletes after a snapshot are computed           *)
(* (tcp.cpp:254-259), is always the key set of the mirror, also in the       *)
(* middle of a resync, after a torn one and across restarts.                 *)
LiveKeysMirrored == \A id \in DOMAIN watches :
                      sink_open(id) => watches[id].live_keys = DOMAIN view[id]

(* A watch that is open, on a live link, is registered with the daemon or    *)
(* about to be, unless another client's unwatch removed it.                  *)
Registered == \A id \in DOMAIN watches :
    /\ mgr = "read" /\ call[id] = "open"
    /\ "unwatched" \notin taint[id]
    => \/ \E w \in watchers : w.id = id /\ w.conn = sock /\ w.prefix = watches[id].prefix
       \/ \E i \in DOMAIN reqs[sock] : reqs[sock][i].op = "watch" /\ reqs[sock][i].id = id

(* A lost connection is followed by a new one and a resync of every watch    *)
(* (manager_loop), unless the client shuts down.                             *)
Reconnects == mgr = "connect" ~> mgr \in {"read", "down"}

(* The manager waits for room in the channel of a watch whose caller waits    *)
(* for the reply that only the manager can give it: neither ever moves.  It   *)
(* takes more events than the channel holds ahead of the reply.               *)
Overfull == /\ mgr = "send" /\ queued[to_send.watch] = ChannelCapacity
            /\ call[to_send.watch] = "waiting"

(* A resync ends: the marker comes, on this link or after it broke.  A watch  *)
(* never stays in resync mode on a link that is up, although the manager is   *)
(* blocked whenever a consumer is slow (route_watch_frame); the one exception *)
(* is Overfull.                                                               *)
Resyncing(id) == id \in DOMAIN watches /\ watches[id].syncing /\ sink_open(id)
ResyncEnds ==
  \A id \in WatchIds : Resyncing(id) ~> (~Resyncing(id) \/ sock = NoConn \/ Overfull)

(* A shutdown() that found the socket in use, wherever the manager thread was *)
(* then, ends it, so that ~TcpDiscovery can join it (tcp.cpp:398), unless it  *)
(* is Overfull.                                                               *)
ShutdownEnds == closing = "shut" ~> (mgr = "down" \/ Overfull)

(* tcp.cpp:487 "The server streams the snapshot (as watch events) and the     *)
(* sync marker before the reply; the manager routes them into the channel     *)
(* above": a watch request that was written is answered or fails, however     *)
(* many keys the prefix has.                                                  *)
WatchOpens == \A id \in WatchIds : call[id] = "waiting" ~> call[id] # "waiting"
===============================================================================
