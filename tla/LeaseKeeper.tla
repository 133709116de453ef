------------------------------ MODULE LeaseKeeper ------------------------------
(***************************************************************************)
(* A lease held through the discoveryd client (src/discovery/tcp.cpp:      *)
(* make_lease, keep_alive_loop, request) composed with the daemon and with *)
(* time.  One process creates a lease, binds a key to it, and heartbeats   *)
(* until its token is cancelled or the lease is lost; it may also crash.   *)
(*                                                                         *)
(* Time is the daemon's clock, in ticks.  A timer that is due fires, a     *)
(* message on a link that is up arrives within MaxDelay, and the sweeper   *)
(* passes within SweepLag, before the clock moves on: these are the only   *)
(* assumptions on speed.  A link may also stall (a hung daemon, a silent   *)
(* partition): nothing moves on it, and nobody is told.                    *)
(***************************************************************************)
EXTENDS DiscoveryServer

CONSTANTS RetryCap,   \* the 500 ms cap on the retry interval, in ticks
          MaxDelay,   \* a message arrives within this many ticks
          SweepLag    \* the sweeper's period (200 ms), in ticks

healthy_interval == Ttl \div 2
retry_interval == IF Ttl \div 4 < RetryCap THEN Ttl \div 4 ELSE RetryCap

(* A heartbeat interval and a round trip fit in the ttl. *)
ASSUME LeaseAssumption ==
  /\ RetryCap \in Nat \ {0} /\ MaxDelay \in Nat /\ SweepLag \in Nat
  /\ healthy_interval + 2 * MaxDelay < Ttl

VARIABLES pc,        \* where make_lease and then keep_alive_loop are
          lease,     \* the lease's id once the client knows it, else 0
          cancelled, \* the lease's token
          deadline,  \* keep_alive_loop's deadline
          wake,      \* when its timed wait ends
          flight,    \* the request in flight: none, sent, or the reply's verdict
          due,       \* when the message in flight is due
          link,      \* up, stalled or down
          granted,   \* history: the id the daemon granted to this client, else 0
          granted_at, \* history: when it did
          faulty,    \* history: the link has not always been up
          hung,      \* history: the request in flight has met a stalled link
          since,     \* history: when the token was cancelled, the process died or
                     \* make_lease threw, whichever came first
          late       \* history: a heartbeat that had met a stalled link was handled
                     \* after that

keeperVars == <<pc, lease, cancelled, deadline, wake, flight, due, link,
                granted, granted_at, faulty, hung, since, late>>
historyVars == <<granted, granted_at, late>>
vars == <<serverVars, keeperVars>>

Never == -1

-------------------------------------------------------------------------------
(* The request in flight *)

Send(next) ==
  /\ pc' = next
  /\ flight' = "sent" /\ due' = now + MaxDelay
  /\ hung' = (link = "stalled")

NoFlight == flight' = "none" /\ due' = 0 /\ hung' = FALSE

Sleep(interval) == pc' = "sleep" /\ wake' = now + interval

(* The holder's interest in the lease ends here, if it has not before. *)
Ends == since' = IF since = Never THEN now ELSE since

Cancel == cancelled' = TRUE /\ Ends

(* The coroutine is done, and its timed wait with it. *)
Done == pc' = "ended" /\ wake' = 0

(* Mutant: a failed heartbeat is retried for ever. *)
HeartbeatFailed_Retry == Sleep(retry_interval) /\ UNCHANGED <<cancelled, since>>

(* The catch of keep_alive_loop: the heartbeat failed. *)
HeartbeatFailed ==
  IF now >= deadline
  THEN Done /\ Cancel
  ELSE Sleep(retry_interval) /\ UNCHANGED <<cancelled, since>>

-------------------------------------------------------------------------------
(* make_lease and keep_alive_loop *)

MakeLease ==
  /\ pc = "start" /\ link # "down"
  /\ Send("create")
  /\ UNCHANGED <<serverVars, lease, cancelled, deadline, wake, link, historyVars, faulty, since>>

(* Mutant: the id is taken from the daemon's counter after the grant. *)
LeaseMade_Next ==
  /\ pc = "create" /\ flight = "ok" /\ link = "up"
  /\ lease' = next_lease_id /\ deadline' = now + Ttl
  /\ Sleep(healthy_interval) /\ NoFlight
  /\ UNCHANGED <<serverVars, cancelled, link, historyVars, faulty, since>>

(* The reply to create_lease: the loop starts, its deadline from here. *)
LeaseMade ==
  /\ pc = "create" /\ flight = "ok" /\ link = "up"
  /\ lease' = granted
  /\ deadline' = now + Ttl
  /\ Sleep(healthy_interval)
  /\ NoFlight
  /\ UNCHANGED <<serverVars, cancelled, link, historyVars, faulty, since>>

(* Mutant: a cancelled loop ends without a revoke. *)
Wake_NoRevoke ==
  /\ pc = "sleep" /\ (cancelled \/ now >= wake)
  /\ IF cancelled
     THEN Done /\ UNCHANGED <<cancelled, since, flight, due, hung>>
     ELSE IF link = "down" THEN HeartbeatFailed /\ UNCHANGED <<flight, due, hung>>
     ELSE Send("ask") /\ UNCHANGED <<wake, cancelled, since>>
  /\ UNCHANGED <<serverVars, lease, deadline, link, historyVars, faulty>>

(* The timed wait ends, by time or by cancellation: heartbeat, or revoke.    *)
(* Without a connection the request throws at once.                          *)
Wake ==
  /\ pc = "sleep" /\ (cancelled \/ now >= wake)
  /\ IF link = "down"
     THEN /\ IF cancelled THEN Done /\ UNCHANGED <<cancelled, since>>
                          ELSE HeartbeatFailed
          /\ UNCHANGED <<flight, due, hung>>
     ELSE /\ Send(IF cancelled THEN "revoke" ELSE "ask")
          /\ UNCHANGED <<wake, cancelled, since>>
  /\ UNCHANGED <<serverVars, lease, deadline, link, historyVars, faulty>>

(* The reply to a heartbeat. *)
HeartbeatReply ==
  /\ pc = "ask" /\ link = "up" /\ flight \in {"ok", "refused"}
  /\ IF flight = "ok"
     THEN deadline' = now + Ttl /\ Sleep(healthy_interval) /\ UNCHANGED <<cancelled, since>>
     ELSE Done /\ Cancel /\ UNCHANGED deadline
  /\ NoFlight
  /\ UNCHANGED <<serverVars, lease, link, historyVars, faulty>>

RevokeReply ==
  /\ pc = "revoke" /\ link = "up" /\ flight = "ok"
  /\ Done
  /\ NoFlight
  /\ UNCHANGED <<serverVars, lease, cancelled, deadline, link, historyVars, faulty, since>>

(* The connection is lost: manager_loop fails the request in flight, whether *)
(* or not the daemon has handled it.                                         *)
LinkDown ==
  /\ link # "down"
  /\ link' = "down" /\ faulty' = TRUE
  /\ CASE pc = "ask" -> HeartbeatFailed
       [] pc = "create" -> Done /\ Ends /\ UNCHANGED cancelled
       [] pc = "revoke" -> Done /\ UNCHANGED <<cancelled, since>>
       [] OTHER -> UNCHANGED <<pc, wake, cancelled, since>>
  /\ NoFlight
  /\ UNCHANGED <<serverVars, lease, deadline, historyVars>>

LinkUp ==
  /\ link # "up"
  /\ link' = "up"
  /\ due' = IF flight = "none" THEN due ELSE now + MaxDelay
  /\ UNCHANGED <<serverVars, pc, lease, cancelled, deadline, wake, flight, historyVars, faulty,
                 hung, since>>

Stall ==
  /\ link = "up"
  /\ link' = "stalled" /\ faulty' = TRUE
  /\ hung' = (flight # "none")
  /\ UNCHANGED <<serverVars, pc, lease, cancelled, deadline, wake, flight, due, historyVars, since>>

(* The token is cancelled from outside (runtime shutdown, Lease::revoke). *)
CancelToken ==
  /\ ~cancelled /\ pc # "crashed"
  /\ Cancel
  /\ UNCHANGED <<serverVars, pc, lease, deadline, wake, flight, due, link, historyVars, faulty, hung>>

(* The process dies.  A request it has written may still be handled. *)
Crash ==
  /\ pc \notin {"ended", "crashed"}
  /\ pc' = "crashed" /\ deadline' = 0 /\ wake' = 0
  /\ Ends
  /\ UNCHANGED <<serverVars, lease, cancelled, flight, due, link, historyVars,
                 faulty, hung>>

-------------------------------------------------------------------------------
(* The daemon handles the request in flight. *)

HandleCreate ==
  /\ granted = 0 /\ pc \in {"create", "crashed"}
  /\ create_lease
  /\ granted' = next_lease_id /\ granted_at' = now /\ flight' = "ok"
  /\ UNCHANGED late

HandleHeartbeat ==
  /\ granted # 0 /\ (pc = "ask" \/ (pc = "crashed" /\ ~cancelled))
  /\ IF granted \in DOMAIN leases THEN keepalive(granted) /\ flight' = "ok"
                                  ELSE UNCHANGED serverVars /\ flight' = "refused"
  /\ late' = (late \/ (hung /\ since # Never))
  /\ UNCHANGED <<granted, granted_at>>

HandleRevoke ==
  /\ granted # 0 /\ (pc = "revoke" \/ (pc = "crashed" /\ cancelled))
  /\ IF granted \in DOMAIN leases THEN revoke(granted, {}) ELSE UNCHANGED serverVars
  /\ flight' = "ok"
  /\ UNCHANGED historyVars

Handle ==
  /\ flight = "sent" /\ link = "up"
  /\ HandleCreate \/ HandleHeartbeat \/ HandleRevoke
  /\ due' = now + MaxDelay
  /\ UNCHANGED <<pc, lease, cancelled, deadline, wake, link, faulty, hung, since>>

(* The client registers a key under its lease; the sweeper passes. *)
Store ==
  /\ \/ /\ pc \in {"sleep", "ask"} /\ link = "up" /\ lease # 0
        /\ \E k \in Keys, v \in Values : kv_create(k, v, lease, {})
     \/ sweep({})
  /\ UNCHANGED keeperVars

(* Nothing that is due is left behind. *)
Urgent ==
  \/ pc = "sleep" /\ (cancelled \/ now >= wake)
  \/ flight # "none" /\ link = "up" /\ now >= due /\ pc # "crashed"
  \/ flight = "sent" /\ link = "up" /\ now >= due
  \/ \E l \in DOMAIN leases : leases[l].deadline + SweepLag <= now

Tick == ~Urgent /\ tick /\ UNCHANGED keeperVars

-------------------------------------------------------------------------------
Init ==
  /\ ServerInit
  /\ pc = "start" /\ lease = 0 /\ cancelled = FALSE
  /\ deadline = 0 /\ wake = 0
  /\ flight = "none" /\ due = 0 /\ link = "up"
  /\ granted = 0 /\ granted_at = 0 /\ faulty = FALSE /\ hung = FALSE
  /\ since = Never /\ late = FALSE

Keeper == MakeLease \/ LeaseMade \/ Wake \/ HeartbeatReply \/ RevokeReply

Next == Keeper \/ LinkDown \/ LinkUp \/ Stall \/ CancelToken \/ Crash \/ Handle \/ Store \/ Tick

Spec == Init /\ [][Next]_vars

-------------------------------------------------------------------------------
(* Properties *)

(* The values of keep_alive_loop's variables. *)
TypeOK ==
  /\ ServerTypeOK
  /\ pc \in {"start", "create", "sleep", "ask", "revoke", "ended", "crashed"}
  /\ flight \in {"none", "sent", "ok", "refused"}
  /\ link \in {"up", "stalled", "down"}
  /\ lease \in {0, granted}

Beating == pc \in {"sleep", "ask"} /\ ~cancelled

(* On a link that stays up the lease is never lost: heartbeats at ttl/2       *)
(* reach the daemon before its deadline, whatever the delays (tcp.cpp:335).   *)
HealthyLeaseKept == Beating /\ ~faulty => lease \in DOMAIN leases

(* The client never believes long in a lease that it cannot refresh: when its *)
(* loop is not waiting for the daemon, the token is cancelled at the deadline *)
(* or at the first retry after it (tcp.cpp:328 "Transient failures are        *)
(* retried until the TTL deadline").                                          *)
ZombieBounded ==
  /\ pc = "sleep" /\ ~cancelled => now <= deadline + retry_interval
  /\ pc = "ask" /\ ~cancelled /\ ~hung => now <= deadline + retry_interval + 2 * MaxDelay

(* tcp.cpp:64 "their keep-alive loops enforce the TTL deadline": also while   *)
(* the loop waits for a reply.                                                *)
HardDeadline == Beating => now <= deadline + retry_interval + 2 * MaxDelay

(* When the holder was done with the lease, but not before there was one. *)
Over == IF since > granted_at THEN since ELSE granted_at

(* The daemon drops the lease and its keys once the holder is done with it:   *)
(* its token cancelled, its process dead, its request thrown (architecture.md *)
(* "an instance's keys vanish automatically when its process dies").  It      *)
(* takes a ttl from then or from the grant, whichever is later; a second ttl  *)
(* when a heartbeat the holder had written was stuck in a stall and reached   *)
(* the daemon afterwards, less the wait after the renewal before it; never    *)
(* more, whatever the link does.                                              *)
KeysVanish ==
  since # Never /\ granted \in DOMAIN leases
     => now <= Over + IF late THEN 2 * (Ttl + SweepLag) - retry_interval
                              ELSE MaxDelay + Ttl + SweepLag

(* On a link that stays up a cancelled token revokes the lease promptly: no   *)
(* wait for the ttl.                                                          *)
PromptRevoke ==
  cancelled /\ ~faulty /\ pc # "crashed" /\ lease # 0 /\ lease \in DOMAIN leases
     => now <= Over + 3 * MaxDelay
===============================================================================
