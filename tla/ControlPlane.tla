----------------------------- MODULE ControlPlane -----------------------------
(***************************************************************************)
(* Requests to one instance: its control-plane server with a thread per    *)
(* connection, the client's pool of idle connections and roundtrip with    *)
(* its one retry (transports/control_plane.cpp), and the serving loop that *)
(* registers the handlers and lists the instance (component/serve.h).      *)
(*                                                                         *)
(* Abstractions.  A request is its number.  An answer carries the number   *)
(* of the request it answers, which a DispatchAck does not: the client     *)
(* trusts that the next frame of its connection is its answer.  A socket   *)
(* name is used again when both its ends are closed.  Time is not          *)
(* modelled: a read may always time out.                                   *)
(***************************************************************************)
EXTENDS Integers, Sequences, FiniteSets, SequencesExt

CONSTANTS Callers,   \* the threads that dispatch
          Socks,     \* names of connections
          MaxIdle,   \* kMaxIdlePerTarget
          MaxCalls   \* bound: requests

ASSUME ControlAssumption == MaxIdle \in Nat /\ MaxCalls \in Nat

Calls == 1..MaxCalls
Kinds == {"push", "query"}
None == 0

VARIABLES pc,       \* per caller, where roundtrip is
          cur,      \* per caller, its request
          sock,     \* per caller, the connection it holds
          pooled,   \* per caller, the connection came from the pool
          kind,     \* per request, what it is; "new" if it was not made yet
          idle,     \* the pool's idle connections to this instance, the last is used first
          up, down, \* per socket, requests to the server, answers to the client
          shut,     \* per socket, the ends that are closed
          thread,   \* per socket, what its server thread does
          server,   \* running, stopping or down
          handlers, \* what is registered for the instance's subjects
          serve,    \* where serve_impl is; "dead" with its process
          create,   \* how its kv_create, or that of a second serve, ended; "again"
                    \* while the second serve removes the handlers
          key,      \* the instance key in discovery: none, listed, or gone with its lease
          token,    \* the lease's token is not cancelled
          runs,     \* history: per request, how often its handler was run
          reused,   \* history: requests first sent on a pooled connection
          acked,    \* history: requests accepted by an answer
          lost      \* history: requests that were being accepted when the process died

callerVars == <<pc, cur, sock, pooled, kind, idle, reused, acked>>
linkVars == <<up, down, shut>>
serveVars == <<handlers, serve, create, key, token>>
vars == <<callerVars, linkVars, thread, server, serveVars, runs, lost>>

NoThread == [at |-> "none", req |-> None]
Reading == [at |-> "read", req |-> None]

-------------------------------------------------------------------------------
(* Sockets *)

Free == {s \in Socks : shut[s] = {"client", "server"} /\ thread[s] = NoThread}
CloseAll(ss) ==
  /\ shut' = [s \in Socks |-> IF s \in ss THEN shut[s] \cup {"client"} ELSE shut[s]]
  /\ down' = [s \in Socks |-> IF s \in ss THEN << >> ELSE down[s]]

(* ConnectionPool::acquire takes the last one; release adds it if there is room. *)
Acquired == Last(idle)
Released_NoLimit(s) == Append(idle, s)  \* mutant: the pool has no limit
Released(s) == IF Len(idle) < MaxIdle THEN Append(idle, s) ELSE idle

-------------------------------------------------------------------------------
(* roundtrip, dispatch_request and dispatch_query *)

Step(c, next) == pc' = [pc EXCEPT ![c] = next]
Holds(c, s, fromPool) == /\ sock' = [sock EXCEPT ![c] = {s}]
                         /\ pooled' = [pooled EXCEPT ![c] = fromPool]

Begin(c, k) ==
  \E n \in Calls :
    /\ pc[c] = "idle" /\ kind[n] = "new" /\ \A m \in 1..(n - 1) : kind[m] # "new"
    /\ kind' = [kind EXCEPT ![n] = k] /\ cur' = [cur EXCEPT ![c] = n]
    /\ Step(c, "acquire")
    /\ UNCHANGED <<sock, pooled, idle, reused, acked, linkVars, thread, server, serveVars, runs,
                   lost>>

(* The caller is done with its socket, which closes it, and tries again with  *)
(* a fresh one or throws.                                                     *)
Failed(c, retry) ==
  /\ CloseAll(sock[c])
  /\ sock' = [sock EXCEPT ![c] = {}] /\ pooled' = [pooled EXCEPT ![c] = FALSE]
  /\ IF retry THEN Step(c, "connect") /\ UNCHANGED cur
              ELSE Step(c, "idle") /\ cur' = [cur EXCEPT ![c] = None]

(* Mutant: a connection is lent out and stays in the pool. *)
Acquire_Lend(c) ==
  /\ pc[c] = "acquire"
  /\ IF idle = << >> THEN Step(c, "connect") /\ UNCHANGED <<sock, pooled, reused>>
     ELSE Holds(c, Acquired, TRUE) /\ Step(c, "write") /\ reused' = reused \cup {cur[c]}
  /\ UNCHANGED <<cur, kind, idle, acked, linkVars, thread, server, serveVars, runs, lost>>

Acquire(c) ==
  /\ pc[c] = "acquire"
  /\ IF idle = << >> THEN Step(c, "connect") /\ UNCHANGED <<sock, pooled, idle, reused>>
     ELSE /\ Holds(c, Acquired, TRUE) /\ Step(c, "write")
          /\ idle' = Front(idle) /\ reused' = reused \cup {cur[c]}
  /\ UNCHANGED <<cur, kind, acked, linkVars, thread, server, serveVars, runs, lost>>

(* Socket::connect; the accept thread starts a thread for the connection, or  *)
(* drops it when the server stops.                                            *)
Connect(c) ==
  /\ pc[c] = "connect"
  /\ \/ LET s == CHOOSE x \in Free : TRUE IN
          /\ server # "down" /\ Free # {} /\ Holds(c, s, FALSE) /\ Step(c, "write")
          /\ shut' = [shut EXCEPT ![s] = IF server = "running" THEN {} ELSE {"server"}]
          /\ thread' = IF server = "running" THEN [thread EXCEPT ![s] = Reading] ELSE thread
          /\ UNCHANGED <<cur, down>>
     \/ server = "down" /\ Failed(c, FALSE) /\ UNCHANGED thread
  /\ UNCHANGED <<up, kind, idle, reused, acked, server, serveVars, runs, lost>>

(* A write to a connection the server has shut fails, or is not noticed. *)
WriteRequest(c) ==
  /\ pc[c] = "write"
  /\ \E s \in sock[c] :
       \/ /\ Step(c, "read") /\ UNCHANGED <<cur, sock, pooled, down, shut>>
          /\ up' = IF shut[s] = {} THEN [up EXCEPT ![s] = Append(@, cur[c])] ELSE up
       \/ shut[s] # {} /\ Failed(c, pooled[c]) /\ UNCHANGED up
  /\ UNCHANGED <<kind, idle, reused, acked, thread, server, serveVars, runs, lost>>

ReadAnswer(c) ==
  /\ pc[c] = "read"
  /\ \E s \in sock[c] :
       /\ down[s] # << >>
       /\ IF Head(down[s]).ok
          THEN /\ Step(c, "release") /\ acked' = acked \cup {cur[c]}
               /\ down' = [down EXCEPT ![s] = Tail(@)]
               /\ UNCHANGED <<cur, sock, pooled, shut>>
          ELSE Failed(c, FALSE) /\ UNCHANGED acked
  /\ UNCHANGED <<kind, idle, reused, up, thread, server, serveVars, runs, lost>>

(* The read times out, or finds the connection closed. *)
NoAnswerThen(c, retry) ==
  /\ pc[c] = "read" /\ Failed(c, retry)
  /\ UNCHANGED <<kind, idle, reused, acked, up, thread, server, serveVars, runs, lost>>

(* Mutants: whatever the connection, the request is sent again; the connection *)
(* goes back to the pool.                                                      *)
NoAnswer_Always(c) == NoAnswerThen(c, TRUE)
NoAnswer_Pool(c) ==
  /\ pc[c] = "read" /\ Step(c, "idle")
  /\ \E s \in sock[c] : idle' = Released(s)
  /\ cur' = [cur EXCEPT ![c] = None]
  /\ sock' = [sock EXCEPT ![c] = {}] /\ pooled' = [pooled EXCEPT ![c] = FALSE]
  /\ UNCHANGED <<kind, reused, acked, linkVars, thread, server, serveVars, runs, lost>>

NoAnswer(c) == NoAnswerThen(c, pooled[c])

Release(c) ==
  /\ pc[c] = "release" /\ Step(c, "idle")
  /\ \E s \in sock[c] :
       /\ idle' = Released(s)
       /\ CloseAll({s} \ ToSet(idle'))
  /\ sock' = [sock EXCEPT ![c] = {}] /\ pooled' = [pooled EXCEPT ![c] = FALSE]
  /\ cur' = [cur EXCEPT ![c] = None]
  /\ UNCHANGED <<kind, reused, acked, up, thread, server, serveVars, runs, lost>>

-------------------------------------------------------------------------------
(* serve_control_connection *)

Thread(s, at, n) == thread' = [thread EXCEPT ![s] = [at |-> at, req |-> n]]
notThread == <<callerVars, server, serveVars, lost>>

Lookup(s) ==
  /\ thread[s].at = "read" /\ up[s] # << >>
  /\ up' = [up EXCEPT ![s] = Tail(@)]
  /\ Thread(s, IF kind[Head(up[s])] \in handlers THEN "accept" ELSE "reject", Head(up[s]))
  /\ UNCHANGED <<notThread, down, shut, runs>>

(* send_ack: a query is run first and its result sent; a push is acknowledged *)
(* first and then run, on the runtime, by the handler that was found.         *)
AnswerWith(s, ok) ==
  LET n == thread[s].req
      query == thread[s].at = "accept" /\ kind[n] = "query"
  IN /\ thread[s].at \in {"accept", "reject"}
     /\ down' = IF shut[s] = {}
                THEN [down EXCEPT ![s] = Append(@, [req |-> n, ok |-> ok])]
                ELSE down
     /\ runs' = IF query THEN [runs EXCEPT ![n] = @ + 1] ELSE runs
     /\ IF thread[s].at = "accept" /\ ~query THEN Thread(s, "spawn", n) ELSE Thread(s, "read", None)
     /\ UNCHANGED <<notThread, up, shut>>

Answer_Ok(s) == AnswerWith(s, TRUE)  \* mutant: an unknown subject is not reported

Answer(s) == AnswerWith(s, thread[s].at = "accept")

Spawn(s) ==
  /\ thread[s].at = "spawn"
  /\ runs' = [runs EXCEPT ![thread[s].req] = @ + 1]
  /\ Thread(s, "read", None)
  /\ UNCHANGED <<notThread, linkVars>>

(* The thread leaves its loop and shuts the connection. *)
Leave(s) ==
  /\ thread' = [thread EXCEPT ![s] = NoThread]
  /\ shut' = [shut EXCEPT ![s] = @ \cup {"server"}]
  /\ up' = [up EXCEPT ![s] = << >>]
  /\ UNCHANGED <<notThread, down>>

(* A query handler that throws ends the connection; there is no answer. *)
QueryThrows(s) ==
  /\ thread[s].at = "accept" /\ kind[thread[s].req] = "query"
  /\ runs' = [runs EXCEPT ![thread[s].req] = @ + 1]
  /\ Leave(s)

(* The client has closed the connection, or stop() has shut it. *)
ReadEof(s) ==
  /\ thread[s].at = "read" /\ shut[s] # {} /\ ("server" \in shut[s] \/ up[s] = << >>)
  /\ Leave(s) /\ UNCHANGED runs

-------------------------------------------------------------------------------
(* The server's process *)

(* What dies with the process; a request that was written may outlive it. *)
ProcessGone == /\ serve' = "dead" /\ handlers' = {} /\ token' = FALSE
               /\ create' = IF create = "threw" THEN "threw" ELSE "none"
               /\ UNCHANGED key

Stop ==
  /\ server = "running" /\ server' = "stopping"
  /\ shut' = [s \in Socks |-> IF thread[s] = NoThread THEN shut[s] ELSE shut[s] \cup {"server"}]
  /\ UNCHANGED <<callerVars, up, down, thread, serveVars, runs, lost>>
Stopped ==
  /\ server = "stopping" /\ \A s \in Socks : thread[s] = NoThread
  /\ server' = "down" /\ ProcessGone
  /\ UNCHANGED <<callerVars, linkVars, thread, runs, lost>>

(* The process dies; a new one may listen at the same address.  It serves     *)
(* other subjects: an instance's subject holds the id of its lease.           *)
Crash ==
  /\ server # "down" /\ server' = "down"
  /\ ProcessGone
  /\ shut' = [s \in Socks |-> shut[s] \cup {"server"}]
  /\ up' = [s \in Socks |-> << >>] /\ thread' = [s \in Socks |-> NoThread]
  /\ lost' = lost \cup ({thread[s].req : s \in Socks} \ {None})
  /\ UNCHANGED <<callerVars, down, runs>>
Restart ==
  /\ server = "down" /\ server' = "running"
  /\ UNCHANGED <<callerVars, linkVars, thread, serveVars, runs, lost>>

(* A connection breaks; what is under way is lost. *)
LinkLost(s) ==
  /\ shut[s] = {}
  /\ shut' = [shut EXCEPT ![s] = {"server"}]
  /\ up' = [up EXCEPT ![s] = << >>] /\ down' = [down EXCEPT ![s] = << >>]
  /\ UNCHANGED <<callerVars, thread, server, serveVars, runs, lost>>

-------------------------------------------------------------------------------
(* serve_impl: the handlers are registered before the instance is listed, and *)
(* removed when the lease's token is cancelled or kv_create throws.           *)

Serve(from, to) == serve = from /\ serve' = to
notServe == <<callerVars, linkVars, thread, server, runs, lost>>

RegisterHandler == /\ Serve("start", "register_query") /\ handlers' = handlers \cup {"push"}
                   /\ UNCHANGED <<notServe, create, key, token>>
RegisterQuery == /\ Serve("register_query", "create") /\ handlers' = handlers \cup {"query"}
                 /\ UNCHANGED <<notServe, create, key, token>>

(* The daemon stores the key if there is none and its lease is alive. *)
StoreKey == key = "none" /\ key' = "listed"

(* kv_create throws when the daemon refuses the key and when its connection   *)
(* breaks before the reply: the daemon may have stored the key or store it    *)
(* when it gets to the request.                                               *)
CreateKey ==
  /\ \/ Serve("create", "serving") /\ create' = "ok" /\ StoreKey
     \/ Serve("create", "unregister") /\ create' = "threw" /\ UNCHANGED key
  /\ UNCHANGED <<notServe, handlers, token>>
StoreAnyway == create = "threw" /\ StoreKey /\ UNCHANGED <<notServe, handlers, serve, create, token>>

(* While the endpoint is served, a second serve of it with the same lease     *)
(* registers its handlers in the place of the first one's, is refused the key *)
(* and unregisters them.                                                      *)
ServeAgain ==
  /\ \/ /\ serve = "serving" /\ create = "ok"
        /\ create' = "again" /\ handlers' = handlers \ {"push"}
     \/ /\ serve # "dead" /\ create = "again"
        /\ create' = "threw" /\ handlers' = handlers \ {"query"}
  /\ UNCHANGED <<notServe, serve, key, token>>

(* Mutant: serve_impl does not wait for the token. *)
UnregisterHandler_Early ==
  /\ Serve("serving", "unregister_query") /\ handlers' = handlers \ {"push"}
  /\ UNCHANGED <<notServe, create, key, token>>

UnregisterHandler ==
  /\ \/ Serve("serving", "unregister_query") /\ ~token
     \/ Serve("unregister", "unregister_query")
  /\ handlers' = handlers \ {"push"}
  /\ UNCHANGED <<notServe, create, key, token>>
UnregisterQuery == /\ Serve("unregister_query", "gone") /\ handlers' = handlers \ {"query"}
                   /\ UNCHANGED <<notServe, create, key, token>>

(* The lease ends, for its holder and in discovery, one before the other. *)
CancelToken == token /\ token' = FALSE /\ UNCHANGED <<notServe, handlers, serve, create, key>>
KeyGone == key # "gone" /\ key' = "gone" /\ UNCHANGED <<notServe, handlers, serve, create, token>>

-------------------------------------------------------------------------------
Init ==
  /\ pc = [c \in Callers |-> "idle"] /\ cur = [c \in Callers |-> None]
  /\ sock = [c \in Callers |-> {}] /\ pooled = [c \in Callers |-> FALSE]
  /\ kind = [n \in Calls |-> "new"] /\ idle = << >>
  /\ up = [s \in Socks |-> << >>] /\ down = [s \in Socks |-> << >>]
  /\ shut = [s \in Socks |-> {"client", "server"}] /\ thread = [s \in Socks |-> NoThread]
  /\ server = "running" /\ handlers = {} /\ key = "none" /\ token = TRUE
  /\ serve = "start" /\ create = "none"
  /\ runs = [n \in Calls |-> 0] /\ reused = {} /\ acked = {} /\ lost = {}

Roundtrip(c) == \/ Acquire(c) \/ Connect(c) \/ WriteRequest(c) \/ ReadAnswer(c) \/ NoAnswer(c)
                \/ Release(c)
ConnThread(s) == Lookup(s) \/ Answer(s) \/ QueryThrows(s) \/ Spawn(s) \/ ReadEof(s)
Serving == \/ RegisterHandler \/ RegisterQuery \/ CreateKey \/ StoreAnyway
           \/ UnregisterHandler \/ UnregisterQuery

Next ==
  \/ \E c \in Callers : Roundtrip(c) \/ \E k \in Kinds : Begin(c, k)
  \/ \E s \in Socks : ConnThread(s) \/ LinkLost(s)
  \/ Stop \/ Stopped \/ Crash \/ Restart
  \/ Serving \/ ServeAgain \/ CancelToken \/ KeyGone

Spec == Init /\ [][Next]_vars

-------------------------------------------------------------------------------
(* Properties *)

(* The states of callers, threads and pool; the pool keeps its limit          *)
(* (control_plane.cpp:199).                                                   *)
TypeOK ==
  /\ \A c \in Callers : /\ pc[c] \in {"idle", "acquire", "connect", "write", "read", "release"}
                        /\ cur[c] \in Calls \cup {None} /\ (cur[c] = None <=> pc[c] = "idle")
                        /\ sock[c] \subseteq Socks /\ Cardinality(sock[c]) <= 1
  /\ \A s \in Socks : /\ thread[s].at \in {"none", "read", "accept", "reject", "spawn"}
                      /\ thread[s].req \in Calls \cup {None}
                      /\ shut[s] \subseteq {"client", "server"}
  /\ idle \in Seq(Socks) /\ Len(idle) <= MaxIdle
  /\ handlers \subseteq Kinds /\ server \in {"running", "stopping", "down"}
  /\ acked \subseteq Calls /\ reused \subseteq Calls /\ lost \subseteq Calls

(* control_plane.cpp:181 "Sockets are used by one request at a time": no two  *)
(* callers hold one connection, and none that is held is in the pool.         *)
OneHolder ==
  /\ \A c, d \in Callers : c # d => sock[c] \cap sock[d] = {}
  /\ \A c \in Callers : sock[c] \cap ToSet(idle) = {}
  /\ \A i, j \in DOMAIN idle : idle[i] = idle[j] => i = j

(* The next answer on a connection is for the request its caller has written, *)
(* although no answer names its request: a connection whose answer was not    *)
(* read is never used again.                                                  *)
AnswersMatch ==
  \A c \in Callers : pc[c] \in {"write", "read"} =>
    \A s \in sock[c] : \A i \in DOMAIN down[s] : pc[c] = "read" /\ down[s][i].req = cur[c]

(* control_plane.cpp:183 "retry-once-with-fresh-connection": a request runs   *)
(* once; twice at most if it went out on a pooled connection first.           *)
RunsBounded == \A n \in Calls : runs[n] <= IF n \in reused THEN 2 ELSE 1

(* A dispatch that returned has been handed to its handler, or the thread     *)
(* that accepted it is about to do so; only the death of the process loses it.*)
AcceptedRuns ==
  \A n \in acked : \/ runs[n] > 0 \/ n \in lost
                   \/ \E s \in Socks : thread[s] = [at |-> "spawn", req |-> n]

(* An instance that is listed and whose lease its holder still believes in    *)
(* has its handlers registered for as long as its process lives: its callers  *)
(* are not rejected (serve.h:169-230).  Not so when kv_create threw with the  *)
(* key stored, or refused a second serve: create is not "ok" then.            *)
ListedIsServed ==
  key = "listed" /\ token /\ create = "ok" /\ serve # "dead" => handlers = Kinds
===============================================================================
