------------------------------ MODULE DataPlane ------------------------------
(***************************************************************************)
(* One remote call, from the registration of its response stream to the    *)
(* end of the stream: the caller (component/client.h), the data-plane      *)
(* server of its process (transports/data_plane.cpp), and the worker's     *)
(* ingress (component/serve.h) with its StreamSender.  A call may be       *)
(* executed twice, when the dispatch is retried (module ControlPlane);     *)
(* each execution calls home on a connection of its own, served by a       *)
(* thread of its own.                                                      *)
(*                                                                         *)
(* Abstractions.  An item is its number; an execution makes at most        *)
(* MaxItems.  An arrival is the number of the execution whose stream it    *)
(* carries, or ErrorArrival.  Time is not modelled: a timeout may always   *)
(* come first.                                                             *)
(***************************************************************************)
EXTENDS Integers, Sequences, FiniteSets, SequencesExt

CONSTANTS MaxItems,    \* bound: the items an execution makes
          RecvBuffer,  \* recv_buffer_count, the capacity of a response channel
          SockBuffer,  \* the frames a connection takes before a write blocks
          MaxExecs,    \* bound: how often the dispatch executes the call
          MaxFaults,   \* bound: crashes, lost connections and stops
          MaxSignals   \* bound: calls of stop_generating or kill

ASSUME DataAssumption ==
  /\ MaxItems \in Nat /\ RecvBuffer \in Nat \ {0} /\ SockBuffer \in Nat \ {0}
  /\ MaxExecs \in Nat /\ MaxFaults \in Nat /\ MaxSignals \in Nat

Execs == 1..MaxExecs

ErrorArrival == 0
NoArrival == -1

VARIABLES req,      \* where the caller is
          got,      \* the arrival the caller has received
          seen,     \* the items the consumer has received
          timer,    \* the arrival timer is armed
          arrival,  \* what is queued in the arrival channel
          stopped, killed,  \* the flags of the caller's Controller
          hooks,    \* its hooks, pairs of a signal and an execution
          sig,      \* where the thread that signals the Controller is
          server,   \* the data-plane server: running, stopping, stopped
          pending,  \* the call's subject is registered
          conn,     \* per execution, where the thread of its connection is
          fired,    \* per execution, the flag add_hook was called with
          hand,     \* per execution, the item being pushed
          buf,      \* per execution, the response channel
          up, down, \* per execution, frames to the caller, frames to the worker
          shut,     \* per execution, the ends of its connection that are shut
          worker,   \* per execution, where EngineIngress::handle is
          wstopped, wkilled,  \* per execution, its Controller's flags
          made,     \* per execution, the items the engine has made
          faulty,   \* history: executions that crashed or lost their connection
          faults, signals  \* how many of each there have been

boundVars == <<faulty, faults, signals>>
callVars == <<req, got, seen, timer>>
signalVars == <<stopped, killed, sig>>
connVars == <<conn, fired, hand, buf>>
linkVars == <<up, down, shut>>
workVars == <<worker, wstopped, wkilled, made>>
notCaller == <<signalVars, hooks, server, connVars, linkVars, workVars, boundVars>>
notConn == <<callVars, signalVars, server, workVars, boundVars>>
notWorker == <<callVars, arrival, signalVars, hooks, server, pending, connVars>>
vars == <<req, got, seen, timer, arrival, stopped, killed, hooks, sig, server, pending,
          conn, fired, hand, buf, up, down, shut, worker, wstopped, wkilled, made, faulty,
          faults, signals>>

OkFrame == [kind |-> "ok"]
ErrorFrame == [kind |-> "error"]
Sentinel == [kind |-> "sentinel"]
Item(n) == [kind |-> "item", n |-> n]

-------------------------------------------------------------------------------
(* The arrival channel.  Its receiver lives in the call until the call has    *)
(* returned or thrown; what is queued by then stays queued.                   *)

ArrivalOpen == req \in {"dispatch", "await"}
Deliver(a) == arrival' = IF ArrivalOpen THEN Append(arrival, a) ELSE arrival

(* Somebody holds the receiver of the response channel of e: the consumer, or *)
(* the arrival that carries it.                                               *)
Held(e) == got = e \/ e \in ToSet(arrival)

(* A control frame to the worker, a frame to the caller: a connection that    *)
(* is shut at either end takes no more.                                       *)
WriteControl(e, c) == down' = IF shut[e] = {} THEN [down EXCEPT ![e] = Append(@, c)] ELSE down
WriteFrame(e, f) == up' = IF shut[e] = {} THEN [up EXCEPT ![e] = Append(@, f)] ELSE up

(* A write to the caller does not block: there is room, or nobody to read it. *)
CanWrite(e) == shut[e] # {} \/ Len(up[e]) < SockBuffer

-------------------------------------------------------------------------------
(* Controller::kill and stop_generating set a flag first; then the hooks are  *)
(* taken and run.                                                             *)

Kill == killed' = TRUE /\ sig' = "stop" /\ UNCHANGED stopped
StopGenerating ==
  /\ stopped' = TRUE /\ UNCHANGED killed
  /\ sig' = IF ~stopped THEN "stop_hooks" ELSE IF killed THEN "kill_hooks" ELSE "idle"

-------------------------------------------------------------------------------
(* The caller *)

Register ==
  /\ req = "start"
  /\ req' = "dispatch" /\ pending' = (server = "running")
  /\ UNCHANGED <<notCaller, got, seen, timer, arrival>>

(* The control plane hands the request to the worker, perhaps twice. *)
Execute(e) ==
  /\ req = "dispatch" /\ worker[e] = "none"
  /\ e > 1 => worker[e - 1] # "none"
  /\ worker' = [worker EXCEPT ![e] = "connect"]
  /\ UNCHANGED <<notWorker, linkVars, wstopped, wkilled, made, boundVars>>

(* dispatch_request returns, or throws; the registration stays either way. *)
Dispatched ==
  /\ req = "dispatch" /\ \E e \in Execs : worker[e] # "none"
  /\ req' = "await" /\ timer' = TRUE
  /\ UNCHANGED <<notCaller, got, seen, arrival, pending>>
DispatchThrows ==
  /\ req = "dispatch" /\ req' = "thrown"
  /\ UNCHANGED <<notCaller, got, seen, timer, arrival, pending>>

(* Mutant: the marker goes to a registration only, and there may be none. *)
Timeout_Pending ==
  /\ timer /\ timer' = FALSE
  /\ IF pending THEN Deliver(ErrorArrival) ELSE UNCHANGED arrival
  /\ UNCHANGED <<notCaller, req, got, seen, pending>>

Timeout ==
  /\ timer /\ timer' = FALSE
  /\ Deliver(ErrorArrival)
  /\ UNCHANGED <<notCaller, req, got, seen, pending>>

(* await_arrival resumes with an arrival, cancels the timer, and returns the   *)
(* stream, or deregisters and throws.  The coroutine resumes some time after   *)
(* it was handed the arrival; what is sent in between might as well have been  *)
(* sent before.                                                                *)
ReceiveThen(registered) ==
  /\ req = "await" /\ arrival # << >>
  /\ timer' = FALSE /\ arrival' = Tail(arrival)
  /\ IF Head(arrival) = ErrorArrival
     THEN req' = "failed" /\ pending' = registered /\ UNCHANGED got
     ELSE req' = "stream" /\ got' = Head(arrival) /\ UNCHANGED pending
  /\ UNCHANGED <<notCaller, seen>>

(* Mutant: a call that fails does not deregister. *)
Receive_Keep == ReceiveThen(pending)

Receive == ReceiveThen(FALSE)

(* The consumer reads the stream to its end, or drops it.  Dropped, a stream  *)
(* it has begun to read kills the request before the receiver goes.           *)
NextItem ==
  /\ req = "stream" /\ buf[got] # << >>
  /\ seen' = Append(seen, Head(buf[got])) /\ buf' = [buf EXCEPT ![got] = Tail(@)]
  /\ UNCHANGED <<req, got, timer, arrival, signalVars, hooks, server, pending, conn, fired, hand,
                 linkVars, workVars, boundVars>>
StreamEnds ==
  /\ req = "stream" /\ buf[got] = << >> /\ conn[got] = "done"
  /\ req' = "ended"
  /\ UNCHANGED <<notCaller, got, seen, timer, arrival, pending>>
Abandon(begun) ==
  /\ req = "stream" /\ sig = "idle" /\ (seen # << >> => begun)
  /\ IF begun THEN req' = "dropping" /\ UNCHANGED got
              ELSE req' = "dropped" /\ got' = NoArrival
  /\ IF begun /\ ~killed THEN Kill ELSE UNCHANGED signalVars
  /\ UNCHANGED <<seen, timer, arrival, hooks, server, pending, connVars, linkVars, workVars,
                 boundVars>>
Dropped ==
  /\ req = "dropping" /\ sig = "idle"
  /\ req' = "dropped" /\ got' = NoArrival
  /\ UNCHANGED <<notCaller, seen, timer, arrival, pending>>

-------------------------------------------------------------------------------
(* The Controller may be signalled while the call is in progress. *)

Signal(kill) ==
  /\ sig = "idle" /\ req \in {"dispatch", "await", "stream"}
  /\ signals < MaxSignals /\ signals' = signals + 1
  /\ IF kill THEN ~killed /\ Kill ELSE ~stopped /\ StopGenerating
  /\ UNCHANGED <<callVars, arrival, hooks, server, pending, connVars, linkVars, workVars, faulty,
                 faults>>

KillStops ==
  /\ sig = "stop" /\ StopGenerating
  /\ UNCHANGED <<callVars, arrival, hooks, server, pending, connVars, linkVars, workVars,
                 boundVars>>

(* run_hooks.  A hook writes a control frame if its connection is still there. *)
RunHooks ==
  LET kind == IF sig = "stop_hooks" THEN "Stop" ELSE "Kill"
      due == {e \in Execs : <<kind, e>> \in hooks /\ conn[e] # "done" /\ shut[e] = {}}
  IN /\ sig \in {"stop_hooks", "kill_hooks"}
     /\ hooks' = {h \in hooks : h[1] # kind}
     /\ down' = [e \in Execs |-> IF e \in due THEN Append(down[e], kind) ELSE down[e]]
     /\ sig' = IF sig = "stop_hooks" /\ killed THEN "kill_hooks" ELSE "idle"
     /\ UNCHANGED <<callVars, arrival, stopped, killed, server, pending, connVars, up, shut,
                    workVars, boundVars>>

-------------------------------------------------------------------------------
(* serve_data_connection *)

Eof(e) == shut[e] # {} /\ (up[e] = << >> \/ "caller" \in shut[e])

Goto(e, pc) == conn' = [conn EXCEPT ![e] = pc]
Return(e) == /\ Goto(e, "done")
             /\ shut' = [shut EXCEPT ![e] = @ \cup {"caller"}]
             /\ up' = [up EXCEPT ![e] = << >>]
NextFrame(e) == up' = [up EXCEPT ![e] = Tail(@)] /\ UNCHANGED shut

(* The handshake: the registration is taken out of the map, or there is none. *)
LookupThen(e, registered) ==
  /\ conn[e] = "lookup"
  /\ IF pending THEN Goto(e, "prologue") /\ UNCHANGED <<shut, up>> ELSE Return(e)
  /\ pending' = registered
  /\ UNCHANGED <<notConn, arrival, hooks, fired, hand, buf, down>>

(* Mutants: the registration is left in the map; a connection that has none   *)
(* is left open.                                                              *)
Lookup_Keep(e) == LookupThen(e, pending)
Lookup_Open(e) ==
  /\ conn[e] = "lookup" /\ pending' = FALSE
  /\ Goto(e, IF pending THEN "prologue" ELSE "done")
  /\ UNCHANGED <<notConn, arrival, hooks, fired, hand, buf, linkVars>>

Lookup(e) == LookupThen(e, FALSE)

ReadPrologue(e) ==
  /\ conn[e] = "prologue" /\ up[e] # << >>
  /\ \/ Head(up[e]) = OkFrame /\ Goto(e, "on_stop") /\ NextFrame(e) /\ UNCHANGED arrival
     \/ Head(up[e]) = ErrorFrame /\ Deliver(ErrorArrival) /\ Return(e)
  /\ UNCHANGED <<notConn, hooks, pending, fired, hand, buf, down>>

(* on_stop, then on_kill: the flag is read first; the hook is then added, or  *)
(* run if the flag was set.                                                   *)
CheckHook(e) ==
  /\ conn[e] \in {"on_stop", "on_kill"}
  /\ fired' = [fired EXCEPT ![e] = IF conn[e] = "on_stop" THEN stopped ELSE killed]
  /\ Goto(e, IF conn[e] = "on_stop" THEN "add_stop" ELSE "add_kill")
  /\ UNCHANGED <<notConn, arrival, hooks, pending, hand, buf, linkVars>>
AddHook(e) ==
  LET kind == IF conn[e] = "add_stop" THEN "Stop" ELSE "Kill"
  IN /\ conn[e] \in {"add_stop", "add_kill"}
     /\ IF fired[e] THEN WriteControl(e, kind) /\ UNCHANGED hooks
                    ELSE hooks' = hooks \cup {<<kind, e>>} /\ UNCHANGED down
     /\ Goto(e, IF conn[e] = "add_stop" THEN "on_kill" ELSE "fulfill")
     /\ fired' = [fired EXCEPT ![e] = FALSE]
     /\ UNCHANGED <<notConn, arrival, pending, hand, buf, up, shut>>

Fulfill(e) ==
  /\ conn[e] = "fulfill" /\ Goto(e, "read")
  /\ Deliver(e)
  /\ UNCHANGED <<notConn, hooks, pending, fired, hand, buf, linkVars>>

ReadData(e) ==
  /\ conn[e] = "read" /\ up[e] # << >>
  /\ \/ Head(up[e]) = Sentinel /\ Return(e) /\ UNCHANGED hand
     \/ /\ Head(up[e]).kind = "item" /\ Goto(e, "push") /\ NextFrame(e)
        /\ hand' = [hand EXCEPT ![e] = Head(up[e]).n]
  /\ UNCHANGED <<notConn, arrival, hooks, pending, fired, buf, down>>

(* The peer or stop() has closed the connection. *)
ReadEof(e) ==
  /\ conn[e] \in {"lookup", "prologue", "read"} /\ Eof(e)
  /\ Return(e)
  /\ UNCHANGED <<notConn, arrival, hooks, pending, fired, hand, buf, down>>

(* Sender::send blocks while the channel is full and somebody may still read  *)
(* it, and fails when nobody does: then the worker is killed.                 *)
PushIf(e, room, unheard) ==
  /\ conn[e] = "push"
  /\ \/ room /\ ~unheard
        /\ buf' = [buf EXCEPT ![e] = Append(@, hand[e])] /\ Goto(e, "read")
        /\ UNCHANGED linkVars
     \/ unheard /\ WriteControl(e, "Kill") /\ Return(e) /\ UNCHANGED buf
  /\ hand' = [hand EXCEPT ![e] = 0]
  /\ UNCHANGED <<notConn, arrival, hooks, pending, fired>>

(* Mutants: the channel has no bound; a stream that nobody reads any more     *)
(* does not unblock the thread.                                               *)
Push_Unbounded(e) == PushIf(e, TRUE, ~Held(e))
Push_Deaf(e) == PushIf(e, Len(buf[e]) < RecvBuffer, FALSE)

Push(e) == PushIf(e, Len(buf[e]) < RecvBuffer, ~Held(e))

-------------------------------------------------------------------------------
(* DataPlaneServer::stop, and its wait for the connection threads. *)

Fault(hit) == /\ faults < MaxFaults /\ faults' = faults + 1
              /\ faulty' = faulty \cup hit /\ UNCHANGED signals

Busy(e) == conn[e] \notin {"none", "done"}

Stop ==
  /\ server = "running" /\ server' = "stopping"
  /\ IF pending THEN Deliver(ErrorArrival) ELSE UNCHANGED arrival
  /\ pending' = FALSE
  /\ shut' = [e \in Execs |-> IF Busy(e) THEN shut[e] \cup {"caller"} ELSE shut[e]]
  /\ Fault({e \in Execs : Busy(e)})
  /\ UNCHANGED <<callVars, signalVars, hooks, connVars, up, down, workVars>>

Stopped ==
  /\ server = "stopping" /\ \A e \in Execs : ~Busy(e)
  /\ server' = "stopped"
  /\ UNCHANGED <<callVars, arrival, signalVars, hooks, pending, connVars, linkVars, workVars,
                 boundVars>>

-------------------------------------------------------------------------------
(* EngineIngress::handle and StreamSender, one execution of the request. *)

At(e, pc) == worker' = [worker EXCEPT ![e] = pc]

(* Its reader thread and its Controller are gone. *)
Gone(e) == /\ down' = [down EXCEPT ![e] = << >>]
           /\ wstopped' = [wstopped EXCEPT ![e] = FALSE]
           /\ wkilled' = [wkilled EXCEPT ![e] = FALSE]

(* StreamSender::connect: three attempts; accepted while the server runs. *)
Connect(e) ==
  /\ worker[e] = "connect"
  /\ \/ server = "running" /\ At(e, "generate") /\ Goto(e, "lookup")
     \/ At(e, "done") /\ UNCHANGED conn
  /\ UNCHANGED <<callVars, arrival, signalVars, hooks, server, pending, fired, hand, buf,
                 linkVars, wstopped, wkilled, made, boundVars>>

(* The prologue: an error if the request is refused or the engine throws;     *)
(* else the one that lets the call return.                                    *)
Generate(e) ==
  /\ worker[e] = "generate"
  /\ \/ At(e, "stream") /\ WriteFrame(e, OkFrame)
     \/ At(e, "finish") /\ WriteFrame(e, ErrorFrame)
  /\ UNCHANGED <<notWorker, down, shut, wstopped, wkilled, made, boundVars>>

(* The engine's stream has a next item; or it ends, by itself or because it   *)
(* was told to stop.                                                          *)
EngineYields(e) ==
  /\ worker[e] = "stream" /\ made[e] < MaxItems
  /\ At(e, "send") /\ made' = [made EXCEPT ![e] = @ + 1]
  /\ UNCHANGED <<notWorker, linkVars, wstopped, wkilled, boundVars>>
EngineEnds(e) ==
  /\ worker[e] = "stream" /\ At(e, "finish")
  /\ UNCHANGED <<notWorker, linkVars, wstopped, wkilled, made, boundVars>>

(* The item is dropped if the request was killed; else it is written, which   *)
(* blocks while the connection is full and, once it is shut, fails or goes    *)
(* nowhere.  A request for a single item ends here.                           *)
SendItem(e, drop) ==
  /\ worker[e] = "send"
  /\ \/ drop /\ At(e, "finish") /\ UNCHANGED <<up, wstopped>>
     \/ /\ ~drop /\ CanWrite(e)
        /\ WriteFrame(e, Item(made[e]))
        /\ \E more \in BOOLEAN :
             /\ At(e, IF more THEN "stream" ELSE "finish")
             /\ wstopped' = [wstopped EXCEPT ![e] = @ \/ ~more]
  /\ UNCHANGED <<notWorker, down, shut, wkilled, made, boundVars>>

(* Mutant: a stop, too, throws away the item at hand. *)
Produce_Stop(e) == SendItem(e, wkilled[e] \/ wstopped[e])

Produce(e) == SendItem(e, wkilled[e])

(* finish: the sentinel; then the wait for the caller's FIN, ten seconds at   *)
(* most, and the connection is closed.                                        *)
Finish(e) ==
  /\ worker[e] = "finish" /\ At(e, "fin") /\ CanWrite(e)
  /\ WriteFrame(e, Sentinel)
  /\ UNCHANGED <<notWorker, down, shut, wstopped, wkilled, made, boundVars>>
Close(e) ==
  /\ worker[e] = "fin" /\ At(e, "done")
  /\ shut' = [shut EXCEPT ![e] = @ \cup {"worker"}]
  /\ Gone(e)
  /\ UNCHANGED <<notWorker, up, made, boundVars>>

(* The reader thread relays a control frame to the worker's Controller. *)
ReadControl(e) ==
  /\ worker[e] \in {"generate", "stream", "send", "finish", "fin"} /\ down[e] # << >>
  /\ wstopped' = [wstopped EXCEPT ![e] = TRUE]
  /\ wkilled' = [wkilled EXCEPT ![e] = @ \/ Head(down[e]) = "Kill"]
  /\ down' = [down EXCEPT ![e] = Tail(@)]
  /\ UNCHANGED <<notWorker, up, shut, worker, made, boundVars>>

(* The worker dies, or its connection breaks: what is under way may be lost. *)
Crash(e) ==
  /\ worker[e] \notin {"none", "done"} /\ At(e, "done")
  /\ shut' = [shut EXCEPT ![e] = IF Busy(e) THEN @ \cup {"worker"} ELSE @]
  /\ \E kept \in {up[e], << >>} : up' = [up EXCEPT ![e] = kept]
  /\ Gone(e)
  /\ Fault({e})
  /\ UNCHANGED <<notWorker, made>>
LinkLost(e) ==
  /\ Busy(e) /\ shut[e] = {}
  /\ shut' = [shut EXCEPT ![e] = {"caller", "worker"}]
  /\ up' = [up EXCEPT ![e] = << >>] /\ down' = [down EXCEPT ![e] = << >>]
  /\ Fault({e})
  /\ UNCHANGED <<notWorker, workVars>>

-------------------------------------------------------------------------------
Init ==
  /\ req = "start" /\ got = NoArrival /\ seen = << >> /\ timer = FALSE
  /\ arrival = << >> /\ stopped = FALSE /\ killed = FALSE /\ hooks = {} /\ sig = "idle"
  /\ server = "running" /\ pending = FALSE
  /\ conn = [e \in Execs |-> "none"] /\ fired = [e \in Execs |-> FALSE]
  /\ hand = [e \in Execs |-> 0] /\ buf = [e \in Execs |-> << >>]
  /\ up = [e \in Execs |-> << >>] /\ down = [e \in Execs |-> << >>]
  /\ shut = [e \in Execs |-> {}]
  /\ worker = [e \in Execs |-> "none"] /\ wstopped = [e \in Execs |-> FALSE]
  /\ wkilled = [e \in Execs |-> FALSE] /\ made = [e \in Execs |-> 0]
  /\ faulty = {} /\ faults = 0 /\ signals = 0

Call == Dispatched \/ DispatchThrows \/ Receive \/ Dropped
Consumer == NextItem \/ StreamEnds
Signaller == KillStops \/ RunHooks
ConnThread(e) == \/ Lookup(e) \/ ReadPrologue(e) \/ CheckHook(e) \/ AddHook(e) \/ Fulfill(e)
                 \/ ReadData(e) \/ ReadEof(e) \/ Push(e)
Handler(e) == \/ Connect(e) \/ Generate(e) \/ EngineYields(e) \/ EngineEnds(e) \/ Produce(e)
              \/ Finish(e) \/ Close(e)

Next ==
  \/ Register \/ Call \/ Timeout \/ Consumer \/ \E b \in BOOLEAN : Abandon(b) \/ Signal(b)
  \/ Signaller \/ Stop \/ Stopped
  \/ \E e \in Execs : Execute(e) \/ ConnThread(e) \/ Handler(e) \/ ReadControl(e)
                      \/ Crash(e) \/ LinkLost(e)

Spec == Init /\ [][Next]_vars

(* Every thread runs; the timer fires; a consumer that has a stream reads it  *)
(* to its end or drops it; an engine makes its next item or ends.             *)
Fairness ==
  /\ WF_vars(Call) /\ WF_vars(Timeout) /\ WF_vars(Consumer) /\ WF_vars(Signaller)
  /\ WF_vars(Stopped)
  /\ \A e \in Execs : WF_vars(ConnThread(e)) /\ WF_vars(Handler(e)) /\ WF_vars(ReadControl(e))

FairSpec == Spec /\ Fairness

-------------------------------------------------------------------------------
(* Properties *)

(* Where the caller, the threads and the channels can be (data_plane.cpp:33-53). *)
TypeOK ==
  /\ req \in {"start", "dispatch", "await", "stream", "dropping", "dropped", "ended",
              "failed", "thrown"}
  /\ got \in {NoArrival} \cup Execs
  /\ sig \in {"idle", "stop", "stop_hooks", "kill_hooks"}
  /\ hooks \subseteq {"Stop", "Kill"} \X Execs
  /\ \A e \in Execs :
       /\ conn[e] \in {"none", "lookup", "prologue", "on_stop", "add_stop", "on_kill",
                       "add_kill", "fulfill", "read", "push", "done"}
       /\ Len(buf[e]) <= RecvBuffer
       /\ shut[e] \subseteq {"caller", "worker"}
       /\ made[e] \in 0..MaxItems

(* data_plane.cpp:194 "the worker's arrival and a synthetic timeout marker    *)
(* can both land without blocking": whatever the executions, stop() and the   *)
(* timer send, no more than two arrivals come, so a channel of two never      *)
(* blocks a connection thread, the timer thread, or stop() under its mutex.   *)
ArrivalFits == Len(arrival) <= 2

(* A stream that ends for the consumer has delivered, in order, everything    *)
(* the engine made, unless the worker or its connection failed, the server    *)
(* was stopped or the request was killed.  A stop loses nothing.              *)
CleanEndComplete ==
  req = "ended" /\ got \notin faulty /\ ~killed => seen = [i \in 1..made[got] |-> i]

(* data_plane.h:61 "a later call-home for the subject is then rejected": no   *)
(* execution gets hold of the registration of a call that has timed out,      *)
(* failed, or already has its stream.                                         *)
LateCallHomeRejected ==
  [][\A e \in Execs : conn[e] = "lookup" /\ conn'[e] = "prologue"
                         => req \in {"dispatch", "await", "thrown"}]_vars

(* The stream of e waits in the arrival channel of a call that has failed:    *)
(* the timeout marker came first and nobody will take the second arrival.     *)
Stranded(e) == e \in ToSet(arrival) /\ ~ArrivalOpen

(* client.h:208 "a worker that acked but died before connecting must not      *)
(* park us forever": the call returns a stream or throws.                     *)
CallReturns == req = "await" ~> req \in {"stream", "failed"}

(* Every execution ends: the engine's items are read, or the write fails, or  *)
(* it is killed; also after the stream is dropped, the call has timed out, or *)
(* a second execution found no registration.                                  *)
WorkersEnd == \A e \in Execs : worker[e] # "none" ~> (worker[e] = "done" \/ Stranded(e))

(* stop() returns: every connection thread ends once its socket is shut.      *)
StopReturns == server = "stopping" ~> (server = "stopped" \/ \E e \in Execs : Stranded(e))

(* engine.h:77 "fires immediately if already signalled": once the signalling  *)
(* thread is through, no hook is left that has not been run.                  *)
HookFires == sig = "idle" => \A e \in Execs : /\ stopped => <<"Stop", e>> \notin hooks
                                              /\ killed => <<"Kill", e>> \notin hooks
===============================================================================
