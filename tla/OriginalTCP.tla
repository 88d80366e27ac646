----------------------------- MODULE OriginalTCP -----------------------------
(***************************************************************************)
(* The default transport of the tunnel: the server, the clients and the    *)
(* TCP connections between them (src/internal/tunnel/original_protocol.go).*)
(*                                                                         *)
(* A client dials the server, authenticates with a Hello and keeps that    *)
(* connection as the control channel.  For every public connection (a      *)
(* request) the server writes a Channel signal on it; the client answers   *)
(* each one by dialling a worker connection, which the server queues and   *)
(* hands to a request.  Nothing on the wire tells a worker from a control  *)
(* connection: the server decides by whether a control channel is          *)
(* installed at that moment.                                               *)
(*                                                                         *)
(* Conns is a pool of connection slots: a slot both ends have closed and   *)
(* no goroutine refers to is dialled again.  The timers of the code        *)
(* (heartbeat, handshake and request deadlines) carry no clock: one that   *)
(* nothing will answer may always expire, one that expires although an     *)
(* answer is under way spends one of the MaxFaults faults, like a crash, a *)
(* restart or a failed dial.                                               *)
(***************************************************************************)
EXTENDS Naturals, Sequences, FiniteSets

CONSTANTS
  Conns,        \* connection slots
  Requests,     \* slots for public connections being served
  Clients,      \* client processes, each restarted when it exits
  Authorized,   \* the clients configured with the server's token
  PoolSize,     \* ClientOpts.PoolSize: workers dialled ahead of demand
  WorkersCap,   \* capacity of originalServerState.workers (512 in the code)
  MaxFaults,    \* bound: faults in one behaviour
  MaxPings,     \* bound: unanswered heartbeats in flight on a connection
  MaxBacklog,   \* bound: workers asked for and not yet dialled at an arrival
  NoConn,       \* a nil connection
  NoReq         \* the payload of a frame that names no target

ASSUME AuthorizedAssumption == Authorized \subseteq Clients
ASSUME BoundsAssumption ==
  /\ PoolSize \in Nat
  /\ WorkersCap \in Nat \ {0}
  /\ MaxFaults \in Nat
  /\ MaxPings \in Nat
  /\ MaxBacklog \in Nat
ASSUME NilAssumption == NoConn \notin Conns /\ NoReq \notin Requests
ASSUME FiniteAssumption ==
  IsFiniteSet(Conns) /\ IsFiniteSet(Requests) /\ IsFiniteSet(Clients)

VARIABLES
  up,       \* FALSE once the server's context is cancelled
  control,  \* originalServerState.control
  mutex,    \* the connection whose handler holds handshakeMu
  workers,  \* originalServerState.workers, a buffered channel
  srv,      \* per connection, how far its server-side goroutine is
  mon,      \* per connection, its monitorControl goroutine
  req,      \* per request, how far acquireWorker and the bridge are
  cli,      \* per client, the main goroutine of runOriginalTCPClient
  dials,    \* per client, worker goroutines that still have to dial
  owner,    \* per connection, the client that dialled it
  cl,       \* per connection, its client-side use
  tgt,      \* per connection, the target its worker goroutine has read
  c2s,      \* per connection, bytes in flight to the server
  s2c,      \* per connection, bytes in flight to the client
  faults    \* faults spent

serverVars == <<up, control, mutex, workers, srv, mon, req>>
clientVars == <<cli, dials, owner, cl, tgt>>
vars == <<up, control, mutex, workers, srv, mon, req,
          cli, dials, owner, cl, tgt, c2s, s2c, faults>>

-----------------------------------------------------------------------------
(* Wire messages and the states of the goroutines. *)

Signals == {"Hello", "Welcome", "Channel", "RTT", "Heartbeat", "Closed",
            "Target"}

Message == [sig : Signals, to : Requests \cup {NoReq}]

Signal(s) == [sig |-> s, to |-> NoReq]

\* Mutant: every listener's closure sees the target of one mapping.
TargetOfOne(r) == [sig |-> "Target", to |-> CHOOSE q \in Requests : TRUE]

\* The target frame acquireWorker writes; UDP requests differ in the signal only.
Target(r) == [sig |-> "Target", to |-> r]

\* A server-side connection: accepted; waiting for handshakeMu; reading the
\* Hello; Hello answered; about to be offered to the pool; pooled; handed to a
\* request; control channel; closed.
SrvState == {"accept", "lock", "read", "welcome", "offer", "queued",
             "taken", "control", "closed"}

ClState == {"control", "worker", "serving", "closed"}

\* acquireWorker: polling for a control channel, about to write Channel,
\* waiting for a worker, about to write the target; then the bridge.
ReqPC == {"idle", "poll", "signal", "take", "target", "bridge"}

IdleReq == [pc |-> "idle", ctl |-> NoConn, conn |-> NoConn]

ClientAtDial == [pc |-> "dial", conn |-> NoConn]

Queued == {workers[i] : i \in 1..Len(workers)}

TypeOK ==
  /\ up \in BOOLEAN
  /\ control \in Conns \cup {NoConn}
  /\ mutex \in Conns \cup {NoConn}
  /\ workers \in Seq(Conns)
  /\ Len(workers) <= WorkersCap
  /\ srv \in [Conns -> SrvState]
  /\ mon \in [Conns -> {"off", "start", "run"}]
  /\ req \in [Requests -> [pc : ReqPC,
                           ctl : Conns \cup {NoConn},
                           conn : Conns \cup {NoConn}]]
  /\ cli \in [Clients -> [pc : {"dial", "hello", "run"},
                          conn : Conns \cup {NoConn}]]
  /\ dials \in [Clients -> Nat]
  /\ owner \in [Conns -> Clients]
  /\ cl \in [Conns -> ClState]
  /\ tgt \in [Conns -> Requests \cup {NoReq}]
  /\ c2s \in [Conns -> Seq(Message)]
  /\ s2c \in [Conns -> Seq(Message)]
  /\ faults \in 0..MaxFaults

Init ==
  /\ up = TRUE
  /\ control = NoConn
  /\ mutex = NoConn
  /\ workers = <<>>
  /\ srv = [c \in Conns |-> "closed"]
  /\ mon = [c \in Conns |-> "off"]
  /\ req = [r \in Requests |-> IdleReq]
  /\ cli = [k \in Clients |-> ClientAtDial]
  /\ dials = [k \in Clients |-> 0]
  /\ owner \in {[c \in Conns |-> k] : k \in Clients}
  /\ cl = [c \in Conns |-> "closed"]
  /\ tgt = [c \in Conns |-> NoReq]
  /\ c2s = [c \in Conns |-> <<>>]
  /\ s2c = [c \in Conns |-> <<>>]
  /\ faults = 0

Fault == faults < MaxFaults /\ faults' = faults + 1

-----------------------------------------------------------------------------
(* TCP. A write to a peer that has closed may succeed or fail; a read from  *)
(* it may fail before everything in flight was read (a reset).              *)

ToClient(c, m) ==
  s2c' = IF cl[c] = "closed" THEN s2c ELSE [s2c EXCEPT ![c] = Append(@, m)]

ToServer(c, m) ==
  c2s' = IF srv[c] = "closed" THEN c2s ELSE [c2s EXCEPT ![c] = Append(@, m)]

\* Closing a connection discards what its own end has not read yet.
ServerCloses(c) ==
  /\ srv' = [srv EXCEPT ![c] = "closed"]
  /\ c2s' = [c2s EXCEPT ![c] = <<>>]

ClientCloses(c) ==
  /\ cl' = [cl EXCEPT ![c] = "closed"]
  /\ tgt' = [tgt EXCEPT ![c] = NoReq]
  /\ s2c' = [s2c EXCEPT ![c] = <<>>]

WriteMayFail(c) == srv[c] = "closed" \/ cl[c] = "closed"

\* No goroutine of either side refers to the slot any more.
Reusable(c) ==
  /\ srv[c] = "closed"
  /\ cl[c] = "closed"
  /\ mon[c] = "off"
  /\ control # c
  /\ \A r \in Requests : req[r].ctl # c /\ req[r].conn # c

\* A dial of client k that the listener takes: handleAccepted will run for it.
Dial(k, c, use, sent) ==
  /\ up
  /\ Reusable(c)
  /\ srv' = [srv EXCEPT ![c] = "accept"]
  /\ cl' = [cl EXCEPT ![c] = use]
  /\ owner' = [owner EXCEPT ![c] = k]
  /\ c2s' = [c2s EXCEPT ![c] = sent]
  /\ UNCHANGED <<tgt, s2c>>

-----------------------------------------------------------------------------
(* handleAccepted: worker or control connection. *)

HandleAccepted(c) ==
  /\ srv[c] = "accept"
  /\ srv' = [srv EXCEPT ![c] = IF control # NoConn THEN "offer" ELSE "lock"]
  /\ UNCHANGED <<up, control, mutex, workers, mon, req, clientVars, c2s, s2c,
                 faults>>

\* Mutant: the control channel is not looked up again under handshakeMu.
RecheckSkipped == "read"

Recheck == IF control # NoConn THEN "offer" ELSE "read"

\* Mutant: handshakes do not exclude each other.
NoMutex == TRUE

MutexFree == mutex = NoConn

\* handshakeMu taken; the control channel is looked up again under it.
LockHandshake(c) ==
  /\ srv[c] = "lock"
  /\ MutexFree
  /\ mutex' = c
  /\ srv' = [srv EXCEPT ![c] = Recheck]
  /\ UNCHANGED <<up, control, workers, mon, req, clientVars, c2s, s2c, faults>>

\* Mutant: the token is not compared.
AnyToken(c) == TRUE

TokenMatches(c) == owner[c] \in Authorized

\* A Hello with the server's token is answered before setControl is called.
ReadHello(c) ==
  /\ srv[c] = "read"
  /\ c2s[c] # <<>>
  /\ Head(c2s[c]).sig = "Hello"
  /\ TokenMatches(c)
  /\ c2s' = [c2s EXCEPT ![c] = Tail(@)]
  /\ ToClient(c, Signal("Welcome"))
  /\ srv' = [srv EXCEPT ![c] = "welcome"]
  /\ UNCHANGED <<up, control, mutex, workers, mon, req, clientVars, faults>>

\* A client that never writes: a worker connection taken for a handshake.
Silent(c) == srv[c] = "read" /\ c2s[c] = <<>>

\* Mutant: a failed handshake returns without unlocking handshakeMu.
StillLocked == mutex

Unlocked == NoConn

\* Read error, wrong token, failed reply, or the read deadline of a silent peer.
RejectHello(c) ==
  /\ srv[c] = "read"
  /\ cl[c] = "closed" \/ Silent(c) \/ ~TokenMatches(c)
  /\ ServerCloses(c)
  /\ mutex' = Unlocked
  /\ UNCHANGED <<up, control, workers, mon, req, clientVars, s2c, faults>>

InstallControl(c) ==
  /\ srv[c] = "welcome"
  /\ mutex' = IF control = NoConn THEN NoConn ELSE mutex
  /\ control' = IF control = NoConn THEN c ELSE control
  /\ srv' = [srv EXCEPT ![c] = IF control = NoConn THEN "control" ELSE "offer"]
  /\ mon' = IF control = NoConn THEN [mon EXCEPT ![c] = "start"] ELSE mon
  /\ UNCHANGED <<up, workers, req, clientVars, c2s, s2c, faults>>

\* Mutant: the pool has no capacity.
UnboundedPool == TRUE

PoolHasRoom == Len(workers) < WorkersCap

\* enqueueWorker never blocks; with the context cancelled either case may win.
Enqueue(c) ==
  /\ srv[c] = "offer"
  /\ \/ /\ PoolHasRoom
        /\ workers' = Append(workers, c)
        /\ srv' = [srv EXCEPT ![c] = "queued"]
        /\ UNCHANGED c2s
     \/ /\ ~up \/ ~PoolHasRoom
        /\ ServerCloses(c)
        /\ UNCHANGED workers
  /\ mutex' = IF mutex = c THEN NoConn ELSE mutex
  /\ UNCHANGED <<up, control, mon, req, clientVars, s2c, faults>>

-----------------------------------------------------------------------------
(* monitorControl and clearControl. *)

\* Mutant: clearControl does not compare.
ControlCleared(c) == NoConn

\* clearControl(c): forget c if it is the installed channel, then close it.
ControlWithout(c) == IF control = c THEN NoConn ELSE control

ClearControl(c) ==
  /\ control' = ControlWithout(c)
  /\ ServerCloses(c)

MonitorStart(c) ==
  /\ mon[c] = "start"
  /\ mon' = [mon EXCEPT ![c] = "run"]
  /\ IF srv[c] = "closed" THEN UNCHANGED s2c ELSE ToClient(c, Signal("RTT"))
  /\ UNCHANGED <<up, control, mutex, workers, srv, req, clientVars, c2s,
                 faults>>

MonitorPing(c) ==
  /\ mon[c] = "run"
  /\ srv[c] # "closed"
  /\ Len(s2c[c]) + Len(c2s[c]) < MaxPings
  /\ ToClient(c, Signal("Heartbeat"))
  /\ UNCHANGED <<serverVars, clientVars, c2s, faults>>

\* The reader goroutine and the select: an RTT or Heartbeat echo is consumed.
MonitorEcho(c) ==
  /\ mon[c] = "run"
  /\ srv[c] # "closed"
  /\ c2s[c] # <<>>
  /\ c2s' = [c2s EXCEPT ![c] = Tail(@)]
  /\ UNCHANGED <<serverVars, clientVars, s2c, faults>>

MonitorReturn(c) ==
  /\ ClearControl(c)
  /\ mon' = [mon EXCEPT ![c] = "off"]
  /\ UNCHANGED <<up, mutex, workers, req, clientVars>>

\* Mutant: neither a failed read nor a missed echo ends the monitor.
LocalCloseOnly(c) == srv[c] = "closed"

ConnectionEnds(c) == srv[c] = "closed" \/ cl[c] = "closed"

\* The reader saw the connection end, a heartbeat could not be written, or no
\* echo came because the client is gone.
MonitorLost(c) ==
  /\ mon[c] = "run"
  /\ ConnectionEnds(c)
  /\ MonitorReturn(c)
  /\ UNCHANGED <<s2c, faults>>

\* The context is cancelled: Closed is written, unless the socket is closed.
MonitorShutdown(c) ==
  /\ mon[c] = "run"
  /\ ~up
  /\ IF srv[c] = "closed" THEN UNCHANGED s2c ELSE ToClient(c, Signal("Closed"))
  /\ MonitorReturn(c)
  /\ UNCHANGED faults

\* The heartbeat timer expires although the client lives.
MonitorTimeout(c) ==
  /\ mon[c] = "run"
  /\ Fault
  /\ MonitorReturn(c)
  /\ UNCHANGED s2c

-----------------------------------------------------------------------------
(* A public connection: acquireWorker, then the bridge. *)

\* Workers that are asked for, and those in the hands of a dialling goroutine.
Asked == UNION {{c} \X {i \in 1..Len(s2c[c]) : s2c[c][i].sig = "Channel"} :
                  c \in {d \in Conns : cl[d] = "control"}}

InDial == UNION {{k} \X (1..dials[k]) : k \in Clients}

Backlog == Cardinality(Asked) + Cardinality(InDial)

\* Arrivals pause while MaxBacklog workers are still to be dialled.
RequestArrives(r) ==
  /\ up
  /\ Backlog <= MaxBacklog
  /\ req[r].pc = "idle"
  /\ req' = [req EXCEPT ![r].pc = "poll"]
  /\ UNCHANGED <<up, control, mutex, workers, srv, mon, clientVars, c2s, s2c,
                 faults>>

SeeControl(r) ==
  /\ req[r].pc = "poll"
  /\ control # NoConn
  /\ req' = [req EXCEPT ![r].pc = "signal", ![r].ctl = control]
  /\ UNCHANGED <<up, control, mutex, workers, srv, mon, clientVars, c2s, s2c,
                 faults>>

SendChannel(r) ==
  LET c == req[r].ctl IN
  /\ req[r].pc = "signal"
  /\ \/ /\ srv[c] # "closed"
        /\ ToClient(c, Signal("Channel"))
        /\ req' = [req EXCEPT ![r].pc = "take", ![r].ctl = NoConn]
        /\ UNCHANGED <<control, srv, c2s>>
     \/ /\ WriteMayFail(c)
        /\ ClearControl(c)
        /\ req' = [req EXCEPT ![r] = IdleReq]
        /\ UNCHANGED s2c
  /\ UNCHANGED <<up, mutex, workers, mon, clientVars, faults>>

\* Mutant: the worker is looked at, not received from the channel.
WorkersPeeked == workers

WorkersLeft == Tail(workers)

TakeWorker(r) ==
  /\ req[r].pc = "take"
  /\ workers # <<>>
  /\ workers' = WorkersLeft
  /\ req' = [req EXCEPT ![r].pc = "target", ![r].conn = Head(workers)]
  /\ srv' = [srv EXCEPT ![Head(workers)] = "taken"]
  /\ UNCHANGED <<up, control, mutex, mon, clientVars, c2s, s2c, faults>>

SendTarget(r) ==
  LET c == req[r].conn IN
  /\ req[r].pc = "target"
  /\ \/ /\ ToClient(c, Target(r))
        /\ req' = [req EXCEPT ![r].pc = "bridge"]
        /\ UNCHANGED <<srv, c2s>>
     \/ /\ WriteMayFail(c)
        /\ ServerCloses(c)
        /\ req' = [req EXCEPT ![r] = IdleReq]
        /\ UNCHANGED s2c
  /\ UNCHANGED <<up, control, mutex, workers, mon, clientVars, faults>>

\* Mutant: the deadline is not watched while waiting for a worker.
DeadlineWhilePolling == {"poll"}

DeadlineWatched == {"poll", "take"}

\* The 12 second context of the request, or the server's, ends a select.
RequestTimeout(r) ==
  /\ req[r].pc \in DeadlineWatched
  /\ req' = [req EXCEPT ![r] = IdleReq]
  /\ UNCHANGED <<up, control, mutex, workers, srv, mon, clientVars, c2s, s2c,
                 faults>>

\* The user or the worker closes: bridge returns and both ends are closed.
BridgeEnd(r) ==
  /\ req[r].pc = "bridge"
  /\ ServerCloses(req[r].conn)
  /\ req' = [req EXCEPT ![r] = IdleReq]
  /\ UNCHANGED <<up, control, mutex, workers, mon, clientVars, s2c, faults>>

WorkerGone(r) == req[r].pc = "bridge" /\ cl[req[r].conn] = "closed"

-----------------------------------------------------------------------------
(* The client process: runOriginalTCPClient, restarted by its supervisor. *)

ClientDial(k, c) ==
  /\ cli[k].pc = "dial"
  /\ Dial(k, c, "control", <<Signal("Hello")>>)
  /\ cli' = [cli EXCEPT ![k] = [pc |-> "hello", conn |-> c]]
  /\ UNCHANGED <<up, control, mutex, workers, mon, req, dials, faults>>

Replied(c) == s2c[c] # <<>>

ClientWelcome(k) ==
  LET c == cli[k].conn IN
  /\ cli[k].pc = "hello"
  /\ Replied(c)
  /\ Head(s2c[c]).sig = "Welcome"
  /\ s2c' = [s2c EXCEPT ![c] = Tail(@)]
  /\ cli' = [cli EXCEPT ![k].pc = "run"]
  /\ dials' = [dials EXCEPT ![k] = PoolSize]
  /\ UNCHANGED <<serverVars, owner, cl, tgt, c2s, faults>>

\* Mutant: the client waits for the reply without a deadline.
AlwaysAnswered(c) == FALSE

\* No reply is under way: the Hello was pooled as a worker, or its handler
\* waits for handshakeMu behind a connection that will never say Hello.
Unanswered(c) ==
  \/ srv[c] = "queued"
  \/ srv[c] = "lock" /\ mutex # NoConn /\ Silent(mutex)

GiveUpHello(k) ==
  /\ ClientCloses(cli[k].conn)
  /\ cli' = [cli EXCEPT ![k] = ClientAtDial]
  /\ UNCHANGED <<serverVars, dials, owner, c2s>>

\* A failed read, a reply that is not the Welcome, or the deadline of an
\* unanswered Hello: close and dial again at once.
ClientRetry(k) ==
  LET c == cli[k].conn IN
  /\ cli[k].pc = "hello"
  /\ \/ srv[c] = "closed"
     \/ Replied(c) /\ Head(s2c[c]).sig # "Welcome"
     \/ ~Replied(c) /\ Unanswered(c)
  /\ GiveUpHello(k)
  /\ UNCHANGED faults

\* The deadline expires although the reply is under way.
HelloTimeout(k) ==
  /\ cli[k].pc = "hello"
  /\ Fault
  /\ GiveUpHello(k)

\* RTT and Heartbeat are echoed, Channel starts one more worker goroutine.
ClientSignal(k) ==
  LET c == cli[k].conn IN
  /\ cli[k].pc = "run"
  /\ s2c[c] # <<>>
  /\ Head(s2c[c]).sig # "Closed"
  /\ s2c' = [s2c EXCEPT ![c] = Tail(@)]
  /\ dials' = [dials EXCEPT ![k] =
                 IF Head(s2c[c]).sig = "Channel" THEN @ + 1 ELSE @]
  /\ IF Head(s2c[c]).sig \in {"RTT", "Heartbeat"}
       THEN ToServer(c, Head(s2c[c])) ELSE UNCHANGED c2s
  /\ UNCHANGED <<serverVars, cli, owner, cl, tgt, faults>>

\* The process ends: every connection of its is closed, it is started again.
ProcessExit(k) ==
  /\ cl' = [c \in Conns |-> IF owner[c] = k THEN "closed" ELSE cl[c]]
  /\ tgt' = [c \in Conns |-> IF owner[c] = k THEN NoReq ELSE tgt[c]]
  /\ s2c' = [c \in Conns |-> IF owner[c] = k THEN <<>> ELSE s2c[c]]
  /\ cli' = [cli EXCEPT ![k] = ClientAtDial]
  /\ dials' = [dials EXCEPT ![k] = 0]
  /\ UNCHANGED <<serverVars, owner, c2s>>

\* Closed was read, or reading or echoing on the control channel failed.
ClientReturn(k) ==
  LET c == cli[k].conn IN
  /\ cli[k].pc = "run"
  /\ \/ srv[c] = "closed"
     \/ s2c[c] # <<>> /\ Head(s2c[c]).sig = "Closed"
  /\ ProcessExit(k)
  /\ UNCHANGED faults

ClientCrash(k) ==
  /\ cli[k].pc # "dial"
  /\ Fault
  /\ ProcessExit(k)

-----------------------------------------------------------------------------
(* runOriginalWorker. *)

WorkerDial(k, c) ==
  /\ dials[k] > 0
  /\ Dial(k, c, "worker", <<>>)
  /\ dials' = [dials EXCEPT ![k] = @ - 1]
  /\ UNCHANGED <<up, control, mutex, workers, mon, req, cli, faults>>

WorkerReturn(k) ==
  /\ dials[k] > 0
  /\ dials' = [dials EXCEPT ![k] = @ - 1]
  /\ UNCHANGED <<serverVars, cli, owner, cl, tgt, c2s, s2c>>

\* The dial is refused: there is no retry.
WorkerRefused(k) == ~up /\ WorkerReturn(k) /\ UNCHANGED faults

WorkerDialFails(k) == up /\ Fault /\ WorkerReturn(k)

\* The target is read; dialling it succeeds or the goroutine returns.
WorkerTarget(c) ==
  /\ cl[c] = "worker"
  /\ s2c[c] # <<>>
  /\ Head(s2c[c]).sig = "Target"
  /\ \/ /\ cl' = [cl EXCEPT ![c] = "serving"]
        /\ tgt' = [tgt EXCEPT ![c] = Head(s2c[c]).to]
        /\ s2c' = [s2c EXCEPT ![c] = Tail(@)]
     \/ ClientCloses(c)
  /\ UNCHANGED <<serverVars, cli, dials, owner, c2s, faults>>

\* The server closed the connection, before or after the target.
WorkerLost(c) ==
  /\ cl[c] \in {"worker", "serving"}
  /\ srv[c] = "closed"
  /\ ClientCloses(c)
  /\ UNCHANGED <<serverVars, cli, dials, owner, c2s, faults>>

UpstreamEnds(c) ==
  /\ cl[c] = "serving"
  /\ srv[c] # "closed"
  /\ ClientCloses(c)
  /\ UNCHANGED <<serverVars, cli, dials, owner, c2s, faults>>

-----------------------------------------------------------------------------
(* The server process. *)

\* A signal cancels the server's context.
ServerStop ==
  /\ up
  /\ Fault
  /\ up' = FALSE
  /\ UNCHANGED <<control, mutex, workers, srv, mon, req, clientVars, c2s, s2c>>

\* The goroutine of runOriginalTCPServer that waits for the context closes the
\* control connection; monitorControl may not have written Closed yet.
CloseControlOnStop ==
  /\ ~up
  /\ control # NoConn
  /\ srv[control] # "closed"
  /\ ServerCloses(control)
  /\ UNCHANGED <<up, control, mutex, workers, mon, req, clientVars, s2c, faults>>

\* The process ends and is started again with empty state.
ServerRestart ==
  /\ IF up THEN Fault ELSE UNCHANGED faults
  /\ up' = TRUE
  /\ control' = NoConn
  /\ mutex' = NoConn
  /\ workers' = <<>>
  /\ srv' = [c \in Conns |-> "closed"]
  /\ c2s' = [c \in Conns |-> <<>>]
  /\ mon' = [c \in Conns |-> "off"]
  /\ req' = [r \in Requests |-> IdleReq]
  /\ UNCHANGED <<clientVars, s2c>>

-----------------------------------------------------------------------------
Handshake(c) ==
  \/ HandleAccepted(c)
  \/ LockHandshake(c)
  \/ ReadHello(c)
  \/ RejectHello(c)
  \/ InstallControl(c)
  \/ Enqueue(c)

Monitor(c) ==
  \/ MonitorStart(c)
  \/ MonitorPing(c)
  \/ MonitorEcho(c)
  \/ MonitorLost(c)
  \/ MonitorShutdown(c)
  \/ MonitorTimeout(c)

Request(r) ==
  \/ RequestArrives(r)
  \/ SeeControl(r)
  \/ SendChannel(r)
  \/ TakeWorker(r)
  \/ SendTarget(r)
  \/ RequestTimeout(r)
  \/ BridgeEnd(r)

Client(k) ==
  \/ \E c \in Conns : ClientDial(k, c)
  \/ ClientWelcome(k)
  \/ ClientRetry(k)
  \/ HelloTimeout(k)
  \/ ClientSignal(k)
  \/ ClientReturn(k)
  \/ ClientCrash(k)
  \/ \E c \in Conns : WorkerDial(k, c)
  \/ WorkerRefused(k)
  \/ WorkerDialFails(k)

Worker(c) == WorkerTarget(c) \/ WorkerLost(c) \/ UpstreamEnds(c)

Server == ServerStop \/ CloseControlOnStop \/ ServerRestart

Next ==
  \/ \E c \in Conns : Handshake(c) \/ Monitor(c) \/ Worker(c)
  \/ \E r \in Requests : Request(r)
  \/ \E k \in Clients : Client(k)
  \/ Server

(***************************************************************************)
(* Every goroutine keeps running and every timer fires; handshakeMu is a   *)
(* sync.Mutex, which hands the lock to a waiter that is starved, hence the *)
(* strong fairness.  Faults, heartbeat ticks, arrivals and the end of a    *)
(* healthy bridge owe nothing.                                             *)
(***************************************************************************)
Fairness ==
  /\ \A c \in Conns :
       /\ WF_vars(HandleAccepted(c))
       /\ SF_vars(LockHandshake(c))
       /\ WF_vars(ReadHello(c) \/ RejectHello(c))
       /\ WF_vars(InstallControl(c))
       /\ WF_vars(Enqueue(c))
       /\ WF_vars(MonitorStart(c))
       /\ WF_vars(MonitorEcho(c))
       /\ WF_vars(MonitorLost(c) \/ MonitorShutdown(c))
       /\ WF_vars(WorkerTarget(c) \/ WorkerLost(c))
  /\ \A r \in Requests :
       /\ WF_vars(SendChannel(r))
       /\ WF_vars(TakeWorker(r) \/ RequestTimeout(r))
       /\ WF_vars(SendTarget(r))
       /\ WF_vars(WorkerGone(r) /\ BridgeEnd(r))
  /\ \A k \in Clients :
       /\ WF_vars(\E c \in Conns : ClientDial(k, c))
       /\ WF_vars(ClientWelcome(k) \/ ClientRetry(k))
       /\ WF_vars(ClientSignal(k) \/ ClientReturn(k))
       /\ WF_vars(WorkerRefused(k) \/ \E c \in Conns : WorkerDial(k, c))
  /\ WF_vars(~up /\ ServerRestart)

Spec == Init /\ [][Next]_vars

FairSpec == Spec /\ Fairness

-----------------------------------------------------------------------------
(* Safety. *)

Holding(r) == req[r].pc \in {"target", "bridge"}

\* acquireWorker hands a pooled connection to one request only: no connection is
\* pooled twice, held by two requests, or pooled while a request holds it, even
\* across a control channel that is lost and replaced.
WorkerHeldOnce ==
  /\ \A i, j \in 1..Len(workers) : workers[i] = workers[j] => i = j
  /\ \A r \in Requests : Holding(r) => req[r].conn \notin Queued
  /\ \A r, q \in Requests :
       Holding(r) /\ Holding(q) /\ req[r].conn = req[q].conn => r = q

Handoff == INSTANCE WorkerHandoff WITH
  Cap <- WorkersCap,
  None <- NoConn,
  pool <- workers,
  held <- [r \in Requests |-> IF Holding(r) THEN req[r].conn ELSE NoConn]

\* The channel of workers and acquireWorker implement the hand-off: workers are
\* handed out in the order they were pooled, each to one request, and one that
\* was handed out never returns to the pool.
ImplementsHandoff == Handoff!Spec

\* handleAccepted answers a Hello before setControl: by then no other control
\* channel may be installed, or a client was welcomed on a pooled connection.
WelcomeIsKept == \A c \in Conns : srv[c] = "welcome" => control = NoConn

\* The server never forgets an open control connection (its client would wait
\* for signals for ever), and a remembered one has a monitor that will clear it.
ControlTracked ==
  /\ \A c \in Conns : srv[c] = "control" => control = c
  /\ control # NoConn => mon[control] # "off"

\* What is installed as the control channel was dialled as one, by a client
\* that has the token: a worker connection never passes for a control channel.
ControlIsAuthentic ==
  control # NoConn =>
    cl[control] \in {"control", "closed"} /\ owner[control] \in Authorized

\* A worker goroutine relays to the target of the very request whose public
\* connection is bridged to its connection.
TargetOfHolder ==
  \A c \in Conns : cl[c] = "serving" /\ srv[c] = "taken" =>
    /\ tgt[c] \in Requests
    /\ req[tgt[c]].pc = "bridge"
    /\ req[tgt[c]].conn = c

Waiting == {r \in Requests : req[r].pc = "take"}

Coming == {c \in Conns : cl[c] = "worker"
                         /\ srv[c] \in {"accept", "lock", "offer", "queued"}}

\* A full pool turns workers away. It has room for every connection but the
\* control channel, or, when no second client's Hello can be pooled as a worker,
\* it is full only with more workers than are ever owed.
PoolSuffices ==
  \/ Cardinality(Conns) <= WorkersCap + 1
  \/ /\ Cardinality(Clients) = 1
     /\ Cardinality(Requests) + PoolSize <= WorkersCap

\* As long as nothing fails, a connected client keeps PoolSize workers ready or
\* coming besides one for every request that waits, if the pool suffices:
\* workers that are dialled the moment the Welcome arrives, before setControl,
\* are not lost, and neither are those of requests that timed out.
WorkerOnTheWay ==
  faults = 0 /\ PoolSuffices =>
    \A k \in Clients : cli[k].pc = "run" =>
      Cardinality(Waiting) + PoolSize <= Backlog + Cardinality(Coming)

\* A target frame is written only to a worker connection.
TargetsGoToWorkers ==
  \A c \in Conns : cl[c] = "control" =>
    \A i \in 1..Len(s2c[c]) : s2c[c][i].sig # "Target"

-----------------------------------------------------------------------------
(* Liveness. *)

\* acquireWorker ends: in a bridge, an error, or the request's deadline.
RequestSettles ==
  \A r \in Requests :
    req[r].pc \in {"poll", "signal", "take", "target"} ~>
      req[r].pc \in {"bridge", "idle"}

\* handleAccepted ends for every connection, whoever holds handshakeMu.
HandshakeSettles ==
  \A c \in Conns :
    srv[c] \in {"accept", "lock", "read", "welcome", "offer"} ~>
      srv[c] \in {"queued", "taken", "control", "closed"}

\* A control channel whose client is gone is dropped by its monitor.
DeadControlDropped ==
  \A c \in Conns :
    (control = c /\ cl[c] = "closed") ~> control # c

Connected == \E k \in Clients : cli[k].pc = "run" /\ control = cli[k].conn

\* Once faults cease, a client ends up with the installed control channel, and
\* keeps it: no Hello is for ever pooled as a worker or stuck behind handshakeMu.
Reconnects == <>[]Connected

=============================================================================
