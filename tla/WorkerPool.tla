------------------------------ MODULE WorkerPool ------------------------------
(***************************************************************************)
(* The worker-pool transports (runWorkerServer and runWorkerClient in      *)
(* src/internal/tunnel/runner.go).  Each of the client's worker loops      *)
(* dials, sends token and role, and waits for a target; the server queues  *)
(* the connections it has authenticated and hands the oldest to a request. *)
(*                                                                         *)
(* Nobody tells the server that a queued worker has given up: the worker's *)
(* read deadline closes its end, and the connection stays in the queue.    *)
(* That deadline is set once, before the target is read, and never         *)
(* cleared, so it ends relays as well, once they read: a relay that writes *)
(* to a party or a tunnel that takes nothing stays where it is.            *)
(*                                                                         *)
(* Connections are slots that are dialled again when both ends are closed  *)
(* and no goroutine refers to them.  There is no clock: the deadlines of   *)
(* an idle worker, a relay and a request may expire at any time.           *)
(***************************************************************************)
EXTENDS Naturals, Sequences, FiniteSets

CONSTANTS
  Conns,       \* connection slots
  Requests,    \* slots for public connections being served
  Loops,       \* worker loops of the client process (PoolSize)
  Admitted,    \* loops whose token and role the server accepts
  WorkersCap,  \* capacity of workerPool (512 in the code)
  MaxFaults,   \* bound: crashes, restarts and cancellations
  NoConn,      \* no connection
  NoReq        \* no target

ASSUME PoolAssumption ==
  /\ Admitted \subseteq Loops
  /\ WorkersCap \in Nat \ {0}
  /\ MaxFaults \in Nat
  /\ NoConn \notin Conns
  /\ NoReq \notin Requests

VARIABLES
  workers,  \* workerPool, a buffered channel
  srv,      \* per connection, its server side
  req,      \* per request, how far acquire and the bridge are
  running,  \* FALSE once the client's context is cancelled
  loop,     \* per worker loop, what it is doing and on which connection
  owner,    \* per connection, the loop that dialled it
  cl,       \* per connection, its client side is open
  s2c,      \* per connection, the target in flight to the worker
  tgt,      \* per connection, the target its worker relays to
  faults    \* faults spent

serverVars == <<workers, srv, req>>
clientVars == <<running, loop, owner, cl, tgt>>
vars == <<workers, srv, req, running, loop, owner, cl, s2c, tgt, faults>>

-----------------------------------------------------------------------------
SrvState == {"auth", "offer", "queued", "taken", "closed"}

ReqState == [pc : {"idle", "take", "target", "bridge"}, conn : Conns \cup {NoConn}]

LoopState ==
  [pc : {"dial", "wait", "serve", "write", "returned"}, conn : Conns \cup {NoConn}]

IdleReq == [pc |-> "idle", conn |-> NoConn]

AtDial == [pc |-> "dial", conn |-> NoConn]

TypeOK ==
  /\ workers \in Seq(Conns)
  /\ Len(workers) <= WorkersCap
  /\ srv \in [Conns -> SrvState]
  /\ req \in [Requests -> ReqState]
  /\ running \in BOOLEAN
  /\ loop \in [Loops -> LoopState]
  /\ owner \in [Conns -> Loops]
  /\ cl \in [Conns -> BOOLEAN]
  /\ s2c \in [Conns -> Requests \cup {NoReq}]
  /\ tgt \in [Conns -> Requests \cup {NoReq}]
  /\ faults \in 0..MaxFaults

Init ==
  /\ workers = <<>>
  /\ srv = [c \in Conns |-> "closed"]
  /\ req = [r \in Requests |-> IdleReq]
  /\ running = TRUE
  /\ loop = [w \in Loops |-> AtDial]
  /\ owner \in {[c \in Conns |-> w] : w \in Loops}
  /\ cl = [c \in Conns |-> FALSE]
  /\ s2c = [c \in Conns |-> NoReq]
  /\ tgt = [c \in Conns |-> NoReq]
  /\ faults = 0

Fault == faults < MaxFaults /\ faults' = faults + 1

Reusable(c) ==
  /\ srv[c] = "closed"
  /\ ~cl[c]
  /\ \A r \in Requests : req[r].conn # c

-----------------------------------------------------------------------------
(* The server: authenticateControlConn, the handler and acquire.            *)

Accepted(c) == owner[c] \in Admitted

\* Token and role were sent with the dial; reading them fails only if the client
\* has closed the connection.
Authenticate(c) ==
  /\ srv[c] = "auth"
  /\ \/ Accepted(c) /\ srv' = [srv EXCEPT ![c] = "offer"]
     \/ (~Accepted(c) \/ ~cl[c]) /\ srv' = [srv EXCEPT ![c] = "closed"]
  /\ UNCHANGED <<workers, req, clientVars, s2c, faults>>

PoolHasRoom == Len(workers) < WorkersCap

\* Mutant: it does not wait but makes room, and nobody closes what it throws out.
DropsOldest(c) ==
  /\ srv[c] = "offer"
  /\ workers' = Append(IF PoolHasRoom THEN workers ELSE Tail(workers), c)
  /\ srv' = [srv EXCEPT ![c] = "queued"]
  /\ UNCHANGED <<req, clientVars, s2c, faults>>

\* The handler waits while the channel is full.
Enqueue(c) ==
  /\ srv[c] = "offer"
  /\ PoolHasRoom
  /\ workers' = Append(workers, c)
  /\ srv' = [srv EXCEPT ![c] = "queued"]
  /\ UNCHANGED <<req, clientVars, s2c, faults>>

RequestArrives(r) ==
  /\ req[r].pc = "idle"
  /\ req' = [req EXCEPT ![r].pc = "take"]
  /\ UNCHANGED <<workers, srv, clientVars, s2c, faults>>

\* Mutant: the worker is looked at, not received from the channel.
WorkersPeeked == workers

WorkersLeft == Tail(workers)

TakeWorker(r) ==
  /\ req[r].pc = "take"
  /\ workers # <<>>
  /\ workers' = WorkersLeft
  /\ req' = [req EXCEPT ![r] = [pc |-> "target", conn |-> Head(workers)]]
  /\ srv' = [srv EXCEPT ![Head(workers)] = "taken"]
  /\ UNCHANGED <<clientVars, s2c, faults>>

\* Mutant: the target of whichever request came last.
OneForAll(r) == CHOOSE q \in Requests : TRUE

\* The target of the request's mapping, as told apart by the request.
TargetAddr(r) == r

\* The target is written, at once as nothing was before it; it vanishes if the
\* worker has given up meanwhile.
SendTarget(r) ==
  LET c == req[r].conn IN
  /\ req[r].pc = "target"
  /\ s2c' = IF cl[c] THEN [s2c EXCEPT ![c] = TargetAddr(r)] ELSE s2c
  /\ req' = [req EXCEPT ![r].pc = "bridge"]
  /\ UNCHANGED <<workers, srv, clientVars, faults>>

\* Mutant: the loop continues without closing the worker.
LeftOpen == "taken"

AfterFailure == "closed"

\* The write fails: close this worker and take the next.
TargetFails(r) ==
  LET c == req[r].conn IN
  /\ req[r].pc = "target"
  /\ ~cl[c]
  /\ srv' = [srv EXCEPT ![c] = AfterFailure]
  /\ req' = [req EXCEPT ![r] = [pc |-> "take", conn |-> NoConn]]
  /\ UNCHANGED <<workers, clientVars, s2c, faults>>

\* Mutant: the wait for a worker has no deadline.
NoDeadline == {}

DeadlineWatched == {"take"}

\* The request's 12 seconds are over.
RequestTimeout(r) ==
  /\ req[r].pc \in DeadlineWatched
  /\ req' = [req EXCEPT ![r] = IdleReq]
  /\ UNCHANGED <<workers, srv, clientVars, s2c, faults>>

\* The user or the worker closes.
BridgeEnd(r) ==
  /\ req[r].pc = "bridge"
  /\ srv' = [srv EXCEPT ![req[r].conn] = "closed"]
  /\ req' = [req EXCEPT ![r] = IdleReq]
  /\ UNCHANGED <<workers, clientVars, s2c, faults>>

\* The process ends, which closes its connections, and is started again.
ServerRestart ==
  /\ Fault
  /\ workers' = <<>>
  /\ srv' = [c \in Conns |-> "closed"]
  /\ req' = [r \in Requests |-> IdleReq]
  /\ UNCHANGED <<clientVars, s2c>>

-----------------------------------------------------------------------------
(* The client: runWorkerLoop. *)

Dial(w, c) ==
  /\ running
  /\ loop[w].pc = "dial"
  /\ Reusable(c)
  /\ srv' = [srv EXCEPT ![c] = "auth"]
  /\ cl' = [cl EXCEPT ![c] = TRUE]
  /\ owner' = [owner EXCEPT ![c] = w]
  /\ loop' = [loop EXCEPT ![w] = [pc |-> "wait", conn |-> c]]
  /\ UNCHANGED <<workers, req, running, s2c, tgt, faults>>

\* The loop closes its connection and starts over.
CloseAndRetry(w) ==
  LET c == loop[w].conn IN
  /\ cl' = [cl EXCEPT ![c] = FALSE]
  /\ s2c' = [s2c EXCEPT ![c] = NoReq]
  /\ tgt' = [tgt EXCEPT ![c] = NoReq]
  /\ loop' = [loop EXCEPT ![w] = AtDial]
  /\ UNCHANGED <<serverVars, running, owner, faults>>

\* Mutant: reading the target has no deadline.
ServerClosed(w) == srv[loop[w].conn] = "closed"

\* The server closed the connection, or no target came before the deadline.
WaitOver(w) == TRUE

WaitEnds(w) ==
  /\ loop[w].pc = "wait"
  /\ WaitOver(w)
  /\ CloseAndRetry(w)

ReadTarget(w) ==
  LET c == loop[w].conn IN
  /\ loop[w].pc = "wait"
  /\ s2c[c] # NoReq
  /\ loop' = [loop EXCEPT ![w].pc = "serve"]
  /\ tgt' = [tgt EXCEPT ![c] = s2c[c]]
  /\ s2c' = [s2c EXCEPT ![c] = NoReq]
  /\ UNCHANGED <<serverVars, running, owner, cl, faults>>

\* A copy of the relay waits in a write, which no deadline ends.
WriteWaits(w) ==
  /\ loop[w].pc = "serve"
  /\ loop' = [loop EXCEPT ![w].pc = "write"]
  /\ UNCHANGED <<serverVars, running, owner, cl, s2c, tgt, faults>>

Relaying(w) == loop[w].pc \in {"serve", "write"}

\* The target cannot be dialled, or the relay ends: by the parties, or as it reads
\* again after the deadline that was set for reading the target.
RelayEnds(w) == Relaying(w) /\ CloseAndRetry(w)

\* The context is cancelled; a loop notices when it starts over.
Cancel ==
  /\ running
  /\ Fault
  /\ running' = FALSE
  /\ UNCHANGED <<serverVars, loop, owner, cl, s2c, tgt>>

LoopReturns(w) ==
  /\ ~running
  /\ loop[w].pc = "dial"
  /\ loop' = [loop EXCEPT ![w].pc = "returned"]
  /\ UNCHANGED <<serverVars, running, owner, cl, s2c, tgt, faults>>

AllReturned == \A w \in Loops : loop[w].pc = "returned"

\* The process is killed, or has returned from runWorkerClient, and is started
\* again.
ClientRestart ==
  /\ IF AllReturned THEN UNCHANGED faults ELSE Fault
  /\ running' = TRUE
  /\ loop' = [w \in Loops |-> AtDial]
  /\ cl' = [c \in Conns |-> FALSE]
  /\ s2c' = [c \in Conns |-> NoReq]
  /\ tgt' = [c \in Conns |-> NoReq]
  /\ UNCHANGED <<serverVars, owner>>

-----------------------------------------------------------------------------
Handler(c) == Authenticate(c) \/ Enqueue(c)

Request(r) ==
  \/ RequestArrives(r) \/ TakeWorker(r)
  \/ SendTarget(r) \/ TargetFails(r)
  \/ RequestTimeout(r) \/ BridgeEnd(r)

Loop(w) ==
  \/ \E c \in Conns : Dial(w, c)
  \/ WaitEnds(w) \/ ReadTarget(w) \/ WriteWaits(w) \/ RelayEnds(w) \/ LoopReturns(w)

Next ==
  \/ \E c \in Conns : Handler(c)
  \/ \E r \in Requests : Request(r)
  \/ \E w \in Loops : Loop(w)
  \/ ServerRestart \/ Cancel \/ ClientRestart

(***************************************************************************)
(* Goroutines run and deadlines expire.  A request whose 12 seconds are    *)
(* over does not take workers for ever: its context stays done, and select *)
(* picks among the ready cases at random, hence the strong fairness.  So   *)
(* it is for handlers: senders that wait for a full channel are served in  *)
(* the order they came.  A worker's wait ends by its deadline, its relay   *)
(* too unless it waits in a write (with gRPC, which has no deadlines, the  *)
(* cancelled context ends them).  Arrivals, faults, writes that wait and   *)
(* the server's relays owe nothing.                                        *)
(***************************************************************************)
Fairness ==
  /\ \A c \in Conns : WF_vars(Authenticate(c)) /\ SF_vars(Enqueue(c))
  /\ \A r \in Requests :
       /\ SF_vars(RequestTimeout(r))
       /\ WF_vars(SendTarget(r) \/ TargetFails(r))
  /\ \A w \in Loops :
       /\ WF_vars(\E c \in Conns : Dial(w, c))
       /\ WF_vars(WaitEnds(w) \/ ReadTarget(w))
       /\ WF_vars(loop[w].pc = "serve" /\ RelayEnds(w))
       /\ WF_vars(LoopReturns(w))
  /\ WF_vars(AllReturned /\ ClientRestart)

Spec == Init /\ [][Next]_vars

FairSpec == Spec /\ Fairness

-----------------------------------------------------------------------------
(* Safety. *)

Holding(r) == req[r].pc \in {"target", "bridge"}

Handoff == INSTANCE WorkerHandoff WITH
  Cap <- WorkersCap,
  None <- NoConn,
  pool <- workers,
  held <- [r \in Requests |-> IF Holding(r) THEN req[r].conn ELSE NoConn]

\* workerPool and acquire implement the hand-off, retries after a failed write
\* included: a worker is handed to one request, in order, and never again.
ImplementsHandoff == Handoff!Spec

\* A worker loop relays to the target of the request its connection is bridged
\* to, although requests take stale workers, retry and time out in any order.
TargetOfHolder ==
  \A w \in Loops :
    LET c == loop[w].conn IN
    Relaying(w) /\ srv[c] = "taken" =>
      \E r \in Requests : tgt[c] = r /\ req[r] = [pc |-> "bridge", conn |-> c]

\* No connection is lost between the goroutines that hand it on, through stale
\* workers, retries and deadlines: the server's end waits in workerPool once or
\* has the one request that will close it, the client's end has its loop.
NoneLeaked ==
  \A c \in Conns :
    /\ srv[c] = "queued" => Cardinality({i \in DOMAIN workers : workers[i] = c}) = 1
    /\ srv[c] = "taken" => Cardinality({r \in Requests : req[r].conn = c}) = 1
    /\ cl[c] => loop[owner[c]].conn = c

-----------------------------------------------------------------------------
(* Liveness. *)

\* acquire ends in a bridge or at the request's deadline, however many stale
\* workers it takes.
RequestSettles ==
  \A r \in Requests : req[r].pc \in {"take", "target"} ~>
    req[r].pc \in {"bridge", "idle"}

\* As long as requests take workers, none that was accepted is left waiting, by
\* its handler at a full channel or in the channel behind those that gave up.
WorkersGetTurns ==
  []<>(\E r \in Requests : req[r].pc = "target") =>
    \A c \in Conns : srv[c] \in {"offer", "queued"} ~> srv[c] \in {"taken", "closed"}

\* runWorkerClient returns after its context is cancelled, although a loop that
\* waits for a target or relays does not look at the context; unless a relay waits
\* in a write for ever, which wg.Wait then waits for.
ClientStops ==
  (\A w \in Loops : []<>(loop[w].pc # "write")) => (~running ~> running)

=============================================================================
