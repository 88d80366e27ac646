-------------------------- MODULE OriginalTCPProofs --------------------------
(***************************************************************************)
(* Theorems about OriginalTCP for every number of connections, requests    *)
(* and clients, every pool size and capacity and every number of faults.   *)
(***************************************************************************)
EXTENDS OriginalTCP, SequenceTheorems, FiniteSetTheorems, TLAPS

-----------------------------------------------------------------------------
(* Type correctness. *)

\* What Append, Head and Tail do to the type of a queue.
LEMMA QueueTypes ==
  ASSUME NEW S, NEW q \in Seq(S)
  PROVE  /\ \A e \in S : Append(q, e) \in Seq(S)
         /\ q # <<>> => Head(q) \in S /\ Tail(q) \in Seq(S)
PROOF BY AppendProperties, HeadTailProperties

\* A message built by Signal or Target is a Message (the bytes of the protocol).
LEMMA MessageTypes ==
  /\ \A s \in Signals : Signal(s) \in Message
  /\ \A r \in Requests : Target(r) \in Message
PROOF BY DEF Message, Signals, Signal, Target

\* Writing a message keeps the queues of a direction well typed, whatever the
\* connection.
LEMMA WriteTypes ==
  ASSUME s2c \in [Conns -> Seq(Message)], c2s \in [Conns -> Seq(Message)],
         NEW c, NEW m \in Message
  PROVE  /\ ToClient(c, m) => s2c' \in [Conns -> Seq(Message)]
         /\ ToServer(c, m) => c2s' \in [Conns -> Seq(Message)]
         /\ s2c[c] # <<>> /\ c \in Conns =>
              /\ Head(s2c[c]) \in Message
              /\ [s2c EXCEPT ![c] = Tail(@)] \in [Conns -> Seq(Message)]
PROOF
<1>1. \A q \in Seq(Message) : Append(q, m) \in Seq(Message)
  BY AppendProperties
<1>2. \A q \in Seq(Message) : q # <<>> =>
        Head(q) \in Message /\ Tail(q) \in Seq(Message)
  BY HeadTailProperties
<1>3. QED BY <1>1, <1>2 DEF ToClient, ToServer

\* So does closing an end of a connection.
LEMMA CloseTypes ==
  ASSUME srv \in [Conns -> SrvState], c2s \in [Conns -> Seq(Message)],
         NEW c, ServerCloses(c)
  PROVE  srv' \in [Conns -> SrvState] /\ c2s' \in [Conns -> Seq(Message)]
PROOF
<1>1. <<>> \in Seq(Message) OBVIOUS
<1>2. QED BY <1>1 DEF ServerCloses, SrvState

\* Init has the right types.
LEMMA TypeInit == Init => TypeOK
PROOF BY BoundsAssumption, NilAssumption
  DEF Init, TypeOK, SrvState, ClState, ReqPC, IdleReq, ClientAtDial

\* Every step of handleControlHandshake keeps the types.
LEMMA TypeHandshake ==
  ASSUME TypeOK, NEW c \in Conns, Handshake(c)
  PROVE  TypeOK'
PROOF
<1> USE DEF TypeOK, SrvState, clientVars
<1>1. CASE HandleAccepted(c) BY <1>1 DEF HandleAccepted
<1>2. CASE LockHandshake(c) BY <1>2 DEF LockHandshake, Recheck
<1>3. CASE ReadHello(c)
  <2>1. c2s' \in [Conns -> Seq(Message)]
    BY <1>3, QueueTypes DEF ReadHello
  <2>2. s2c' \in [Conns -> Seq(Message)]
    BY <1>3, QueueTypes, MessageTypes DEF ReadHello, ToClient, Signals
  <2>3. QED BY <1>3, <2>1, <2>2 DEF ReadHello
<1>4. CASE RejectHello(c) BY <1>4 DEF RejectHello, ServerCloses, Unlocked
<1>5. CASE InstallControl(c) BY <1>5 DEF InstallControl
<1>6. CASE Enqueue(c)
  <2>1. CASE PoolHasRoom /\ workers' = Append(workers, c) /\ UNCHANGED c2s
              /\ srv' = [srv EXCEPT ![c] = "queued"]
    <3>1. workers' \in Seq(Conns) /\ Len(workers') = Len(workers) + 1
      BY <2>1, AppendProperties
    <3>2. Len(workers') <= WorkersCap
      BY <2>1, <3>1, LenProperties, BoundsAssumption DEF PoolHasRoom
    <3>3. QED BY <1>6, <2>1, <3>1, <3>2 DEF Enqueue
  <2>2. CASE ServerCloses(c) /\ UNCHANGED workers
    BY <1>6, <2>2 DEF Enqueue, ServerCloses
  <2>3. QED BY <1>6, <2>1, <2>2 DEF Enqueue
<1>7. QED BY <1>1, <1>2, <1>3, <1>4, <1>5, <1>6 DEF Handshake

\* Every step of monitorControl keeps the types.
LEMMA TypeMonitor ==
  ASSUME TypeOK, NEW c \in Conns, Monitor(c)
  PROVE  TypeOK'
PROOF
<1> USE DEF TypeOK, SrvState, clientVars, serverVars
<1>1. \A s \in Signals : ToClient(c, Signal(s)) => s2c' \in [Conns -> Seq(Message)]
  BY WriteTypes, MessageTypes
<1>2. ASSUME MonitorReturn(c), s2c' \in [Conns -> Seq(Message)],
             faults' \in 0..MaxFaults
      PROVE  TypeOK'
  <2>1. srv' \in [Conns -> SrvState] /\ c2s' \in [Conns -> Seq(Message)]
    BY <1>2, CloseTypes DEF MonitorReturn, ClearControl
  <2>2. control' \in Conns \cup {NoConn}
    BY <1>2 DEF MonitorReturn, ClearControl, ControlWithout
  <2>3. mon' \in [Conns -> {"off", "start", "run"}]
    BY <1>2 DEF MonitorReturn
  <2>4. UNCHANGED <<up, mutex, workers, req, owner, dials, cli, cl, tgt>>
    BY <1>2 DEF MonitorReturn
  <2>5. QED BY <1>2, <2>1, <2>2, <2>3, <2>4
<1>3. CASE MonitorStart(c) BY <1>3, <1>1 DEF MonitorStart, Signals
<1>4. CASE MonitorPing(c) BY <1>4, <1>1 DEF MonitorPing, Signals
<1>5. CASE MonitorEcho(c)
  <2>1. c2s' \in [Conns -> Seq(Message)] BY <1>5, QueueTypes DEF MonitorEcho
  <2>2. QED BY <1>5, <2>1 DEF MonitorEcho
<1>6. CASE MonitorLost(c) BY <1>6, <1>2 DEF MonitorLost
<1>7. CASE MonitorShutdown(c)
  BY <1>7, <1>1, <1>2 DEF MonitorShutdown, Signals
<1>8. CASE MonitorTimeout(c)
  <2>1. faults' \in 0..MaxFaults
    BY <1>8, BoundsAssumption DEF MonitorTimeout, Fault
  <2>2. MonitorReturn(c) /\ s2c' = s2c BY <1>8 DEF MonitorTimeout
  <2>3. QED BY <1>2, <2>1, <2>2
<1>9. QED BY <1>3, <1>4, <1>5, <1>6, <1>7, <1>8 DEF Monitor

\* Moving a request on and setting the connections it has read.
LEMMA ReqTypes ==
  ASSUME TypeOK, NEW r \in Requests, NEW p \in ReqPC,
         NEW n \in Conns \cup {NoConn},
         \/ req' = [req EXCEPT ![r].pc = p]
         \/ req' = [req EXCEPT ![r].pc = p, ![r].ctl = n]
         \/ req' = [req EXCEPT ![r].pc = p, ![r].conn = n]
  PROVE  req' \in [Requests -> [pc : ReqPC, ctl : Conns \cup {NoConn},
                                conn : Conns \cup {NoConn}]]
PROOF
<1> DEFINE State == [pc : ReqPC, ctl : Conns \cup {NoConn},
                     conn : Conns \cup {NoConn}]
<1>1. req \in [Requests -> State] BY DEF TypeOK
<1> DEFINE f == [req EXCEPT ![r].pc = p]
<1>2. f \in [Requests -> State] BY <1>1
<1> HIDE DEF f
<1>3. CASE req' = [req EXCEPT ![r].pc = p, ![r].ctl = n]
  <2>1. req' = [f EXCEPT ![r].ctl = n] BY <1>3 DEF f
  <2>2. QED BY <1>2, <2>1
<1>4. CASE req' = [req EXCEPT ![r].pc = p, ![r].conn = n]
  <2>1. req' = [f EXCEPT ![r].conn = n] BY <1>4 DEF f
  <2>2. QED BY <1>2, <2>1
<1>5. CASE req' = [req EXCEPT ![r].pc = p] BY <1>2, <1>5 DEF f
<1>6. QED BY <1>3, <1>4, <1>5

\* Every step of a request, from accept to bridge, keeps the types.
LEMMA TypeRequest ==
  ASSUME TypeOK, NEW r \in Requests, Request(r)
  PROVE  TypeOK'
PROOF
<1> USE DEF TypeOK, SrvState, ReqPC, clientVars
<1>0. IdleReq \in [pc : ReqPC, ctl : Conns \cup {NoConn},
                   conn : Conns \cup {NoConn}]
  BY DEF IdleReq
<1>1. CASE RequestArrives(r)
  <2>1. req' \in [Requests -> [pc : ReqPC, ctl : Conns \cup {NoConn},
                               conn : Conns \cup {NoConn}]]
    <3>1. req' = [req EXCEPT ![r].pc = "poll"] BY <1>1 DEF RequestArrives
    <3>2. QED BY <3>1, ReqTypes
  <2>2. UNCHANGED <<up, control, mutex, workers, srv, mon, owner, dials, cli,
                    cl, tgt, c2s, s2c, faults>>
    BY <1>1 DEF RequestArrives
  <2>3. QED BY <2>1, <2>2
<1>2. CASE SeeControl(r)
  <2>1. req' \in [Requests -> [pc : ReqPC, ctl : Conns \cup {NoConn},
                               conn : Conns \cup {NoConn}]]
    <3>1. req' = [req EXCEPT ![r].pc = "signal", ![r].ctl = control]
      BY <1>2 DEF SeeControl
    <3>2. QED BY <3>1, ReqTypes
  <2>2. UNCHANGED <<up, control, mutex, workers, srv, mon, owner, dials, cli,
                    cl, tgt, c2s, s2c, faults>>
    BY <1>2 DEF SeeControl
  <2>3. QED BY <2>1, <2>2
<1>3. CASE SendChannel(r)
  <2> DEFINE c == req[r].ctl
  <2>1. CASE /\ ToClient(c, Signal("Channel"))
             /\ req' = [req EXCEPT ![r].pc = "take", ![r].ctl = NoConn]
             /\ UNCHANGED <<control, srv, c2s>>
    <3>1. s2c' \in [Conns -> Seq(Message)]
      BY <2>1, WriteTypes, MessageTypes DEF Signals
    <3>2. req' \in [Requests -> [pc : ReqPC, ctl : Conns \cup {NoConn},
                                 conn : Conns \cup {NoConn}]]
      BY <2>1, ReqTypes
    <3>3. UNCHANGED <<up, mutex, workers, mon, clientVars, faults>>
      BY <1>3 DEF SendChannel
    <3>4. QED BY <2>1, <3>1, <3>2, <3>3
  <2>2. CASE ClearControl(c) /\ req' = [req EXCEPT ![r] = IdleReq]
               /\ UNCHANGED s2c
    <3>1. srv' \in [Conns -> SrvState] /\ c2s' \in [Conns -> Seq(Message)]
      BY <2>2, CloseTypes DEF ClearControl
    <3>2. control' \in Conns \cup {NoConn}
      BY <2>2 DEF ClearControl, ControlWithout
    <3>3. QED BY <1>3, <1>0, <2>2, <3>1, <3>2 DEF SendChannel
  <2>3. QED BY <1>3, <2>1, <2>2 DEF SendChannel
<1>4. CASE TakeWorker(r)
  <2>1. Head(workers) \in Conns /\ workers' \in Seq(Conns)
    BY <1>4, HeadTailProperties DEF TakeWorker, WorkersLeft
  <2>2. Len(workers') <= WorkersCap
    BY <1>4, HeadTailProperties, LenProperties, BoundsAssumption
    DEF TakeWorker, WorkersLeft
  <2>3. req' \in [Requests -> [pc : ReqPC, ctl : Conns \cup {NoConn},
                               conn : Conns \cup {NoConn}]]
    <3>1. req' = [req EXCEPT ![r].pc = "target", ![r].conn = Head(workers)]
      BY <1>4 DEF TakeWorker
    <3>2. QED BY <2>1, <3>1, ReqTypes DEF ReqPC
  <2>4. srv' \in [Conns -> SrvState]
    <3>1. srv' = [srv EXCEPT ![Head(workers)] = "taken"]
      BY <1>4 DEF TakeWorker
    <3>2. QED BY <2>1, <3>1
  <2>5. UNCHANGED <<up, control, mutex, mon, clientVars, c2s, s2c, faults>>
    BY <1>4 DEF TakeWorker
  <2>6. QED BY <2>1, <2>2, <2>3, <2>4, <2>5
<1>5. CASE SendTarget(r)
  <2> DEFINE c == req[r].conn
  <2>1. CASE /\ ToClient(c, Target(r))
             /\ req' = [req EXCEPT ![r].pc = "bridge"]
             /\ UNCHANGED <<srv, c2s>>
    <3>1. s2c' \in [Conns -> Seq(Message)]
      BY <2>1, WriteTypes, MessageTypes
    <3>2. req' \in [Requests -> [pc : ReqPC, ctl : Conns \cup {NoConn},
                                 conn : Conns \cup {NoConn}]]
      BY <2>1, ReqTypes
    <3>3. UNCHANGED <<up, control, mutex, workers, mon, clientVars, faults>>
      BY <1>5 DEF SendTarget
    <3>4. QED BY <2>1, <3>1, <3>2, <3>3
  <2>2. CASE ServerCloses(c) /\ req' = [req EXCEPT ![r] = IdleReq]
               /\ UNCHANGED s2c
    <3>1. srv' \in [Conns -> SrvState] /\ c2s' \in [Conns -> Seq(Message)]
      BY <2>2, CloseTypes
    <3>2. QED BY <1>5, <1>0, <2>2, <3>1 DEF SendTarget
  <2>3. QED BY <1>5, <2>1, <2>2 DEF SendTarget
<1>6. CASE RequestTimeout(r) BY <1>6, <1>0 DEF RequestTimeout
<1>7. CASE BridgeEnd(r)
  <2>1. srv' \in [Conns -> SrvState] /\ c2s' \in [Conns -> Seq(Message)]
    BY <1>7, CloseTypes DEF BridgeEnd
  <2>2. QED BY <1>7, <1>0, <2>1 DEF BridgeEnd
<1>8. QED BY <1>1, <1>2, <1>3, <1>4, <1>5, <1>6, <1>7 DEF Request

\* A process that ends, or a connection its client closes, keeps every type.
LEMMA ClientCloseTypes ==
  ASSUME TypeOK, NEW c, ClientCloses(c)
  PROVE  /\ cl' \in [Conns -> ClState]
         /\ tgt' \in [Conns -> Requests \cup {NoReq}]
         /\ s2c' \in [Conns -> Seq(Message)]
PROOF
<1>1. <<>> \in Seq(Message) OBVIOUS
<1>2. QED BY <1>1 DEF TypeOK, ClientCloses, ClState

\* So does the exit of the client process, which closes all its connections.
LEMMA ProcessExitTypes ==
  ASSUME TypeOK, NEW k \in Clients, ProcessExit(k), faults' \in 0..MaxFaults
  PROVE  TypeOK'
PROOF
<1>1. <<>> \in Seq(Message) OBVIOUS
<1>2. s2c' \in [Conns -> Seq(Message)] BY <1>1 DEF TypeOK, ProcessExit
<1>3. QED BY <1>2 DEF TypeOK, ProcessExit, ClState, ClientAtDial, serverVars

\* A dial sets up both ends of a connection that nobody uses.
LEMMA DialTypes ==
  ASSUME TypeOK, NEW k \in Clients, NEW c \in Conns,
         NEW use \in {"control", "worker"}, NEW sent \in Seq(Message),
         Dial(k, c, use, sent)
  PROVE  /\ srv' \in [Conns -> SrvState]
         /\ cl' \in [Conns -> ClState]
         /\ owner' \in [Conns -> Clients]
         /\ tgt' = tgt /\ s2c' = s2c
         /\ c2s' \in [Conns -> Seq(Message)]
PROOF BY DEF TypeOK, Dial, SrvState, ClState

\* A fault stays within its bound.
LEMMA FaultType == ASSUME TypeOK, Fault PROVE faults' \in 0..MaxFaults
PROOF BY BoundsAssumption DEF TypeOK, Fault

\* Every step of the client's control loop keeps the types.
LEMMA TypeClient ==
  ASSUME TypeOK, NEW k \in Clients, Client(k)
  PROVE  TypeOK'
PROOF
<1> USE DEF TypeOK, serverVars, clientVars
<1>0. ClientAtDial \in [pc : {"dial", "hello", "run"},
                        conn : Conns \cup {NoConn}]
  BY DEF ClientAtDial
<1>1. ASSUME GiveUpHello(k), faults' \in 0..MaxFaults PROVE TypeOK'
  <2>1. /\ cl' \in [Conns -> ClState]
        /\ tgt' \in [Conns -> Requests \cup {NoReq}]
        /\ s2c' \in [Conns -> Seq(Message)]
    BY <1>1, ClientCloseTypes DEF GiveUpHello
  <2>2. QED BY <1>0, <1>1, <2>1 DEF GiveUpHello
<1>2. ASSUME WorkerReturn(k), faults' \in 0..MaxFaults PROVE TypeOK'
  <2>1. dials' \in [Clients -> Nat] BY <1>2 DEF WorkerReturn
  <2>2. UNCHANGED <<up, control, mutex, workers, srv, mon, req, cli, owner, cl,
                    tgt, c2s, s2c>>
    BY <1>2 DEF WorkerReturn
  <2>3. QED BY <1>2, <2>1, <2>2
<1>3. ASSUME NEW c \in Conns, ClientDial(k, c) PROVE TypeOK'
  <2>1. <<Signal("Hello")>> \in Seq(Message) BY MessageTypes DEF Signals
  <2>2. /\ srv' \in [Conns -> SrvState]
        /\ cl' \in [Conns -> ClState]
        /\ owner' \in [Conns -> Clients]
        /\ tgt' = tgt /\ s2c' = s2c
        /\ c2s' \in [Conns -> Seq(Message)]
    BY <1>3, <2>1, DialTypes DEF ClientDial
  <2>3. cli' \in [Clients -> [pc : {"dial", "hello", "run"},
                              conn : Conns \cup {NoConn}]]
    BY <1>3 DEF ClientDial
  <2>4. UNCHANGED <<up, control, mutex, workers, mon, req, dials, faults>>
    BY <1>3 DEF ClientDial
  <2>5. QED BY <2>2, <2>3, <2>4
<1>4. CASE ClientWelcome(k)
  <2>1. s2c' \in [Conns -> Seq(Message)]
    BY <1>4, QueueTypes DEF ClientWelcome, Replied
  <2>2. dials' \in [Clients -> Nat]
    BY <1>4, BoundsAssumption DEF ClientWelcome
  <2>3. cli' \in [Clients -> [pc : {"dial", "hello", "run"},
                              conn : Conns \cup {NoConn}]]
    BY <1>4 DEF ClientWelcome
  <2>4. UNCHANGED <<serverVars, owner, cl, tgt, c2s, faults>>
    BY <1>4 DEF ClientWelcome
  <2>5. QED BY <2>1, <2>2, <2>3, <2>4
<1>5. CASE ClientRetry(k) BY <1>1, <1>5 DEF ClientRetry
<1>6. CASE HelloTimeout(k) BY <1>1, <1>6, FaultType DEF HelloTimeout
<1>7. CASE ClientSignal(k)
  <2> DEFINE c == cli[k].conn
  <2>1. s2c' \in [Conns -> Seq(Message)]
    <3>1. s2c[c] # <<>> /\ s2c' = [s2c EXCEPT ![c] = Tail(@)]
      BY <1>7 DEF ClientSignal
    <3>2. QED BY <3>1, QueueTypes
  <2>2. c2s' \in [Conns -> Seq(Message)]
    <3>1. CASE c \in Conns
      <4>1. Head(s2c[c]) \in Message BY <1>7, <3>1, QueueTypes DEF ClientSignal
      <4>2. QED BY <1>7, <4>1, WriteTypes DEF ClientSignal
    <3>2. CASE c \notin Conns
      BY <1>7, <3>2 DEF ClientSignal, ToServer
    <3>3. QED BY <3>1, <3>2
  <2>3. dials' \in [Clients -> Nat] BY <1>7 DEF ClientSignal
  <2>4. QED BY <1>7, <2>1, <2>2, <2>3 DEF ClientSignal
<1>8. CASE ClientReturn(k) BY <1>8, ProcessExitTypes DEF ClientReturn
<1>9. CASE ClientCrash(k)
  BY <1>9, ProcessExitTypes, FaultType DEF ClientCrash
<1>10. ASSUME NEW c \in Conns, WorkerDial(k, c) PROVE TypeOK'
  <2>0. <<>> \in Seq(Message) OBVIOUS
  <2>1. /\ srv' \in [Conns -> SrvState]
        /\ cl' \in [Conns -> ClState]
        /\ owner' \in [Conns -> Clients]
        /\ tgt' = tgt /\ s2c' = s2c
        /\ c2s' \in [Conns -> Seq(Message)]
    BY <1>10, <2>0, DialTypes DEF WorkerDial
  <2>2. dials' \in [Clients -> Nat] BY <1>10 DEF WorkerDial
  <2>3. QED BY <1>10, <2>1, <2>2 DEF WorkerDial
<1>11. CASE WorkerRefused(k) BY <1>2, <1>11 DEF WorkerRefused
<1>12. CASE WorkerDialFails(k) BY <1>2, <1>12, FaultType DEF WorkerDialFails
<1>13. QED BY <1>3, <1>4, <1>5, <1>6, <1>7, <1>8, <1>9, <1>10, <1>11, <1>12
       DEF Client

\* Every step of a worker's goroutine keeps the types.
LEMMA TypeWorker ==
  ASSUME TypeOK, NEW c \in Conns, Worker(c)
  PROVE  TypeOK'
PROOF
<1> USE DEF TypeOK, serverVars
<1>1. CASE WorkerTarget(c)
  <2>1. CASE /\ cl' = [cl EXCEPT ![c] = "serving"]
             /\ tgt' = [tgt EXCEPT ![c] = Head(s2c[c]).to]
             /\ s2c' = [s2c EXCEPT ![c] = Tail(@)]
    <3>1. Head(s2c[c]) \in Message /\ Tail(s2c[c]) \in Seq(Message)
      BY <1>1, QueueTypes DEF WorkerTarget
    <3>2. QED BY <1>1, <2>1, <3>1 DEF WorkerTarget, Message, ClState
  <2>2. CASE ClientCloses(c)
    BY <1>1, <2>2, ClientCloseTypes DEF WorkerTarget
  <2>3. QED BY <1>1, <2>1, <2>2 DEF WorkerTarget
<1>2. CASE WorkerLost(c) BY <1>2, ClientCloseTypes DEF WorkerLost
<1>3. CASE UpstreamEnds(c) BY <1>3, ClientCloseTypes DEF UpstreamEnds
<1>4. QED BY <1>1, <1>2, <1>3 DEF Worker

\* Stopping and starting the server keeps the types.
LEMMA TypeServer == ASSUME TypeOK, Server PROVE TypeOK'
PROOF
<1> USE DEF TypeOK, clientVars
<1>1. CASE ServerStop BY <1>1, FaultType DEF ServerStop
<1>2. CASE CloseControlOnStop
  <2>1. srv' \in [Conns -> SrvState] /\ c2s' \in [Conns -> Seq(Message)]
    BY <1>2, CloseTypes DEF CloseControlOnStop
  <2>2. QED BY <1>2, <2>1 DEF CloseControlOnStop
<1>3. CASE ServerRestart
  <2>1. <<>> \in Seq(Message) /\ <<>> \in Seq(Conns) /\ Len(<<>>) <= WorkersCap
    BY BoundsAssumption
  <2>2. faults' \in 0..MaxFaults BY <1>3, FaultType DEF ServerRestart
  <2>3. QED BY <1>3, <2>1, <2>2 DEF ServerRestart, SrvState, IdleReq, ReqPC
<1>4. QED BY <1>1, <1>2, <1>3 DEF Server

\* No step of the system breaks a type.
LEMMA TypeNext == TypeOK /\ [Next]_vars => TypeOK'
PROOF
<1>1. CASE UNCHANGED vars BY <1>1 DEF TypeOK, vars
<1>2. ASSUME TypeOK, Next PROVE TypeOK'
  BY <1>2, TypeHandshake, TypeMonitor, TypeRequest, TypeClient, TypeWorker,
     TypeServer DEF Next
<1>3. QED BY <1>1, <1>2

\* Every variable keeps its type in every behaviour; in particular the pool of
\* workers never holds more than the capacity of its channel.
THEOREM TypeCorrect == Spec => []TypeOK
PROOF BY TypeInit, TypeNext, PTL DEF Spec

-----------------------------------------------------------------------------
(***************************************************************************)
(* The inductive invariant behind the safety properties.  None of them is  *)
(* inductive alone: that a pooled connection is held by nobody needs the   *)
(* server-side state of the connection to tell pooled, handed out and      *)
(* closed apart, that no goroutine closes or reuses a connection another   *)
(* one owns needs what monitors and requests may still refer to.           *)
(***************************************************************************)

ControlOrClosed == {"control", "closed"}

\* What is pooled is pooled once and is in no other goroutine's hands.
PoolInv ==
  /\ \A i, j \in 1..Len(workers) : workers[i] = workers[j] => i = j
  /\ \A i \in 1..Len(workers) :
       workers[i] \in Conns /\ srv[workers[i]] = "queued"

\* What a request holds was handed out, to that request only.
HeldInv ==
  /\ \A r \in Requests : Holding(r) =>
       req[r].conn \in Conns /\ srv[req[r].conn] = "taken"
  /\ \A r, q \in Requests :
       Holding(r) /\ Holding(q) /\ req[r].conn = req[q].conn => r = q

\* Whoever may clear a control channel refers to one that is, or was, installed.
ControlInv ==
  /\ control # NoConn =>
       srv[control] \in ControlOrClosed /\ mon[control] # "off"
  /\ \A c \in Conns : srv[c] = "control" => control = c
  /\ \A c \in Conns : mon[c] # "off" => srv[c] \in ControlOrClosed
  /\ \A r \in Requests : req[r].pc = "signal" =>
       req[r].ctl \in Conns /\ srv[req[r].ctl] \in ControlOrClosed

\* A handshake that reads or has answered a Hello holds handshakeMu, and no
\* control channel is installed meanwhile.
HandshakeInv ==
  \A c \in Conns : srv[c] \in {"read", "welcome"} =>
    mutex = c /\ control = NoConn

Owned == PoolInv /\ HeldInv /\ ControlInv /\ HandshakeInv

IInv == TypeOK /\ Owned

\* Nothing is owned when the server and the clients start.
LEMMA OwnedInit == Init => Owned
PROOF BY DEF Init, Owned, PoolInv, HeldInv, ControlInv, HandshakeInv, Holding,
             IdleReq

\* The variables Owned is about.
LEMMA OwnedUnchanged ==
  ASSUME Owned, UNCHANGED <<control, mutex, workers, srv, mon, req>>
  PROVE  Owned'
PROOF BY DEF Owned, PoolInv, HeldInv, ControlInv, HandshakeInv, Holding

\* What the proofs below need of TypeOK.
LEMMA OwnedTypes ==
  ASSUME TypeOK
  PROVE  /\ control \in Conns \cup {NoConn}
         /\ NoConn \notin Conns
         /\ workers \in Seq(Conns)
         /\ Len(workers) \in Nat
         /\ srv \in [Conns -> SrvState]
         /\ mon \in [Conns -> {"off", "start", "run"}]
         /\ req \in [Requests -> [pc : ReqPC, ctl : Conns \cup {NoConn},
                                  conn : Conns \cup {NoConn}]]
PROOF BY NilAssumption, LenProperties DEF TypeOK

\* handleControlHandshake hands a connection over without leaving a second owner.
LEMMA OwnedHandshake ==
  ASSUME TypeOK, Owned, NEW c \in Conns, Handshake(c)
  PROVE  Owned'
PROOF
<1> USE OwnedTypes DEF Owned, ControlOrClosed, Holding
<1>1. CASE HandleAccepted(c)
  <2> USE <1>1 DEF HandleAccepted
  <2>1. PoolInv' BY DEF PoolInv
  <2>2. HeldInv' BY DEF HeldInv
  <2>3. ControlInv' BY DEF ControlInv
  <2>4. HandshakeInv' BY DEF HandshakeInv
  <2>5. QED BY <2>1, <2>2, <2>3, <2>4
<1>2. CASE LockHandshake(c)
  <2> USE <1>2 DEF LockHandshake, Recheck, MutexFree
  <2>1. PoolInv' BY DEF PoolInv
  <2>2. HeldInv' BY DEF HeldInv
  <2>3. ControlInv' BY DEF ControlInv
  <2>4. HandshakeInv' BY DEF HandshakeInv
  <2>5. QED BY <2>1, <2>2, <2>3, <2>4
<1>3. CASE ReadHello(c)
  <2> USE <1>3 DEF ReadHello
  <2>1. PoolInv' BY DEF PoolInv
  <2>2. HeldInv' BY DEF HeldInv
  <2>3. ControlInv' BY DEF ControlInv
  <2>4. HandshakeInv' BY DEF HandshakeInv
  <2>5. QED BY <2>1, <2>2, <2>3, <2>4
<1>4. CASE RejectHello(c)
  <2> USE <1>4 DEF RejectHello, ServerCloses, Unlocked
  <2>1. PoolInv' BY DEF PoolInv
  <2>2. HeldInv' BY DEF HeldInv
  <2>3. ControlInv' BY DEF ControlInv
  <2>4. HandshakeInv' BY DEF HandshakeInv
  <2>5. QED BY <2>1, <2>2, <2>3, <2>4
<1>5. CASE InstallControl(c)
  <2>0. control = NoConn /\ mutex = c
    BY <1>5 DEF InstallControl, HandshakeInv
  <2> USE <1>5, <2>0 DEF InstallControl
  <2>1. PoolInv' BY DEF PoolInv
  <2>2. HeldInv' BY DEF HeldInv
  <2>3. ControlInv' BY DEF ControlInv
  <2>4. HandshakeInv' BY DEF HandshakeInv
  <2>5. QED BY <2>1, <2>2, <2>3, <2>4
<1>6. CASE Enqueue(c)
  <2> USE <1>6 DEF Enqueue, ServerCloses
  <2>1. PoolInv'
    <3>1. CASE UNCHANGED workers BY <3>1 DEF PoolInv
    <3>2. CASE workers' = Append(workers, c) /\ srv' = [srv EXCEPT ![c] = "queued"]
      <4>1. /\ Len(workers') = Len(workers) + 1
            /\ \A i \in 1..Len(workers) : workers'[i] = workers[i]
            /\ workers'[Len(workers) + 1] = c
        BY <3>2, AppendProperties
      <4>2. \A i \in 1..Len(workers) : workers[i] # c BY DEF PoolInv
      <4>3. \A i \in 1..Len(workers') :
              i \in 1..Len(workers) \/ i = Len(workers) + 1
        BY <4>1
      <4>4. QED BY <3>2, <4>1, <4>2, <4>3 DEF PoolInv
    <3>3. QED BY <3>1, <3>2
  <2>2. HeldInv' BY DEF HeldInv
  <2>3. ControlInv' BY DEF ControlInv
  <2>4. HandshakeInv' BY DEF HandshakeInv
  <2>5. QED BY <2>1, <2>2, <2>3, <2>4
<1>7. QED BY <1>1, <1>2, <1>3, <1>4, <1>5, <1>6 DEF Handshake

\* Clearing a control channel touches no pooled or held connection: what is
\* closed is, or was, a control channel.
LEMMA OwnedClear ==
  ASSUME TypeOK, Owned, NEW c \in Conns, ClearControl(c),
         srv[c] \in ControlOrClosed,
         mon' = mon \/ mon' = [mon EXCEPT ![c] = "off"],
         NEW r \in Requests,
         req' = req \/ req' = [req EXCEPT ![r] = IdleReq],
         UNCHANGED <<mutex, workers>>
  PROVE  Owned'
PROOF
<1> USE OwnedTypes DEF Owned, ControlOrClosed, Holding, ClearControl,
        ControlWithout, ServerCloses, IdleReq
<1>1. PoolInv' BY DEF PoolInv
<1>2. HeldInv' BY DEF HeldInv
<1>3. ControlInv' BY DEF ControlInv
<1>4. HandshakeInv' BY DEF HandshakeInv
<1>5. QED BY <1>1, <1>2, <1>3, <1>4

\* monitorControl gives up only the control channel it watches.
LEMMA OwnedMonitor ==
  ASSUME TypeOK, Owned, NEW c \in Conns, Monitor(c)
  PROVE  Owned'
PROOF
<1> USE OwnedTypes DEF Owned
<1>1. CASE MonitorStart(c)
  <2> USE <1>1 DEF MonitorStart, ControlOrClosed, Holding
  <2>1. PoolInv' BY DEF PoolInv
  <2>2. HeldInv' BY DEF HeldInv
  <2>3. ControlInv' BY DEF ControlInv
  <2>4. HandshakeInv' BY DEF HandshakeInv
  <2>5. QED BY <2>1, <2>2, <2>3, <2>4
<1>2. CASE MonitorPing(c)
  BY <1>2, OwnedUnchanged DEF MonitorPing, serverVars
<1>3. CASE MonitorEcho(c)
  BY <1>3, OwnedUnchanged DEF MonitorEcho, serverVars
<1>4. ASSUME mon[c] = "run", MonitorReturn(c) PROVE Owned'
  <2>1. srv[c] \in ControlOrClosed BY <1>4 DEF ControlInv
  <2> USE <1>4, <2>1 DEF MonitorReturn, ControlOrClosed, Holding, ClearControl,
                         ControlWithout, ServerCloses
  <2>2. PoolInv' BY DEF PoolInv
  <2>3. HeldInv' BY DEF HeldInv
  <2>4. ControlInv' BY DEF ControlInv
  <2>5. HandshakeInv' BY DEF HandshakeInv
  <2>6. QED BY <2>2, <2>3, <2>4, <2>5
<1>5. CASE MonitorLost(c) BY <1>4, <1>5 DEF MonitorLost
<1>6. CASE MonitorShutdown(c) BY <1>4, <1>6 DEF MonitorShutdown
<1>7. CASE MonitorTimeout(c) BY <1>4, <1>7 DEF MonitorTimeout
<1>8. QED BY <1>1, <1>2, <1>3, <1>5, <1>6, <1>7 DEF Monitor

\* acquireWorker moves a worker from the channel to one request.
LEMMA OwnedRequest ==
  ASSUME TypeOK, Owned, NEW r \in Requests, Request(r)
  PROVE  Owned'
PROOF
<1> USE OwnedTypes DEF Owned, ControlOrClosed, Holding
<1>1. CASE RequestArrives(r)
  <2> USE <1>1 DEF RequestArrives
  <2>1. PoolInv' BY DEF PoolInv
  <2>2. HeldInv' BY DEF HeldInv
  <2>3. ControlInv' BY DEF ControlInv
  <2>4. HandshakeInv' BY DEF HandshakeInv
  <2>5. QED BY <2>1, <2>2, <2>3, <2>4
<1>2. CASE SeeControl(r)
  <2> USE <1>2 DEF SeeControl
  <2>1. PoolInv' BY DEF PoolInv
  <2>2. HeldInv' BY DEF HeldInv
  <2>3. ControlInv' BY DEF ControlInv
  <2>4. HandshakeInv' BY DEF HandshakeInv
  <2>5. QED BY <2>1, <2>2, <2>3, <2>4
<1>3. CASE SendChannel(r)
  <2> DEFINE c == req[r].ctl
  <2>1. CASE req' = [req EXCEPT ![r].pc = "take", ![r].ctl = NoConn]
             /\ UNCHANGED <<control, srv, c2s>>
    <3> USE <1>3, <2>1 DEF SendChannel
    <3>1. PoolInv' BY DEF PoolInv
    <3>2. HeldInv' BY DEF HeldInv
    <3>3. ControlInv' BY DEF ControlInv
    <3>4. HandshakeInv' BY DEF HandshakeInv
    <3>5. QED BY <3>1, <3>2, <3>3, <3>4
  <2>2. CASE ClearControl(c) /\ req' = [req EXCEPT ![r] = IdleReq]
    <3>1. c \in Conns /\ srv[c] \in ControlOrClosed
      BY <1>3 DEF SendChannel, ControlInv
    <3>2. UNCHANGED <<mutex, workers, mon>> BY <1>3 DEF SendChannel
    <3>3. QED BY <2>2, <3>1, <3>2, OwnedClear
  <2>3. QED BY <1>3, <2>1, <2>2 DEF SendChannel
<1>4. CASE TakeWorker(r)
  <2> DEFINE w == Head(workers)
  <2>1. /\ w = workers[1] /\ Len(workers) >= 1
        /\ Len(workers') = Len(workers) - 1
        /\ \A i \in 1..Len(workers') : workers'[i] = workers[i + 1]
    BY <1>4, HeadTailProperties, EmptySeq DEF TakeWorker, WorkersLeft
  <2>2. w \in Conns /\ srv[w] = "queued" BY <2>1 DEF PoolInv
  <2>3. srv' = [srv EXCEPT ![w] = "taken"] BY <1>4 DEF TakeWorker
  <2>4. PoolInv'
    <3>1. \A i \in 1..Len(workers') : i + 1 \in 1..Len(workers) BY <2>1
    <3>2. \A i \in 1..Len(workers') : workers'[i] # w
      BY <2>1, <3>1 DEF PoolInv
    <3>3. QED BY <2>1, <2>3, <3>1, <3>2 DEF PoolInv
  <2>5. req' = [req EXCEPT ![r].pc = "target", ![r].conn = w]
        /\ req[r].pc = "take" /\ UNCHANGED <<control, mutex, mon>>
    BY <1>4 DEF TakeWorker
  <2>6. HeldInv' BY <2>2, <2>3, <2>5 DEF HeldInv
  <2>7. ControlInv' BY <2>2, <2>3, <2>5 DEF ControlInv
  <2>8. HandshakeInv' BY <2>2, <2>3, <2>5 DEF HandshakeInv
  <2>9. QED BY <2>4, <2>6, <2>7, <2>8
<1>5. CASE SendTarget(r)
  <2>0. req[r].conn \in Conns /\ srv[req[r].conn] = "taken"
    BY <1>5 DEF SendTarget, HeldInv
  <2> USE <1>5, <2>0 DEF SendTarget, ServerCloses, IdleReq
  <2>1. PoolInv' BY DEF PoolInv
  <2>2. HeldInv' BY DEF HeldInv
  <2>3. ControlInv' BY DEF ControlInv
  <2>4. HandshakeInv' BY DEF HandshakeInv
  <2>5. QED BY <2>1, <2>2, <2>3, <2>4
<1>6. CASE RequestTimeout(r)
  <2> USE <1>6 DEF RequestTimeout, IdleReq
  <2>1. PoolInv' BY DEF PoolInv
  <2>2. HeldInv' BY DEF HeldInv
  <2>3. ControlInv' BY DEF ControlInv
  <2>4. HandshakeInv' BY DEF HandshakeInv
  <2>5. QED BY <2>1, <2>2, <2>3, <2>4
<1>7. CASE BridgeEnd(r)
  <2>0. req[r].conn \in Conns /\ srv[req[r].conn] = "taken"
    BY <1>7 DEF BridgeEnd, HeldInv
  <2> USE <1>7, <2>0 DEF BridgeEnd, ServerCloses, IdleReq
  <2>1. PoolInv' BY DEF PoolInv
  <2>2. HeldInv' BY DEF HeldInv
  <2>3. ControlInv' BY DEF ControlInv
  <2>4. HandshakeInv' BY DEF HandshakeInv
  <2>5. QED BY <2>1, <2>2, <2>3, <2>4
<1>8. QED BY <1>1, <1>2, <1>3, <1>4, <1>5, <1>6, <1>7 DEF Request

\* A connection that is dialed again has no owner left.
LEMMA OwnedDial ==
  ASSUME TypeOK, Owned, NEW k \in Clients, NEW c \in Conns, NEW use, NEW sent,
         Dial(k, c, use, sent), UNCHANGED <<control, mutex, workers, mon, req>>
  PROVE  Owned'
PROOF
<1> USE OwnedTypes DEF Owned, ControlOrClosed, Holding, Dial, Reusable
<1>1. PoolInv' BY DEF PoolInv
<1>2. HeldInv' BY DEF HeldInv
<1>3. ControlInv' BY DEF ControlInv
<1>4. HandshakeInv' BY DEF HandshakeInv
<1>5. QED BY <1>1, <1>2, <1>3, <1>4

\* The client's control loop leaves the server's ownership alone.
LEMMA OwnedClient ==
  ASSUME TypeOK, Owned, NEW k \in Clients, Client(k)
  PROVE  Owned'
PROOF
<1>1. ASSUME NEW c \in Conns, ClientDial(k, c) PROVE Owned'
  BY <1>1, OwnedDial DEF ClientDial
<1>2. ASSUME NEW c \in Conns, WorkerDial(k, c) PROVE Owned'
  BY <1>2, OwnedDial DEF WorkerDial
<1>3. ASSUME UNCHANGED serverVars PROVE Owned'
  BY <1>3, OwnedUnchanged DEF serverVars
<1>4. CASE ClientWelcome(k) BY <1>3, <1>4 DEF ClientWelcome
<1>5. CASE ClientRetry(k) BY <1>3, <1>5 DEF ClientRetry, GiveUpHello
<1>6. CASE HelloTimeout(k) BY <1>3, <1>6 DEF HelloTimeout, GiveUpHello
<1>7. CASE ClientSignal(k) BY <1>3, <1>7 DEF ClientSignal
<1>8. CASE ClientReturn(k) BY <1>3, <1>8 DEF ClientReturn, ProcessExit
<1>9. CASE ClientCrash(k) BY <1>3, <1>9 DEF ClientCrash, ProcessExit
<1>10. CASE WorkerRefused(k) BY <1>3, <1>10 DEF WorkerRefused, WorkerReturn
<1>11. CASE WorkerDialFails(k) BY <1>3, <1>11 DEF WorkerDialFails, WorkerReturn
<1>12. QED BY <1>1, <1>2, <1>4, <1>5, <1>6, <1>7, <1>8, <1>9, <1>10, <1>11
       DEF Client

\* So do the worker goroutines.
LEMMA OwnedWorker ==
  ASSUME TypeOK, Owned, NEW c \in Conns, Worker(c)
  PROVE  Owned'
PROOF BY OwnedUnchanged
  DEF Worker, WorkerTarget, WorkerLost, UpstreamEnds, serverVars

\* Stopping the server closes the control channel it owns; a restart owns nothing.
LEMMA OwnedServer == ASSUME TypeOK, Owned, Server PROVE Owned'
PROOF
<1> USE OwnedTypes DEF Owned, ControlOrClosed, Holding
<1>1. CASE ServerStop BY <1>1, OwnedUnchanged DEF ServerStop
<1>2. CASE CloseControlOnStop
  <2>0. control \in Conns /\ srv[control] \in ControlOrClosed
    BY <1>2 DEF CloseControlOnStop, ControlInv
  <2> USE <1>2, <2>0 DEF CloseControlOnStop, ServerCloses
  <2>1. PoolInv' BY DEF PoolInv
  <2>2. HeldInv' BY DEF HeldInv
  <2>3. ControlInv' BY DEF ControlInv
  <2>4. HandshakeInv' BY DEF HandshakeInv
  <2>5. QED BY <2>1, <2>2, <2>3, <2>4
<1>3. CASE ServerRestart
  <2>1. /\ Len(workers') = 0
        /\ control' = NoConn
        /\ srv' = [c \in Conns |-> "closed"]
        /\ mon' = [c \in Conns |-> "off"]
        /\ \A r \in Requests : req'[r].pc = "idle"
    BY <1>3 DEF ServerRestart, IdleReq
  <2>2. PoolInv' BY <2>1 DEF PoolInv
  <2>3. HeldInv' BY <2>1 DEF HeldInv
  <2>4. ControlInv' BY <2>1 DEF ControlInv
  <2>5. HandshakeInv' BY <2>1 DEF HandshakeInv
  <2>6. QED BY <2>2, <2>3, <2>4, <2>5
<1>4. QED BY <1>1, <1>2, <1>3 DEF Server

\* The invariant is inductive: each goroutine's steps keep it.
LEMMA InductiveNext == IInv /\ [Next]_vars => IInv'
PROOF
<1>1. CASE UNCHANGED vars
  BY <1>1, OwnedUnchanged, TypeNext DEF IInv, vars
<1>2. ASSUME IInv, Next PROVE Owned'
  BY <1>2, OwnedHandshake, OwnedMonitor, OwnedRequest, OwnedClient, OwnedWorker,
     OwnedServer DEF Next, IInv
<1>3. QED BY <1>1, <1>2, TypeNext DEF IInv

\* In every reachable state each connection has one owner: the handshake, the
\* monitor, the workers channel or one request (handleAccepted, setControl, acquireWorker).
THEOREM Inductive == Spec => []IInv
PROOF
<1>1. Init => IInv BY TypeInit, OwnedInit DEF IInv
<1>2. QED BY <1>1, InductiveNext, PTL DEF Spec

\* A pooled worker connection is handed to one request only, whatever control
\* channels come and go (the workers channel and acquireWorker).
THEOREM WorkersHeldOnce == Spec => []WorkerHeldOnce
PROOF
<1>1. IInv => WorkerHeldOnce
  BY OwnedTypes
  DEF IInv, Owned, PoolInv, HeldInv, WorkerHeldOnce, Queued, Holding
<1>2. QED BY <1>1, Inductive, PTL

\* The server never forgets an open control connection and never keeps one that
\* no monitor watches (setControl, clearControl and monitorControl).
THEOREM ControlsTracked == Spec => []ControlTracked
PROOF
<1>1. IInv => ControlTracked BY DEF IInv, Owned, ControlInv, ControlTracked
<1>2. QED BY <1>1, Inductive, PTL

\* A client is never welcomed on a connection that is then pooled as a worker:
\* setControl cannot fail after the reply (handshakeMu and the second look-up).
THEOREM WelcomesKept == Spec => []WelcomeIsKept
PROOF
<1>1. IInv => WelcomeIsKept BY DEF IInv, Owned, HandshakeInv, WelcomeIsKept
<1>2. QED BY <1>1, Inductive, PTL

-----------------------------------------------------------------------------
(* The workers channel and acquireWorker as a hand-off. *)

\* The connection each request was handed, as WorkerHandoff has it.
HeldBy == [r \in Requests |-> IF Holding(r) THEN req[r].conn ELSE NoConn]

\* A request whose program counter and connection change is handed, or gives
\* back, what they say.
LEMMA HeldByStep ==
  ASSUME TypeOK, NEW r \in Requests, NEW n, NEW p,
         \A q \in Requests : q # r => req'[q] = req[q],
         req'[r].pc = p, req'[r].conn = n
  PROVE  HeldBy' = [HeldBy EXCEPT ![r] = IF p \in {"target", "bridge"} THEN n ELSE NoConn]
PROOF
<1> DEFINE h(x) == IF x.pc \in {"target", "bridge"} THEN x.conn ELSE NoConn
<1>1. HeldBy = [q \in Requests |-> h(req[q])] BY DEF HeldBy, Holding
<1>2. HeldBy' = [q \in Requests |-> h(req'[q])] BY DEF HeldBy, Holding
<1>3. \A q \in Requests : q # r => h(req'[q]) = h(req[q]) OBVIOUS
<1>4. h(req'[r]) = IF p \in {"target", "bridge"} THEN n ELSE NoConn OBVIOUS
<1> HIDE DEF h
<1>5. QED BY <1>1, <1>2, <1>3, <1>4

\* A request that neither receives nor releases a worker leaves the hand-off alone.
LEMMA HeldBySame ==
  ASSUME TypeOK, NEW r \in Requests,
         \A q \in Requests : q # r => req'[q] = req[q],
         Holding(r) <=> Holding(r)',
         Holding(r) => req'[r].conn = req[r].conn
  PROVE  HeldBy' = HeldBy
PROOF BY DEF HeldBy, Holding

\* Every step of handleAccepted is an offer or leaves the hand-off alone.
LEMMA HandoffHandshake ==
  ASSUME IInv, NEW c \in Conns, Handshake(c)
  PROVE  Handoff!Offer(c) \/ UNCHANGED <<workers, HeldBy>>
PROOF
<1> USE DEF IInv, Owned
<1>1. HeldBy' = HeldBy
  BY DEF Handshake, HandleAccepted, LockHandshake, ReadHello, RejectHello,
         InstallControl, Enqueue, HeldBy, Holding
<1>2. CASE Enqueue(c) /\ PoolHasRoom /\ workers' = Append(workers, c)
  <2>1. ~Handoff!InPool(c) BY <1>2 DEF Enqueue, PoolInv, Handoff!InPool
  <2>2. \A r \in Requests : HeldBy[r] # c
    BY <1>2, NilAssumption DEF Enqueue, HeldBy, HeldInv
  <2>3. QED BY <1>1, <1>2, <2>1, <2>2 DEF PoolHasRoom, Handoff!Offer, HeldBy
<1>3. CASE UNCHANGED workers BY <1>1, <1>3
<1>4. QED
  BY <1>2, <1>3
  DEF Handshake, HandleAccepted, LockHandshake, ReadHello, RejectHello,
      InstallControl, Enqueue

\* Every step of a request takes, gives back or leaves the hand-off alone.
LEMMA HandoffRequest ==
  ASSUME IInv, NEW r \in Requests, Request(r)
  PROVE  Handoff!Match(r) \/ Handoff!Release(r) \/ UNCHANGED <<workers, HeldBy>>
PROOF
<1> USE OwnedTypes DEF IInv, Owned
<1>1. CASE TakeWorker(r)
  <2>1. /\ \A q \in Requests : q # r => req'[q] = req[q]
        /\ req'[r].pc = "target" /\ req'[r].conn = Head(workers)
    BY <1>1 DEF TakeWorker
  <2>2. HeldBy' = [HeldBy EXCEPT ![r] = Head(workers)] BY <2>1, HeldByStep
  <2>3. HeldBy[r] = NoConn BY <1>1 DEF TakeWorker, HeldBy, Holding
  <2>4. QED BY <1>1, <2>2, <2>3 DEF TakeWorker, WorkersLeft, Handoff!Match, HeldBy
<1>2. ASSUME Holding(r), UNCHANGED workers, req' = [req EXCEPT ![r] = IdleReq]
      PROVE  Handoff!Release(r)
  <2>1. /\ \A q \in Requests : q # r => req'[q] = req[q]
        /\ req'[r].pc = "idle" /\ req'[r].conn = NoConn
    BY <1>2 DEF IdleReq
  <2>2. HeldBy' = [HeldBy EXCEPT ![r] = NoConn] BY <2>1, HeldByStep
  <2>3. HeldBy[r] # NoConn BY <1>2 DEF HeldBy, HeldInv
  <2>4. QED BY <1>2, <2>2, <2>3 DEF Handoff!Release, HeldBy
<1>3. CASE SendTarget(r)
  <2>1. CASE req' = [req EXCEPT ![r].pc = "bridge"]
    <3>1. HeldBy' = HeldBy BY <1>3, <2>1, HeldBySame DEF SendTarget, Holding
    <3>2. QED BY <1>3, <3>1 DEF SendTarget
  <2>2. CASE req' = [req EXCEPT ![r] = IdleReq]
    BY <1>2, <1>3, <2>2 DEF SendTarget, Holding
  <2>3. QED BY <1>3, <2>1, <2>2 DEF SendTarget
<1>4. CASE BridgeEnd(r) BY <1>2, <1>4 DEF BridgeEnd, Holding
<1>5. CASE RequestArrives(r) \/ SeeControl(r) \/ SendChannel(r) \/ RequestTimeout(r)
  <2>1. /\ \A q \in Requests : q # r => req'[q] = req[q]
        /\ ~Holding(r) /\ ~Holding(r)'
    BY <1>5
    DEF RequestArrives, SeeControl, SendChannel, RequestTimeout, DeadlineWatched,
        IdleReq, Holding
  <2>2. HeldBy' = HeldBy BY <2>1, HeldBySame
  <2>3. QED
    BY <1>5, <2>2 DEF RequestArrives, SeeControl, SendChannel, RequestTimeout
<1>6. QED BY <1>1, <1>3, <1>4, <1>5 DEF Request

\* So does every step of the system; a restarted server forgets all.
LEMMA HandoffStep ==
  ASSUME IInv, [Next]_vars
  PROVE  [Handoff!Next]_(Handoff!vars)
PROOF
<1>1. ASSUME UNCHANGED <<workers, req>> PROVE UNCHANGED <<workers, HeldBy>>
  BY <1>1 DEF HeldBy, Holding
<1>2. ASSUME NEW c \in Conns, Monitor(c) PROVE UNCHANGED <<workers, HeldBy>>
  BY <1>1, <1>2
  DEF Monitor, MonitorStart, MonitorPing, MonitorEcho, MonitorLost, MonitorShutdown,
      MonitorTimeout, MonitorReturn, serverVars
<1>3. ASSUME NEW k \in Clients, Client(k) PROVE UNCHANGED <<workers, HeldBy>>
  BY <1>1, <1>3
  DEF Client, ClientDial, ClientWelcome, ClientRetry, HelloTimeout, GiveUpHello,
      ClientSignal, ClientReturn, ClientCrash, ProcessExit, WorkerDial, WorkerRefused,
      WorkerDialFails, WorkerReturn, serverVars
<1>4. ASSUME NEW c \in Conns, Worker(c) PROVE UNCHANGED <<workers, HeldBy>>
  BY <1>1, <1>4 DEF Worker, WorkerTarget, WorkerLost, UpstreamEnds, serverVars
<1>5. CASE ServerRestart
  <2>1. HeldBy' = [r \in Requests |-> NoConn]
    BY <1>5 DEF ServerRestart, HeldBy, Holding, IdleReq
  <2>2. Handoff!Reset BY <1>5, <2>1 DEF ServerRestart, Handoff!Reset, HeldBy
  <2>3. QED BY <2>2 DEF Handoff!Next
<1>6. CASE ServerStop \/ CloseControlOnStop
  BY <1>1, <1>6 DEF ServerStop, CloseControlOnStop, Handoff!vars, HeldBy
<1>7. CASE UNCHANGED vars
  BY <1>1, <1>7 DEF vars, Handoff!vars, HeldBy
<1>8. ASSUME UNCHANGED <<workers, HeldBy>> PROVE UNCHANGED Handoff!vars
  BY <1>8 DEF Handoff!vars, HeldBy
<1>9. QED
  BY <1>2, <1>3, <1>4, <1>5, <1>6, <1>7, <1>8, HandoffHandshake, HandoffRequest
  DEF Next, Server, Handoff!Next

\* The workers channel with acquireWorker is a hand-off: a connection is offered
\* once, given to one request in order, and never again.
THEOREM Refinement == Spec => ImplementsHandoff
PROOF
<1>1. Init => Handoff!Init BY DEF Init, Handoff!Init, Holding, IdleReq
<1>2. QED
  BY <1>1, HandoffStep, Inductive, PTL DEF Spec, ImplementsHandoff, Handoff!Spec

-----------------------------------------------------------------------------
(* Who can become the control channel. *)

\* Not dialled by a worker goroutine.
NotWorker(c) == cl[c] \in {"control", "closed"}

\* Only control connections carry a Hello, and a Hello is answered only if its
\* token is right.
AuthInv ==
  /\ \A c \in Conns : \A i \in 1..Len(c2s[c]) : c2s[c][i].sig = "Hello" => NotWorker(c)
  /\ \A c \in Conns : srv[c] = "welcome" => NotWorker(c) /\ owner[c] \in Authorized
  /\ ControlIsAuthentic

\* A step that sends no Hello to the server.
NoNewHello ==
  \A c \in Conns : \A i \in 1..Len(c2s'[c]) :
    c2s'[c][i].sig = "Hello" => \E j \in 1..Len(c2s[c]) : c2s[c][j].sig = "Hello"

\* Reading, discarding and echoing send none.
LEMMA NoHelloSent ==
  ASSUME TypeOK, NEW c,
         \/ UNCHANGED c2s
         \/ c2s' = [c2s EXCEPT ![c] = <<>>]
         \/ c2s[c] # <<>> /\ c2s' = [c2s EXCEPT ![c] = Tail(@)]
         \/ \E m \in Message : m.sig # "Hello" /\ ToServer(c, m)
  PROVE  NoNewHello
PROOF
<1>0. \A d \in Conns : c2s[d] \in Seq(Message) BY DEF TypeOK
<1>1. CASE UNCHANGED c2s BY <1>1 DEF NoNewHello
<1>2. CASE c2s' = [c2s EXCEPT ![c] = <<>>]
  BY <1>2 DEF NoNewHello, TypeOK
<1>3. CASE c2s[c] # <<>> /\ c2s' = [c2s EXCEPT ![c] = Tail(@)]
  <2>1. \A d \in Conns : d # c => c2s'[d] = c2s[d] BY <1>3 DEF TypeOK
  <2>2. ASSUME c \in Conns, NEW i \in 1..Len(c2s'[c])
        PROVE  c2s'[c][i] = c2s[c][i + 1] /\ i + 1 \in 1..Len(c2s[c])
    <3>1. c2s'[c] = Tail(c2s[c]) BY <1>3, <2>2 DEF TypeOK
    <3>2. c2s[c] \in Seq(Message) /\ c2s[c] # <<>> BY <1>0, <1>3, <2>2
    <3>3. /\ Len(c2s[c]) \in Nat
          /\ Len(Tail(c2s[c])) = Len(c2s[c]) - 1
          /\ \A j \in 1..Len(Tail(c2s[c])) : Tail(c2s[c])[j] = c2s[c][j + 1]
      BY <3>2, HeadTailProperties, LenProperties
    <3>4. QED BY <2>2, <3>1, <3>3
  <2>3. QED BY <2>1, <2>2 DEF NoNewHello
<1>4. CASE \E m \in Message : m.sig # "Hello" /\ ToServer(c, m)
  <2>1. PICK m \in Message : m.sig # "Hello" /\ ToServer(c, m) BY <1>4
  <2>2. \A d \in Conns : d # c => c2s'[d] = c2s[d] BY <2>1 DEF ToServer, TypeOK
  <2>3. ASSUME c \in Conns, NEW i \in 1..Len(c2s'[c]), c2s'[c][i].sig = "Hello"
        PROVE  i \in 1..Len(c2s[c]) /\ c2s'[c][i] = c2s[c][i]
    <3>1. c2s'[c] = c2s[c] \/ c2s'[c] = Append(c2s[c], m)
      BY <2>1, <2>3 DEF ToServer, TypeOK
    <3>2. CASE c2s'[c] = Append(c2s[c], m)
      <4>1. /\ Len(c2s'[c]) = Len(c2s[c]) + 1
            /\ c2s'[c][Len(c2s[c]) + 1] = m
            /\ \A j \in 1..Len(c2s[c]) : c2s'[c][j] = c2s[c][j]
            /\ Len(c2s[c]) \in Nat
        BY <1>0, <2>3, <3>2, AppendProperties, LenProperties
      <4>2. i # Len(c2s[c]) + 1 BY <2>1, <2>3, <4>1
      <4>3. i \in 1..Len(c2s[c]) BY <2>3, <4>1, <4>2
      <4>4. QED BY <4>1, <4>3
    <3>3. QED BY <2>3, <3>1, <3>2
  <2>4. QED BY <2>2, <2>3 DEF NoNewHello
<1>5. QED BY <1>1, <1>2, <1>3, <1>4

\* A step that sends no Hello, answers none, installs nothing and at most closes
\* client ends keeps the invariant.
LEMMA AuthQuiet ==
  ASSUME TypeOK, Owned, AuthInv, NoNewHello, UNCHANGED owner,
         \A c \in Conns : NotWorker(c) => NotWorker(c)',
         \A c \in Conns : srv'[c] = "welcome" => srv[c] = "welcome",
         control' = control \/ control' = NoConn
  PROVE  AuthInv'
PROOF
<1>1. \A c \in Conns : \A i \in 1..Len(c2s'[c]) :
        c2s'[c][i].sig = "Hello" => NotWorker(c)'
  BY DEF AuthInv, NoNewHello
<1>2. \A c \in Conns : srv'[c] = "welcome" => NotWorker(c)' /\ owner'[c] \in Authorized
  BY DEF AuthInv
<1>3. ControlIsAuthentic'
  BY OwnedTypes DEF AuthInv, ControlIsAuthentic, NotWorker
<1>4. QED BY <1>1, <1>2, <1>3 DEF AuthInv

\* handleControlHandshake installs only what said Hello with the token.
LEMMA AuthHandshake ==
  ASSUME TypeOK, Owned, AuthInv, NEW c \in Conns, Handshake(c)
  PROVE  AuthInv'
PROOF
<1> USE OwnedTypes
<1>1. CASE HandleAccepted(c) \/ LockHandshake(c) \/ RejectHello(c) \/ Enqueue(c)
  <2>1. NoNewHello
    BY <1>1, NoHelloSent
    DEF HandleAccepted, LockHandshake, RejectHello, Enqueue, ServerCloses
  <2>2. \A d \in Conns : srv'[d] = "welcome" => srv[d] = "welcome"
    BY <1>1
    DEF HandleAccepted, LockHandshake, RejectHello, Enqueue, ServerCloses, Recheck
  <2>3. UNCHANGED <<owner, cl, control>>
    BY <1>1 DEF HandleAccepted, LockHandshake, RejectHello, Enqueue, clientVars
  <2>4. QED BY <2>1, <2>2, <2>3, AuthQuiet DEF NotWorker
<1>2. CASE ReadHello(c)
  <2>1. NoNewHello BY <1>2, NoHelloSent DEF ReadHello
  <2>2. NotWorker(c) /\ owner[c] \in Authorized
    <3>1. c2s[c] \in Seq(Message) /\ c2s[c] # <<>> BY <1>2 DEF ReadHello, TypeOK
    <3>2. 1 \in 1..Len(c2s[c]) /\ Head(c2s[c]) = c2s[c][1]
      BY <3>1, HeadTailProperties, LenProperties
    <3>3. QED BY <1>2, <3>2 DEF ReadHello, AuthInv, TokenMatches
  <2>3. /\ srv' = [srv EXCEPT ![c] = "welcome"]
        /\ UNCHANGED <<owner, cl, control>>
    BY <1>2 DEF ReadHello, clientVars
  <2>4. QED
    BY <2>1, <2>2, <2>3 DEF AuthInv, NoNewHello, NotWorker, ControlIsAuthentic
<1>3. CASE InstallControl(c)
  <2>1. /\ UNCHANGED <<owner, cl, c2s>>
        /\ control' = control \/ control' = c
        /\ \A d \in Conns : srv'[d] = "welcome" => srv[d] = "welcome"
    BY <1>3 DEF InstallControl, clientVars
  <2>2. NotWorker(c) /\ owner[c] \in Authorized BY <1>3 DEF InstallControl, AuthInv
  <2>3. QED BY <2>1, <2>2 DEF AuthInv, NotWorker, ControlIsAuthentic
<1>4. QED BY <1>1, <1>2, <1>3 DEF Handshake

\* Monitors and requests install nothing.
LEMMA AuthServer ==
  ASSUME TypeOK, Owned, AuthInv,
         \/ \E c \in Conns : Monitor(c)
         \/ \E r \in Requests : Request(r)
         \/ Server
  PROVE  AuthInv'
PROOF
<1> USE OwnedTypes
<1>1. ASSUME NEW c \in Conns, Monitor(c) PROVE AuthInv'
  <2>1. NoNewHello
    BY <1>1, NoHelloSent
    DEF Monitor, MonitorStart, MonitorPing, MonitorEcho, MonitorLost,
        MonitorShutdown, MonitorTimeout, MonitorReturn, ClearControl, ServerCloses
  <2>2. /\ \A d \in Conns : srv'[d] = "welcome" => srv[d] = "welcome"
        /\ control' = control \/ control' = NoConn
        /\ UNCHANGED <<owner, cl>>
    BY <1>1
    DEF Monitor, MonitorStart, MonitorPing, MonitorEcho, MonitorLost,
        MonitorShutdown, MonitorTimeout, MonitorReturn, ClearControl, ControlWithout,
        ServerCloses, serverVars, clientVars
  <2>3. QED BY <2>1, <2>2, AuthQuiet DEF NotWorker
<1>2. ASSUME NEW r \in Requests, Request(r) PROVE AuthInv'
  <2>1. NoNewHello
    <3>1. PICK c \in Conns \cup {NoConn} :
            UNCHANGED c2s \/ c2s' = [c2s EXCEPT ![c] = <<>>]
      BY <1>2
      DEF Request, RequestArrives, SeeControl, SendChannel, TakeWorker, SendTarget,
          RequestTimeout, BridgeEnd, ClearControl, ServerCloses
    <3>2. QED BY <3>1, NoHelloSent
  <2>2. \A d \in Conns : srv'[d] = "welcome" => srv[d] = "welcome"
    BY <1>2
    DEF Request, RequestArrives, SeeControl, SendChannel, TakeWorker, SendTarget,
        RequestTimeout, BridgeEnd, ClearControl, ServerCloses
  <2>3. /\ control' = control \/ control' = NoConn
        /\ UNCHANGED <<owner, cl>>
    BY <1>2
    DEF Request, RequestArrives, SeeControl, SendChannel, TakeWorker, SendTarget,
        RequestTimeout, BridgeEnd, ClearControl, ControlWithout, clientVars
  <2>4. QED BY <2>1, <2>2, <2>3, AuthQuiet DEF NotWorker
<1>3. CASE ServerStop \/ CloseControlOnStop
  <2>1. NoNewHello
    BY <1>3, NoHelloSent DEF ServerStop, CloseControlOnStop, ServerCloses
  <2>2. /\ \A d \in Conns : srv'[d] = "welcome" => srv[d] = "welcome"
        /\ UNCHANGED <<owner, cl, control>>
    BY <1>3 DEF ServerStop, CloseControlOnStop, ServerCloses, clientVars
  <2>3. QED BY <2>1, <2>2, AuthQuiet DEF NotWorker
<1>4. CASE ServerRestart
  BY <1>4 DEF ServerRestart, clientVars, AuthInv, ControlIsAuthentic, NotWorker
<1>5. QED BY <1>1, <1>2, <1>3, <1>4 DEF Server

\* A dial takes a connection nobody refers to: only the client's own says Hello.
LEMMA AuthDial ==
  ASSUME TypeOK, Owned, AuthInv, NEW k \in Clients, NEW c \in Conns,
         ClientDial(k, c) \/ WorkerDial(k, c)
  PROVE  AuthInv'
PROOF
<1> USE OwnedTypes
<1>1. /\ control # c /\ srv' = [srv EXCEPT ![c] = "accept"] /\ UNCHANGED control
      /\ owner' = [owner EXCEPT ![c] = k]
      /\ \A d \in Conns : d # c => cl'[d] = cl[d] /\ c2s'[d] = c2s[d]
    BY DEF ClientDial, WorkerDial, Dial, Reusable, TypeOK
<1>2. cl'[c] = "control" \/ c2s'[c] = <<>>
  BY DEF ClientDial, WorkerDial, Dial, TypeOK
<1>3. \A d \in Conns : \A i \in 1..Len(c2s'[d]) :
        c2s'[d][i].sig = "Hello" => NotWorker(d)'
  BY <1>1, <1>2 DEF AuthInv, NotWorker
<1>4. \A d \in Conns : srv'[d] = "welcome" =>
        NotWorker(d)' /\ owner'[d] \in Authorized
  BY <1>1 DEF AuthInv, NotWorker, TypeOK
<1>5. ControlIsAuthentic'
  BY <1>1 DEF AuthInv, ControlIsAuthentic, TypeOK
<1>6. QED BY <1>3, <1>4, <1>5 DEF AuthInv

\* Clients and their workers do not forge a Hello on a connection they have.
LEMMA AuthClient ==
  ASSUME TypeOK, Owned, AuthInv,
         (\E k \in Clients : Client(k)) \/ (\E c \in Conns : Worker(c))
  PROVE  AuthInv'
PROOF
<1> USE OwnedTypes
<1>1. ASSUME NoNewHello, UNCHANGED <<serverVars, owner>>,
             \A c \in Conns : NotWorker(c) => NotWorker(c)'
      PROVE  AuthInv'
  BY <1>1, AuthQuiet DEF serverVars
<1>2. UNCHANGED c2s => NoNewHello BY NoHelloSent
<1>3. ASSUME NEW k \in Clients, ClientSignal(k) PROVE AuthInv'
  <2>1. NoNewHello
    <3>1. CASE UNCHANGED c2s BY <1>2, <3>1
    <3>2. CASE /\ ToServer(cli[k].conn, Head(s2c[cli[k].conn]))
               /\ Head(s2c[cli[k].conn]).sig \in {"RTT", "Heartbeat"}
      <4>1. CASE cli[k].conn \in Conns
        <5>1. Head(s2c[cli[k].conn]) \in Message
          BY <1>3, <4>1, QueueTypes DEF ClientSignal, TypeOK
        <5>2. QED BY <3>2, <5>1, NoHelloSent
      <4>2. CASE cli[k].conn \notin Conns
        BY <1>2, <3>2, <4>2 DEF ToServer, TypeOK
      <4>3. QED BY <4>1, <4>2
    <3>3. QED BY <1>3, <3>1, <3>2 DEF ClientSignal
  <2>2. UNCHANGED <<serverVars, owner, cl>> BY <1>3 DEF ClientSignal
  <2>3. QED BY <1>1, <2>1, <2>2 DEF NotWorker
<1>4. ASSUME NEW k \in Clients,
             \/ ClientWelcome(k) \/ ClientRetry(k) \/ HelloTimeout(k)
             \/ ClientReturn(k) \/ ClientCrash(k)
             \/ WorkerRefused(k) \/ WorkerDialFails(k)
      PROVE  AuthInv'
  <2>1. UNCHANGED <<serverVars, owner, c2s>>
    BY <1>4
    DEF ClientWelcome, ClientRetry, HelloTimeout, GiveUpHello, ClientReturn,
        ClientCrash, ProcessExit, WorkerRefused, WorkerDialFails, WorkerReturn
  <2>2. \A c \in Conns : cl'[c] = cl[c] \/ cl'[c] = "closed"
    BY <1>4
    DEF TypeOK, ClientWelcome, ClientRetry, HelloTimeout, GiveUpHello, ClientCloses,
        ClientReturn, ClientCrash, ProcessExit, WorkerRefused, WorkerDialFails,
        WorkerReturn
  <2>3. QED BY <1>1, <1>2, <2>1, <2>2 DEF NotWorker
<1>5. ASSUME NEW c \in Conns, Worker(c) PROVE AuthInv'
  <2>1. UNCHANGED <<serverVars, owner, c2s>>
    BY <1>5 DEF Worker, WorkerTarget, WorkerLost, UpstreamEnds
  <2>2. \A d \in Conns : NotWorker(d) => NotWorker(d)'
    BY <1>5
    DEF TypeOK, Worker, WorkerTarget, WorkerLost, UpstreamEnds, ClientCloses, NotWorker
  <2>3. QED BY <1>1, <1>2, <2>1, <2>2
<1>6. QED BY <1>3, <1>4, <1>5, AuthDial DEF Client

\* What is installed as the control channel was dialled as one by a client that
\* has the token, whatever other clients and workers connect, crash or time out.
THEOREM ControlsAuthentic == Spec => []ControlIsAuthentic
PROOF
<1>1. Init => AuthInv
  BY NilAssumption DEF Init, AuthInv, ControlIsAuthentic
<1>2. ASSUME IInv, AuthInv, [Next]_vars PROVE AuthInv'
  <2>1. CASE Next
    BY <1>2, <2>1, AuthHandshake, AuthServer, AuthClient DEF IInv, Next
  <2>2. CASE UNCHANGED vars
    BY <1>2, <2>2 DEF vars, AuthInv, NotWorker, ControlIsAuthentic
  <2>3. QED BY <1>2, <2>1, <2>2
<1>3. AuthInv => ControlIsAuthentic BY DEF AuthInv
<1>4. QED BY <1>1, <1>2, <1>3, Inductive, PTL DEF Spec

-----------------------------------------------------------------------------
(* Whose target a worker relays to. *)

\* Request r relays over connection c.
Bridged(r, c) == r \in Requests /\ req[r].pc = "bridge" /\ req[r].conn = c

\* While the server has a connection open, a target frame on its way to the
\* client, and the target a worker serves, are those of the request bridged to
\* it.  A dial finds no frame of the connection's earlier life.
TargetInv ==
  /\ \A c \in Conns : cl[c] = "closed" => s2c[c] = <<>>
  /\ \A c \in Conns : srv[c] # "closed" =>
       /\ \A i \in 1..Len(s2c[c]) :
            s2c[c][i].sig = "Target" => Bridged(s2c[c][i].to, c)
       /\ cl[c] = "serving" => Bridged(tgt[c], c)

\* A queue after a read holds what it held, after a write that and the message.
LEMMA FramesKept ==
  ASSUME NEW q \in Seq(Message), NEW m \in Message
  PROVE  /\ q # <<>> =>
              \A i \in 1..Len(Tail(q)) : \E j \in 1..Len(q) : q[j] = Tail(q)[i]
         /\ \A i \in 1..Len(Append(q, m)) :
              \/ Append(q, m)[i] = m
              \/ \E j \in 1..Len(q) : q[j] = Append(q, m)[i]
PROOF
<1>0. Len(q) \in Nat BY LenProperties
<1>1. ASSUME q # <<>>, NEW i \in 1..Len(Tail(q))
      PROVE  \E j \in 1..Len(q) : q[j] = Tail(q)[i]
  <2>1. /\ Len(Tail(q)) = Len(q) - 1
        /\ \A j \in 1..Len(Tail(q)) : Tail(q)[j] = q[j + 1]
    BY <1>1, HeadTailProperties
  <2>2. i + 1 \in 1..Len(q) /\ q[i + 1] = Tail(q)[i] BY <1>0, <1>1, <2>1
  <2>3. QED BY <2>2
<1>2. ASSUME NEW i \in 1..Len(Append(q, m)), Append(q, m)[i] # m
      PROVE  \E j \in 1..Len(q) : q[j] = Append(q, m)[i]
  <2>1. /\ Len(Append(q, m)) = Len(q) + 1
        /\ Append(q, m)[Len(q) + 1] = m
        /\ \A j \in 1..Len(q) : Append(q, m)[j] = q[j]
    BY AppendProperties
  <2>2. i \in 1..Len(q) BY <1>0, <1>2, <2>1
  <2>3. QED BY <2>1, <2>2
<1>3. QED BY <1>1, <1>2

\* Connection c carries no target frame to the client that it did not before.
NoNewTarget(c) ==
  \A i \in 1..Len(s2c'[c]) : s2c'[c][i].sig = "Target" =>
    \E j \in 1..Len(s2c[c]) : s2c[c][j] = s2c'[c][i]

\* Reading, discarding and writing any other message send none.
LEMMA NoTargetSent ==
  ASSUME TypeOK, NEW c \in Conns,
         \/ s2c'[c] = s2c[c]
         \/ s2c'[c] = <<>>
         \/ s2c[c] # <<>> /\ s2c'[c] = Tail(s2c[c])
         \/ \E m \in Message : m.sig # "Target" /\ s2c'[c] = Append(s2c[c], m)
  PROVE  NoNewTarget(c)
PROOF
<1>0. s2c[c] \in Seq(Message) BY DEF TypeOK
<1>1. CASE s2c'[c] = s2c[c] BY <1>1 DEF NoNewTarget
<1>2. CASE s2c'[c] = <<>> BY <1>2 DEF NoNewTarget
<1>3. CASE s2c[c] # <<>> /\ s2c'[c] = Tail(s2c[c])
  <2>1. Head(s2c[c]) \in Message BY <1>0, <1>3, QueueTypes
  <2>2. \A i \in 1..Len(Tail(s2c[c])) :
          \E j \in 1..Len(s2c[c]) : s2c[c][j] = Tail(s2c[c])[i]
    BY <1>0, <1>3, <2>1, FramesKept
  <2>3. QED BY <1>3, <2>2 DEF NoNewTarget
<1>4. CASE \E m \in Message : m.sig # "Target" /\ s2c'[c] = Append(s2c[c], m)
  <2>1. PICK m \in Message : m.sig # "Target" /\ s2c'[c] = Append(s2c[c], m)
    BY <1>4
  <2>2. \A i \in 1..Len(s2c'[c]) :
          s2c'[c][i] = m \/ \E j \in 1..Len(s2c[c]) : s2c[c][j] = s2c'[c][i]
    BY <1>0, <2>1, FramesKept
  <2>3. ASSUME NEW i \in 1..Len(s2c'[c]), s2c'[c][i].sig = "Target"
        PROVE  \E j \in 1..Len(s2c[c]) : s2c[c][j] = s2c'[c][i]
    BY <2>1, <2>2, <2>3
  <2>4. QED BY <2>3 DEF NoNewTarget
<1>5. QED BY <1>1, <1>2, <1>3, <1>4

\* A write to the client reaches the one connection, if its client end is open.
LEMMA WriteFrames ==
  ASSUME TypeOK, NEW c, NEW m, ToClient(c, m)
  PROVE  \A d \in Conns :
           \/ s2c'[d] = s2c[d]
           \/ d = c /\ cl[d] # "closed" /\ s2c'[d] = Append(s2c[d], m)
PROOF BY DEF TypeOK, ToClient

\* It adds no target frame unless it is one.
LEMMA WriteKeeps ==
  ASSUME TypeOK, TargetInv, NEW c, NEW m \in Message, m.sig # "Target",
         ToClient(c, m)
  PROVE  \A d \in Conns : NoNewTarget(d) /\ (cl[d] = "closed" => s2c'[d] = <<>>)
PROOF
<1>1. \A d \in Conns :
        \/ s2c'[d] = s2c[d]
        \/ cl[d] # "closed" /\ s2c'[d] = Append(s2c[d], m)
  BY WriteFrames
<1>2. QED BY <1>1, NoTargetSent DEF TargetInv

\* A step that sends no target frame, serves no new target, opens nothing and
\* ends only bridges whose connection it closes keeps the invariant.
LEMMA TargetQuiet ==
  ASSUME TypeOK, TargetInv,
         \A c \in Conns :
           /\ NoNewTarget(c)
           /\ cl'[c] = "closed" => s2c'[c] = <<>>
           /\ cl'[c] = "serving" => cl[c] = "serving" /\ tgt'[c] = tgt[c]
           /\ srv'[c] # "closed" => srv[c] # "closed",
         \A c \in Conns : \A r \in Requests :
           srv'[c] # "closed" /\ Bridged(r, c) => Bridged(r, c)'
  PROVE  TargetInv'
PROOF
<1>1. \A c \in Conns : cl'[c] = "closed" => s2c'[c] = <<>> OBVIOUS
<1>2. ASSUME NEW c \in Conns, srv'[c] # "closed", NEW i \in 1..Len(s2c'[c]),
             s2c'[c][i].sig = "Target"
      PROVE  Bridged(s2c[c][i].to, c)'
  <2>1. PICK j \in 1..Len(s2c[c]) : s2c[c][j] = s2c'[c][i]
    BY <1>2 DEF NoNewTarget
  <2>2. Bridged(s2c[c][j].to, c) BY <1>2, <2>1 DEF TargetInv
  <2>3. s2c[c][j].to \in Requests BY <2>2 DEF Bridged
  <2>4. QED BY <1>2, <2>1, <2>2, <2>3 DEF Bridged
<1>3. ASSUME NEW c \in Conns, srv'[c] # "closed", cl'[c] = "serving"
      PROVE  Bridged(tgt[c], c)'
  <2>1. Bridged(tgt[c], c) /\ tgt'[c] = tgt[c] BY <1>3 DEF TargetInv
  <2>2. tgt[c] \in Requests BY <2>1 DEF Bridged
  <2>3. QED BY <1>3, <2>1, <2>2 DEF Bridged
<1>4. QED BY <1>1, <1>2, <1>3 DEF TargetInv, Bridged

\* So does a step of the server that writes anything but a target.
LEMMA TargetServerQuiet ==
  ASSUME TypeOK, TargetInv, NEW c, NEW m \in Message, m.sig # "Target",
         s2c' = s2c \/ ToClient(c, m),
         UNCHANGED <<cl, tgt>>,
         \A d \in Conns : srv'[d] # "closed" => srv[d] # "closed",
         \A d \in Conns : \A q \in Requests :
           srv'[d] # "closed" /\ Bridged(q, d) => Bridged(q, d)'
  PROVE  TargetInv'
PROOF
<1>1. CASE s2c' = s2c
  <2>1. \A d \in Conns : NoNewTarget(d) BY <1>1, NoTargetSent
  <2>2. \A d \in Conns : cl'[d] = "closed" => s2c'[d] = <<>> BY <1>1 DEF TargetInv
  <2>3. QED BY <2>1, <2>2, TargetQuiet
<1>2. CASE ToClient(c, m) BY <1>2, WriteKeeps, TargetQuiet
<1>3. QED BY <1>1, <1>2

\* Handshakes write the Welcome only.
LEMMA TargetHandshake ==
  ASSUME TypeOK, TargetInv, NEW c \in Conns, Handshake(c)
  PROVE  TargetInv'
PROOF
<1>1. Signal("Welcome") \in Message /\ Signal("Welcome").sig # "Target"
  BY MessageTypes DEF Signals, Signal
<1>2. /\ UNCHANGED <<req, cl, tgt>>
      /\ s2c' = s2c \/ ToClient(c, Signal("Welcome"))
  BY DEF Handshake, HandleAccepted, LockHandshake, ReadHello, RejectHello,
         InstallControl, Enqueue, clientVars
<1>3. srv[c] # "closed" /\ \A d \in Conns : d # c => srv'[d] = srv[d]
  BY DEF Handshake, HandleAccepted, LockHandshake, ReadHello, RejectHello,
         InstallControl, Enqueue, ServerCloses, TypeOK
<1>4. \A d \in Conns : \A q \in Requests : Bridged(q, d) => Bridged(q, d)'
  BY <1>2 DEF Bridged
<1>5. QED BY <1>1, <1>2, <1>3, <1>4, TargetServerQuiet

\* The monitor writes RTT, Heartbeat and Closed.
LEMMA TargetMonitor ==
  ASSUME TypeOK, TargetInv, NEW c \in Conns, Monitor(c)
  PROVE  TargetInv'
PROOF
<1>1. PICK m \in {Signal("RTT"), Signal("Heartbeat"), Signal("Closed")} :
        s2c' = s2c \/ ToClient(c, m)
  BY DEF Monitor, MonitorStart, MonitorPing, MonitorEcho, MonitorLost,
         MonitorShutdown, MonitorTimeout
<1>2. m \in Message /\ m.sig # "Target"
  BY <1>1, MessageTypes DEF Signals, Signal
<1>3. /\ UNCHANGED <<req, cl, tgt>>
      /\ \A d \in Conns : srv'[d] # "closed" => srv[d] # "closed"
  BY DEF Monitor, MonitorStart, MonitorPing, MonitorEcho, MonitorLost,
         MonitorShutdown, MonitorTimeout, MonitorReturn, ClearControl, ServerCloses,
         serverVars, clientVars, TypeOK
<1>4. \A d \in Conns : \A q \in Requests : Bridged(q, d) => Bridged(q, d)'
  BY <1>3 DEF Bridged
<1>5. QED BY <1>1, <1>2, <1>3, <1>4, TargetServerQuiet

\* acquireWorker writes the target to the connection it goes on to bridge.
LEMMA TargetSent ==
  ASSUME TypeOK, Owned, TargetInv, NEW r \in Requests, SendTarget(r),
         ToClient(req[r].conn, Target(r)),
         req' = [req EXCEPT ![r].pc = "bridge"], UNCHANGED <<srv, c2s>>
  PROVE  TargetInv'
PROOF
<1> DEFINE c == req[r].conn
<1>1. c \in Conns /\ UNCHANGED <<cl, tgt>> /\ Target(r) \in Message
  BY MessageTypes DEF SendTarget, Owned, HeldInv, Holding, clientVars
<1>2. /\ \A q \in Requests : \A d \in Conns : Bridged(q, d) => Bridged(q, d)'
      /\ Bridged(r, c)'
  BY DEF Bridged, TypeOK
<1>3. \A d \in Conns : cl'[d] = "closed" => s2c'[d] = <<>>
  BY <1>1 DEF ToClient, TargetInv, TypeOK
<1>4. ASSUME NEW d \in Conns, srv[d] # "closed", NEW i \in 1..Len(s2c'[d]),
             s2c'[d][i].sig = "Target"
      PROVE  \E q \in Requests : s2c'[d][i].to = q /\ Bridged(q, d)'
  <2>1. ASSUME NEW j \in 1..Len(s2c[d]), s2c[d][j] = s2c'[d][i]
        PROVE  \E q \in Requests : s2c'[d][i].to = q /\ Bridged(q, d)'
    <3>1. PICK q \in Requests : s2c[d][j].to = q /\ Bridged(q, d)
      BY <1>4, <2>1 DEF TargetInv, Bridged
    <3>2. Bridged(q, d)' BY <1>2, <3>1
    <3>3. QED BY <2>1, <3>1, <3>2
  <2>2. \/ s2c'[d] = s2c[d]
        \/ d = c /\ s2c'[d] = Append(s2c[d], Target(r))
    BY WriteFrames
  <2>3. CASE d = c /\ s2c'[d] = Append(s2c[d], Target(r))
    <3>1. s2c[d] \in Seq(Message) BY DEF TypeOK
    <3>2. s2c'[d][i] = Target(r) \/ \E j \in 1..Len(s2c[d]) : s2c[d][j] = s2c'[d][i]
      BY <1>1, <1>4, <2>3, <3>1, FramesKept
    <3>3. Target(r).to = r BY DEF Target
    <3>4. QED BY <1>2, <2>1, <2>3, <3>2, <3>3
  <2>4. QED BY <1>4, <2>1, <2>2, <2>3
<1>5. ASSUME NEW d \in Conns, srv[d] # "closed", cl[d] = "serving"
      PROVE  Bridged(tgt[d], d)'
  <2>1. Bridged(tgt[d], d) BY <1>5 DEF TargetInv
  <2>2. tgt[d] \in Requests BY <2>1 DEF Bridged
  <2>3. tgt' = tgt BY <1>1
  <2>4. Bridged(tgt[d], d) => req'[tgt[d]].pc = "bridge" /\ req'[tgt[d]].conn = d
    BY <1>2, <2>2 DEF Bridged
  <2>5. QED BY <2>1, <2>2, <2>3, <2>4 DEF Bridged
<1>6. QED BY <1>1, <1>3, <1>4, <1>5 DEF TargetInv, Bridged

\* Every other step of a request ends no bridge but one it closes.
LEMMA TargetRequest ==
  ASSUME TypeOK, Owned, TargetInv, NEW r \in Requests, Request(r)
  PROVE  TargetInv'
PROOF
<1>1. Signal("Channel") \in Message /\ Signal("Channel").sig # "Target"
  BY MessageTypes DEF Signals, Signal
<1>2. ASSUME UNCHANGED <<cl, tgt>>,
             \E c : s2c' = s2c \/ ToClient(c, Signal("Channel")),
             \A d \in Conns : srv'[d] # "closed" => srv[d] # "closed",
             \A q \in Requests : q # r => req'[q] = req[q],
             \/ req[r].pc # "bridge"
             \/ srv'[req[r].conn] = "closed"
      PROVE  TargetInv'
  <2>1. \A d \in Conns : \A q \in Requests :
          srv'[d] # "closed" /\ Bridged(q, d) => Bridged(q, d)'
    BY <1>2 DEF Bridged
  <2>2. PICK c : s2c' = s2c \/ ToClient(c, Signal("Channel")) BY <1>2
  <2>3. QED BY <1>1, <1>2, <2>1, <2>2, TargetServerQuiet
<1>3. CASE RequestArrives(r) \/ SeeControl(r) \/ SendChannel(r) \/ RequestTimeout(r)
  <2>1. /\ UNCHANGED <<cl, tgt>> /\ req[r].pc # "bridge"
        /\ s2c' = s2c \/ ToClient(req[r].ctl, Signal("Channel"))
        /\ \A q \in Requests : q # r => req'[q] = req[q]
    BY <1>3
    DEF RequestArrives, SeeControl, SendChannel, RequestTimeout, DeadlineWatched,
        clientVars, TypeOK
  <2>2. \A d \in Conns : srv'[d] # "closed" => srv[d] # "closed"
    BY <1>3
    DEF RequestArrives, SeeControl, SendChannel, RequestTimeout, ClearControl,
        ServerCloses, TypeOK
  <2>3. QED BY <1>2, <2>1, <2>2
<1>4. CASE TakeWorker(r)
  <2>1. /\ UNCHANGED <<cl, tgt, s2c>> /\ req[r].pc # "bridge"
        /\ \A q \in Requests : q # r => req'[q] = req[q]
        /\ srv' = [srv EXCEPT ![Head(workers)] = "taken"]
    BY <1>4 DEF TakeWorker, clientVars, TypeOK
  <2>2. srv[Head(workers)] = "queued"
    <3>1. Head(workers) = workers[1] /\ 1 \in 1..Len(workers)
      BY <1>4, OwnedTypes, HeadTailProperties, EmptySeq DEF TakeWorker
    <3>2. QED BY <3>1 DEF Owned, PoolInv
  <2>3. QED BY <1>2, <2>1, <2>2 DEF TypeOK
<1>5. CASE SendTarget(r)
  <2>1. CASE req' = [req EXCEPT ![r] = IdleReq] /\ ServerCloses(req[r].conn)
             /\ UNCHANGED s2c
    <3>1. /\ UNCHANGED <<cl, tgt>> /\ req[r].pc # "bridge"
          /\ \A q \in Requests : q # r => req'[q] = req[q]
      BY <1>5, <2>1 DEF SendTarget, clientVars, TypeOK
    <3>2. \A d \in Conns : srv'[d] # "closed" => srv[d] # "closed"
      BY <2>1 DEF ServerCloses, TypeOK
    <3>3. QED BY <1>2, <2>1, <3>1, <3>2
  <2>2. QED BY <1>5, <2>1, TargetSent DEF SendTarget
<1>6. CASE BridgeEnd(r)
  <2>1. req[r].conn \in Conns BY <1>6 DEF BridgeEnd, Owned, HeldInv, Holding
  <2>2. /\ UNCHANGED <<cl, tgt, s2c>>
        /\ srv' = [srv EXCEPT ![req[r].conn] = "closed"]
        /\ \A q \in Requests : q # r => req'[q] = req[q]
    BY <1>6 DEF BridgeEnd, ServerCloses, clientVars, TypeOK
  <2>3. QED BY <1>2, <2>1, <2>2 DEF TypeOK
<1>7. QED BY <1>3, <1>4, <1>5, <1>6 DEF Request

\* A dial takes a slot whose client end has discarded what it had not read.
LEMMA TargetDial ==
  ASSUME TypeOK, TargetInv, NEW k \in Clients, NEW c \in Conns,
         NEW use \in {"control", "worker"}, NEW sent, Dial(k, c, use, sent),
         UNCHANGED req
  PROVE  TargetInv'
PROOF
<1>1. /\ s2c' = s2c /\ tgt' = tgt /\ s2c[c] = <<>>
      /\ cl' = [cl EXCEPT ![c] = use]
      /\ srv' = [srv EXCEPT ![c] = "accept"]
  BY DEF Dial, Reusable, TargetInv
<1>2. Len(s2c'[c]) = 0 /\ cl'[c] # "serving" /\ cl'[c] # "closed"
  BY <1>1 DEF TypeOK
<1>3. \A d \in Conns : d # c => cl'[d] = cl[d] /\ srv'[d] = srv[d]
  BY <1>1 DEF TypeOK
<1>4. ASSUME NEW d \in Conns, d # c, srv'[d] # "closed",
             NEW i \in 1..Len(s2c'[d]), s2c'[d][i].sig = "Target"
      PROVE  Bridged(s2c[d][i].to, d)'
  BY <1>1, <1>3, <1>4 DEF TargetInv, Bridged
<1>5. ASSUME NEW d \in Conns, d # c, srv'[d] # "closed", cl'[d] = "serving"
      PROVE  Bridged(tgt[d], d)'
  BY <1>1, <1>3, <1>5 DEF TargetInv, Bridged
<1>6. \A d \in Conns : cl'[d] = "closed" => s2c'[d] = <<>>
  BY <1>1, <1>2, <1>3 DEF TargetInv
<1>7. QED BY <1>2, <1>4, <1>5, <1>6 DEF TargetInv, Bridged

\* A client end that reads or closes, on whichever of its connections, sends
\* nothing to itself.
LEMMA TargetClientQuiet ==
  ASSUME TypeOK, TargetInv, UNCHANGED <<srv, req>>,
         \A c \in Conns :
           \/ /\ cl'[c] = cl[c] /\ tgt'[c] = tgt[c]
              /\ \/ s2c'[c] = s2c[c]
                 \/ s2c[c] # <<>> /\ s2c'[c] = Tail(s2c[c])
           \/ cl'[c] = "closed" /\ s2c'[c] = <<>>
  PROVE  TargetInv'
PROOF
<1>1. \A c \in Conns : NoNewTarget(c) BY NoTargetSent
<1>2. \A c \in Conns :
        /\ cl'[c] = "closed" => s2c'[c] = <<>>
        /\ cl'[c] = "serving" => cl[c] = "serving" /\ tgt'[c] = tgt[c]
  BY DEF TargetInv
<1>3. \A c \in Conns : \A r \in Requests : Bridged(r, c) => Bridged(r, c)'
  BY DEF Bridged
<1>4. QED BY <1>1, <1>2, <1>3, TargetQuiet

\* Clients read, dial, close and exit.
LEMMA TargetClient ==
  ASSUME TypeOK, TargetInv, NEW k \in Clients, Client(k)
  PROVE  TargetInv'
PROOF
<1>1. ASSUME NEW c \in Conns, ClientDial(k, c) \/ WorkerDial(k, c)
      PROVE  TargetInv'
  BY <1>1, TargetDial DEF ClientDial, WorkerDial
<1>2. CASE ClientWelcome(k) \/ ClientSignal(k)
  <2>1. /\ UNCHANGED <<srv, req, cl, tgt>> /\ s2c[cli[k].conn] # <<>>
        /\ s2c' = [s2c EXCEPT ![cli[k].conn] = Tail(@)]
    BY <1>2 DEF ClientWelcome, ClientSignal, Replied, serverVars
  <2>2. QED BY <2>1, TargetClientQuiet DEF TypeOK
<1>3. CASE ClientRetry(k) \/ HelloTimeout(k)
  <2>1. UNCHANGED <<srv, req>> /\ ClientCloses(cli[k].conn)
    BY <1>3 DEF ClientRetry, HelloTimeout, GiveUpHello, serverVars
  <2>2. QED BY <2>1, TargetClientQuiet DEF ClientCloses, TypeOK
<1>4. CASE ClientReturn(k) \/ ClientCrash(k)
  <2>1. UNCHANGED <<srv, req>> /\ ProcessExit(k)
    BY <1>4 DEF ClientReturn, ClientCrash, ProcessExit, serverVars
  <2>2. QED BY <2>1, TargetClientQuiet DEF ProcessExit, TypeOK
<1>5. CASE WorkerRefused(k) \/ WorkerDialFails(k)
  BY <1>5, TargetClientQuiet
  DEF WorkerRefused, WorkerDialFails, WorkerReturn, serverVars
<1>6. QED BY <1>1, <1>2, <1>3, <1>4, <1>5 DEF Client

\* A worker serves the target it has read, or closes.
LEMMA TargetWorker ==
  ASSUME TypeOK, TargetInv, NEW c \in Conns, Worker(c)
  PROVE  TargetInv'
PROOF
<1>1. UNCHANGED <<srv, req>>
  BY DEF Worker, WorkerTarget, WorkerLost, UpstreamEnds, serverVars
<1>2. CASE ClientCloses(c)
  BY <1>1, <1>2, TargetClientQuiet DEF ClientCloses, TypeOK
<1>3. CASE /\ WorkerTarget(c)
           /\ cl' = [cl EXCEPT ![c] = "serving"]
           /\ tgt' = [tgt EXCEPT ![c] = Head(s2c[c]).to]
           /\ s2c' = [s2c EXCEPT ![c] = Tail(@)]
  <2>1. s2c[c] # <<>> /\ Head(s2c[c]).sig = "Target" BY <1>3 DEF WorkerTarget
  <2>2. s2c[c] \in Seq(Message) BY DEF TypeOK
  <2>3. 1 \in 1..Len(s2c[c]) /\ Head(s2c[c]) = s2c[c][1]
    BY <2>1, <2>2, HeadTailProperties, LenProperties
  <2>4. ASSUME srv[c] # "closed" PROVE Bridged(tgt[c], c)'
    <3>1. Bridged(Head(s2c[c]).to, c) BY <2>1, <2>3, <2>4 DEF TargetInv
    <3>2. tgt'[c] = Head(s2c[c]).to BY <1>3 DEF TypeOK
    <3>3. QED BY <1>1, <3>1, <3>2 DEF Bridged
  <2>5. \A d \in Conns : NoNewTarget(d)
    BY <1>3, <2>1, NoTargetSent DEF TypeOK
  <2>6. \A d \in Conns : d # c =>
          cl'[d] = cl[d] /\ tgt'[d] = tgt[d] /\ s2c'[d] = s2c[d]
    BY <1>3 DEF TypeOK
  <2>7. cl'[c] # "closed" BY <1>3 DEF TypeOK
  <2>8. ASSUME NEW d \in Conns, srv'[d] # "closed", NEW i \in 1..Len(s2c'[d]),
               s2c'[d][i].sig = "Target"
        PROVE  Bridged(s2c[d][i].to, d)'
    <3>1. PICK j \in 1..Len(s2c[d]) : s2c[d][j] = s2c'[d][i]
      BY <2>5, <2>8 DEF NoNewTarget
    <3>2. Bridged(s2c[d][j].to, d) BY <1>1, <2>8, <3>1 DEF TargetInv
    <3>3. QED BY <1>1, <3>1, <3>2 DEF Bridged
  <2>9. ASSUME NEW d \in Conns, d # c, srv'[d] # "closed", cl'[d] = "serving"
        PROVE  Bridged(tgt[d], d)'
    BY <1>1, <2>6, <2>9 DEF TargetInv, Bridged
  <2>10. \A d \in Conns : cl'[d] = "closed" => s2c'[d] = <<>>
    BY <2>6, <2>7 DEF TargetInv
  <2>11. QED BY <1>1, <2>4, <2>8, <2>9, <2>10 DEF TargetInv, Bridged
<1>4. QED
  BY <1>2, <1>3 DEF Worker, WorkerTarget, WorkerLost, UpstreamEnds

\* Stopping or restarting the server closes connections and writes nothing.
LEMMA TargetServer ==
  ASSUME TypeOK, TargetInv, Server
  PROVE  TargetInv'
PROOF
<1>1. Signal("Closed") \in Message /\ Signal("Closed").sig # "Target"
  BY MessageTypes DEF Signals, Signal
<1>2. CASE ServerStop \/ CloseControlOnStop
  <2>1. UNCHANGED <<req, cl, tgt, s2c>>
    BY <1>2 DEF ServerStop, CloseControlOnStop, clientVars
  <2>2. \A d \in Conns : srv'[d] # "closed" => srv[d] # "closed"
    BY <1>2 DEF ServerStop, CloseControlOnStop, ServerCloses, TypeOK
  <2>3. \A d \in Conns : \A q \in Requests : Bridged(q, d) => Bridged(q, d)'
    BY <2>1 DEF Bridged
  <2>4. QED BY <1>1, <2>1, <2>2, <2>3, TargetServerQuiet
<1>3. CASE ServerRestart
  <2>1. UNCHANGED <<cl, tgt, s2c>> /\ \A d \in Conns : srv'[d] = "closed"
    BY <1>3 DEF ServerRestart, clientVars
  <2>2. QED BY <2>1 DEF TargetInv
<1>4. QED BY <1>2, <1>3 DEF Server

\* A worker relays to the target of the request whose public connection is
\* bridged to it (acquireWorker, runOriginalWorker), whatever slot is closed,
\* dialled again or handed to another request in between.
THEOREM TargetsOfHolders == Spec => []TargetOfHolder
PROOF
<1>1. Init => TargetInv BY DEF Init, TargetInv
<1>2. ASSUME IInv, TargetInv, [Next]_vars PROVE TargetInv'
  <2>1. CASE Next
    BY <1>2, <2>1, TargetHandshake, TargetMonitor, TargetRequest, TargetClient,
       TargetWorker, TargetServer
    DEF IInv, Next
  <2>2. CASE UNCHANGED vars BY <1>2, <2>2 DEF vars, TargetInv, Bridged
  <2>3. QED BY <1>2, <2>1, <2>2
<1>3. TargetInv => TargetOfHolder BY DEF TargetInv, TargetOfHolder, Bridged
<1>4. QED BY <1>1, <1>2, <1>3, Inductive, PTL DEF Spec

-----------------------------------------------------------------------------
(***************************************************************************)
(* Workers on the way. As long as nothing fails the count of WorkerOnTheWay *)
(* is kept by every step, but only because of what cannot happen then: no  *)
(* monitor gives up, no client returns or crashes, no write fails, no      *)
(* worker connection is read as a handshake.  Calm says why.               *)
(***************************************************************************)

\* What is installed is a live connection, and all who hold it hold that one.
CalmServer ==
  /\ up
  /\ control # NoConn => srv[control] = "control" /\ cl[control] = "control"
  /\ \A c \in Conns : mon[c] # "off" => control = c
  /\ \A r \in Requests : req[r].pc = "signal" => req[r].ctl = control

Welcomed == {"welcome", "control"}

\* A client has one connection it dialled as a control channel, and runs only
\* when that was welcomed.
CalmClients ==
  /\ \A k \in Clients :
       /\ cli[k].pc # "dial" => /\ cli[k].conn \in Conns
                                /\ owner[cli[k].conn] = k
                                /\ cl[cli[k].conn] = "control"
       /\ cli[k].pc = "run" => srv[cli[k].conn] \in Welcomed
       /\ dials[k] > 0 => cli[k].pc = "run"
  /\ \A c \in Conns : cl[c] = "control" =>
       cli[owner[c]].pc # "dial" /\ cli[owner[c]].conn = c

Installed == control # NoConn \/ \E c \in Conns : srv[c] = "welcome"

Fresh == {"accept", "lock", "read"}

\* What a message says of the connection it is in flight on, the server being in s.
Fits(m, s) ==
  /\ m.sig = "Channel" => s = "control"
  /\ m.sig = "Welcome" => s \in Welcomed
  /\ m.sig # "Closed"

\* A connection on which nothing was lost: what was read as a handshake is one,
\* and a worker was dialled after the handshake of its client.
CalmConn(c) ==
  /\ srv[c] \in Welcomed =>
       /\ cl[c] = "control"
       /\ cli[owner[c]].pc # "run" =>
            s2c[c] # <<>> /\ Head(s2c[c]).sig = "Welcome"
  /\ srv[c] \in Fresh \cup {"offer", "queued"} => s2c[c] = <<>>
  /\ srv[c] \in Fresh => \/ cl[c] = "worker" /\ srv[c] # "read"
                         \/ cl[c] = "control" /\ c2s[c] # <<>>
  /\ srv[c] = "offer" => cl[c] \in {"worker", "control"}
  /\ srv[c] = "queued" => cl[c] # "serving"
  /\ cl[c] = "worker" => Installed
  /\ cl[c] = "closed" => s2c[c] = <<>>

CalmFrames(c) == \A i \in 1..Len(s2c[c]) : Fits(s2c[c][i], srv[c])

Sole == Cardinality(Clients) = 1

\* A connection is offered to the pool only beside an installed channel; with
\* one client it is no Hello.
CalmPool ==
  /\ \A c \in Conns : srv[c] = "offer" => control # NoConn
  /\ Sole => \A c \in Conns : srv[c] \in {"offer", "queued"} => cl[c] = "worker"

Calm ==
  /\ CalmServer
  /\ CalmClients
  /\ \A c \in Conns : CalmConn(c)
  /\ \A c \in Conns : CalmFrames(c)
  /\ CalmPool

\* Nothing has gone wrong before the first step.
LEMMA CalmInit == Init => Calm
PROOF
<1>1. SUFFICES ASSUME Init PROVE Calm OBVIOUS
<1>2. CalmServer BY <1>1 DEF Init, CalmServer, IdleReq
<1>3. CalmClients BY <1>1 DEF Init, CalmClients, ClientAtDial
<1>4. \A c \in Conns : CalmConn(c)
  BY <1>1 DEF Init, CalmConn, Welcomed, Fresh
<1>5. \A c \in Conns : CalmFrames(c) BY <1>1 DEF Init, CalmFrames
<1>6. CalmPool BY <1>1 DEF Init, CalmPool
<1>7. QED BY <1>2, <1>3, <1>4, <1>5, <1>6 DEF Calm

\* How the frames in flight to a client may change in a step that keeps what
\* they say of their connection.
FramesMove(c) ==
  \/ s2c'[c] = s2c[c]
  \/ s2c[c] # <<>> /\ s2c'[c] = Tail(s2c[c])
  \/ s2c'[c] = <<>>
  \/ \E m \in Message : Fits(m, srv'[c]) /\ s2c'[c] = Append(s2c[c], m)

\* Reading, closing and writing what fits leaves only frames that fit.
LEMMA FramesFit ==
  ASSUME TypeOK, NEW c \in Conns, CalmFrames(c), FramesMove(c),
         srv[c] = "control" => srv'[c] = "control",
         srv[c] = "welcome" => srv'[c] \in Welcomed
  PROVE  CalmFrames(c)'
PROOF
<1>1. \A m : Fits(m, srv[c]) => Fits(m, srv'[c]) BY DEF Fits, Welcomed
<1>2. s2c[c] \in Seq(Message) /\ Len(s2c[c]) \in Nat
  BY LenProperties DEF TypeOK
<1>3. SUFFICES ASSUME NEW i \in 1..Len(s2c'[c])
               PROVE  Fits(s2c'[c][i], srv'[c])
  BY DEF CalmFrames
<1>4. ASSUME NEW j \in 1..Len(s2c[c]), s2c[c][j] = s2c'[c][i]
      PROVE  Fits(s2c'[c][i], srv'[c])
  BY <1>1, <1>4 DEF CalmFrames
<1>5. CASE s2c'[c] = s2c[c] BY <1>4, <1>5
<1>6. CASE s2c[c] # <<>> /\ s2c'[c] = Tail(s2c[c])
  <2>1. PICK m \in Message : TRUE BY <1>2, <1>6, QueueTypes
  <2>2. \E j \in 1..Len(s2c[c]) : s2c[c][j] = s2c'[c][i]
    BY <1>2, <1>6, <2>1, FramesKept
  <2>3. QED BY <1>4, <2>2
<1>7. CASE s2c'[c] = <<>> BY <1>7
<1>8. CASE \E m \in Message : Fits(m, srv'[c]) /\ s2c'[c] = Append(s2c[c], m)
  <2>1. PICK m \in Message : Fits(m, srv'[c]) /\ s2c'[c] = Append(s2c[c], m)
    BY <1>8
  <2>2. s2c'[c][i] = m \/ \E j \in 1..Len(s2c[c]) : s2c[c][j] = s2c'[c][i]
    BY <1>2, <2>1, FramesKept
  <2>3. QED BY <1>4, <2>1, <2>2
<1>9. QED BY <1>5, <1>6, <1>7, <1>8 DEF FramesMove

\* A step that leaves both ends of a connection alone, lets its client at most
\* start to run and at most writes to it what it may keeps what Calm says of it.
LEMMA ConnKept ==
  ASSUME NEW c \in Conns, CalmConn(c), Installed => Installed',
         UNCHANGED <<srv[c], cl[c], owner[c]>>,
         srv[c] \in Fresh => c2s'[c] = c2s[c],
         \/ s2c'[c] = s2c[c]
         \/ /\ srv[c] \notin Fresh \cup {"offer", "queued"}
            /\ cl[c] # "closed"
            /\ s2c[c] # <<>> => s2c'[c] # <<>> /\ Head(s2c'[c]) = Head(s2c[c]),
         srv[c] \in Welcomed => \/ cli'[owner[c]].pc = cli[owner[c]].pc
                                \/ cli'[owner[c]].pc = "run"
  PROVE  CalmConn(c)'
PROOF BY DEF CalmConn

\* The types that the proofs below need.
LEMMA CalmTypes ==
  ASSUME IInv
  PROVE  /\ NoConn \notin Conns
         /\ control \in Conns \cup {NoConn}
         /\ mutex \in Conns \cup {NoConn}
         /\ srv \in [Conns -> SrvState]
         /\ mon \in [Conns -> {"off", "start", "run"}]
         /\ req \in [Requests -> [pc : ReqPC, ctl : Conns \cup {NoConn},
                                  conn : Conns \cup {NoConn}]]
         /\ cli \in [Clients -> [pc : {"dial", "hello", "run"},
                                 conn : Conns \cup {NoConn}]]
         /\ dials \in [Clients -> Nat]
         /\ owner \in [Conns -> Clients]
         /\ cl \in [Conns -> ClState]
         /\ c2s \in [Conns -> Seq(Message)]
         /\ s2c \in [Conns -> Seq(Message)]
PROOF BY NilAssumption DEF IInv, TypeOK

\* At most one connection is welcomed or installed.
LEMMA OneChannel ==
  ASSUME IInv, NEW c \in Conns, NEW d \in Conns,
         srv[c] \in Welcomed, srv[d] \in Welcomed
  PROVE  c = d
PROOF
<1>1. HandshakeInv /\ ControlInv /\ NoConn \notin Conns
  BY CalmTypes DEF IInv, Owned
<1>2. QED BY <1>1 DEF HandshakeInv, ControlInv, Welcomed

\* What a single client dialled as a control channel is its control channel.
LEMMA SoleChannel ==
  ASSUME IInv, Calm, Sole, NEW c \in Conns, cl[c] = "control",
         control # NoConn
  PROVE  control = c
PROOF
<1>1. PICK k : Clients = {k} BY FS_Singleton, FiniteAssumption DEF Sole
<1>2. control \in Conns /\ cl[control] = "control"
  BY CalmTypes DEF Calm, CalmServer
<1>3. owner[control] = k /\ owner[c] = k BY <1>1, <1>2, CalmTypes
<1>4. cli[k].conn = control /\ cli[k].conn = c
  BY <1>2, <1>3 DEF Calm, CalmClients
<1>5. QED BY <1>4

\* A step of the server's goroutine of c, seen from the others.
MovesOnly(c) ==
  /\ UNCHANGED <<up, cli, dials, owner, cl, tgt>>
  /\ \A r \in Requests : req'[r].pc = "signal" => req'[r] = req[r]
  /\ srv' = [srv EXCEPT ![c] = srv'[c]]
  /\ \A d \in Conns : d # c => s2c'[d] = s2c[d] /\ c2s'[d] = c2s[d]

\* Such a step, on any connection but a control channel, keeps Calm if it keeps
\* what Calm says of that connection.
LEMMA CalmMoves ==
  ASSUME IInv, Calm, NEW c \in Conns, MovesOnly(c),
         srv[c] \notin Welcomed, UNCHANGED <<control, mon>>,
         CalmConn(c)', FramesMove(c),
         srv'[c] = "offer" => control # NoConn,
         Sole /\ srv'[c] \in {"offer", "queued"} => cl[c] = "worker"
  PROVE  Calm'
PROOF
<1> USE CalmTypes
<1>1. /\ \A d \in Conns : d # c => srv'[d] = srv[d]
      /\ srv[c] # "control" /\ srv[c] # "welcome"
  BY DEF MovesOnly, Welcomed
<1>2. CalmServer'
  <2>1. control # NoConn => srv'[control] = "control" /\ cl'[control] = "control"
    BY <1>1 DEF Calm, CalmServer, MovesOnly
  <2>2. QED BY <2>1 DEF Calm, CalmServer, MovesOnly
<1>3. CalmClients' BY <1>1 DEF Calm, CalmClients, MovesOnly, Welcomed
<1>4. Installed => Installed' BY <1>1 DEF Installed
<1>5. \A d \in Conns : d # c => CalmConn(d)'
  BY <1>1, <1>4, ConnKept DEF Calm, MovesOnly
<1>6. ASSUME NEW d \in Conns PROVE CalmFrames(d)'
  <2>1. CalmFrames(d) /\ FramesMove(d) BY DEF Calm, FramesMove, MovesOnly
  <2> HIDE DEF CalmFrames
  <2>2. srv[d] = "control" => srv'[d] = "control" BY <1>1
  <2>3. srv[d] = "welcome" => srv'[d] \in Welcomed BY <1>1 DEF Welcomed
  <2>4. QED BY <2>1, <2>2, <2>3, FramesFit DEF IInv
<1>7. CalmPool' BY <1>1 DEF Calm, CalmPool, Sole, MovesOnly
<1>8. QED BY <1>2, <1>3, <1>5, <1>6, <1>7 DEF Calm

\* handleAccepted: no worker is taken for a handshake, no Hello is refused for
\* want of bytes, and the one handshake that succeeds is installed.
LEMMA CalmHandshake ==
  ASSUME IInv, Calm, faults = 0, NEW c \in Conns, Handshake(c)
  PROVE  Calm'
PROOF
<1> USE CalmTypes
<1>0. CalmConn(c) /\ CalmPool /\ CalmServer /\ CalmClients BY DEF Calm
<1>1. CASE HandleAccepted(c)
  <2>1. /\ srv[c] = "accept" /\ UNCHANGED <<control, mon, cl, s2c, c2s>>
        /\ srv'[c] \in {"lock", "offer"}
        /\ srv'[c] = "offer" => control # NoConn
    BY <1>1 DEF HandleAccepted, clientVars
  <2>2. MovesOnly(c) BY <1>1 DEF HandleAccepted, MovesOnly, clientVars
  <2>3. Installed => Installed' BY <2>1, <2>2 DEF Installed, MovesOnly
  <2>4. CalmConn(c)' BY <1>0, <2>1, <2>3 DEF CalmConn, Fresh, Welcomed
  <2>5. Sole /\ srv'[c] \in {"offer", "queued"} => cl[c] = "worker"
    BY <1>0, <2>1, SoleChannel DEF CalmConn, CalmServer, Fresh
  <2>6. FramesMove(c) /\ srv[c] \notin Welcomed BY <2>1 DEF FramesMove, Welcomed
  <2>7. QED BY <2>1, <2>2, <2>4, <2>5, <2>6, CalmMoves
<1>2. CASE LockHandshake(c)
  <2>1. /\ srv[c] = "lock" /\ UNCHANGED <<control, mon, cl, s2c, c2s>>
        /\ mutex = NoConn
        /\ srv'[c] = IF control # NoConn THEN "offer" ELSE "read"
    BY <1>2 DEF LockHandshake, clientVars, Recheck, MutexFree
  <2>2. MovesOnly(c) BY <1>2 DEF LockHandshake, MovesOnly, clientVars
  <2>3. Installed => control # NoConn
    BY <2>1 DEF Installed, IInv, Owned, HandshakeInv
  <2>4. CalmConn(c)'
    BY <1>0, <2>1, <2>3 DEF CalmConn, Fresh, Welcomed, Installed
  <2>5. Sole /\ srv'[c] \in {"offer", "queued"} => cl[c] = "worker"
    BY <1>0, <2>1, SoleChannel DEF CalmConn, CalmServer, Fresh
  <2>6. FramesMove(c) /\ srv[c] \notin Welcomed BY <2>1 DEF FramesMove, Welcomed
  <2>7. QED BY <2>1, <2>2, <2>4, <2>5, <2>6, CalmMoves
<1>3. CASE ReadHello(c)
  <2>1. /\ srv[c] = "read" /\ UNCHANGED <<control, mon, cl, cli, owner>>
        /\ srv'[c] = "welcome" /\ ToClient(c, Signal("Welcome"))
    BY <1>3 DEF ReadHello, clientVars
  <2>2. cl[c] = "control" /\ s2c[c] = <<>>
    BY <1>0, <2>1 DEF CalmConn, Fresh
  <2>3. /\ s2c' = [s2c EXCEPT ![c] = Append(@, Signal("Welcome"))]
        /\ s2c'[c] = <<Signal("Welcome")>>
    BY <2>1, <2>2 DEF ToClient
  <2>4. MovesOnly(c)
    BY <1>3, <2>3 DEF ReadHello, MovesOnly, clientVars
  <2>5. s2c'[c] # <<>> /\ Head(s2c'[c]).sig = "Welcome"
    <3>1. \A m : <<m>> # <<>> /\ Head(<<m>>) = m OBVIOUS
    <3>2. Signal("Welcome").sig = "Welcome" BY DEF Signal
    <3>3. QED BY <2>3, <3>1, <3>2
  <2>6. CalmConn(c)' BY <2>1, <2>2, <2>5 DEF CalmConn, Fresh, Welcomed
  <2>7. Signal("Welcome") \in Message /\ Fits(Signal("Welcome"), "welcome")
    BY MessageTypes DEF Signals, Signal, Fits, Welcomed
  <2>8. FramesMove(c) /\ srv[c] \notin Welcomed
    BY <2>1, <2>3, <2>7 DEF FramesMove, Welcomed
  <2>9. QED BY <2>1, <2>4, <2>6, <2>8, CalmMoves
<1>4. CASE RejectHello(c)
  <2>1. /\ srv[c] = "read" /\ UNCHANGED <<control, mon, cl, cli, owner, s2c>>
        /\ srv'[c] = "closed" /\ c2s' = [c2s EXCEPT ![c] = <<>>]
    BY <1>4 DEF RejectHello, clientVars, ServerCloses
  <2>2. cl[c] = "control" /\ s2c[c] = <<>>
    BY <1>0, <2>1 DEF CalmConn, Fresh
  <2>3. MovesOnly(c)
    BY <1>4 DEF RejectHello, MovesOnly, clientVars, ServerCloses
  <2>4. CalmConn(c)' BY <2>1, <2>2 DEF CalmConn, Fresh, Welcomed
  <2>5. FramesMove(c) /\ srv[c] \notin Welcomed BY <2>1 DEF FramesMove, Welcomed
  <2>6. QED BY <2>1, <2>3, <2>4, <2>5, CalmMoves
<1>5. CASE InstallControl(c)
  <2>0. control = NoConn /\ srv[c] = "welcome"
    BY <1>5 DEF InstallControl, IInv, Owned, HandshakeInv
  <2>1. /\ control' = c /\ srv' = [srv EXCEPT ![c] = "control"]
        /\ mon' = [mon EXCEPT ![c] = "start"]
        /\ UNCHANGED <<up, req, cli, dials, owner, cl, c2s, s2c>>
    BY <1>5, <2>0 DEF InstallControl, clientVars
  <2>2. /\ cl[c] = "control"
        /\ cli[owner[c]].pc # "run" =>
             s2c[c] # <<>> /\ Head(s2c[c]).sig = "Welcome"
    BY <1>0, <2>0 DEF CalmConn, Welcomed
  <2>3. CalmServer'
    <3>1. \A d \in Conns : mon[d] = "off" BY <1>0, <2>0 DEF CalmServer
    <3>2. \A r \in Requests : req[r].pc # "signal"
      BY <1>0, <2>0 DEF CalmServer, IInv, Owned, ControlInv
    <3>3. srv'[c] = "control" BY <2>1
    <3>4. up BY <1>0 DEF CalmServer
    <3>5. QED BY <2>1, <2>2, <3>1, <3>2, <3>3, <3>4 DEF CalmServer
  <2>4. CalmClients' BY <1>0, <2>0, <2>1 DEF CalmClients, Welcomed
  <2>5. Installed' BY <2>1 DEF Installed
  <2>6. ASSUME NEW d \in Conns PROVE CalmConn(d)'
    <3>1. CASE d = c
      <4>1. /\ srv'[c] = "control" /\ cl'[c] = "control" /\ s2c'[c] = s2c[c]
            /\ cli'[owner'[c]].pc = cli[owner[c]].pc
        BY <2>1, <2>2
      <4>2. QED BY <2>2, <3>1, <4>1 DEF CalmConn, Welcomed, Fresh
    <3>2. CASE d # c BY <2>1, <2>5, <3>2, ConnKept DEF Calm
    <3>3. QED BY <3>1, <3>2
  <2>7. ASSUME NEW d \in Conns PROVE CalmFrames(d)'
    <3>1. CalmFrames(d) /\ FramesMove(d) BY <2>1 DEF Calm, FramesMove
    <3>2. /\ srv[d] = "control" => srv'[d] = "control"
          /\ srv[d] = "welcome" => srv'[d] \in Welcomed
      BY <2>0, <2>1 DEF Welcomed
    <3>3. QED BY <3>1, <3>2, FramesFit DEF IInv
  <2>8. CalmPool' BY <1>0, <2>1 DEF CalmPool, Sole
  <2>9. QED BY <2>3, <2>4, <2>6, <2>7, <2>8 DEF Calm
<1>6. CASE Enqueue(c)
  <2>1. /\ srv[c] = "offer" /\ UNCHANGED <<control, mon, cl, cli, owner, s2c>>
        /\ srv'[c] \in {"queued", "closed"}
    BY <1>6 DEF Enqueue, clientVars, ServerCloses
  <2>2. cl[c] \in {"worker", "control"} /\ s2c[c] = <<>>
    BY <1>0, <2>1 DEF CalmConn
  <2>3. MovesOnly(c)
    BY <1>6 DEF Enqueue, MovesOnly, clientVars, ServerCloses
  <2>4. Installed => Installed' BY <2>1, <2>3 DEF Installed, MovesOnly
  <2>5. CalmConn(c)' BY <1>0, <2>1, <2>2, <2>4 DEF CalmConn, Fresh, Welcomed
  <2>6. Sole /\ srv'[c] \in {"offer", "queued"} => cl[c] = "worker"
    BY <1>0, <2>1 DEF CalmPool
  <2>7. FramesMove(c) /\ srv[c] \notin Welcomed BY <2>1 DEF FramesMove, Welcomed
  <2>8. QED BY <2>1, <2>3, <2>5, <2>6, <2>7, CalmMoves
<1>7. QED BY <1>1, <1>2, <1>3, <1>4, <1>5, <1>6 DEF Handshake

\* A write leaves the first frame in flight where it is.
LEMMA HeadOfAppend ==
  ASSUME NEW q \in Seq(Message), NEW m \in Message, q # <<>>
  PROVE  Append(q, m) # <<>> /\ Head(Append(q, m)) = Head(q)
PROOF
<1>1. Len(q) \in Nat /\ Len(q) >= 1 /\ Head(q) = q[1]
  BY LenProperties, EmptySeq, HeadTailProperties
<1>2. /\ Append(q, m) \in Seq(Message) /\ Len(Append(q, m)) = Len(q) + 1
      /\ Append(q, m)[1] = q[1]
  BY <1>1, AppendProperties
<1>3. Append(q, m) # <<>> BY <1>1, <1>2
<1>4. Head(Append(q, m)) = Append(q, m)[1] BY <1>2, <1>3, HeadTailProperties
<1>5. QED BY <1>1, <1>2, <1>3, <1>4

\* The monitor of a connection watches the installed channel, which is live: it
\* can only write to it and read from it.
LEMMA CalmMonitorSteps ==
  ASSUME IInv, Calm, faults = 0, faults' = 0, NEW c \in Conns, Monitor(c)
  PROVE  /\ control = c /\ srv[c] = "control"
         /\ UNCHANGED <<up, control, mutex, workers, srv, req, cli, dials, owner,
                        cl, faults>>
         /\ \A d \in Conns : mon'[d] # "off" => mon[d] # "off"
         /\ \A d \in Conns : d # c => c2s'[d] = c2s[d]
         /\ \/ s2c' = s2c
            \/ \E m \in {Signal("RTT"), Signal("Heartbeat")} : ToClient(c, m)
PROOF
<1> USE CalmTypes DEF clientVars, serverVars
<1>1. CalmServer /\ CalmConn(c) /\ up BY DEF Calm, CalmServer
<1>2. mon[c] # "off"
  BY DEF Monitor, MonitorStart, MonitorPing, MonitorEcho, MonitorLost,
         MonitorShutdown, MonitorTimeout
<1>3. control = c /\ srv[c] = "control" /\ cl[c] = "control"
  BY <1>1, <1>2 DEF CalmServer
<1>4. ~MonitorLost(c) /\ ~MonitorShutdown(c) /\ ~MonitorTimeout(c)
  BY <1>1, <1>3
  DEF MonitorLost, MonitorShutdown, MonitorTimeout, ConnectionEnds, Fault
<1>5. CASE MonitorStart(c) BY <1>3, <1>5 DEF MonitorStart
<1>6. CASE MonitorPing(c) BY <1>3, <1>6 DEF MonitorPing
<1>7. CASE MonitorEcho(c) BY <1>3, <1>7 DEF MonitorEcho
<1>8. QED BY <1>4, <1>5, <1>6, <1>7 DEF Monitor

\* A write to the installed channel of a message that is no Closed and no
\* Welcome keeps what Calm says of every connection.
LEMMA CalmWrite ==
  ASSUME IInv, Calm, NEW c \in Conns, srv[c] \in {"control", "taken"},
         s2c' = s2c \/ \E m \in Message : Fits(m, srv[c]) /\ ToClient(c, m),
         UNCHANGED <<control, srv, cl, cli, owner>>,
         \A d \in Conns : d # c => c2s'[d] = c2s[d],
         NEW d \in Conns
  PROVE  CalmConn(d)' /\ CalmFrames(d)'
PROOF
<1> USE CalmTypes
<1>1. \/ s2c'[d] = s2c[d]
      \/ /\ d = c /\ cl[d] # "closed"
         /\ \E m \in Message : Fits(m, srv'[d]) /\ s2c'[d] = Append(s2c[d], m)
  BY WriteFrames DEF IInv
<1>2. FramesMove(d) BY <1>1 DEF FramesMove
<1>3. CalmFrames(d)' BY <1>2, FramesFit DEF Calm, IInv, Welcomed
<1>4. Installed => Installed' BY DEF Installed
<1>5. CASE s2c'[d] = s2c[d]
  BY <1>3, <1>4, <1>5, ConnKept DEF Calm, Fresh
<1>7. CASE /\ d = c /\ cl[d] # "closed"
           /\ \E m \in Message : s2c'[d] = Append(s2c[d], m)
  <2>1. PICK m \in Message : s2c'[d] = Append(s2c[d], m) BY <1>7
  <2>2. s2c[d] # <<>> => s2c'[d] # <<>> /\ Head(s2c'[d]) = Head(s2c[d])
    BY <2>1, HeadOfAppend
  <2>3. QED BY <1>3, <1>4, <1>7, <2>2, ConnKept DEF Calm, Fresh
<1>8. QED BY <1>1, <1>5, <1>7

\* monitorControl keeps the channel it watches.
LEMMA CalmMonitor ==
  ASSUME IInv, Calm, faults = 0, faults' = 0, NEW c \in Conns, Monitor(c)
  PROVE  Calm'
PROOF
<1>1. /\ control = c /\ srv[c] = "control"
      /\ UNCHANGED <<up, control, mutex, workers, srv, req, cli, dials, owner,
                     cl, faults>>
      /\ \A d \in Conns : mon'[d] # "off" => mon[d] # "off"
      /\ \A d \in Conns : d # c => c2s'[d] = c2s[d]
      /\ \/ s2c' = s2c
         \/ \E m \in {Signal("RTT"), Signal("Heartbeat")} : ToClient(c, m)
  BY CalmMonitorSteps
<1>2. \A m \in {Signal("RTT"), Signal("Heartbeat")} :
        m \in Message /\ Fits(m, srv[c])
  BY MessageTypes DEF Signals, Signal, Fits
<1>3. \A d \in Conns : CalmConn(d)' /\ CalmFrames(d)'
  BY <1>1, <1>2, CalmWrite
<1>4. CalmServer' BY <1>1 DEF Calm, CalmServer
<1>5. CalmClients' BY <1>1 DEF Calm, CalmClients
<1>6. CalmPool' BY <1>1 DEF Calm, CalmPool, Sole
<1>7. QED BY <1>3, <1>4, <1>5, <1>6 DEF Calm

\* acquireWorker writes to the installed channel, which takes what it writes, and
\* to what it holds.
LEMMA CalmRequest ==
  ASSUME IInv, Calm, faults = 0, NEW r \in Requests, Request(r)
  PROVE  Calm'
PROOF
<1> USE CalmTypes
<1>0. CalmServer /\ CalmClients /\ CalmPool /\ HeldInv /\ PoolInv /\ ControlInv
  BY DEF Calm, IInv, Owned
<1>1. ASSUME UNCHANGED <<up, control, srv, mon, clientVars, c2s>>,
             \A q \in Requests : req'[q].pc = "signal" => req'[q].ctl = control,
             NEW c \in Conns, srv[c] \in {"control", "taken"},
             s2c' = s2c \/ \E m \in Message : Fits(m, srv[c]) /\ ToClient(c, m)
      PROVE  Calm'
  <2>1. CalmServer' BY <1>0, <1>1 DEF CalmServer, clientVars
  <2>2. CalmClients' BY <1>0, <1>1 DEF CalmClients, clientVars
  <2>3. CalmPool' BY <1>0, <1>1 DEF CalmPool, Sole, clientVars
  <2>4. \A d \in Conns : CalmConn(d)' /\ CalmFrames(d)'
    BY <1>1, CalmWrite DEF clientVars
  <2>5. QED BY <2>1, <2>2, <2>3, <2>4 DEF Calm
<1>2. ASSUME UNCHANGED <<up, control, srv, mon, clientVars, c2s, s2c>>,
             \A q \in Requests : req'[q].pc = "signal" => req'[q].ctl = control
      PROVE  Calm'
  <2>1. CalmServer' BY <1>0, <1>2 DEF CalmServer, clientVars
  <2>2. CalmClients' BY <1>0, <1>2 DEF CalmClients, clientVars
  <2>3. CalmPool' BY <1>0, <1>2 DEF CalmPool, Sole, clientVars
  <2>4. Installed => Installed' BY <1>2 DEF Installed
  <2>5. \A d \in Conns : CalmConn(d)'
    BY <1>2, <2>4, ConnKept DEF Calm, clientVars
  <2>6. \A d \in Conns : CalmFrames(d)' BY <1>2 DEF Calm, CalmFrames
  <2>7. QED BY <2>1, <2>2, <2>3, <2>5, <2>6 DEF Calm
<1>3. ASSUME NEW c \in Conns, srv[c] \in {"queued", "taken"},
             srv' = [srv EXCEPT ![c] = srv'[c]],
             srv'[c] \in {"taken", "closed"},
             \A d \in Conns : d # c => c2s'[d] = c2s[d],
             UNCHANGED <<up, control, mon, clientVars, s2c>>,
             \A q \in Requests : req'[q].pc = "signal" => req'[q] = req[q]
      PROVE  Calm'
  <2>1. MovesOnly(c) BY <1>3 DEF MovesOnly, clientVars
  <2>2. FramesMove(c) /\ srv[c] \notin Welcomed
    BY <1>3 DEF FramesMove, Welcomed
  <2>3. Installed => Installed' BY <1>3 DEF Installed
  <2>4. UNCHANGED <<cl, s2c>> BY <1>3 DEF clientVars
  <2>5. CalmConn(c)'
    BY <1>3, <2>3, <2>4 DEF Calm, CalmConn, Welcomed, Fresh
  <2>6. ~(Sole /\ srv'[c] \in {"offer", "queued"}) BY <1>3
  <2>7. QED BY <1>3, <2>1, <2>2, <2>5, <2>6, CalmMoves
<1>4. CASE RequestArrives(r)
  BY <1>0, <1>2, <1>4 DEF RequestArrives, CalmServer
<1>5. CASE SeeControl(r) BY <1>0, <1>2, <1>5 DEF SeeControl, CalmServer
<1>6. CASE SendChannel(r)
  <2>1. req[r].ctl = control /\ control # NoConn
    BY <1>0, <1>6 DEF SendChannel, CalmServer, ControlInv
  <2>2. control \in Conns /\ srv[control] = "control" /\ cl[control] = "control"
    BY <1>0, <2>1 DEF CalmServer
  <2>3. /\ ToClient(control, Signal("Channel"))
        /\ req' = [req EXCEPT ![r].pc = "take", ![r].ctl = NoConn]
        /\ UNCHANGED <<up, control, srv, mon, clientVars, c2s>>
    BY <1>6, <2>1, <2>2 DEF SendChannel, WriteMayFail
  <2>4. Signal("Channel") \in Message /\ Fits(Signal("Channel"), "control")
    BY MessageTypes DEF Signals, Signal, Fits
  <2>5. \A q \in Requests : req'[q].pc = "signal" => req'[q].ctl = control
    BY <1>0, <2>3 DEF CalmServer
  <2>6. QED BY <1>1, <2>2, <2>3, <2>4, <2>5
<1>7. CASE TakeWorker(r)
  <2> DEFINE w == Head(workers)
  <2>1. w = workers[1] /\ 1 \in 1..Len(workers)
    BY <1>7, OwnedTypes, HeadTailProperties, EmptySeq DEF TakeWorker, IInv
  <2>2. w \in Conns /\ srv[w] = "queued" BY <1>0, <2>1 DEF PoolInv
  <2>3. /\ srv' = [srv EXCEPT ![w] = "taken"]
        /\ UNCHANGED <<up, control, mon, clientVars, c2s, s2c>>
        /\ \A q \in Requests : req'[q].pc = "signal" => req'[q] = req[q]
    BY <1>7 DEF TakeWorker
  <2> HIDE DEF w
  <2>4. QED BY <1>3, <2>2, <2>3
<1>8. CASE SendTarget(r)
  <2> DEFINE c == req[r].conn
  <2>1. c \in Conns /\ srv[c] = "taken"
    BY <1>0, <1>8 DEF SendTarget, HeldInv, Holding
  <2>2. CASE ToClient(c, Target(r)) /\ req' = [req EXCEPT ![r].pc = "bridge"]
             /\ UNCHANGED <<srv, c2s>>
    <3>1. Target(r) \in Message /\ Fits(Target(r), "taken")
      BY MessageTypes DEF Target, Fits
    <3>2. \A q \in Requests : req'[q].pc = "signal" => req'[q].ctl = control
      BY <1>0, <2>2 DEF CalmServer
    <3>3. UNCHANGED <<up, control, mon, clientVars>> BY <1>8 DEF SendTarget
    <3>4. QED BY <1>1, <2>1, <2>2, <3>1, <3>2, <3>3
  <2>3. CASE ServerCloses(c) /\ req' = [req EXCEPT ![r] = IdleReq]
             /\ UNCHANGED s2c
    <3>1. UNCHANGED <<up, control, mon, clientVars>> BY <1>8 DEF SendTarget
    <3>2. \A q \in Requests : req'[q].pc = "signal" => req'[q] = req[q]
      BY <2>3 DEF IdleReq
    <3>3. /\ srv' = [srv EXCEPT ![c] = "closed"]
          /\ \A d \in Conns : d # c => c2s'[d] = c2s[d]
      BY <2>3 DEF ServerCloses
    <3> HIDE DEF c
    <3>4. QED BY <1>3, <2>1, <2>3, <3>1, <3>2, <3>3
  <2>4. QED BY <1>8, <2>2, <2>3 DEF SendTarget
<1>9. CASE RequestTimeout(r)
  BY <1>0, <1>2, <1>9 DEF RequestTimeout, CalmServer, IdleReq
<1>10. CASE BridgeEnd(r)
  <2> DEFINE c == req[r].conn
  <2>1. c \in Conns /\ srv[c] = "taken"
    BY <1>0, <1>10 DEF BridgeEnd, HeldInv, Holding
  <2>2. UNCHANGED <<up, control, mon, clientVars, s2c>> BY <1>10 DEF BridgeEnd
  <2>3. \A q \in Requests : req'[q].pc = "signal" => req'[q] = req[q]
    BY <1>10 DEF BridgeEnd, IdleReq
  <2>4. /\ srv' = [srv EXCEPT ![c] = "closed"]
        /\ \A d \in Conns : d # c => c2s'[d] = c2s[d]
    BY <1>10 DEF BridgeEnd, ServerCloses
  <2> HIDE DEF c
  <2>5. QED BY <1>3, <2>1, <2>2, <2>3, <2>4
<1>11. QED BY <1>4, <1>5, <1>6, <1>7, <1>8, <1>9, <1>10 DEF Request

\* A connection that is dialled starts with what Calm asks of it, if a worker is
\* dialled only by a client that runs.
LEMMA CalmDial ==
  ASSUME IInv, Calm, NEW k \in Clients, NEW c \in Conns,
         NEW use \in {"control", "worker"}, NEW sent, Dial(k, c, use, sent),
         UNCHANGED <<up, control, mon, req>>,
         use = "worker" => UNCHANGED cli /\ Installed,
         use = "control" =>
           /\ cli[k].pc = "dial" /\ sent # <<>>
           /\ cli' = [cli EXCEPT ![k] = [pc |-> "hello", conn |-> c]],
         \A j \in Clients : dials'[j] > 0 => dials[j] > 0
  PROVE  Calm'
PROOF
<1> USE CalmTypes
<1>0. CalmServer /\ CalmClients /\ CalmPool /\ CalmConn(c) BY DEF Calm
<1>1. /\ srv[c] = "closed" /\ cl[c] = "closed" /\ control # c
      /\ srv' = [srv EXCEPT ![c] = "accept"]
      /\ cl' = [cl EXCEPT ![c] = use]
      /\ owner' = [owner EXCEPT ![c] = k]
      /\ c2s' = [c2s EXCEPT ![c] = sent]
      /\ s2c' = s2c
  BY DEF Dial, Reusable
<1>2. s2c[c] = <<>> BY <1>0, <1>1 DEF CalmConn
<1>3. Installed => Installed' BY <1>1 DEF Installed
<1>4. CalmServer'
  <2>1. control # NoConn => srv'[control] = "control" /\ cl'[control] = "control"
    BY <1>0, <1>1 DEF CalmServer
  <2>2. QED BY <1>0, <2>1 DEF CalmServer
<1>5. CalmClients'
  <2>1. ASSUME NEW j \in Clients, cli[j].pc # "dial", cli'[j] = cli[j]
        PROVE  /\ cli'[j].conn \in Conns
               /\ owner'[cli'[j].conn] = j
               /\ cl'[cli'[j].conn] = "control"
               /\ cli'[j].pc = "run" => srv'[cli'[j].conn] \in Welcomed
    <3>1. /\ cli[j].conn \in Conns /\ owner[cli[j].conn] = j
          /\ cl[cli[j].conn] = "control"
          /\ cli[j].pc = "run" => srv[cli[j].conn] \in Welcomed
      BY <1>0, <2>1 DEF CalmClients
    <3>2. cli[j].conn # c BY <1>1, <3>1
    <3>3. QED BY <1>1, <2>1, <3>1, <3>2
  <2>2. ASSUME NEW j \in Clients, dials'[j] > 0 PROVE cli'[j].pc = "run"
    <3>1. cli[j].pc = "run" BY <1>0, <2>2 DEF CalmClients
    <3>2. cli'[j] = cli[j] BY <3>1
    <3>3. QED BY <3>1, <3>2
  <2>3. ASSUME NEW d \in Conns, d # c, cl'[d] = "control"
        PROVE  cli'[owner'[d]].pc # "dial" /\ cli'[owner'[d]].conn = d
    <3>1. cl[d] = "control" /\ owner'[d] = owner[d] BY <1>1, <2>3
    <3>2. cli[owner[d]].pc # "dial" /\ cli[owner[d]].conn = d
      BY <1>0, <3>1 DEF CalmClients
    <3>3. cli'[owner[d]] = cli[owner[d]] BY <3>2
    <3>4. QED BY <3>1, <3>2, <3>3
  <2>4. CASE use = "worker"
    <3>1. \A j \in Clients : cli'[j] = cli[j] BY <2>4
    <3>2. cl'[c] # "control" BY <1>1, <2>4
    <3>3. QED BY <2>1, <2>2, <2>3, <3>1, <3>2 DEF CalmClients
  <2>5. CASE use = "control"
    <3>1. /\ cli'[k].pc = "hello" /\ cli'[k].conn = c
          /\ \A j \in Clients : j # k => cli'[j] = cli[j]
      BY <2>5
    <3>2. owner'[c] = k /\ cl'[c] = "control" BY <1>1, <2>5
    <3>3. \A j \in Clients :
            /\ cli'[j].pc # "dial" => /\ cli'[j].conn \in Conns
                                      /\ owner'[cli'[j].conn] = j
                                      /\ cl'[cli'[j].conn] = "control"
            /\ cli'[j].pc = "run" => srv'[cli'[j].conn] \in Welcomed
      BY <2>1, <3>1, <3>2
    <3>4. \A d \in Conns : cl'[d] = "control" =>
            cli'[owner'[d]].pc # "dial" /\ cli'[owner'[d]].conn = d
      BY <2>3, <3>1, <3>2
    <3>5. QED BY <2>2, <3>3, <3>4 DEF CalmClients
  <2>6. QED BY <2>4, <2>5
<1>6. ASSUME NEW d \in Conns PROVE CalmConn(d)'
  <2>1. CASE d # c
    <3>1. CalmConn(d) /\ UNCHANGED <<srv[d], cl[d], owner[d], c2s[d], s2c[d]>>
      BY <1>1, <2>1 DEF Calm
    <3>2. srv[d] \in Welcomed => cli'[owner[d]].pc = cli[owner[d]].pc
      <4>1. srv[d] \in Welcomed => cli[owner[d]].pc # "dial"
        BY <1>0, <3>1 DEF CalmConn, CalmClients
      <4>2. QED BY <4>1
    <3>3. QED BY <1>3, <3>1, <3>2, ConnKept
  <2>2. CASE d = c
    <3>1. srv'[c] = "accept" /\ cl'[c] = use /\ c2s'[c] = sent /\ s2c'[c] = <<>>
      BY <1>1, <1>2
    <3>2. QED BY <1>3, <2>2, <3>1 DEF CalmConn, Welcomed, Fresh
  <2>3. QED BY <2>1, <2>2
<1>7. ASSUME NEW d \in Conns PROVE CalmFrames(d)'
  <2>1. CalmFrames(d) /\ FramesMove(d) BY <1>1 DEF Calm, FramesMove
  <2> HIDE DEF CalmFrames
  <2>2. /\ srv[d] = "control" => srv'[d] = "control"
        /\ srv[d] = "welcome" => srv'[d] \in Welcomed
    BY <1>1 DEF Welcomed
  <2>3. QED BY <2>1, <2>2, FramesFit DEF IInv
<1>8. CalmPool' BY <1>0, <1>1 DEF CalmPool, Sole
<1>9. QED BY <1>4, <1>5, <1>6, <1>7, <1>8 DEF Calm

\* A client end that reads or closes on connections that are neither handshakes
\* nor pooled, in a step that leaves clients and their channels alone.
LEMMA CalmEnd ==
  ASSUME IInv, Calm, NEW c \in Conns, srv[c] \in {"taken", "closed"},
         cl[c] \in {"worker", "serving"},
         cl' = [cl EXCEPT ![c] = cl'[c]], cl'[c] \in {"serving", "closed"},
         s2c' = [s2c EXCEPT ![c] = s2c'[c]], FramesMove(c),
         cl'[c] = "closed" => s2c'[c] = <<>>,
         UNCHANGED <<up, control, mon, req, srv, cli, dials, owner, c2s>>
  PROVE  Calm'
PROOF
<1> USE CalmTypes
<1>0. CalmServer /\ CalmClients /\ CalmPool BY DEF Calm
<1>1. cl[c] # "control" /\ cl'[c] # "control" OBVIOUS
<1>2. \A d \in Conns : d # c => cl'[d] = cl[d] /\ s2c'[d] = s2c[d] OBVIOUS
<1>3. Installed => Installed' BY DEF Installed
<1>4. CalmServer'
  <2>1. control # NoConn => cl'[control] = "control"
    BY <1>0, <1>1, <1>2 DEF CalmServer
  <2>2. QED BY <1>0, <2>1 DEF CalmServer
<1>5. CalmClients'
  <2>1. \A d \in Conns : cl'[d] = "control" <=> cl[d] = "control"
    BY <1>1, <1>2
  <2>2. QED BY <1>0, <2>1 DEF CalmClients
<1>6. ASSUME NEW d \in Conns PROVE CalmConn(d)'
  <2>1. CASE d # c BY <1>2, <1>3, <2>1, ConnKept DEF Calm
  <2>2. CASE d = c BY <2>2 DEF CalmConn, Welcomed, Fresh
  <2>3. QED BY <2>1, <2>2
<1>7. ASSUME NEW d \in Conns PROVE CalmFrames(d)'
  <2>1. CalmFrames(d) /\ FramesMove(d) BY <1>2 DEF Calm, FramesMove
  <2>2. QED BY <2>1, FramesFit DEF IInv, Welcomed
<1>8. CalmPool' BY <1>0, <1>2 DEF CalmPool, Sole
<1>9. QED BY <1>4, <1>5, <1>6, <1>7, <1>8 DEF Calm

\* A worker reads a frame only from the request that took it, and closes only
\* after that.
LEMMA CalmWorker ==
  ASSUME IInv, Calm, NEW c \in Conns, Worker(c)
  PROVE  /\ Calm'
         /\ srv[c] \in {"taken", "closed"} /\ cl[c] \in {"worker", "serving"}
PROOF
<1> USE CalmTypes DEF serverVars
<1>0. CalmConn(c) BY DEF Calm
<1>1. cl[c] \in {"worker", "serving"}
  BY DEF Worker, WorkerTarget, WorkerLost, UpstreamEnds
<1>2. srv[c] \in {"taken", "closed"}
  <2>1. \/ s2c[c] # <<>> \/ srv[c] = "closed" \/ cl[c] = "serving"
    BY DEF Worker, WorkerTarget, WorkerLost, UpstreamEnds
  <2>2. srv[c] \notin {"welcome", "control"} BY <1>0, <1>1 DEF CalmConn, Welcomed
  <2>3. srv[c] \notin {"accept", "lock", "read", "offer", "queued"}
    BY <1>0, <1>1, <2>1 DEF CalmConn, Fresh
  <2>4. QED BY <2>2, <2>3 DEF SrvState
<1>3. UNCHANGED <<up, control, mon, req, srv, cli, dials, owner, c2s>>
  BY DEF Worker, WorkerTarget, WorkerLost, UpstreamEnds
<1>4. CASE ClientCloses(c)
  <2>1. /\ cl' = [cl EXCEPT ![c] = "closed"]
        /\ s2c' = [s2c EXCEPT ![c] = <<>>]
    BY <1>4 DEF ClientCloses
  <2>2. cl'[c] = "closed" /\ s2c'[c] = <<>> BY <2>1
  <2>3. FramesMove(c) BY <2>2 DEF FramesMove
  <2>4. QED BY <1>1, <1>2, <1>3, <2>1, <2>2, <2>3, CalmEnd
<1>5. CASE /\ s2c[c] # <<>>
           /\ cl' = [cl EXCEPT ![c] = "serving"]
           /\ s2c' = [s2c EXCEPT ![c] = Tail(@)]
  <2>1. cl'[c] = "serving" /\ s2c'[c] = Tail(s2c[c]) BY <1>5
  <2>2. FramesMove(c) BY <1>5, <2>1 DEF FramesMove
  <2>3. QED BY <1>1, <1>2, <1>3, <1>5, <2>1, <2>2, CalmEnd
<1>6. QED BY <1>4, <1>5 DEF Worker, WorkerTarget, WorkerLost, UpstreamEnds

\* A client that runs has a welcomed connection, hence a channel is installed or
\* about to be.
LEMMA RunsInstalled ==
  ASSUME IInv, Calm, NEW k \in Clients, cli[k].pc = "run"
  PROVE  Installed
PROOF
<1>1. cli[k].conn \in Conns /\ srv[cli[k].conn] \in Welcomed
  BY DEF Calm, CalmClients
<1>2. CASE srv[cli[k].conn] = "welcome" BY <1>1, <1>2 DEF Installed
<1>3. CASE srv[cli[k].conn] = "control"
  BY <1>1, <1>3, CalmTypes DEF Installed, IInv, Owned, ControlInv
<1>4. QED BY <1>1, <1>2, <1>3 DEF Welcomed

\* A client gives up a Hello only when it was refused or, not being the only
\* client, was pooled as a worker.
LEMMA CalmRetry ==
  ASSUME IInv, Calm, NEW k \in Clients, ClientRetry(k)
  PROVE  Calm'
PROOF
<1> USE CalmTypes DEF serverVars
<1> DEFINE c == cli[k].conn
<1>0. CalmServer /\ CalmClients /\ CalmPool BY DEF Calm
<1>1. c \in Conns /\ owner[c] = k /\ cl[c] = "control" /\ cli[k].pc = "hello"
  BY <1>0 DEF ClientRetry, CalmClients
<1>2. CalmConn(c) BY <1>1 DEF Calm
<1>3. /\ cl' = [cl EXCEPT ![c] = "closed"]
      /\ s2c' = [s2c EXCEPT ![c] = <<>>]
      /\ cli' = [cli EXCEPT ![k] = ClientAtDial]
      /\ UNCHANGED <<up, control, mon, req, srv, dials, owner, c2s>>
  BY DEF ClientRetry, GiveUpHello, ClientCloses
<1>4. srv[c] \in {"queued", "taken", "closed"}
  <2>1. CASE srv[c] = "closed" BY <2>1
  <2>2. CASE s2c[c] # <<>> /\ Head(s2c[c]).sig # "Welcome"
    <3>1. srv[c] \notin Welcomed BY <1>1, <1>2, <2>2 DEF CalmConn
    <3>2. srv[c] \notin Fresh \cup {"offer", "queued"}
      BY <1>2, <2>2 DEF CalmConn
    <3>3. QED BY <1>1, <3>1, <3>2 DEF SrvState, Fresh, Welcomed
  <2>3. CASE srv[c] = "queued" BY <2>3
  <2>4. CASE srv[c] = "lock" /\ mutex # NoConn /\ Silent(mutex)
    <3>1. CalmConn(mutex) /\ mutex \in Conns BY <2>4 DEF Calm
    <3>2. QED BY <2>4, <3>1 DEF Silent, CalmConn, Fresh
  <2>5. QED BY <2>1, <2>2, <2>3, <2>4 DEF ClientRetry, Replied, Unanswered
<1> HIDE DEF c
<1>5. \A d \in Conns : d # c => cl'[d] = cl[d] /\ s2c'[d] = s2c[d]
  BY <1>3
<1>6. Installed => Installed' BY <1>3 DEF Installed
<1>7. CalmServer'
  <2>1. control # c BY <1>0, <1>1, <1>4 DEF CalmServer
  <2>2. QED BY <1>0, <1>3, <2>1 DEF CalmServer
<1>8. cli'[k].pc = "dial" /\ \A j \in Clients : j # k => cli'[j] = cli[j]
  BY <1>3 DEF ClientAtDial
<1>9. \A d \in Conns : d # c /\ cl[d] = "control" => owner[d] # k
  BY <1>0 DEF CalmClients, c
<1>10. CalmClients'
  <2>1. ASSUME NEW j \in Clients
        PROVE  /\ cli'[j].pc # "dial" => /\ cli'[j].conn \in Conns
                                         /\ owner'[cli'[j].conn] = j
                                         /\ cl'[cli'[j].conn] = "control"
               /\ cli'[j].pc = "run" => srv'[cli'[j].conn] \in Welcomed
               /\ dials'[j] > 0 => cli'[j].pc = "run"
    <3>1. CASE j = k
      <4>1. ~(dials[k] > 0) BY <1>0, <1>1 DEF CalmClients
      <4>2. QED BY <1>3, <1>8, <3>1, <4>1
    <3>2. CASE j # k
      <4>1. cli'[j] = cli[j] BY <1>8, <3>2
      <4>2. /\ cli[j].pc # "dial" => /\ cli[j].conn \in Conns
                                     /\ owner[cli[j].conn] = j
                                     /\ cl[cli[j].conn] = "control"
            /\ cli[j].pc = "run" => srv[cli[j].conn] \in Welcomed
            /\ dials[j] > 0 => cli[j].pc = "run"
        BY <1>0 DEF CalmClients
      <4>3. cli[j].pc # "dial" => cli[j].conn # c BY <1>1, <3>2, <4>2
      <4>4. QED BY <1>3, <1>5, <4>1, <4>2, <4>3
    <3>3. QED BY <3>1, <3>2
  <2>2. \A d \in Conns : cl'[d] = "control" =>
          cli'[owner'[d]].pc # "dial" /\ cli'[owner'[d]].conn = d
    <3>1. SUFFICES ASSUME NEW d \in Conns, cl'[d] = "control"
                   PROVE  cli'[owner[d]].pc # "dial" /\ cli'[owner[d]].conn = d
      BY <1>3
    <3>2. d # c /\ cl[d] = "control" BY <1>1, <1>3, <1>5, <3>1
    <3>3. cli'[owner[d]] = cli[owner[d]] BY <1>8, <1>9, <3>2
    <3>4. QED BY <1>0, <3>2, <3>3 DEF CalmClients
  <2>3. QED BY <2>1, <2>2 DEF CalmClients
<1>11. ASSUME NEW d \in Conns PROVE CalmConn(d)'
  <2>1. CASE d # c
    <3>1. srv[d] \in Welcomed => cli'[owner[d]] = cli[owner[d]]
      <4>1. srv[d] \in Welcomed => cl[d] = "control" BY DEF Calm, CalmConn
      <4>2. QED BY <1>8, <1>9, <2>1, <4>1
    <3>2. QED BY <1>3, <1>5, <1>6, <2>1, <3>1, ConnKept DEF Calm
  <2>2. CASE d = c
    <3>1. cl'[c] = "closed" /\ s2c'[c] = <<>> /\ srv'[c] = srv[c]
      BY <1>1, <1>3
    <3>2. QED BY <1>4, <2>2, <3>1 DEF CalmConn, Welcomed, Fresh
  <2>3. QED BY <2>1, <2>2
<1>12. ASSUME NEW d \in Conns PROVE CalmFrames(d)'
  <2>1. CalmFrames(d) /\ FramesMove(d) BY <1>3 DEF Calm, FramesMove
  <2>2. srv'[d] = srv[d] BY <1>3
  <2> HIDE DEF CalmFrames
  <2>3. QED BY <2>1, <2>2, FramesFit DEF IInv, Welcomed
<1>13. CalmPool'
  <2>1. CASE Sole
    <3>1. srv[c] # "queued" BY <1>0, <1>1, <2>1 DEF CalmPool
    <3>2. QED BY <1>0, <1>3, <1>4, <1>5, <3>1 DEF CalmPool, Sole
  <2>2. CASE ~Sole BY <1>0, <1>3, <2>2 DEF CalmPool, Sole
  <2>3. QED BY <2>1, <2>2
<1>14. QED BY <1>7, <1>10, <1>11, <1>12, <1>13 DEF Calm

\* A client that has read its Welcome, or reads a later frame, on its channel.
LEMMA CalmReads ==
  ASSUME IInv, Calm, NEW k \in Clients, cli[k].pc # "dial",
         srv[cli[k].conn] \in Welcomed, s2c[cli[k].conn] # <<>>,
         s2c' = [s2c EXCEPT ![cli[k].conn] = Tail(@)],
         cli' = [cli EXCEPT ![k].pc = "run"],
         \A j \in Clients : j # k => dials'[j] = dials[j],
         \A d \in Conns : d # cli[k].conn => c2s'[d] = c2s[d],
         UNCHANGED <<up, control, mon, req, srv, owner, cl>>
  PROVE  Calm'
PROOF
<1> USE CalmTypes
<1> DEFINE c == cli[k].conn
<1>0. CalmServer /\ CalmClients /\ CalmPool BY DEF Calm
<1>1. c \in Conns /\ owner[c] = k /\ cl[c] = "control" BY <1>0 DEF CalmClients
<1>2. /\ cli'[k].pc = "run" /\ cli'[k].conn = c
      /\ \A j \in Clients : j # k => cli'[j] = cli[j]
  OBVIOUS
<1>3. s2c'[c] = Tail(s2c[c]) /\ \A d \in Conns : d # c => s2c'[d] = s2c[d]
  BY <1>1
<1>4. srv[c] \in Welcomed /\ s2c[c] # <<>>
      /\ \A d \in Conns : d # c => c2s'[d] = c2s[d]
  OBVIOUS
<1>5. \A j \in Clients : cli'[j].conn = cli[j].conn BY <1>2
<1> HIDE DEF c
<1>6. CalmServer' BY <1>0 DEF CalmServer
<1>7. CalmClients'
  <2>1. ASSUME NEW j \in Clients
        PROVE  /\ cli'[j].pc # "dial" => /\ cli'[j].conn \in Conns
                                         /\ owner'[cli'[j].conn] = j
                                         /\ cl'[cli'[j].conn] = "control"
               /\ cli'[j].pc = "run" => srv'[cli'[j].conn] \in Welcomed
               /\ dials'[j] > 0 => cli'[j].pc = "run"
    <3>1. CASE j = k BY <1>1, <1>2, <1>4, <3>1
    <3>2. CASE j # k
      <4>1. cli'[j] = cli[j] /\ dials'[j] = dials[j] BY <1>2, <3>2
      <4>2. /\ cli[j].pc # "dial" => /\ cli[j].conn \in Conns
                                     /\ owner[cli[j].conn] = j
                                     /\ cl[cli[j].conn] = "control"
            /\ cli[j].pc = "run" => srv[cli[j].conn] \in Welcomed
            /\ dials[j] > 0 => cli[j].pc = "run"
        BY <1>0 DEF CalmClients
      <4>3. QED BY <4>1, <4>2
    <3>3. QED BY <3>1, <3>2
  <2>2. \A d \in Conns : cl'[d] = "control" =>
          cli'[owner'[d]].pc # "dial" /\ cli'[owner'[d]].conn = d
    <3>1. SUFFICES ASSUME NEW d \in Conns, cl[d] = "control"
                   PROVE  cli'[owner[d]].pc # "dial" /\ cli'[owner[d]].conn = d
      OBVIOUS
    <3>2. cli[owner[d]].pc # "dial" /\ cli[owner[d]].conn = d
      BY <1>0, <3>1 DEF CalmClients
    <3>3. owner[d] \in Clients OBVIOUS
    <3>4. cli'[owner[d]].conn = d BY <1>5, <3>2, <3>3
    <3>5. cli'[owner[d]].pc # "dial" BY <1>2, <3>2, <3>3
    <3>6. QED BY <3>4, <3>5
  <2>3. QED BY <2>1, <2>2 DEF CalmClients
<1>8. Installed => Installed' BY DEF Installed
<1>9. ASSUME NEW d \in Conns PROVE CalmConn(d)'
  <2>1. CASE d # c
    <3>1. \/ cli'[owner[d]].pc = cli[owner[d]].pc
          \/ cli'[owner[d]].pc = "run"
      BY <1>2
    <3>2. QED BY <1>3, <1>4, <1>8, <2>1, <3>1, ConnKept DEF Calm
  <2>2. CASE d = c
    <3>1. /\ srv'[c] \in Welcomed /\ cl'[c] = "control"
          /\ cli'[owner'[c]].pc = "run"
      BY <1>1, <1>2, <1>4
    <3>2. QED BY <2>2, <3>1 DEF CalmConn, Welcomed, Fresh
  <2>3. QED BY <2>1, <2>2
<1>10. ASSUME NEW d \in Conns PROVE CalmFrames(d)'
  <2>1. CalmFrames(d) /\ FramesMove(d) BY <1>3, <1>4 DEF Calm, FramesMove
  <2> HIDE DEF CalmFrames
  <2>2. QED BY <2>1, FramesFit DEF IInv, Welcomed
<1>11. CalmPool' BY <1>0 DEF CalmPool, Sole
<1>12. QED BY <1>6, <1>7, <1>9, <1>10, <1>11 DEF Calm

\* The first frame in flight fits its connection.
LEMMA HeadFits ==
  ASSUME IInv, Calm, NEW c \in Conns, s2c[c] # <<>>
  PROVE  Fits(Head(s2c[c]), srv[c])
PROOF
<1>1. s2c[c] \in Seq(Message) BY CalmTypes
<1>2. Head(s2c[c]) = s2c[c][1] /\ 1 \in 1..Len(s2c[c])
  BY <1>1, HeadTailProperties, LenProperties, EmptySeq
<1>3. CalmFrames(c) BY DEF Calm
<1>4. QED BY <1>2, <1>3 DEF CalmFrames

\* What the clients may do while nothing fails.
CalmClientStep(k) ==
  \/ \E c \in Conns : ClientDial(k, c)
  \/ ClientWelcome(k) /\ srv[cli[k].conn] \in Welcomed
  \/ ClientRetry(k)
  \/ ClientSignal(k)
  \/ \E c \in Conns : WorkerDial(k, c)

\* A client does not return, crash or fail to dial unless something failed.
LEMMA CalmClientSteps ==
  ASSUME IInv, Calm, faults = 0, faults' = 0, NEW k \in Clients, Client(k)
  PROVE  CalmClientStep(k)
PROOF
<1>1. up /\ CalmClients BY DEF Calm, CalmServer
<1>2. ~HelloTimeout(k) /\ ~ClientCrash(k) /\ ~WorkerDialFails(k)
  BY DEF HelloTimeout, ClientCrash, WorkerDialFails, Fault
<1>3. ~WorkerRefused(k) BY <1>1 DEF WorkerRefused
<1>4. ASSUME ClientReturn(k) PROVE FALSE
  <2>1. cli[k].conn \in Conns /\ srv[cli[k].conn] \in Welcomed
    BY <1>1, <1>4 DEF ClientReturn, CalmClients
  <2>2. s2c[cli[k].conn] # <<>> => Head(s2c[cli[k].conn]).sig # "Closed"
    BY <2>1, HeadFits DEF Fits
  <2>3. QED BY <1>4, <2>1, <2>2 DEF ClientReturn, Welcomed
<1>5. ASSUME ClientWelcome(k) PROVE srv[cli[k].conn] \in Welcomed
  <2>1. cli[k].conn \in Conns BY <1>1, <1>5 DEF ClientWelcome, CalmClients
  <2>2. QED BY <1>5, <2>1, HeadFits DEF ClientWelcome, Replied, Fits
<1>6. QED BY <1>2, <1>3, <1>4, <1>5 DEF Client, CalmClientStep

\* The client's control loop and its dialling goroutines keep Calm.
LEMMA CalmClient ==
  ASSUME IInv, Calm, NEW k \in Clients, CalmClientStep(k)
  PROVE  Calm'
PROOF
<1> USE CalmTypes
<1>0. CalmClients BY DEF Calm
<1>1. ASSUME NEW c \in Conns, ClientDial(k, c) PROVE Calm'
  <2>1. <<Signal("Hello")>> # <<>> OBVIOUS
  <2>2. /\ Dial(k, c, "control", <<Signal("Hello")>>)
        /\ cli[k].pc = "dial"
        /\ cli' = [cli EXCEPT ![k] = [pc |-> "hello", conn |-> c]]
        /\ UNCHANGED <<up, control, mon, req, dials>>
    BY <1>1 DEF ClientDial
  <2>3. QED BY <2>1, <2>2, CalmDial
<1>2. CASE ClientWelcome(k) /\ srv[cli[k].conn] \in Welcomed
  <2>1. /\ cli[k].pc # "dial" /\ s2c[cli[k].conn] # <<>>
        /\ s2c' = [s2c EXCEPT ![cli[k].conn] = Tail(@)]
        /\ cli' = [cli EXCEPT ![k].pc = "run"]
        /\ dials' = [dials EXCEPT ![k] = PoolSize]
        /\ UNCHANGED <<up, control, mon, req, srv, owner, cl, c2s>>
    BY <1>2 DEF ClientWelcome, Replied, serverVars
  <2>2. QED BY <1>2, <2>1, CalmReads
<1>3. CASE ClientRetry(k) BY <1>3, CalmRetry
<1>4. CASE ClientSignal(k)
  <2>1. srv[cli[k].conn] \in Welcomed BY <1>0, <1>4 DEF ClientSignal, CalmClients
  <2>2. /\ cli[k].pc = "run" /\ s2c[cli[k].conn] # <<>>
        /\ s2c' = [s2c EXCEPT ![cli[k].conn] = Tail(@)]
        /\ \A j \in Clients : j # k => dials'[j] = dials[j]
        /\ UNCHANGED <<cli, up, control, mon, req, srv, owner, cl>>
    BY <1>4 DEF ClientSignal, serverVars
  <2>3. cli' = [cli EXCEPT ![k].pc = "run"] BY <2>2
  <2>4. \A d \in Conns : d # cli[k].conn => c2s'[d] = c2s[d]
    BY <1>4 DEF ClientSignal, ToServer
  <2>5. QED BY <2>1, <2>2, <2>3, <2>4, CalmReads
<1>5. ASSUME NEW c \in Conns, WorkerDial(k, c) PROVE Calm'
  <2>1. /\ Dial(k, c, "worker", <<>>)
        /\ dials[k] > 0
        /\ dials' = [dials EXCEPT ![k] = @ - 1]
        /\ UNCHANGED <<up, control, mon, req, cli>>
    BY <1>5 DEF WorkerDial
  <2>2. Installed BY <1>0, <2>1, RunsInstalled DEF CalmClients
  <2>3. \A j \in Clients : dials'[j] > 0 => dials[j] > 0 BY <2>1
  <2>4. QED BY <2>1, <2>2, <2>3, CalmDial
<1>6. QED BY <1>1, <1>2, <1>3, <1>4, <1>5 DEF CalmClientStep

\* Faults are counted, so none has happened before while the count is 0.
LEMMA NoFaultBefore ==
  ASSUME TypeOK, Next, faults' = 0
  PROVE  faults = 0
PROOF
<1>1. faults \in Nat BY BoundsAssumption DEF TypeOK
<1>2. faults' = faults \/ faults' = faults + 1
  <2>1. ASSUME NEW c \in Conns, Handshake(c) \/ Monitor(c) \/ Worker(c)
        PROVE  faults' = faults \/ faults' = faults + 1
    BY <2>1
    DEF Handshake, HandleAccepted, LockHandshake, ReadHello, RejectHello,
        InstallControl, Enqueue, Monitor, MonitorStart, MonitorPing, MonitorEcho,
        MonitorLost, MonitorShutdown, MonitorTimeout, Worker, WorkerTarget,
        WorkerLost, UpstreamEnds, Fault
  <2>2. ASSUME NEW r \in Requests, Request(r)
        PROVE  faults' = faults \/ faults' = faults + 1
    BY <2>2
    DEF Request, RequestArrives, SeeControl, SendChannel, TakeWorker, SendTarget,
        RequestTimeout, BridgeEnd
  <2>3. ASSUME NEW k \in Clients, Client(k)
        PROVE  faults' = faults \/ faults' = faults + 1
    BY <2>3
    DEF Client, ClientDial, ClientWelcome, ClientRetry, HelloTimeout,
        ClientSignal, ClientReturn, ClientCrash, WorkerDial, WorkerRefused,
        WorkerDialFails, Fault
  <2>4. CASE Server
    BY <2>4 DEF Server, ServerStop, CloseControlOnStop, ServerRestart, Fault
  <2>5. QED BY <2>1, <2>2, <2>3, <2>4 DEF Next
<1>3. QED BY <1>1, <1>2

\* The server does not stop, and is not restarted, unless something failed.
LEMMA CalmNoServer ==
  ASSUME Calm, faults = 0, faults' = 0
  PROVE  ~Server
PROOF BY DEF Server, ServerStop, CloseControlOnStop, ServerRestart, Fault, Calm,
             CalmServer

\* No step but a fault ends the calm.
LEMMA CalmNext ==
  ASSUME IInv, faults = 0 => Calm, [Next]_vars
  PROVE  faults' = 0 => Calm'
PROOF
<1>1. SUFFICES ASSUME faults' = 0 PROVE Calm' OBVIOUS
<1>2. CASE Next
  <2>1. faults = 0 /\ Calm BY <1>1, <1>2, NoFaultBefore DEF IInv
  <2>2. QED
    BY <1>1, <1>2, <2>1, CalmHandshake, CalmMonitor, CalmRequest, CalmWorker,
       CalmClientSteps, CalmClient, CalmNoServer
    DEF Next
<1>3. CASE UNCHANGED vars
  <2>1. Calm BY <1>1, <1>3 DEF vars
  <2>2. QED
    BY <1>3, <2>1
    DEF vars, Calm, CalmServer, CalmClients, CalmConn, CalmFrames, CalmPool, Sole,
        Installed
<1>4. QED BY <1>2, <1>3

-----------------------------------------------------------------------------
(* The count of WorkerOnTheWay. *)

Running == \E k \in Clients : cli[k].pc = "run"

\* Workers that are owed: one for each request that waits, and the pool of a
\* client that runs.
Owed == Cardinality(Waiting) + (IF Running THEN PoolSize ELSE 0)

\* The count, for a client that still has to read its Welcome as well.
Provided == PoolSuffices => Owed <= Backlog + Cardinality(Coming)

\* Elements of Asked: the Channel frames that clients have still to read.
LEMMA AskedIs ==
  \A x : x \in Asked <=>
    \E c \in Conns : \E i \in 1..Len(s2c[c]) :
      cl[c] = "control" /\ s2c[c][i].sig = "Channel" /\ x = <<c, i>>
PROOF BY DEF Asked

\* Elements of InDial: the dialling goroutines of each client.
LEMMA InDialIs ==
  \A x : x \in InDial <=> \E k \in Clients : \E i \in 1..dials[k] : x = <<k, i>>
PROOF BY DEF InDial

\* The same after a step.
LEMMA AskedThen ==
  \A x : x \in Asked' <=>
    \E c \in Conns : \E i \in 1..Len(s2c'[c]) :
      cl'[c] = "control" /\ s2c'[c][i].sig = "Channel" /\ x = <<c, i>>
PROOF BY DEF Asked

\* And of the goroutines.
LEMMA InDialThen ==
  \A x : x \in InDial' <=> \E k \in Clients : \E i \in 1..dials'[k] : x = <<k, i>>
PROOF BY DEF InDial

\* A subset of a finite set is no larger.
LEMMA NoLarger ==
  ASSUME NEW S, NEW T, IsFiniteSet(T), S \subseteq T
  PROVE  /\ IsFiniteSet(S)
         /\ Cardinality(S) \in Nat /\ Cardinality(T) \in Nat
         /\ Cardinality(S) <= Cardinality(T)
PROOF BY FS_Subset, FS_CardinalityType

\* It is smaller by one at least if it lacks an element.
LEMMA Smaller ==
  ASSUME NEW S, NEW T, IsFiniteSet(T), S \subseteq T,
         NEW x \in T, x \notin S
  PROVE  /\ Cardinality(S) \in Nat /\ Cardinality(T) \in Nat
         /\ Cardinality(S) + 1 <= Cardinality(T)
PROOF
<1>1. IsFiniteSet(T \ {x}) /\ Cardinality(T \ {x}) = Cardinality(T) - 1
  BY FS_RemoveElement
<1>2. S \subseteq T \ {x} OBVIOUS
<1>3. Cardinality(T) \in Nat BY FS_CardinalityType
<1>4. Cardinality(S) \in Nat /\ Cardinality(S) <= Cardinality(T \ {x})
  BY <1>1, <1>2, NoLarger
<1>5. QED BY <1>1, <1>3, <1>4

\* A set of pairs whose first part is one value and whose second is in 1..n.
LEMMA PairsFinite ==
  ASSUME NEW a, NEW n \in Nat
  PROVE  /\ IsFiniteSet({a} \X (1..n))
         /\ Cardinality({a} \X (1..n)) = n
PROOF
<1>1. IsFiniteSet({a}) /\ Cardinality({a}) = 1 BY FS_Singleton
<1>2. IsFiniteSet(1..n) /\ Cardinality(1..n) = n BY FS_Interval
<1>3. /\ IsFiniteSet({a} \X (1..n))
      /\ Cardinality({a} \X (1..n)) = Cardinality({a}) * Cardinality(1..n)
  BY <1>1, <1>2, FS_Product
<1>4. QED BY <1>1, <1>2, <1>3

\* No two clients run at once.
LEMMA OneRuns ==
  ASSUME IInv, Calm, NEW k \in Clients, NEW j \in Clients,
         cli[k].pc # "dial", srv[cli[k].conn] \in Welcomed, cli[j].pc = "run"
  PROVE  j = k
PROOF
<1>1. /\ cli[k].conn \in Conns /\ owner[cli[k].conn] = k
      /\ cli[j].conn \in Conns /\ owner[cli[j].conn] = j
      /\ srv[cli[j].conn] \in Welcomed
  BY DEF Calm, CalmClients
<1>2. cli[k].conn = cli[j].conn BY <1>1, OneChannel
<1>3. QED BY <1>1, <1>2

Countable ==
  /\ IsFiniteSet(Waiting) /\ Cardinality(Waiting) \in Nat
  /\ IsFiniteSet(Asked) /\ Cardinality(Asked) \in Nat
  /\ IsFiniteSet(InDial) /\ Cardinality(InDial) \in Nat
  /\ IsFiniteSet(Coming) /\ Cardinality(Coming) \in Nat

\* Channel frames are in flight on the installed channel only, and only a client
\* that runs has goroutines that dial: all sets counted are finite.
LEMMA CalmCounts == IInv /\ Calm => Countable
PROOF
<1>1. SUFFICES ASSUME IInv, Calm PROVE Countable OBVIOUS
<1> USE <1>1, CalmTypes
<1>2. IsFiniteSet(Waiting)
  BY FiniteAssumption, NoLarger DEF Waiting
<1>3. IsFiniteSet(Coming) BY FiniteAssumption, NoLarger DEF Coming
<1>4. IsFiniteSet(Asked)
  <2>1. \A c \in Conns : \A i \in 1..Len(s2c[c]) :
          s2c[c][i].sig = "Channel" => control = c
    BY DEF Calm, CalmFrames, Fits, IInv, Owned, ControlInv
  <2>2. CASE control = NoConn
    <3>1. Asked = {} BY <2>1, <2>2, AskedIs
    <3>2. QED BY <3>1, FS_EmptySet
  <2>3. CASE control \in Conns
    <3>1. Len(s2c[control]) \in Nat BY <2>3, LenProperties
    <3>2. ASSUME NEW x \in Asked
          PROVE  x \in {control} \X (1..Len(s2c[control]))
      <4>1. PICK c \in Conns : \E i \in 1..Len(s2c[c]) :
              s2c[c][i].sig = "Channel" /\ x = <<c, i>>
        BY AskedIs
      <4>2. PICK i \in 1..Len(s2c[c]) :
              s2c[c][i].sig = "Channel" /\ x = <<c, i>>
        BY <4>1
      <4>3. c = control BY <2>1, <4>2
      <4>4. QED BY <4>2, <4>3
    <3>3. Asked \subseteq {control} \X (1..Len(s2c[control])) BY <3>2
    <3>4. QED BY <3>1, <3>3, PairsFinite, NoLarger
  <2>4. QED BY <2>2, <2>3
<1>5. IsFiniteSet(InDial)
  <2>1. \A k \in Clients : \A i \in 1..dials[k] : cli[k].pc = "run"
    BY DEF Calm, CalmClients
  <2>2. CASE ~Running
    <3>1. InDial = {} BY <2>1, <2>2, InDialIs DEF Running
    <3>2. QED BY <3>1, FS_EmptySet
  <2>3. CASE Running
    <3>1. PICK k \in Clients : cli[k].pc = "run" BY <2>3 DEF Running
    <3>2. srv[cli[k].conn] \in Welcomed BY <3>1 DEF Calm, CalmClients
    <3>3. \A j \in Clients : cli[j].pc = "run" => j = k BY <3>1, <3>2, OneRuns
    <3>4. InDial \subseteq {k} \X (1..dials[k]) BY <2>1, <3>3, InDialIs
    <3>5. QED BY <3>4, PairsFinite, NoLarger
  <2>4. QED BY <2>2, <2>3
<1>6. QED BY <1>2, <1>3, <1>4, <1>5, FS_CardinalityType DEF Countable

\* The same after a step.
LEMMA CalmCountsThen == IInv' /\ Calm' => Countable'
PROOF BY CalmCounts, PTL

\* The count is kept if what is provided grows by as much as what is owed: by v
\* and p, for requests and for the pool of a client that starts to run, less u.
LEMMA ProvidedMoves ==
  ASSUME Countable, Countable', Provided,
         NEW u \in Nat, NEW v \in Nat, NEW p \in Nat,
         Running' /\ ~Running => PoolSize <= p,
         Cardinality(Waiting') + u <= Cardinality(Waiting) + v,
         Cardinality(Asked) + Cardinality(InDial) + Cardinality(Coming) + v + p
           <= Cardinality(Asked') + Cardinality(InDial') + Cardinality(Coming') + u
  PROVE  Provided'
PROOF
<1> DEFINE W == Cardinality(Waiting)
           A == Cardinality(Asked)
           D == Cardinality(InDial)
           M == Cardinality(Coming)
           W1 == Cardinality(Waiting')
           A1 == Cardinality(Asked')
           D1 == Cardinality(InDial')
           M1 == Cardinality(Coming')
           P == IF Running THEN PoolSize ELSE 0
           P1 == IF Running' THEN PoolSize ELSE 0
<1>1. /\ W \in Nat /\ A \in Nat /\ D \in Nat /\ M \in Nat
      /\ W1 \in Nat /\ A1 \in Nat /\ D1 \in Nat /\ M1 \in Nat
  BY DEF Countable
<1>2. P \in Nat /\ P1 \in Nat /\ P1 <= P + p BY BoundsAssumption
<1>3. W1 + u <= W + v /\ A + D + M + v + p <= A1 + D1 + M1 + u OBVIOUS
<1>4. PoolSuffices => W + P <= A + D + M BY DEF Provided, Owed, Backlog
<1> HIDE DEF W, A, D, M, W1, A1, D1, M1, P, P1
<1>5. PoolSuffices => W1 + P1 <= A1 + D1 + M1 BY <1>1, <1>2, <1>3, <1>4
<1>6. PoolSuffices' <=> PoolSuffices BY DEF PoolSuffices
<1>7. QED
  BY <1>5, <1>6 DEF Provided, Owed, Backlog, W1, A1, D1, M1, P1

\* Channel frames that stay where they are.
AskedStay ==
  \A c \in Conns : \A i \in 1..Len(s2c[c]) :
    cl[c] = "control" /\ s2c[c][i].sig = "Channel" =>
      /\ cl'[c] = "control"
      /\ i \in 1..Len(s2c'[c])
      /\ s2c'[c][i] = s2c[c][i]

\* They are still in flight.
LEMMA AskedKept == AskedStay => Asked \subseteq Asked'
PROOF
<1>1. SUFFICES ASSUME AskedStay, NEW x \in Asked PROVE x \in Asked' OBVIOUS
<1>2. PICK c \in Conns : \E i \in 1..Len(s2c[c]) :
        cl[c] = "control" /\ s2c[c][i].sig = "Channel" /\ x = <<c, i>>
  BY AskedIs
<1>3. PICK i \in 1..Len(s2c[c]) :
        cl[c] = "control" /\ s2c[c][i].sig = "Channel" /\ x = <<c, i>>
  BY <1>2
<1>4. /\ cl'[c] = "control" /\ i \in 1..Len(s2c'[c])
      /\ s2c'[c][i].sig = "Channel"
  BY <1>1, <1>3 DEF AskedStay
<1>5. QED BY <1>3, <1>4, AskedThen

\* A write leaves the Channel frames where they are.
LEMMA AskedWrite ==
  ASSUME TypeOK, NEW c, NEW m \in Message, s2c' = s2c \/ ToClient(c, m),
         \A d \in Conns : cl[d] = "control" => cl'[d] = "control"
  PROVE  AskedStay
PROOF
<1>1. SUFFICES ASSUME NEW d \in Conns, NEW i \in 1..Len(s2c[d]),
                      cl[d] = "control"
               PROVE  i \in 1..Len(s2c'[d]) /\ s2c'[d][i] = s2c[d][i]
  BY DEF AskedStay
<1>2. s2c'[d] = s2c[d] \/ s2c'[d] = Append(s2c[d], m)
  BY WriteFrames
<1>3. s2c[d] \in Seq(Message) /\ Len(s2c[d]) \in Nat
  BY LenProperties DEF TypeOK
<1>4. QED BY <1>2, <1>3, AppendProperties

\* Reading a frame moves the others on, and takes one Channel frame at most.
LEMMA AskedRead ==
  ASSUME TypeOK, Countable, Countable', NEW c \in Conns, s2c[c] # <<>>,
         s2c' = [s2c EXCEPT ![c] = Tail(@)], cl' = cl
  PROVE  /\ Cardinality(Asked) <= Cardinality(Asked') + 1
         /\ Head(s2c[c]).sig # "Channel" =>
              Cardinality(Asked) <= Cardinality(Asked')
PROOF
<1> DEFINE S == Asked \ {<<c, 1>>}
<1>1. /\ s2c[c] \in Seq(Message) /\ Len(s2c[c]) \in Nat
      /\ Head(s2c[c]) = s2c[c][1]
      /\ Len(Tail(s2c[c])) = Len(s2c[c]) - 1
      /\ \A i \in 1..Len(Tail(s2c[c])) : Tail(s2c[c])[i] = s2c[c][i + 1]
  BY HeadTailProperties, LenProperties DEF TypeOK
<1>2. /\ s2c'[c] = Tail(s2c[c])
      /\ \A d \in Conns : d # c => s2c'[d] = s2c[d]
  BY DEF TypeOK
<1> DEFINE Moved(x) == IF x[1] = c THEN <<c, x[2] - 1>> ELSE x
           f == [x \in S |-> Moved(x)]
<1>3. ASSUME NEW x \in S
      PROVE  \E d \in Conns : \E i \in 1..Len(s2c[d]) :
               /\ x = <<d, i>> /\ cl[d] = "control"
               /\ s2c[d][i].sig = "Channel"
               /\ d = c => i # 1
  <2>1. PICK d \in Conns : \E i \in 1..Len(s2c[d]) :
          cl[d] = "control" /\ s2c[d][i].sig = "Channel" /\ x = <<d, i>>
    BY AskedIs
  <2>2. PICK i \in 1..Len(s2c[d]) :
          cl[d] = "control" /\ s2c[d][i].sig = "Channel" /\ x = <<d, i>>
    BY <2>1
  <2>3. d = c => i # 1 BY <2>2
  <2>4. QED BY <2>2, <2>3
<1>4. ASSUME NEW x \in S PROVE Moved(x) \in Asked'
  <2>1. PICK d \in Conns : \E i \in 1..Len(s2c[d]) :
          /\ x = <<d, i>> /\ cl[d] = "control" /\ s2c[d][i].sig = "Channel"
          /\ d = c => i # 1
    BY <1>3
  <2>2. PICK i \in 1..Len(s2c[d]) :
          /\ x = <<d, i>> /\ cl[d] = "control" /\ s2c[d][i].sig = "Channel"
          /\ d = c => i # 1
    BY <2>1
  <2>3. CASE d = c
    <3>1. Moved(x) = <<c, i - 1>> BY <2>2, <2>3
    <3>2. i - 1 \in 1..Len(s2c'[c]) /\ s2c'[c][i - 1] = s2c[c][i]
      <4>1. i \in 1..Len(s2c[c]) /\ i # 1 BY <2>2, <2>3
      <4>2. i \in Int /\ i - 1 \in 1..(Len(s2c[c]) - 1) /\ (i - 1) + 1 = i
        BY <1>1, <4>1
      <4>3. s2c'[c][i - 1] = s2c[c][(i - 1) + 1] BY <1>1, <1>2, <4>2
      <4>4. QED BY <1>1, <1>2, <4>2, <4>3
    <3>3. cl'[c] = "control" /\ s2c'[c][i - 1].sig = "Channel"
      BY <2>2, <2>3, <3>2
    <3>4. QED BY <3>1, <3>2, <3>3, AskedThen
  <2>4. CASE d # c
    <3>1. Moved(x) = <<d, i>> BY <2>2, <2>4
    <3>2. /\ i \in 1..Len(s2c'[d]) /\ cl'[d] = "control"
          /\ s2c'[d][i].sig = "Channel"
      BY <1>2, <2>2, <2>4
    <3>3. QED BY <3>1, <3>2, AskedThen
  <2>5. QED BY <2>3, <2>4
<1>5. ASSUME NEW x \in S, NEW y \in S, Moved(x) = Moved(y) PROVE x = y
  <2>1. PICK d \in Conns : \E i \in 1..Len(s2c[d]) : x = <<d, i>> BY <1>3
  <2>2. PICK i \in 1..Len(s2c[d]) : x = <<d, i>> BY <2>1
  <2>3. PICK e \in Conns : \E j \in 1..Len(s2c[e]) : y = <<e, j>> BY <1>3
  <2>4. PICK j \in 1..Len(s2c[e]) : y = <<e, j>> BY <2>3
  <2>5. /\ Moved(x) = IF d = c THEN <<c, i - 1>> ELSE <<d, i>>
        /\ Moved(y) = IF e = c THEN <<c, j - 1>> ELSE <<e, j>>
    BY <2>2, <2>4
  <2>6. i \in Int /\ j \in Int
    BY LenProperties DEF TypeOK
  <2> HIDE DEF Moved
  <2>7. d = e /\ i = j
    <3>1. CASE d = c /\ e = c
      <4>1. <<c, i - 1>> = <<c, j - 1>> BY <1>5, <2>5, <3>1
      <4>2. i - 1 = j - 1 BY <4>1
      <4>3. QED BY <2>6, <3>1, <4>2
    <3>2. CASE ~(d = c /\ e = c)
      <4>1. \/ d = c /\ e # c /\ <<c, i - 1>> = <<e, j>>
            \/ d # c /\ e = c /\ <<d, i>> = <<c, j - 1>>
            \/ d # c /\ e # c /\ <<d, i>> = <<e, j>>
        BY <1>5, <2>5, <3>2
      <4>2. QED BY <4>1
    <3>3. QED BY <3>1, <3>2
  <2>8. QED BY <2>2, <2>4, <2>7
<1> HIDE DEF Moved
<1>6. f \in Injection(S, Asked')
  <2>1. f \in [S -> Asked'] BY <1>4
  <2>2. \A x, y \in S : f[x] = f[y] => x = y BY <1>5
  <2>3. QED BY <2>1, <2>2 DEF Injection, IsInjective
<1>7. /\ IsFiniteSet(Asked) /\ IsFiniteSet(Asked')
      /\ Cardinality(Asked) \in Nat /\ Cardinality(Asked') \in Nat
  BY DEF Countable
<1>8. Cardinality(S) <= Cardinality(Asked')
  <2> HIDE DEF f, S
  <2>1. QED BY <1>6, <1>7, FS_Injection
<1>9. Cardinality(S) = IF <<c, 1>> \in Asked THEN Cardinality(Asked) - 1
                                             ELSE Cardinality(Asked)
  BY <1>7, FS_RemoveElement
<1>10. Head(s2c[c]).sig # "Channel" => <<c, 1>> \notin Asked
  <2>1. SUFFICES ASSUME <<c, 1>> \in Asked PROVE s2c[c][1].sig = "Channel"
    BY <1>1
  <2>2. PICK d \in Conns : \E i \in 1..Len(s2c[d]) :
          s2c[d][i].sig = "Channel" /\ <<c, 1>> = <<d, i>>
    BY <2>1, AskedIs
  <2>3. QED BY <2>2
<1> HIDE DEF S
<1>11. QED BY <1>7, <1>8, <1>9, <1>10

\* Goroutines that dial are not lost when each client keeps its number.
LEMMA InDialKept ==
  ASSUME TypeOK, TypeOK', \A k \in Clients : dials[k] <= dials'[k]
  PROVE  InDial \subseteq InDial'
PROOF
<1>1. SUFFICES ASSUME NEW x \in InDial PROVE x \in InDial' OBVIOUS
<1>2. PICK k \in Clients : \E i \in 1..dials[k] : x = <<k, i>> BY InDialIs
<1>3. PICK i \in 1..dials[k] : x = <<k, i>> BY <1>2
<1>4. i \in 1..dials'[k] BY <1>3 DEF TypeOK
<1>5. QED BY <1>3, <1>4, InDialThen

ComingAt == {"accept", "lock", "offer", "queued"}

\* What a step leaves of the count when it takes no worker and asks for none.
QuietCount ==
  /\ \A r \in Requests : req'[r].pc = "take" => req[r].pc = "take"
  /\ AskedStay
  /\ dials' = dials
  /\ \A c \in Conns : cl[c] = "worker" /\ srv[c] \in ComingAt =>
       cl'[c] = "worker" /\ srv'[c] \in ComingAt
  /\ \A k \in Clients : cli'[k].pc = "run" => cli[k].pc = "run"

\* Such a step keeps the count.
LEMMA CountQuiet ==
  ASSUME TypeOK, TypeOK', Countable, Countable', Provided, QuietCount
  PROVE  Provided'
PROOF
<1>1. Waiting' \subseteq Waiting BY DEF QuietCount, Waiting
<1>2. Asked \subseteq Asked' BY AskedKept DEF QuietCount
<1>3. InDial \subseteq InDial'
  <2>1. \A k \in Clients : dials[k] <= dials'[k] BY DEF QuietCount, TypeOK
  <2>2. QED BY <2>1, InDialKept
<1>4. Coming \subseteq Coming' BY DEF QuietCount, Coming, ComingAt
<1>5. /\ Cardinality(Waiting') <= Cardinality(Waiting)
      /\ Cardinality(Asked) <= Cardinality(Asked')
      /\ Cardinality(InDial) <= Cardinality(InDial')
      /\ Cardinality(Coming) <= Cardinality(Coming')
  BY <1>1, <1>2, <1>3, <1>4, NoLarger DEF Countable
<1>6. Running' => Running BY DEF QuietCount, Running
<1>7. /\ Cardinality(Waiting') + 0 <= Cardinality(Waiting) + 0
      /\ Cardinality(Asked) + Cardinality(InDial) + Cardinality(Coming) + 0 + 0
           <= Cardinality(Asked') + Cardinality(InDial') + Cardinality(Coming') + 0
  BY <1>5 DEF Countable
<1>8. QED BY <1>6, <1>7, ProvidedMoves

\* A full pool holds as many workers as are ever owed, if it suffices: with room
\* for all connections it is never full while one is offered, with one client
\* all it holds are workers.
LEMMA CountFull ==
  ASSUME IInv, Calm, Countable', NEW c \in Conns,
         srv[c] = "offer", ~PoolHasRoom, PoolSuffices,
         UNCHANGED <<workers, req, cl, cli>>,
         \A d \in Conns : d # c => srv'[d] = srv[d]
  PROVE  Provided'
PROOF
<1> USE CalmTypes
<1>0. PoolInv /\ CalmConn(c) /\ CalmPool /\ CalmServer BY DEF IInv, Owned, Calm
<1>1. /\ Len(workers) \in Nat /\ Len(workers) <= WorkersCap
      /\ workers \in Seq(Conns) /\ workers \in [1..Len(workers) -> Conns]
  BY LenProperties DEF IInv, TypeOK
<1>2. Len(workers) = WorkersCap
  <2> DEFINE l == Len(workers)
  <2>1. l \in Nat /\ l <= WorkersCap /\ ~(l < WorkersCap) /\ WorkersCap \in Nat
    BY <1>1, BoundsAssumption DEF PoolHasRoom
  <2> HIDE DEF l
  <2>2. l = WorkersCap BY <2>1
  <2>3. QED BY <2>2 DEF l
<1>3. workers \in Injection(1..Len(workers), Queued)
  BY <1>0, <1>1 DEF PoolInv, Queued, Injection, IsInjective
<1>4. Queued \subseteq Conns /\ \A d \in Queued : srv[d] = "queued"
  BY <1>0 DEF PoolInv, Queued
<1>5. IsFiniteSet(Queued) /\ Len(workers) <= Cardinality(Queued)
  <2>1. IsFiniteSet(Queued) BY <1>4, FiniteAssumption, NoLarger
  <2>2. \A n \in Nat : Cardinality(1..n) = n BY FS_Interval
  <2>3. Cardinality(1..Len(workers)) = Len(workers) BY <1>1, <2>2
  <2>4. QED BY <1>3, <2>1, <2>3, FS_Injection
<1>6. CASE Cardinality(Conns) <= WorkersCap + 1
  <2>1. control \in Conns /\ srv[control] = "control"
    BY <1>0 DEF CalmPool, CalmServer
  <2>2. Queued \subseteq Conns \ {control} /\ c \notin Queued
        /\ c \in Conns \ {control}
    BY <1>4, <2>1
  <2>3. /\ IsFiniteSet(Conns \ {control})
        /\ Cardinality(Conns \ {control}) = Cardinality(Conns) - 1
    BY <2>1, FiniteAssumption, FS_RemoveElement
  <2>4. Cardinality(Queued) \in Nat
        /\ Cardinality(Queued) + 1 <= Cardinality(Conns \ {control})
    BY <2>2, <2>3, Smaller
  <2>5. Cardinality(Conns) \in Nat BY FiniteAssumption, FS_CardinalityType
  <2>6. QED BY <1>2, <1>5, <1>6, <2>3, <2>4, <2>5, BoundsAssumption
<1>7. CASE Sole /\ Cardinality(Requests) + PoolSize <= WorkersCap
  <2>1. Queued \subseteq Coming'
    <3>1. \A d \in Queued : d \in Conns /\ srv[d] = "queued" /\ d # c BY <1>4
    <3>2. \A d \in Queued : cl[d] = "worker" BY <1>0, <1>7, <3>1 DEF CalmPool
    <3>3. QED BY <3>1, <3>2 DEF Coming
  <2>2. Cardinality(Queued) <= Cardinality(Coming')
    BY <2>1, NoLarger DEF Countable
  <2>3. Cardinality(Waiting') <= Cardinality(Requests)
        /\ Cardinality(Requests) \in Nat
    BY FiniteAssumption, NoLarger DEF Waiting
  <2> DEFINE q == Cardinality(Queued)
             m == Cardinality(Coming')
             w == Cardinality(Waiting')
             a == Cardinality(Asked')
             d == Cardinality(InDial')
             n == Cardinality(Requests)
             p == IF Running' THEN PoolSize ELSE 0
  <2>4. /\ q \in Nat /\ m \in Nat /\ w \in Nat /\ a \in Nat /\ d \in Nat
        /\ n \in Nat /\ p \in Nat /\ p <= PoolSize /\ PoolSize \in Nat
        /\ WorkersCap \in Nat
    BY <1>5, <2>3, BoundsAssumption, FS_CardinalityType DEF Countable
  <2>5. WorkersCap <= q /\ q <= m /\ w <= n /\ n + PoolSize <= WorkersCap
    BY <1>2, <1>5, <1>7, <2>2, <2>3
  <2> HIDE DEF q, m, w, a, d, n, p
  <2>6. w + p <= a + d + m BY <2>4, <2>5
  <2>7. QED BY <2>6 DEF Provided, Owed, Backlog, m, w, a, d, p
<1>8. QED BY <1>6, <1>7 DEF PoolSuffices, Sole

\* What the lemmas on the count assume of a step: the two invariants hold around
\* it, and the count before.
Before == IInv /\ Calm /\ Countable /\ Provided

After == TypeOK' /\ Countable'

\* A worker passes the handshake by: it is counted from accept to queued.
LEMMA CountHandshake ==
  ASSUME Before, After, NEW c \in Conns, Handshake(c)
  PROVE  Provided'
PROOF
<1> USE CalmTypes DEF Before, After, clientVars
<1>1. CalmConn(c) /\ CalmServer /\ TypeOK BY DEF Calm, IInv
<1>2. /\ UNCHANGED <<req, cl, dials, cli>>
      /\ \A d \in Conns : d # c => srv'[d] = srv[d]
  BY DEF Handshake, HandleAccepted, LockHandshake, ReadHello, RejectHello,
         InstallControl, Enqueue, ServerCloses
<1>3. s2c' = s2c \/ ToClient(c, Signal("Welcome"))
  BY DEF Handshake, HandleAccepted, LockHandshake, ReadHello, RejectHello,
         InstallControl, Enqueue
<1>4. AskedStay
  BY <1>1, <1>2, <1>3, AskedWrite, MessageTypes DEF Signals
<1>5. ASSUME cl[c] = "worker" /\ srv[c] \in ComingAt => srv'[c] \in ComingAt
      PROVE  Provided'
  <2>1. QuietCount BY <1>2, <1>4, <1>5 DEF QuietCount
  <2>2. QED BY <1>1, <2>1, CountQuiet
<1>6. CASE HandleAccepted(c) BY <1>5, <1>6 DEF HandleAccepted, ComingAt
<1>7. CASE LockHandshake(c)
  <2>1. mutex = NoConn BY <1>7 DEF LockHandshake, MutexFree
  <2>2. \A d \in Conns : srv[d] # "welcome"
    BY <2>1 DEF IInv, Owned, HandshakeInv
  <2>3. cl[c] = "worker" => control # NoConn
    BY <1>1, <2>2 DEF CalmConn, Installed
  <2>4. cl[c] = "worker" => srv'[c] = "offer"
    BY <1>7, <2>3 DEF LockHandshake, Recheck
  <2>5. QED BY <1>5, <2>4 DEF ComingAt
<1>8. CASE ReadHello(c) \/ RejectHello(c) \/ InstallControl(c)
  <2>1. srv[c] \notin ComingAt
    BY <1>8 DEF ReadHello, RejectHello, InstallControl, ComingAt
  <2>2. QED BY <1>5, <2>1
<1>9. CASE Enqueue(c) /\ srv'[c] = "queued" BY <1>5, <1>9 DEF ComingAt
<1>10. CASE Enqueue(c) /\ srv'[c] # "queued"
  <2>1. ~PoolHasRoom /\ srv[c] = "offer" /\ UNCHANGED workers
    BY <1>1, <1>10 DEF Enqueue, CalmServer
  <2>2. PoolSuffices => Provided' BY <1>2, <2>1, CountFull
  <2>3. ~PoolSuffices => Provided' BY DEF Provided, PoolSuffices
  <2>4. QED BY <2>2, <2>3
<1>11. QED BY <1>6, <1>7, <1>8, <1>9, <1>10 DEF Handshake

\* The monitor asks for nothing.
LEMMA CountMonitor ==
  ASSUME Before, After, faults = 0, faults' = 0, NEW c \in Conns, Monitor(c)
  PROVE  Provided'
PROOF
<1> USE DEF Before, After
<1>0. TypeOK BY DEF IInv
<1>1. /\ UNCHANGED <<srv, req, cli, dials, cl>>
      /\ \/ s2c' = s2c
         \/ \E m \in {Signal("RTT"), Signal("Heartbeat")} : ToClient(c, m)
  BY CalmMonitorSteps
<1>2. AskedStay
  BY <1>0, <1>1, AskedWrite, MessageTypes DEF Signals
<1>3. QuietCount BY <1>1, <1>2 DEF QuietCount
<1>4. QED BY <1>0, <1>3, CountQuiet

\* A worker's connection is not counted any more when it reads or closes.
LEMMA CountWorker ==
  ASSUME Before, After, NEW c \in Conns, Worker(c)
  PROVE  Provided'
PROOF
<1> USE CalmTypes DEF Before, After
<1>0. TypeOK BY DEF IInv
<1>1. srv[c] \in {"taken", "closed"} /\ cl[c] \in {"worker", "serving"}
  BY CalmWorker
<1>2. /\ UNCHANGED <<srv, req, cli, dials>>
      /\ \A d \in Conns : d # c => cl'[d] = cl[d] /\ s2c'[d] = s2c[d]
  BY DEF Worker, WorkerTarget, WorkerLost, UpstreamEnds, ClientCloses, serverVars
<1>3. AskedStay BY <1>1, <1>2 DEF AskedStay
<1>4. \A d \in Conns : cl[d] = "worker" /\ srv[d] \in ComingAt =>
        cl'[d] = "worker" /\ srv'[d] \in ComingAt
  BY <1>1, <1>2 DEF ComingAt
<1>5. QuietCount BY <1>2, <1>3, <1>4 DEF QuietCount
<1>6. QED BY <1>0, <1>5, CountQuiet

\* A request that asks for a worker is counted with its Channel frame.
LEMMA CountAsk ==
  ASSUME Before, After, NEW r \in Requests, SendChannel(r)
  PROVE  Provided'
PROOF
<1> USE CalmTypes DEF Before, After
<1>0. CalmServer /\ ControlInv /\ TypeOK BY DEF IInv, Owned, Calm
<1>1. req[r].pc = "signal" /\ req[r].ctl = control /\ control \in Conns
  BY <1>0 DEF SendChannel, CalmServer, ControlInv
<1>2. srv[control] = "control" /\ cl[control] = "control"
  BY <1>0, <1>1 DEF CalmServer
<1>3. /\ ToClient(control, Signal("Channel"))
      /\ req' = [req EXCEPT ![r].pc = "take", ![r].ctl = NoConn]
      /\ UNCHANGED <<srv, cl, cli, dials>>
  BY <1>1, <1>2 DEF SendChannel, WriteMayFail, clientVars
<1>4. Waiting' = Waiting \cup {r} BY <1>3 DEF Waiting
<1>5. Cardinality(Waiting') <= Cardinality(Waiting) + 1
  <2>1. Cardinality(Waiting \cup {r}) =
          IF r \in Waiting THEN Cardinality(Waiting) ELSE Cardinality(Waiting) + 1
    BY FS_AddElement DEF Countable
  <2>2. QED BY <1>4, <2>1 DEF Countable
<1>6. Cardinality(Asked) + 1 <= Cardinality(Asked')
  <2> DEFINE n == Len(s2c[control])
             x == <<control, n + 1>>
  <2>1. s2c[control] \in Seq(Message) /\ n \in Nat BY <1>1, LenProperties
  <2>2. s2c'[control] = Append(s2c[control], Signal("Channel"))
    BY <1>1, <1>2, <1>3 DEF ToClient
  <2>3. Signal("Channel") \in Message /\ Signal("Channel").sig = "Channel"
    BY MessageTypes DEF Signals, Signal
  <2>4. /\ Len(s2c'[control]) = n + 1
        /\ s2c'[control][n + 1] = Signal("Channel")
    BY <2>1, <2>2, <2>3, AppendProperties
  <2>5. AskedStay BY <1>0, <1>3, <2>3, AskedWrite
  <2>6. n + 1 \in 1..Len(s2c'[control]) BY <2>1, <2>4
  <2>7. x \in Asked' BY <1>1, <1>2, <1>3, <2>3, <2>4, <2>6, AskedThen
  <2>8. x \notin Asked
    <3>1. SUFFICES ASSUME x \in Asked PROVE FALSE OBVIOUS
    <3>2. PICK d \in Conns : \E i \in 1..Len(s2c[d]) : x = <<d, i>>
      BY <3>1, AskedIs
    <3>3. PICK i \in 1..Len(s2c[d]) : x = <<d, i>> BY <3>2
    <3>4. d = control /\ i = n + 1 BY <3>3
    <3>5. QED BY <2>1, <3>3, <3>4
  <2> HIDE DEF x
  <2>9. QED BY <2>5, <2>7, <2>8, AskedKept, Smaller DEF Countable
<1>7. InDial' = InDial /\ Coming' = Coming BY <1>3 DEF InDial, Coming
<1>8. Running' => Running BY <1>3 DEF Running
<1>9. /\ Cardinality(Waiting') + 0 <= Cardinality(Waiting) + 1
      /\ Cardinality(Asked) + Cardinality(InDial) + Cardinality(Coming) + 1 + 0
           <= Cardinality(Asked') + Cardinality(InDial') + Cardinality(Coming') + 0
  BY <1>5, <1>6, <1>7 DEF Countable
<1>10. QED BY <1>8, <1>9, ProvidedMoves

\* A request that takes a pooled connection waits no more: one less is owed, and
\* one less provided at most.
LEMMA CountTake ==
  ASSUME Before, After, NEW r \in Requests, TakeWorker(r)
  PROVE  Provided'
PROOF
<1> USE CalmTypes DEF Before, After
<1> DEFINE w == Head(workers)
<1>0. TypeOK BY DEF IInv
<1>1. /\ req[r].pc = "take"
      /\ req' = [req EXCEPT ![r].pc = "target", ![r].conn = w]
      /\ srv' = [srv EXCEPT ![w] = "taken"]
      /\ UNCHANGED <<s2c, cl, cli, dials>>
  BY DEF TakeWorker, clientVars
<1> HIDE DEF w
<1>2. Waiting' \subseteq Waiting /\ r \in Waiting /\ r \notin Waiting'
  BY <1>1 DEF Waiting
<1>3. Cardinality(Waiting') + 1 <= Cardinality(Waiting)
  BY <1>2, Smaller DEF Countable
<1>4. Coming \ {w} \subseteq Coming' BY <1>1 DEF Coming
<1>5. Cardinality(Coming) <= Cardinality(Coming') + 1
  <2>1. Cardinality(Coming \ {w}) =
          IF w \in Coming THEN Cardinality(Coming) - 1 ELSE Cardinality(Coming)
    BY FS_RemoveElement DEF Countable
  <2>2. Cardinality(Coming \ {w}) <= Cardinality(Coming')
    BY <1>4, NoLarger DEF Countable
  <2>3. QED BY <2>1, <2>2 DEF Countable
<1>6. InDial' = InDial /\ Asked' = Asked BY <1>1 DEF InDial, Asked
<1>7. Running' => Running BY <1>1 DEF Running
<1>8. /\ Cardinality(Waiting') + 1 <= Cardinality(Waiting) + 0
      /\ Cardinality(Asked) + Cardinality(InDial) + Cardinality(Coming) + 0 + 0
           <= Cardinality(Asked') + Cardinality(InDial') + Cardinality(Coming') + 1
  BY <1>3, <1>5, <1>6 DEF Countable
<1>9. QED BY <1>7, <1>8, ProvidedMoves

\* No other step of a request counts; a request that times out leaves its worker
\* to those that still wait.
LEMMA CountRequest ==
  ASSUME Before, After, NEW r \in Requests, Request(r)
  PROVE  Provided'
PROOF
<1> USE CalmTypes DEF Before, After
<1>0. TypeOK /\ HeldInv BY DEF IInv, Owned
<1>1. ASSUME NEW c \in Conns, srv[c] = "taken",
             UNCHANGED <<cl, cli, dials>>,
             s2c' = s2c \/ ToClient(c, Target(r)),
             \A d \in Conns : d # c => srv'[d] = srv[d],
             \A q \in Requests : req'[q].pc = "take" => req[q].pc = "take"
      PROVE  Provided'
  <2>1. AskedStay BY <1>0, <1>1, AskedWrite, MessageTypes
  <2>2. \A d \in Conns : srv[d] \in ComingAt => srv'[d] = srv[d]
    BY <1>1 DEF ComingAt
  <2>3. QuietCount BY <1>1, <2>1, <2>2 DEF QuietCount
  <2>4. QED BY <1>0, <2>3, CountQuiet
<1>5. req = [q \in Requests |-> req[q]] BY <1>0 DEF TypeOK
<1>2. CASE RequestArrives(r) \/ SeeControl(r) \/ RequestTimeout(r)
  <2>1. UNCHANGED <<srv, cl, cli, dials, s2c>>
    BY <1>2 DEF RequestArrives, SeeControl, RequestTimeout, clientVars
  <2>5. \A q \in Requests : req'[q].pc = "take" => req[q].pc = "take"
    <3>1. CASE RequestArrives(r)
      <4>1. req' = [req EXCEPT ![r].pc = "poll"] BY <3>1 DEF RequestArrives
      <4>2. QED BY <1>5, <4>1
    <3>2. CASE SeeControl(r)
      <4>1. req' = [req EXCEPT ![r].pc = "signal", ![r].ctl = control]
        BY <3>2 DEF SeeControl
      <4>2. QED BY <1>5, <4>1
    <3>3. CASE RequestTimeout(r)
      <4>1. req' = [req EXCEPT ![r] = IdleReq] BY <3>3 DEF RequestTimeout
      <4>2. QED BY <1>5, <4>1 DEF IdleReq
    <3>4. QED BY <1>2, <3>1, <3>2, <3>3
  <2>2. AskedStay BY <2>1 DEF AskedStay
  <2>3. QuietCount BY <2>1, <2>2, <2>5 DEF QuietCount
  <2>4. QED BY <1>0, <2>3, CountQuiet
<1>3. CASE SendTarget(r) \/ BridgeEnd(r)
  <2> DEFINE c == req[r].conn
  <2>1. c \in Conns /\ srv[c] = "taken"
    BY <1>0, <1>3 DEF SendTarget, BridgeEnd, HeldInv, Holding
  <2>2. UNCHANGED <<cl, cli, dials>>
    BY <1>3 DEF SendTarget, BridgeEnd, clientVars
  <2>3. /\ s2c' = s2c \/ ToClient(c, Target(r))
        /\ srv' = srv \/ srv' = [srv EXCEPT ![c] = "closed"]
        /\ \/ req' = [req EXCEPT ![r].pc = "bridge"]
           \/ req' = [req EXCEPT ![r] = IdleReq]
    BY <1>3 DEF SendTarget, BridgeEnd, ServerCloses
  <2> HIDE DEF c
  <2>4. \A d \in Conns : d # c => srv'[d] = srv[d] BY <1>0, <2>3 DEF TypeOK
  <2>5. \A q \in Requests : req'[q].pc = "take" => req[q].pc = "take"
    <3>1. CASE req' = [req EXCEPT ![r].pc = "bridge"] BY <1>5, <3>1
    <3>2. CASE req' = [req EXCEPT ![r] = IdleReq]
      BY <1>5, <3>2 DEF IdleReq
    <3>3. QED BY <2>3, <3>1, <3>2
  <2>6. QED BY <1>1, <2>1, <2>2, <2>3, <2>4, <2>5
<1>4. QED BY <1>2, <1>3, CountAsk, CountTake DEF Request

\* A client that reads its Welcome starts as many dials as are owed from then on.
LEMMA CountWelcome ==
  ASSUME Before, After, NEW k \in Clients, ClientWelcome(k),
         srv[cli[k].conn] \in Welcomed
  PROVE  Provided'
PROOF
<1> USE CalmTypes DEF Before, After
<1> DEFINE c == cli[k].conn
<1>0. TypeOK /\ CalmClients BY DEF IInv, Calm
<1>1. /\ cli[k].pc = "hello" /\ s2c[c] # <<>> /\ Head(s2c[c]).sig = "Welcome"
      /\ s2c' = [s2c EXCEPT ![c] = Tail(@)]
      /\ dials' = [dials EXCEPT ![k] = PoolSize]
      /\ UNCHANGED <<req, cl, srv>>
  BY DEF ClientWelcome, Replied, serverVars
<1>2. c \in Conns /\ dials[k] = 0
  <2>1. c \in Conns BY <1>0, <1>1 DEF CalmClients
  <2>2. ~(dials[k] > 0) BY <1>0, <1>1 DEF CalmClients
  <2>3. dials[k] \in Nat BY <1>0 DEF TypeOK
  <2>4. QED BY <2>1, <2>2, <2>3
<1>3. ~Running BY <1>1, OneRuns DEF Running
<1> HIDE DEF c
<1>4. Cardinality(Asked) <= Cardinality(Asked')
  BY <1>0, <1>1, <1>2, AskedRead
<1>5. Cardinality(InDial) + PoolSize <= Cardinality(InDial')
  <2> DEFINE P == {k} \X (1..PoolSize)
  <2>1. IsFiniteSet(P) /\ Cardinality(P) = PoolSize
    BY PairsFinite, BoundsAssumption
  <2>2. InDial \subseteq InDial'
    <3>1. \A j \in Clients : dials[j] <= dials'[j]
      BY <1>1, <1>2, BoundsAssumption
    <3>2. QED BY <1>0, <3>1, InDialKept
  <2>3. P \subseteq InDial'
    <3>1. dials'[k] = PoolSize BY <1>1
    <3>2. SUFFICES ASSUME NEW i \in 1..PoolSize PROVE <<k, i>> \in InDial'
      OBVIOUS
    <3>3. QED BY <3>1, <3>2, InDialThen
  <2>4. InDial \cap P = {}
    <3>1. SUFFICES ASSUME NEW i \in 1..PoolSize PROVE <<k, i>> \notin InDial
      OBVIOUS
    <3>2. SUFFICES ASSUME <<k, i>> \in InDial PROVE FALSE OBVIOUS
    <3>3. PICK j \in Clients : \E l \in 1..dials[j] : <<k, i>> = <<j, l>>
      BY <3>2, InDialIs
    <3>4. j = k BY <3>3
    <3>5. QED BY <1>2, <3>3, <3>4
  <2> HIDE DEF P
  <2>5. Cardinality(InDial \cup P)
          = Cardinality(InDial) + Cardinality(P) - Cardinality({})
    BY <2>1, <2>4, FS_Union DEF Countable
  <2>6. Cardinality({}) = 0 BY FS_EmptySet
  <2>7. InDial \cup P \subseteq InDial' BY <2>2, <2>3
  <2>8. Cardinality(InDial \cup P) <= Cardinality(InDial')
    BY <2>7, NoLarger DEF Countable
  <2>9. QED BY <2>1, <2>5, <2>6, <2>8, BoundsAssumption DEF Countable
<1>6. Waiting' = Waiting /\ Coming' = Coming BY <1>1 DEF Waiting, Coming
<1>7. PoolSize \in Nat BY BoundsAssumption
<1>8. Cardinality(Asked) + Cardinality(InDial) + Cardinality(Coming) + 0 + PoolSize
        <= Cardinality(Asked') + Cardinality(InDial') + Cardinality(Coming') + 0
  <2> DEFINE A == Cardinality(Asked)
             D == Cardinality(InDial)
             M == Cardinality(Coming)
             A1 == Cardinality(Asked')
             D1 == Cardinality(InDial')
             M1 == Cardinality(Coming')
  <2>1. /\ A \in Nat /\ D \in Nat /\ M \in Nat
        /\ A1 \in Nat /\ D1 \in Nat /\ M1 \in Nat
    BY DEF Countable
  <2>2. A <= A1 /\ D + PoolSize <= D1 /\ M1 = M BY <1>4, <1>5, <1>6
  <2> HIDE DEF A, D, M, A1, D1, M1
  <2>3. A + D + M + 0 + PoolSize <= A1 + D1 + M1 + 0 BY <1>7, <2>1, <2>2
  <2>4. QED BY <2>3 DEF A, D, M, A1, D1, M1
<1>9. Cardinality(Waiting') + 0 <= Cardinality(Waiting) + 0
  BY <1>6 DEF Countable
<1>10. Running' /\ ~Running => PoolSize <= PoolSize BY <1>7
<1>11. QED BY <1>7, <1>8, <1>9, <1>10, ProvidedMoves

\* A Channel frame that is read becomes a goroutine that dials.
LEMMA CountSignal ==
  ASSUME Before, After, NEW k \in Clients, ClientSignal(k)
  PROVE  Provided'
PROOF
<1> USE CalmTypes DEF Before, After
<1> DEFINE c == cli[k].conn
<1>0. TypeOK /\ CalmClients BY DEF IInv, Calm
<1>1. /\ cli[k].pc = "run" /\ s2c[c] # <<>>
      /\ s2c' = [s2c EXCEPT ![c] = Tail(@)]
      /\ dials' = [dials EXCEPT ![k] = IF Head(s2c[c]).sig = "Channel"
                                         THEN @ + 1 ELSE @]
      /\ UNCHANGED <<req, cl, srv, cli>>
  BY DEF ClientSignal, serverVars
<1>2. c \in Conns BY <1>0, <1>1 DEF CalmClients
<1> HIDE DEF c
<1>3. /\ Cardinality(Asked) <= Cardinality(Asked') + 1
      /\ Head(s2c[c]).sig # "Channel" =>
           Cardinality(Asked) <= Cardinality(Asked')
  BY <1>0, <1>1, <1>2, AskedRead
<1>4. InDial \subseteq InDial'
  <2>1. \A j \in Clients : dials[j] <= dials'[j] BY <1>1
  <2>2. QED BY <1>0, <2>1, InDialKept
<1>5. Cardinality(InDial) <= Cardinality(InDial') BY <1>4, NoLarger DEF Countable
<1>6. Head(s2c[c]).sig = "Channel" =>
        Cardinality(InDial) + 1 <= Cardinality(InDial')
  <2>1. SUFFICES ASSUME Head(s2c[c]).sig = "Channel"
                 PROVE  Cardinality(InDial) + 1 <= Cardinality(InDial')
    OBVIOUS
  <2> DEFINE x == <<k, dials[k] + 1>>
  <2>2. dials'[k] = dials[k] + 1 /\ dials[k] + 1 \in 1..dials'[k]
    BY <1>1, <2>1
  <2>3. x \in InDial' BY <2>2, InDialThen
  <2>4. x \notin InDial
    <3>1. SUFFICES ASSUME x \in InDial PROVE FALSE OBVIOUS
    <3>2. PICK j \in Clients : \E l \in 1..dials[j] : x = <<j, l>>
      BY <3>1, InDialIs
    <3>3. PICK l \in 1..dials[j] : x = <<j, l>> BY <3>2
    <3>4. j = k /\ l = dials[k] + 1 BY <3>3
    <3>5. QED BY <3>3, <3>4
  <2> HIDE DEF x
  <2>5. QED BY <1>4, <2>3, <2>4, Smaller DEF Countable
<1>7. Waiting' = Waiting /\ Coming' = Coming BY <1>1 DEF Waiting, Coming
<1>8. Running' => Running BY <1>1 DEF Running
<1>9. Cardinality(Asked) + Cardinality(InDial) + Cardinality(Coming) + 0 + 0
        <= Cardinality(Asked') + Cardinality(InDial') + Cardinality(Coming') + 0
  <2> DEFINE A == Cardinality(Asked)
             D == Cardinality(InDial)
             M == Cardinality(Coming)
             A1 == Cardinality(Asked')
             D1 == Cardinality(InDial')
             M1 == Cardinality(Coming')
  <2>1. /\ A \in Nat /\ D \in Nat /\ M \in Nat
        /\ A1 \in Nat /\ D1 \in Nat /\ M1 \in Nat
    BY DEF Countable
  <2>2. \/ A <= A1 /\ D <= D1 /\ M1 = M
        \/ A <= A1 + 1 /\ D + 1 <= D1 /\ M1 = M
    BY <1>3, <1>5, <1>6, <1>7
  <2> HIDE DEF A, D, M, A1, D1, M1
  <2>3. A + D + M + 0 + 0 <= A1 + D1 + M1 + 0 BY <2>1, <2>2
  <2>4. QED BY <2>3 DEF A, D, M, A1, D1, M1
<1>10. Cardinality(Waiting') + 0 <= Cardinality(Waiting) + 0
  BY <1>7 DEF Countable
<1>11. QED BY <1>8, <1>9, <1>10, ProvidedMoves

\* A goroutine that dials becomes a worker on its way.
LEMMA CountDial ==
  ASSUME Before, After, NEW k \in Clients, NEW c \in Conns, WorkerDial(k, c)
  PROVE  Provided'
PROOF
<1> USE CalmTypes DEF Before, After
<1>0. TypeOK BY DEF IInv
<1>1. /\ dials[k] > 0 /\ dials' = [dials EXCEPT ![k] = @ - 1]
      /\ srv[c] = "closed" /\ cl[c] = "closed"
      /\ srv' = [srv EXCEPT ![c] = "accept"]
      /\ cl' = [cl EXCEPT ![c] = "worker"]
      /\ UNCHANGED <<s2c, req, cli>>
  BY DEF WorkerDial, Dial, Reusable
<1>2. Asked \subseteq Asked'
  <2>1. AskedStay BY <1>1 DEF AskedStay
  <2>2. QED BY <2>1, AskedKept
<1>3. Cardinality(InDial) <= Cardinality(InDial') + 1
  <2> DEFINE x == <<k, dials[k]>>
  <2>1. \A j \in Clients : \A i \in 1..dials[j] :
          i \in 1..dials'[j] \/ (j = k /\ i = dials[k])
    BY <1>1
  <2>2. InDial \ {x} \subseteq InDial'
    <3>1. SUFFICES ASSUME NEW y \in InDial, y # x PROVE y \in InDial' OBVIOUS
    <3>2. PICK j \in Clients : \E i \in 1..dials[j] : y = <<j, i>>
      BY InDialIs
    <3>3. PICK i \in 1..dials[j] : y = <<j, i>> BY <3>2
    <3>4. i \in 1..dials'[j] BY <2>1, <3>1, <3>3
    <3>5. QED BY <3>3, <3>4, InDialThen
  <2> HIDE DEF x
  <2>3. Cardinality(InDial \ {x}) =
          IF x \in InDial THEN Cardinality(InDial) - 1 ELSE Cardinality(InDial)
    BY FS_RemoveElement DEF Countable
  <2>4. Cardinality(InDial \ {x}) <= Cardinality(InDial')
    BY <2>2, NoLarger DEF Countable
  <2>5. QED BY <2>3, <2>4 DEF Countable
<1>4. Cardinality(Coming) + 1 <= Cardinality(Coming')
  <2>1. Coming \subseteq Coming' /\ c \in Coming' /\ c \notin Coming
    BY <1>1 DEF Coming
  <2>2. QED BY <2>1, Smaller DEF Countable
<1>5. Cardinality(Asked) <= Cardinality(Asked')
  BY <1>2, NoLarger DEF Countable
<1>6. Waiting' = Waiting BY <1>1 DEF Waiting
<1>7. Running' => Running BY <1>1 DEF Running
<1>8. Cardinality(Asked) + Cardinality(InDial) + Cardinality(Coming) + 0 + 0
        <= Cardinality(Asked') + Cardinality(InDial') + Cardinality(Coming') + 0
  <2> DEFINE A == Cardinality(Asked)
             D == Cardinality(InDial)
             M == Cardinality(Coming)
             A1 == Cardinality(Asked')
             D1 == Cardinality(InDial')
             M1 == Cardinality(Coming')
  <2>1. /\ A \in Nat /\ D \in Nat /\ M \in Nat
        /\ A1 \in Nat /\ D1 \in Nat /\ M1 \in Nat
    BY DEF Countable
  <2>2. A <= A1 /\ D <= D1 + 1 /\ M + 1 <= M1 BY <1>3, <1>4, <1>5
  <2> HIDE DEF A, D, M, A1, D1, M1
  <2>3. A + D + M + 0 + 0 <= A1 + D1 + M1 + 0 BY <2>1, <2>2
  <2>4. QED BY <2>3 DEF A, D, M, A1, D1, M1
<1>9. Cardinality(Waiting') + 0 <= Cardinality(Waiting) + 0
  BY <1>6 DEF Countable
<1>10. QED BY <1>7, <1>8, <1>9, ProvidedMoves

\* Dialling a control connection and giving up a Hello lose no frame that asks
\* for a worker: those are in flight on the installed channel.
LEMMA CountClient ==
  ASSUME Before, After, NEW k \in Clients, CalmClientStep(k)
  PROVE  Provided'
PROOF
<1> USE CalmTypes DEF Before, After
<1>0. TypeOK /\ CalmClients BY DEF IInv, Calm
<1>1. ASSUME NEW c \in Conns, ClientDial(k, c) PROVE Provided'
  <2>1. /\ srv[c] = "closed" /\ cl[c] = "closed" /\ cli[k].pc = "dial"
        /\ srv' = [srv EXCEPT ![c] = "accept"]
        /\ cl' = [cl EXCEPT ![c] = "control"]
        /\ cli' = [cli EXCEPT ![k] = [pc |-> "hello", conn |-> c]]
        /\ UNCHANGED <<req, dials, s2c>>
    BY <1>1 DEF ClientDial, Dial, Reusable
  <2>2. AskedStay BY <2>1 DEF AskedStay
  <2>3. QuietCount BY <2>1, <2>2 DEF QuietCount, ComingAt
  <2>4. QED BY <1>0, <2>3, CountQuiet
<1>2. CASE ClientRetry(k)
  <2> DEFINE c == cli[k].conn
  <2>1. /\ cli[k].pc = "hello"
        /\ cl' = [cl EXCEPT ![c] = "closed"]
        /\ s2c' = [s2c EXCEPT ![c] = <<>>]
        /\ cli' = [cli EXCEPT ![k] = ClientAtDial]
        /\ UNCHANGED <<srv, req, dials>>
    BY <1>2 DEF ClientRetry, GiveUpHello, ClientCloses, serverVars
  <2>2. c \in Conns /\ cl[c] = "control" BY <1>0, <2>1 DEF CalmClients
  <2>3. srv[c] # "control"
    <3>1. CalmConn(c) BY <2>2 DEF Calm
    <3>2. cli[owner[c]].pc # "run" BY <1>0, <2>1, <2>2 DEF CalmClients
    <3>3. srv[c] = "control" => s2c[c] # <<>> /\ Head(s2c[c]).sig = "Welcome"
      BY <3>1, <3>2 DEF CalmConn, Welcomed
    <3>4. QED BY <1>2, <3>3 DEF ClientRetry, Replied, Unanswered
  <2> HIDE DEF c
  <2>4. \A i \in 1..Len(s2c[c]) : s2c[c][i].sig # "Channel"
    <3>1. CalmFrames(c) BY <2>2 DEF Calm
    <3>2. QED BY <2>3, <3>1 DEF CalmFrames, Fits
  <2>5. AskedStay BY <2>1, <2>4 DEF AskedStay
  <2>6. \A j \in Clients : cli'[j].pc = "run" => cli[j].pc = "run"
    BY <2>1 DEF ClientAtDial
  <2>7. \A d \in Conns : cl[d] = "worker" => cl'[d] = "worker"
    BY <2>1, <2>2
  <2>8. QuietCount BY <2>1, <2>5, <2>6, <2>7 DEF QuietCount
  <2>9. QED BY <1>0, <2>8, CountQuiet
<1>3. QED
  BY <1>1, <1>2, CountWelcome, CountSignal, CountDial DEF CalmClientStep

OnTheWay == faults = 0 => Calm /\ Provided

\* The count holds as long as nothing fails.
LEMMA OnTheWayNext ==
  ASSUME IInv, IInv', OnTheWay, [Next]_vars
  PROVE  OnTheWay'
PROOF
<1>1. SUFFICES ASSUME faults' = 0 PROVE Calm' /\ Provided' BY DEF OnTheWay
<1>2. Calm' BY <1>1, CalmNext DEF OnTheWay
<1>3. CASE Next
  <2>1. faults = 0 /\ Calm /\ Provided
    BY <1>1, <1>3, NoFaultBefore DEF IInv, OnTheWay
  <2>2. Before /\ After
    BY <1>2, <2>1, CalmCounts, CalmCountsThen DEF Before, After, IInv
  <2>3. Provided'
    BY <1>1, <1>3, <2>1, <2>2, CountHandshake, CountMonitor, CountRequest,
       CountWorker, CalmClientSteps, CountClient, CalmNoServer
    DEF Next
  <2>4. QED BY <1>2, <2>3
<1>4. CASE UNCHANGED vars
  <2>1. Provided BY <1>1, <1>4 DEF OnTheWay, vars
  <2>2. QED
    BY <1>2, <1>4, <2>1
    DEF vars, Provided, PoolSuffices, Owed, Backlog, Running, Waiting, Asked,
        InDial, Coming
<1>5. QED BY <1>3, <1>4

\* Without a fault a connected client keeps a worker ready or coming for every
\* request that waits and PoolSize more (acquireWorker, runOriginalTCPClient),
\* for any number of clients, requests and connections, if the pool suffices.
THEOREM WorkersOnTheWay == Spec => []WorkerOnTheWay
PROOF
<1>1. Init => OnTheWay
  <2>1. SUFFICES ASSUME Init PROVE Calm /\ Provided BY DEF OnTheWay
  <2>2. Waiting = {} /\ ~Running
    BY <2>1 DEF Init, Waiting, Running, IdleReq, ClientAtDial
  <2>3. Countable BY <2>1, CalmInit, CalmCounts, TypeInit, OwnedInit DEF IInv
  <2>4. Cardinality(Waiting) = 0 BY <2>2, FS_EmptySet
  <2>5. Provided BY <2>2, <2>3, <2>4 DEF Provided, Owed, Backlog, Countable
  <2>6. QED BY <2>1, <2>5, CalmInit
<1>2. IInv /\ OnTheWay => WorkerOnTheWay
  BY DEF OnTheWay, Provided, Owed, Running, WorkerOnTheWay
<1>3. IInv /\ IInv' /\ OnTheWay /\ [Next]_vars => OnTheWay' BY OnTheWayNext
<1>4. QED BY <1>1, <1>2, <1>3, Inductive, PTL DEF Spec

=============================================================================
