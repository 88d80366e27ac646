--------------------------- MODULE WorkerPoolProofs ---------------------------
(***************************************************************************)
(* Theorems about WorkerPool for every number of connections, requests and *)
(* worker loops, every capacity and every number of faults.                *)
(***************************************************************************)
EXTENDS WorkerPool, SequenceTheorems, FiniteSetTheorems, TLAPS

-----------------------------------------------------------------------------
(* The inductive invariant: who owns each end of a connection. *)

\* A connection is in workerPool once, exactly while it is "queued".
PoolInv ==
  /\ \A i \in 1..Len(workers) : srv[workers[i]] = "queued"
  /\ \A i, j \in 1..Len(workers) : workers[i] = workers[j] => i = j
  /\ \A c \in Conns : srv[c] = "queued" => \E i \in 1..Len(workers) : workers[i] = c

\* A request that holds a connection is the only one, and every connection that
\* was taken is held.
HeldInv ==
  /\ \A r \in Requests : Holding(r) => req[r].conn \in Conns /\ srv[req[r].conn] = "taken"
  /\ \A r \in Requests : ~Holding(r) => req[r].conn = NoConn
  /\ \A r, q \in Requests : Holding(r) /\ req[r].conn = req[q].conn => r = q
  /\ \A c \in Conns : srv[c] = "taken" => \E r \in Requests : req[r].conn = c

\* A loop that is past the dial has an open connection of its own, and every
\* open connection has its loop.
LoopInv ==
  /\ \A w \in Loops :
       loop[w].pc \in {"wait", "serve", "write"} =>
         /\ loop[w].conn \in Conns
         /\ cl[loop[w].conn]
         /\ owner[loop[w].conn] = w
  /\ \A w \in Loops : loop[w].pc \in {"dial", "returned"} => loop[w].conn = NoConn
  /\ \A c \in Conns : cl[c] => loop[owner[c]].conn = c

\* A target is in flight or being relayed only at an open worker, and while the
\* server holds the connection it is that of the holder.
TargetInv ==
  /\ \A c \in Conns : ~cl[c] => s2c[c] = NoReq /\ tgt[c] = NoReq
  /\ \A c \in Conns : srv[c] \in {"auth", "offer", "queued"} =>
       s2c[c] = NoReq /\ tgt[c] = NoReq
  /\ \A c \in Conns : \A r \in Requests :
       srv[c] = "taken" /\ (s2c[c] = r \/ tgt[c] = r) =>
         req[r] = [pc |-> "bridge", conn |-> c]
  /\ \A w \in Loops : Relaying(w) => tgt[loop[w].conn] # NoReq

IInv == TypeOK /\ PoolInv /\ HeldInv /\ LoopInv /\ TargetInv

\* Init establishes it: the server and the client of a fresh tunnel.
LEMMA InitIInv == Init => IInv
PROOF
<1> SUFFICES ASSUME Init PROVE IInv
  OBVIOUS
<1>1. TypeOK
  <2>1. workers \in Seq(Conns) /\ Len(workers) <= WorkersCap
    BY PoolAssumption, EmptySeq DEF Init
  <2>2. QED BY <2>1, PoolAssumption
    DEF Init, TypeOK, SrvState, ReqState, LoopState, IdleReq, AtDial
<1>3. PoolInv BY DEF Init, PoolInv
<1>4. HeldInv BY PoolAssumption DEF Init, HeldInv, Holding, IdleReq
<1>5. LoopInv BY DEF Init, LoopInv, AtDial
<1>6. TargetInv BY PoolAssumption DEF Init, TargetInv, AtDial, Relaying
<1>7. QED BY <1>1, <1>3, <1>4, <1>5, <1>6 DEF IInv

-----------------------------------------------------------------------------
(* Types. *)

\* Offering a connection and taking the oldest keep the channel well typed and
\* within its capacity.
LEMMA PoolTypes ==
  ASSUME TypeOK
  PROVE  /\ \A c \in Conns : PoolHasRoom =>
              Append(workers, c) \in Seq(Conns) /\ Len(Append(workers, c)) <= WorkersCap
         /\ workers # <<>> =>
              /\ Head(workers) \in Conns
              /\ WorkersLeft \in Seq(Conns) /\ Len(WorkersLeft) <= WorkersCap
PROOF
<1>1. workers \in Seq(Conns) /\ Len(workers) <= WorkersCap /\ WorkersCap \in Nat
  BY PoolAssumption DEF TypeOK
<1>2. \A c \in Conns : PoolHasRoom =>
        Append(workers, c) \in Seq(Conns) /\ Len(Append(workers, c)) <= WorkersCap
  BY <1>1, AppendProperties, LenProperties DEF PoolHasRoom
<1>3. workers # <<>> =>
        /\ Head(workers) \in Conns
        /\ WorkersLeft \in Seq(Conns) /\ Len(WorkersLeft) <= WorkersCap
  BY <1>1, HeadTailProperties, LenProperties DEF WorkersLeft
<1>4. QED BY <1>2, <1>3

\* Every step of the server keeps the types.
LEMMA TypeServer ==
  ASSUME TypeOK,
         (\E c \in Conns : Handler(c)) \/ (\E r \in Requests : Request(r)) \/ ServerRestart
  PROVE  TypeOK'
PROOF
<1> USE DEF TypeOK, SrvState, ReqState, IdleReq, clientVars
<1>1. ASSUME NEW c \in Conns, Authenticate(c) PROVE TypeOK'
  BY <1>1 DEF Authenticate
<1>2. ASSUME NEW c \in Conns, Enqueue(c) PROVE TypeOK'
  BY <1>2, PoolTypes DEF Enqueue
<1>3. ASSUME NEW r \in Requests, RequestArrives(r) PROVE TypeOK'
  BY <1>3 DEF RequestArrives
<1>4. ASSUME NEW r \in Requests, TakeWorker(r) PROVE TypeOK'
  BY <1>4, PoolTypes DEF TakeWorker
<1>5. ASSUME NEW r \in Requests, SendTarget(r) PROVE TypeOK'
  BY <1>5 DEF SendTarget, TargetAddr
<1>6. ASSUME NEW r \in Requests, TargetFails(r) PROVE TypeOK'
  BY <1>6 DEF TargetFails, AfterFailure
<1>7. ASSUME NEW r \in Requests, RequestTimeout(r) PROVE TypeOK'
  BY <1>7 DEF RequestTimeout
<1>8. ASSUME NEW r \in Requests, BridgeEnd(r) PROVE TypeOK'
  BY <1>8 DEF BridgeEnd
<1>9. CASE ServerRestart
  <2>1. workers' \in Seq(Conns) /\ Len(workers') <= WorkersCap
    BY <1>9, PoolAssumption, EmptySeq DEF ServerRestart
  <2>2. faults' \in 0..MaxFaults
    BY <1>9, PoolAssumption DEF ServerRestart, Fault
  <2>3. QED BY <1>9, <2>1, <2>2 DEF ServerRestart
<1>10. QED
  BY <1>1, <1>2, <1>3, <1>4, <1>5, <1>6, <1>7, <1>8, <1>9 DEF Handler, Request

\* Every step of the client keeps the types.
LEMMA TypeClient ==
  ASSUME TypeOK, (\E w \in Loops : Loop(w)) \/ Cancel \/ ClientRestart
  PROVE  TypeOK'
PROOF
<1> USE DEF TypeOK, LoopState, AtDial, serverVars
<1>1. ASSUME NEW w \in Loops, NEW c \in Conns, Dial(w, c) PROVE TypeOK'
  BY <1>1 DEF Dial, SrvState
<1>2. ASSUME NEW w \in Loops, CloseAndRetry(w) PROVE TypeOK'
  BY <1>2 DEF CloseAndRetry
<1>3. ASSUME NEW w \in Loops, ReadTarget(w) \/ WriteWaits(w) PROVE TypeOK'
  <2>1. CASE ReadTarget(w)
    BY <2>1 DEF ReadTarget
  <2>2. CASE WriteWaits(w)
    BY <2>2 DEF WriteWaits
  <2>3. QED BY <1>3, <2>1, <2>2
<1>4. ASSUME NEW w \in Loops, LoopReturns(w) PROVE TypeOK'
  BY <1>4 DEF LoopReturns
<1>5. CASE Cancel
  <2>1. faults' \in 0..MaxFaults BY <1>5, PoolAssumption DEF Cancel, Fault
  <2>2. QED BY <1>5, <2>1 DEF Cancel
<1>6. CASE ClientRestart
  BY <1>6, PoolAssumption DEF ClientRestart, Fault
<1>7. QED
  BY <1>1, <1>2, <1>3, <1>4, <1>5, <1>6 DEF Loop, WaitEnds, RelayEnds, Relaying

-----------------------------------------------------------------------------
(* The server's ends. *)

\* The channel with one connection more, and with the oldest taken out.
LEMMA PoolEntries ==
  ASSUME TypeOK
  PROVE  /\ \A c \in Conns : workers' = Append(workers, c) =>
              /\ Len(workers') = Len(workers) + 1
              /\ workers'[Len(workers) + 1] = c
              /\ \A i \in 1..Len(workers) : workers'[i] = workers[i]
         /\ workers # <<>> /\ workers' = WorkersLeft =>
              /\ Head(workers) \in Conns /\ Head(workers) = workers[1]
              /\ 1 \in 1..Len(workers)
              /\ Len(workers') = Len(workers) - 1
              /\ \A i \in 1..Len(workers') : workers'[i] = workers[i + 1]
PROOF
<1>1. workers \in Seq(Conns) BY DEF TypeOK
<1>2. \A c \in Conns : workers' = Append(workers, c) =>
        /\ Len(workers') = Len(workers) + 1
        /\ workers'[Len(workers) + 1] = c
        /\ \A i \in 1..Len(workers) : workers'[i] = workers[i]
  BY <1>1, AppendProperties, LenProperties
<1>3. workers # <<>> /\ workers' = WorkersLeft =>
        /\ Head(workers) \in Conns /\ Head(workers) = workers[1]
        /\ 1 \in 1..Len(workers)
        /\ Len(workers') = Len(workers) - 1
        /\ \A i \in 1..Len(workers') : workers'[i] = workers[i + 1]
  BY <1>1, HeadTailProperties, LenProperties DEF WorkersLeft
<1>4. QED BY <1>2, <1>3

\* Every step keeps each queued connection in the channel once.
LEMMA PoolStep ==
  ASSUME IInv, Next
  PROVE  PoolInv'
PROOF
<1> USE DEF IInv, TypeOK, PoolInv, clientVars, serverVars
<1>0. workers \in Seq(Conns) /\ Len(workers) \in Nat
       /\ \A i \in 1..Len(workers) : workers[i] \in Conns
  BY LenProperties, ElementOfSeq
<1>1. ASSUME NEW c \in Conns, NEW s \in SrvState \ {"queued"}, srv[c] # "queued",
             srv' = [srv EXCEPT ![c] = s], UNCHANGED workers
      PROVE  PoolInv'
  BY <1>0, <1>1
<1>2. ASSUME NEW c \in Conns, Authenticate(c) PROVE PoolInv'
  BY <1>1, <1>2 DEF Authenticate, SrvState
<1>3. ASSUME NEW c \in Conns, Enqueue(c) PROVE PoolInv'
  <2> DEFINE n == Len(workers) + 1
  <2>1. /\ workers' = Append(workers, c)
        /\ srv' = [srv EXCEPT ![c] = "queued"]
        /\ srv[c] = "offer"
    BY <1>3 DEF Enqueue
  <2>2. /\ Len(workers') = n /\ workers'[n] = c
        /\ \A i \in 1..Len(workers) : workers'[i] = workers[i] /\ workers[i] # c
        /\ \A i \in 1..n : i = n \/ i \in 1..Len(workers)
    BY <1>0, <2>1, PoolEntries
  <2>3. \A i \in 1..n : srv'[workers'[i]] = "queued"
    BY <1>0, <2>1, <2>2
  <2>4. \A i, j \in 1..n : workers'[i] = workers'[j] => i = j
    BY <1>0, <2>2
  <2>5. \A d \in Conns : srv'[d] = "queued" => \E i \in 1..n : workers'[i] = d
    <3>1. n \in 1..n /\ \A i \in 1..Len(workers) : i \in 1..n BY <1>0
    <3>2. QED BY <2>1, <2>2, <3>1
  <2>6. QED BY <2>2, <2>3, <2>4, <2>5
<1>4. ASSUME NEW r \in Requests, TakeWorker(r) PROVE PoolInv'
  <2> DEFINE h == Head(workers)
  <2>1. /\ workers' = WorkersLeft /\ workers # <<>>
        /\ srv' = [srv EXCEPT ![h] = "taken"]
    BY <1>4 DEF TakeWorker
  <2>2. /\ h \in Conns /\ h = workers[1] /\ 1 \in 1..Len(workers)
        /\ Len(workers') = Len(workers) - 1
        /\ \A i \in 1..Len(workers') : workers'[i] = workers[i + 1]
    BY <2>1, PoolEntries
  <2>3. \A i \in 1..Len(workers') :
          i + 1 \in 1..Len(workers) /\ i + 1 # 1 /\ workers'[i] # h
    <3>1. \A i \in 1..Len(workers') : i + 1 \in 1..Len(workers) /\ i + 1 # 1
      BY <1>0, <2>2
    <3>2. QED BY <2>2, <3>1
  <2>4. \A i \in 1..Len(workers') : srv'[workers'[i]] = "queued"
    BY <1>0, <2>1, <2>2, <2>3
  <2>5. \A i, j \in 1..Len(workers') : workers'[i] = workers'[j] => i = j
    <3> SUFFICES ASSUME NEW i \in 1..Len(workers'), NEW j \in 1..Len(workers'),
                        workers'[i] = workers'[j]
                 PROVE  i = j
      OBVIOUS
    <3>1. workers[i + 1] = workers[j + 1] BY <2>2
    <3>2. i + 1 = j + 1 BY <2>3, <3>1
    <3>3. QED BY <3>2
  <2>6. ASSUME NEW d \in Conns, srv'[d] = "queued"
        PROVE  \E i \in 1..Len(workers') : workers'[i] = d
    <3>1. d # h /\ srv[d] = "queued" BY <2>1, <2>2, <2>6
    <3>2. PICK k \in 1..Len(workers) : workers[k] = d BY <3>1
    <3>3. k # 1 BY <2>2, <3>1, <3>2
    <3>4. k - 1 \in 1..Len(workers') /\ (k - 1) + 1 = k BY <1>0, <2>2, <3>3
    <3>5. workers'[k - 1] = workers[(k - 1) + 1] BY <2>2, <3>4
    <3>6. workers'[k - 1] = d BY <3>2, <3>4, <3>5
    <3>7. QED BY <3>4, <3>6
  <2>7. QED BY <2>4, <2>5, <2>6
<1>5. ASSUME NEW r \in Requests, TargetFails(r) \/ BridgeEnd(r) PROVE PoolInv'
  <2>1. req[r].conn \in Conns /\ srv[req[r].conn] = "taken"
    BY <1>5 DEF TargetFails, BridgeEnd, HeldInv, Holding
  <2>2. QED BY <1>1, <1>5, <2>1 DEF TargetFails, BridgeEnd, AfterFailure, SrvState
<1>6. CASE ServerRestart
  BY <1>6, LenProperties, EmptySeq DEF ServerRestart
<1>7. ASSUME NEW w \in Loops, NEW c \in Conns, Dial(w, c) PROVE PoolInv'
  BY <1>1, <1>7 DEF Dial, Reusable, SrvState
<1>8. ASSUME UNCHANGED <<workers, srv>> PROVE PoolInv'
  BY <1>8
<1>9. QED
  BY <1>2, <1>3, <1>4, <1>5, <1>6, <1>7, <1>8
  DEF Next, Handler, Request, Loop, RequestArrives, SendTarget, RequestTimeout,
      CloseAndRetry, WaitEnds, ReadTarget, WriteWaits, RelayEnds, Relaying, LoopReturns, Cancel, ClientRestart

\* Every step keeps each taken connection with one request.
LEMMA HeldStep ==
  ASSUME IInv, Next
  PROVE  HeldInv'
PROOF
<1> USE DEF IInv, TypeOK, HeldInv, Holding, ReqState, clientVars, serverVars
<1>1. ASSUME NEW c \in Conns, NEW s \in SrvState \ {"taken"}, srv[c] # "taken",
             srv' = [srv EXCEPT ![c] = s], UNCHANGED req
      PROVE  HeldInv'
  BY <1>1
<1>2. ASSUME NEW c \in Conns, Authenticate(c) \/ Enqueue(c) PROVE HeldInv'
  BY <1>1, <1>2 DEF Authenticate, Enqueue, SrvState
<1>3. ASSUME NEW w \in Loops, NEW c \in Conns, Dial(w, c) PROVE HeldInv'
  BY <1>1, <1>3 DEF Dial, Reusable, SrvState
<1>4. ASSUME NEW r \in Requests, RequestArrives(r) PROVE HeldInv'
  BY <1>4, PoolAssumption DEF RequestArrives
<1>5. ASSUME NEW r \in Requests, TakeWorker(r) PROVE HeldInv'
  <2> DEFINE h == Head(workers)
  <2>1. h \in Conns /\ srv[h] = "queued"
    BY <1>5, HeadTailProperties, LenProperties DEF TakeWorker, PoolInv
  <2>2. /\ req' = [req EXCEPT ![r] = [pc |-> "target", conn |-> h]]
        /\ srv' = [srv EXCEPT ![h] = "taken"]
    BY <1>5 DEF TakeWorker
  <2>3. ~Holding(r) BY <1>5 DEF TakeWorker
  <2>4. \A q \in Requests : req[q].conn # h BY <2>1, PoolAssumption
  <2>5. QED BY <2>1, <2>2, <2>3, <2>4, PoolAssumption
<1>6. ASSUME NEW r \in Requests, SendTarget(r) PROVE HeldInv'
  BY <1>6 DEF SendTarget
<1>7. ASSUME NEW r \in Requests, TargetFails(r) \/ BridgeEnd(r) PROVE HeldInv'
  <2> DEFINE c == req[r].conn
  <2>1. Holding(r) /\ c \in Conns BY <1>7 DEF TargetFails, BridgeEnd
  <2>2. /\ srv' = [srv EXCEPT ![c] = "closed"]
        /\ \A q \in Requests : q # r => req'[q] = req[q]
        /\ req'[r].conn = NoConn /\ req'[r].pc \in {"take", "idle"}
    BY <1>7 DEF TargetFails, BridgeEnd, AfterFailure, IdleReq
  <2>3. \A q \in Requests : q # r => req[q].conn # c BY <2>1
  <2>4. QED BY <2>1, <2>2, <2>3, PoolAssumption
<1>8. ASSUME NEW r \in Requests, RequestTimeout(r) PROVE HeldInv'
  BY <1>8, PoolAssumption DEF RequestTimeout, DeadlineWatched, IdleReq
<1>9. CASE ServerRestart
  BY <1>9, PoolAssumption DEF ServerRestart, IdleReq
<1>10. ASSUME UNCHANGED <<srv, req>> PROVE HeldInv'
  BY <1>10
<1>11. QED
  BY <1>2, <1>3, <1>4, <1>5, <1>6, <1>7, <1>8, <1>9, <1>10
  DEF Next, Handler, Request, Loop,
      CloseAndRetry, WaitEnds, ReadTarget, WriteWaits, RelayEnds, Relaying, LoopReturns, Cancel, ClientRestart

-----------------------------------------------------------------------------
(* The client's ends and the targets. *)

\* Every step keeps each open connection of the client with its loop.
LEMMA LoopStep ==
  ASSUME IInv, Next
  PROVE  LoopInv'
PROOF
<1> USE DEF IInv, TypeOK, LoopInv, LoopState, AtDial, clientVars, serverVars
<1>1. ASSUME NEW w \in Loops, NEW c \in Conns, Dial(w, c) PROVE LoopInv'
  BY <1>1, PoolAssumption DEF Dial, Reusable
<1>2. ASSUME NEW w \in Loops, loop[w].pc \in {"wait", "serve", "write"}, CloseAndRetry(w)
      PROVE  LoopInv'
  BY <1>2, PoolAssumption DEF CloseAndRetry
<1>3. ASSUME NEW w \in Loops, ReadTarget(w) \/ WriteWaits(w) PROVE LoopInv'
  <2>1. CASE ReadTarget(w)
    BY <2>1 DEF ReadTarget
  <2>2. CASE WriteWaits(w)
    BY <2>2 DEF WriteWaits
  <2>3. QED BY <1>3, <2>1, <2>2
<1>4. ASSUME NEW w \in Loops, LoopReturns(w) PROVE LoopInv'
  BY <1>4 DEF LoopReturns
<1>5. CASE ClientRestart
  BY <1>5 DEF ClientRestart
<1>6. ASSUME UNCHANGED <<loop, owner, cl>> PROVE LoopInv'
  BY <1>6
<1>7. QED
  BY <1>1, <1>2, <1>3, <1>4, <1>5, <1>6
  DEF Next, Handler, Request, Loop, Authenticate, Enqueue, RequestArrives, TakeWorker,
      SendTarget, TargetFails, RequestTimeout, BridgeEnd, ServerRestart,
      WaitEnds, RelayEnds, Relaying, Cancel

\* Every step keeps the targets at open workers, those of their holders.
LEMMA TargetStep ==
  ASSUME IInv, Next
  PROVE  TargetInv'
PROOF
<1> USE DEF IInv, TypeOK, TargetInv, LoopInv, HeldInv, Holding, ReqState, LoopState,
            AtDial, Relaying, clientVars, serverVars
<1>1. ASSUME NEW c \in Conns, Authenticate(c) \/ Enqueue(c) PROVE TargetInv'
  <2>1. /\ srv[c] \in {"auth", "offer"} /\ srv'[c] # "taken"
        /\ \A d \in Conns : d # c => srv'[d] = srv[d]
        /\ UNCHANGED <<req, loop, cl, s2c, tgt>>
    BY <1>1 DEF Authenticate, Enqueue
  <2>2. \A d \in Conns : srv'[d] \in {"auth", "offer", "queued"} =>
          s2c'[d] = NoReq /\ tgt'[d] = NoReq
    BY <2>1
  <2>3. \A d \in Conns : srv'[d] = "taken" => srv[d] = "taken"
    BY <2>1
  <2>4. QED BY <2>1, <2>2, <2>3
<1>2. ASSUME NEW r \in Requests, RequestArrives(r) \/ RequestTimeout(r) PROVE TargetInv'
  BY <1>2 DEF RequestArrives, RequestTimeout, DeadlineWatched
<1>3. ASSUME NEW r \in Requests, TakeWorker(r) PROVE TargetInv'
  <2>1. Head(workers) \in Conns /\ srv[Head(workers)] = "queued"
    BY <1>3, HeadTailProperties, LenProperties DEF TakeWorker, PoolInv
  <2>2. QED BY <1>3, <2>1, PoolAssumption DEF TakeWorker
<1>4. ASSUME NEW r \in Requests, SendTarget(r) PROVE TargetInv'
  BY <1>4, PoolAssumption DEF SendTarget, TargetAddr
<1>5. ASSUME NEW r \in Requests, TargetFails(r) \/ BridgeEnd(r) PROVE TargetInv'
  <2> DEFINE c == req[r].conn
  <2>1. /\ c \in Conns
        /\ srv' = [srv EXCEPT ![c] = "closed"]
        /\ \A q \in Requests : q # r => req'[q] = req[q]
        /\ UNCHANGED <<loop, cl, s2c, tgt>>
    BY <1>5 DEF TargetFails, BridgeEnd, AfterFailure, IdleReq
  <2>2. ASSUME NEW d \in Conns, NEW q \in Requests,
               srv'[d] = "taken", s2c'[d] = q \/ tgt'[d] = q
        PROVE  req'[q] = [pc |-> "bridge", conn |-> d]
    <3>1. d # c /\ srv[d] = "taken" BY <2>1, <2>2
    <3>2. req[q] = [pc |-> "bridge", conn |-> d] BY <2>1, <2>2, <3>1
    <3>3. QED BY <2>1, <3>1, <3>2
  <2>3. QED BY <2>1, <2>2
<1>6. CASE ServerRestart
  BY <1>6, PoolAssumption DEF ServerRestart
<1>7. ASSUME NEW w \in Loops, NEW c \in Conns, Dial(w, c) PROVE TargetInv'
  BY <1>7, PoolAssumption DEF Dial, Reusable
<1>8. ASSUME NEW w \in Loops, loop[w].pc \in {"wait", "serve", "write"}, CloseAndRetry(w)
      PROVE  TargetInv'
  BY <1>8, PoolAssumption DEF CloseAndRetry
<1>9. ASSUME NEW w \in Loops, ReadTarget(w) \/ WriteWaits(w) PROVE TargetInv'
  <2>1. CASE ReadTarget(w)
    BY <2>1, PoolAssumption DEF ReadTarget
  <2>2. CASE WriteWaits(w)
    BY <2>2 DEF WriteWaits
  <2>3. QED BY <1>9, <2>1, <2>2
<1>10. ASSUME NEW w \in Loops, LoopReturns(w) PROVE TargetInv'
  BY <1>10 DEF LoopReturns
<1>11. CASE ClientRestart
  BY <1>11, PoolAssumption DEF ClientRestart
<1>12. ASSUME UNCHANGED <<srv, req, loop, cl, s2c, tgt>> PROVE TargetInv'
  BY <1>12
<1>13. QED
  BY <1>1, <1>2, <1>3, <1>4, <1>5, <1>6, <1>7, <1>8, <1>9, <1>10, <1>11, <1>12
  DEF Next, Handler, Request, Loop, WaitEnds, RelayEnds, Relaying, Cancel

-----------------------------------------------------------------------------
(* The hand-off: what the abstract pool sees of a step. *)

\* The connection each request was handed, as WorkerHandoff has it.
HeldBy == [r \in Requests |-> IF Holding(r) THEN req[r].conn ELSE NoConn]

\* A request that moves on changes what it holds only by the connection.
LEMMA HeldByStep ==
  ASSUME IInv, NEW r \in Requests, NEW s \in ReqState, req' = [req EXCEPT ![r] = s]
  PROVE  HeldBy' = [HeldBy EXCEPT ![r] =
           IF s.pc \in {"target", "bridge"} THEN s.conn ELSE NoConn]
PROOF
<1>1. req \in [Requests -> ReqState] BY DEF IInv, TypeOK
<1>2. \A q \in Requests : req'[q] = IF q = r THEN s ELSE req[q] BY <1>1
<1> DEFINE h(x) == IF x.pc \in {"target", "bridge"} THEN x.conn ELSE NoConn
<1>3. HeldBy = [q \in Requests |-> h(req[q])] BY DEF HeldBy, Holding
<1>4. HeldBy' = [q \in Requests |-> h(req'[q])] BY DEF HeldBy, Holding
<1>5. \A q \in Requests : h(req'[q]) = IF q = r THEN h(s) ELSE h(req[q]) BY <1>2
<1> HIDE DEF h
<1>6. [q \in Requests |-> h(req'[q])] = [[q \in Requests |-> h(req[q])] EXCEPT ![r] = h(s)]
  BY <1>5
<1>7. HeldBy' = [HeldBy EXCEPT ![r] = h(s)] BY <1>3, <1>4, <1>6
<1>8. QED BY <1>7 DEF h

\* Every step of the server and the client is a step of the hand-off or leaves
\* it alone (workerPool, acquire).
LEMMA HandoffStep ==
  ASSUME IInv, Next
  PROVE  Handoff!Next \/ UNCHANGED <<workers, HeldBy>>
PROOF
<1> USE DEF IInv, TypeOK, clientVars, serverVars
<1>1. ASSUME NEW c \in Conns, Enqueue(c) PROVE Handoff!Offer(c)
  <2>1. HeldBy' = HeldBy BY <1>1 DEF Enqueue, HeldBy, Holding
  <2>2. ~Handoff!InPool(c) BY <1>1 DEF Enqueue, PoolInv, Handoff!InPool
  <2>3. \A r \in Requests : HeldBy[r] # c
    BY <1>1, PoolAssumption DEF Enqueue, HeldBy, HeldInv
  <2>4. QED BY <1>1, <2>1, <2>2, <2>3 DEF Enqueue, PoolHasRoom, Handoff!Offer, HeldBy
<1>2. ASSUME NEW r \in Requests, TakeWorker(r) PROVE Handoff!Match(r)
  <2>1. Head(workers) \in Conns
    BY <1>2, PoolTypes DEF TakeWorker
  <2>2. [pc |-> "target", conn |-> Head(workers)] \in ReqState
    BY <2>1 DEF ReqState
  <2>3. HeldBy' = [HeldBy EXCEPT ![r] = Head(workers)]
    BY <1>2, <2>2, HeldByStep DEF TakeWorker
  <2>4. HeldBy[r] = NoConn BY <1>2 DEF TakeWorker, HeldBy, Holding
  <2>5. QED BY <1>2, <2>3, <2>4 DEF TakeWorker, WorkersLeft, Handoff!Match, HeldBy
<1>3. ASSUME NEW r \in Requests, TargetFails(r) \/ BridgeEnd(r)
      PROVE  Handoff!Release(r)
  <2>1. PICK s \in ReqState :
          s.pc \in {"take", "idle"} /\ req' = [req EXCEPT ![r] = s]
    <3>1. [pc |-> "take", conn |-> NoConn] \in ReqState /\ IdleReq \in ReqState
      BY DEF ReqState, IdleReq
    <3>2. QED BY <1>3, <3>1 DEF TargetFails, BridgeEnd, IdleReq
  <2>2. HeldBy' = [HeldBy EXCEPT ![r] = NoConn] BY <2>1, HeldByStep
  <2>3. Holding(r) BY <1>3 DEF TargetFails, BridgeEnd, Holding
  <2>4. HeldBy[r] # NoConn BY <2>3, PoolAssumption DEF HeldBy, HeldInv
  <2>5. workers' = workers BY <1>3 DEF TargetFails, BridgeEnd
  <2>6. QED BY <2>2, <2>4, <2>5 DEF Handoff!Release, HeldBy
<1>4. CASE ServerRestart
  <2>1. HeldBy' = [r \in Requests |-> NoConn]
    BY <1>4 DEF ServerRestart, HeldBy, Holding, IdleReq
  <2>2. QED BY <1>4, <2>1 DEF ServerRestart, Handoff!Next, Handoff!Reset, HeldBy
<1>5. ASSUME NEW r \in Requests, RequestArrives(r) \/ SendTarget(r) \/ RequestTimeout(r)
      PROVE  UNCHANGED <<workers, HeldBy>>
  <2>1. \A q \in Requests : q # r => req'[q] = req[q]
    BY <1>5 DEF RequestArrives, SendTarget, RequestTimeout
  <2>2. /\ Holding(r) <=> Holding(r)'
        /\ Holding(r) => req'[r].conn = req[r].conn
    BY <1>5 DEF RequestArrives, SendTarget, RequestTimeout, DeadlineWatched, IdleReq,
       Holding, ReqState
  <2>3. HeldBy' = HeldBy BY <2>1, <2>2 DEF HeldBy, Holding
  <2>4. workers' = workers BY <1>5 DEF RequestArrives, SendTarget, RequestTimeout
  <2>5. QED BY <2>3, <2>4
<1>6. ASSUME UNCHANGED <<workers, req>> PROVE UNCHANGED <<workers, HeldBy>>
  BY <1>6 DEF HeldBy, Holding
<1>7. QED
  BY <1>1, <1>2, <1>3, <1>4, <1>5, <1>6
  DEF Next, Handler, Request, Loop, Authenticate, Dial, CloseAndRetry, WaitEnds,
      ReadTarget, WriteWaits, RelayEnds, Relaying, LoopReturns, Cancel, ClientRestart, Handoff!Next

-----------------------------------------------------------------------------
(* The theorems. *)

\* The invariant holds throughout: the goroutines of server and client, crashes
\* and restarts included, never disagree on who owns a connection.
THEOREM Inductive == Spec => []IInv
PROOF
<1>1. ASSUME IInv, [Next]_vars PROVE IInv'
  <2>1. CASE Next
    <3>1. TypeOK' BY <1>1, <2>1, TypeServer, TypeClient DEF IInv, Next
    <3>2. QED
      BY <1>1, <2>1, <3>1, PoolStep, HeldStep, LoopStep, TargetStep
      DEF IInv
  <2>2. CASE UNCHANGED vars
    BY <1>1, <2>2
    DEF IInv, TypeOK, PoolInv, HeldInv, Holding, LoopInv, TargetInv,
        Relaying, vars
  <2>3. QED BY <1>1, <2>1, <2>2
<1>2. QED BY <1>1, InitIInv, PTL DEF Spec

\* workerPool never holds more than its capacity, and every variable has its type.
THEOREM TypeCorrect == Spec => []TypeOK
PROOF
<1>1. IInv => TypeOK BY DEF IInv
<1>2. QED BY <1>1, Inductive, PTL

\* A worker loop relays to the target of the request that holds its connection.
THEOREM TargetsOfHolders == Spec => []TargetOfHolder
PROOF
<1>1. ASSUME IInv, NEW w \in Loops, Relaying(w), srv[loop[w].conn] = "taken"
      PROVE  \E r \in Requests :
               tgt[loop[w].conn] = r /\ req[r] = [pc |-> "bridge", conn |-> loop[w].conn]
  <2> DEFINE c == loop[w].conn
  <2>1. c \in Conns /\ tgt[c] # NoReq
    BY <1>1 DEF IInv, LoopInv, TargetInv, Relaying
  <2>2. tgt[c] \in Requests BY <1>1, <2>1 DEF IInv, TypeOK
  <2>3. req[tgt[c]] = [pc |-> "bridge", conn |-> c]
    BY <1>1, <2>1, <2>2 DEF IInv, TargetInv
  <2>4. QED BY <2>2, <2>3
<1>2. IInv => TargetOfHolder BY <1>1 DEF TargetOfHolder
<1>3. QED BY <1>2, Inductive, PTL

\* No end of a connection is lost by the goroutines that hand it on (acquire's
\* retry, the request's deadline, runWorkerLoop).
THEOREM NothingLeaked == Spec => []NoneLeaked
PROOF
<1>1. \A x : Cardinality({x}) = 1 BY FS_Singleton
<1>2. ASSUME IInv, NEW c \in Conns, srv[c] = "queued"
      PROVE  Cardinality({i \in DOMAIN workers : workers[i] = c}) = 1
  <2>1. DOMAIN workers = 1..Len(workers) BY <1>2, LenProperties DEF IInv, TypeOK
  <2>2. PICK k \in 1..Len(workers) : workers[k] = c BY <1>2 DEF IInv, PoolInv
  <2>3. {i \in DOMAIN workers : workers[i] = c} = {k}
    BY <1>2, <2>1, <2>2 DEF IInv, PoolInv
  <2>4. QED BY <1>1, <2>3
<1>3. ASSUME IInv, NEW c \in Conns, srv[c] = "taken"
      PROVE  Cardinality({r \in Requests : req[r].conn = c}) = 1
  <2>1. PICK q \in Requests : req[q].conn = c BY <1>3 DEF IInv, HeldInv
  <2>2. Holding(q) BY <1>3, <2>1, PoolAssumption DEF IInv, HeldInv
  <2>3. {r \in Requests : req[r].conn = c} = {q}
    BY <1>3, <2>1, <2>2 DEF IInv, HeldInv
  <2>4. QED BY <1>1, <2>3
<1>4. IInv => NoneLeaked BY <1>2, <1>3 DEF NoneLeaked, IInv, LoopInv
<1>5. QED BY <1>4, Inductive, PTL

\* The pool of runWorkerServer is a hand-off: a worker is given to one request, in
\* order, and never again, through failed writes, deadlines and restarts.
THEOREM Refinement == Spec => ImplementsHandoff
PROOF
<1>1. Init => Handoff!Init
  BY DEF Init, Handoff!Init, Holding, IdleReq
<1>2. ASSUME IInv, [Next]_vars PROVE [Handoff!Next]_(Handoff!vars)
  <2>1. CASE Next
    BY <1>2, <2>1, HandoffStep DEF HeldBy, Handoff!vars
  <2>2. CASE UNCHANGED vars
    BY <2>2 DEF vars, Handoff!vars, Holding
  <2>3. QED BY <1>2, <2>1, <2>2
<1>3. QED
  BY <1>1, <1>2, Inductive, PTL DEF Spec, ImplementsHandoff, Handoff!Spec

=============================================================================
