--------------------------- MODULE MuxSessionProofs ---------------------------
(***************************************************************************)
(* Theorems about MuxSession for every number of streams and chunks and    *)
(* every capacity of the connection, readCh and acceptCh.                  *)
(***************************************************************************)
EXTENDS MuxSession, SequenceTheorems, TLAPS

-----------------------------------------------------------------------------
(* Type correctness. *)

\* While handleFrame is at work the loop has the id of a stream.
LoopIds ==
  \A e \in Ends :
    loop[e].pc \notin {"read", "returned"} => loop[e].id \in Ids

TypeInv == TypeOK /\ LoopIds

\* What Append, Head and Tail do to a queue of bounded length.
LEMMA QueueTypes ==
  ASSUME NEW S, NEW q \in Seq(S)
  PROVE  /\ Len(q) \in Nat
         /\ \A x \in S : Append(q, x) \in Seq(S) /\ Len(Append(q, x)) = Len(q) + 1
         /\ q # <<>> =>
              Head(q) \in S /\ Tail(q) \in Seq(S) /\ Len(Tail(q)) = Len(q) - 1
PROOF BY AppendProperties, HeadTailProperties, LenProperties

\* Frames are frames, and the halves of a stream are halves.
LEMMA FrameTypes ==
  ASSUME NEW h \in Halves
  PROVE  /\ End(h) \in Ends /\ Id(h) \in Ids /\ h = <<End(h), Id(h)>>
         /\ Peer(End(h)) \in Ends /\ Far(h) \in Halves /\ Far(Far(h)) = h
         /\ Open(h) \in Frame /\ Close(h) \in Frame
         /\ \A n \in Nat : Data(h, n) \in Frame
PROOF BY DEF Halves, Ends, Peer, End, Id, Far, Open, Close, Data, Frame

\* A frame written, an error and a connection closed keep its type.
LEMMA NetTypes ==
  ASSUME TypeOK, NEW e \in Ends, NEW f \in Frame,
         Written(e, f) \/ WriteFails(e) \/ Discard(e)
  PROVE  net' \in [Ends -> Seq(Frame)] /\ \A d \in Ends : Len(net'[d]) <= NetCap
PROOF
<1>1. Peer(e) \in Ends BY DEF Ends, Peer
<1>2. Append(net[Peer(e)], f) \in Seq(Frame)
      /\ Len(Append(net[Peer(e)], f)) = Len(net[Peer(e)]) + 1
      /\ Len(net[Peer(e)]) \in Nat
  BY <1>1, QueueTypes DEF TypeOK
<1>3. CASE net' = net BY <1>3 DEF TypeOK
<1>4. CASE Len(net[Peer(e)]) < NetCap
           /\ net' = [net EXCEPT ![Peer(e)] = Append(@, f)]
  BY <1>1, <1>2, <1>4, BoundsAssumption DEF TypeOK
<1>5. CASE Discard(e)
  <2>1. <<>> \in Seq(Frame) /\ Len(<<>>) = 0 OBVIOUS
  <2>2. QED BY <1>5, <2>1, BoundsAssumption DEF TypeOK, Discard
<1>6. QED BY <1>3, <1>4, <1>5 DEF Written, WriteFails

\* So does reading a frame.
LEMMA ReadTypes ==
  ASSUME TypeOK, NEW e \in Ends, net[e] # <<>>,
         net' = [net EXCEPT ![e] = Tail(@)]
  PROVE  /\ net' \in [Ends -> Seq(Frame)]
         /\ \A d \in Ends : Len(net'[d]) <= NetCap
         /\ Head(net[e]) \in Frame
PROOF
<1>1. /\ Head(net[e]) \in Frame /\ Tail(net[e]) \in Seq(Frame)
      /\ Len(Tail(net[e])) = Len(net[e]) - 1 /\ Len(net[e]) \in Nat
  BY QueueTypes DEF TypeOK
<1>2. QED BY <1>1, BoundsAssumption DEF TypeOK

\* The loop moves to another step, or returns to reading.
LEMMA LoopTypes ==
  ASSUME TypeInv, NEW e \in Ends,
         NEW pc \in {"read", "register", "accept", "push", "close", "returned"},
         \/ loop' = [loop EXCEPT ![e] = Reading]
         \/ /\ loop' = [loop EXCEPT ![e].pc = pc]
            /\ loop[e].id \in Ids \/ pc = "returned"
         \/ \E i \in Ids, n \in Nat :
              loop' = [loop EXCEPT ![e] = [pc |-> pc, id |-> i, chunk |-> n]]
  PROVE  loop' \in [Ends -> Loops] /\ LoopIds'
PROOF
<1>1. loop \in [Ends -> Loops] BY DEF TypeInv, TypeOK
<1>2. Reading \in Loops /\ Reading.pc = "read"
  BY BoundsAssumption DEF Reading, Loops
<1>3. CASE loop' = [loop EXCEPT ![e] = Reading]
  BY <1>1, <1>2, <1>3 DEF TypeInv, LoopIds
<1>4. CASE /\ loop' = [loop EXCEPT ![e].pc = pc]
           /\ loop[e].id \in Ids \/ pc = "returned"
  <2>1. loop' \in [Ends -> Loops] BY <1>1, <1>4 DEF Loops
  <2>2. \A d \in Ends : d # e => loop'[d] = loop[d] BY <1>1, <1>4
  <2>3. loop'[e].id = loop[e].id /\ loop'[e].pc = pc BY <1>1, <1>4 DEF Loops
  <2>4. QED BY <1>4, <2>1, <2>2, <2>3 DEF TypeInv, LoopIds
<1>5. CASE \E i \in Ids, n \in Nat :
             loop' = [loop EXCEPT ![e] = [pc |-> pc, id |-> i, chunk |-> n]]
  <2>1. PICK i \in Ids, n \in Nat :
          loop' = [loop EXCEPT ![e] = [pc |-> pc, id |-> i, chunk |-> n]]
    BY <1>5
  <2>2. [pc |-> pc, id |-> i, chunk |-> n] \in Loops
    BY BoundsAssumption DEF Loops, Ids
  <2>3. QED BY <1>1, <2>1, <2>2 DEF TypeInv, LoopIds
<1>6. QED BY <1>3, <1>4, <1>5

\* Init has the right types.
LEMMA TypeInit == Init => TypeInv
PROOF
<1>1. <<>> \in Seq(Frame) /\ <<>> \in Seq(Ids) /\ <<>> \in Seq(Nat)
      /\ Len(<<>>) = 0
  OBVIOUS
<1>2. QED BY <1>1, BoundsAssumption
      DEF Init, TypeInv, TypeOK, LoopIds, Reading, Loops

\* Opening, writing, reading and closing a stream keep the types.
LEMMA TypeStream ==
  ASSUME TypeInv, NEW h \in Halves, Stream(h)
  PROVE  TypeInv'
PROOF
<1> USE DEF TypeInv, TypeOK, controlVars, userVars, readVars, writeVars,
            queueVars
<1>0. UNCHANGED loop => LoopIds' BY DEF LoopIds
<1>h. End(h) \in Ends /\ Id(h) \in Ids BY FrameTypes
<1>1. CASE OpenStream(h)
  <2>1. opened' \in 0..MaxStreams BY <1>1, BoundsAssumption DEF OpenStream
  <2>2. use' \in [Halves -> {"none", "register", "announce", "held"}]
    BY <1>1 DEF OpenStream
  <2>3. QED BY <1>0, <1>1, <2>1, <2>2 DEF OpenStream
<1>2. CASE RegisterStream(h) BY <1>0, <1>2, <1>h DEF RegisterStream
<1>3. CASE AnnounceStream(h)
  <2>1. "server" \in Ends /\ Open(h) \in Frame BY FrameTypes DEF Ends
  <2>2. net' \in [Ends -> Seq(Frame)] /\ \A d \in Ends : Len(net'[d]) <= NetCap
    BY <1>3, <2>1, NetTypes DEF AnnounceStream
  <2>3. table' \in [Ends -> SUBSET Ids] BY <1>3 DEF AnnounceStream
  <2>4. use' \in [Halves -> {"none", "register", "announce", "held"}]
    BY <1>3 DEF AnnounceStream
  <2>5. UNCHANGED <<writing, closing, controlVars, readVars, writeVars>>
    BY <1>3 DEF AnnounceStream
  <2>6. QED BY <1>0, <2>2, <2>3, <2>4, <2>5
<1>4. CASE StartWrite(h) BY <1>0, <1>4 DEF StartWrite
<1>5. CASE WriteChunk(h)
  <2>1. sent[h] + 1 \in Nat OBVIOUS
  <2>2. Data(h, sent[h] + 1) \in Frame BY <2>1, FrameTypes
  <2>3. net' \in [Ends -> Seq(Frame)] /\ \A d \in Ends : Len(net'[d]) <= NetCap
    BY <1>5, <1>h, <2>2, NetTypes DEF WriteChunk
  <2>4. sent' = sent \/ sent' = [sent EXCEPT ![h] = sent[h] + 1]
    BY <1>5 DEF WriteChunk
  <2>5. sent' \in [Halves -> Nat] BY <2>1, <2>4
  <2>6. writing' \in [Halves -> BOOLEAN]
    BY <1>5 DEF WriteChunk
  <2>7. UNCHANGED <<table, use, closing, fin, controlVars, readVars>>
    BY <1>5 DEF WriteChunk
  <2>8. QED BY <1>0, <2>3, <2>5, <2>6, <2>7
<1>6. CASE CloseStream(h) BY <1>0, <1>6 DEF CloseStream
<1>7. CASE CloseRemove(h) BY <1>0, <1>7 DEF CloseRemove
<1>8. CASE CloseTell(h)
  <2>1. net' \in [Ends -> Seq(Frame)] /\ \A d \in Ends : Len(net'[d]) <= NetCap
    BY <1>8, <1>h, NetTypes, FrameTypes DEF CloseTell, CloseSaid
  <2>2. QED BY <1>0, <1>8, <2>1 DEF CloseTell
<1>9. CASE Ingest(h)
  <2>1. readCh[h] \in Seq(Nat) /\ readCh[h] # <<>> /\ buf[h] \in Seq(Nat)
    BY <1>9 DEF Ingest
  <2>2. /\ Head(readCh[h]) \in Nat /\ Tail(readCh[h]) \in Seq(Nat)
        /\ Len(Tail(readCh[h])) = Len(readCh[h]) - 1 /\ Len(readCh[h]) \in Nat
        /\ Append(buf[h], Head(readCh[h])) \in Seq(Nat)
    BY <2>1, QueueTypes
  <2>3. Len(Tail(readCh[h])) <= ReadCap BY <2>2, BoundsAssumption
  <2>4. readCh' \in [Halves -> Seq(Nat)] /\ \A g \in Halves : Len(readCh'[g]) <= ReadCap
    BY <1>9, <2>2, <2>3 DEF Ingest
  <2>5. buf' \in [Halves -> Seq(Nat)] BY <1>9, <2>2 DEF Ingest
  <2>6. QED BY <1>0, <1>9, <2>4, <2>5 DEF Ingest
<1>10. CASE IngestEnds(h) BY <1>0, <1>10 DEF IngestEnds
<1>11. QED BY <1>1, <1>2, <1>3, <1>4, <1>5, <1>6, <1>7, <1>8, <1>9, <1>10 DEF Stream

\* So do the steps of the read loop.
LEMMA TypeLoop ==
  ASSUME TypeInv, NEW e \in Ends, ReadLoop(e)
  PROVE  TypeInv'
PROOF
<1> USE DEF controlVars, userVars, readVars, writeVars, queueVars, streamVars
<1>0. UNCHANGED loop => LoopIds' BY DEF TypeInv, LoopIds
<1>h. ASSUME loop[e].pc \notin {"read", "returned"}
      PROVE  /\ loop[e].id \in Ids /\ <<e, loop[e].id>> \in Halves
             /\ loop[e].chunk \in Nat
  BY <1>h DEF TypeInv, TypeOK, LoopIds, Halves, Loops
<1>1. CASE ReadFrame(e)
  <2> DEFINE f == Head(net[e])
  <2>1. /\ net' \in [Ends -> Seq(Frame)]
        /\ \A d \in Ends : Len(net'[d]) <= NetCap
        /\ f \in Frame
    BY <1>1, ReadTypes DEF ReadFrame, TypeInv
  <2>2. f.id \in Ids /\ f.chunk \in Nat /\ 0 \in Nat BY <2>1 DEF Frame
  <2>3. \/ loop' = [loop EXCEPT ![e] = Reading]
        \/ loop' = [loop EXCEPT ![e] = [pc |-> "register", id |-> f.id, chunk |-> 0]]
        \/ loop' = [loop EXCEPT ![e] = [pc |-> "push", id |-> f.id, chunk |-> f.chunk]]
    BY <1>1 DEF ReadFrame
  <2>4. loop' \in [Ends -> Loops] /\ LoopIds' BY <2>2, <2>3, LoopTypes
  <2>5. QED BY <1>1, <2>1, <2>4 DEF ReadFrame, TypeInv, TypeOK
<1>2. CASE ReadClose(e)
  <2>1. /\ net' \in [Ends -> Seq(Frame)]
        /\ \A d \in Ends : Len(net'[d]) <= NetCap
    BY <1>2, ReadTypes DEF ReadClose, TypeInv
  <2>2. shut' \in [Halves -> BOOLEAN] BY <1>2 DEF ReadClose, TypeInv, TypeOK
  <2>3. table' \in [Ends -> SUBSET Ids]
    BY <1>2 DEF ReadClose, Unlisted, TypeInv, TypeOK
  <2>4. QED BY <1>0, <1>2, <2>1, <2>2, <2>3 DEF ReadClose, TypeInv, TypeOK
<1>3. CASE Register(e)
  <2>1. loop' \in [Ends -> Loops] /\ LoopIds'
    BY <1>3, <1>h, LoopTypes DEF Register
  <2>2. table' \in [Ends -> SUBSET Ids]
    BY <1>3, <1>h DEF Register, TypeInv, TypeOK
  <2>3. QED BY <1>3, <2>1, <2>2 DEF Register, TypeInv, TypeOK
<1>4. CASE Offer(e)
  <2>1. loop[e].id \in Ids BY <1>4, <1>h DEF Offer
  <2>2. loop' \in [Ends -> Loops] /\ LoopIds'
    <3>1. \/ loop' = [loop EXCEPT ![e] = Reading]
          \/ loop' = [loop EXCEPT ![e].pc = "close"]
      BY <1>4 DEF Offer
    <3>2. QED BY <2>1, <3>1, LoopTypes
  <2>3. acceptCh' \in Seq(Ids) /\ Len(acceptCh') <= AcceptCap
    <3>1. /\ Append(acceptCh, loop[e].id) \in Seq(Ids)
          /\ Len(Append(acceptCh, loop[e].id)) = Len(acceptCh) + 1
          /\ Len(acceptCh) \in Nat
      BY <2>1, QueueTypes DEF TypeInv, TypeOK
    <3>2. \/ acceptCh' = acceptCh
          \/ Len(acceptCh) < AcceptCap /\ acceptCh' = Append(acceptCh, loop[e].id)
      BY <1>4 DEF Offer, AcceptHasRoom
    <3>3. acceptCh \in Seq(Ids) /\ Len(acceptCh) <= AcceptCap
      BY DEF TypeInv, TypeOK
    <3>4. CASE acceptCh' = acceptCh BY <3>3, <3>4
    <3>5. CASE Len(acceptCh) < AcceptCap
               /\ acceptCh' = Append(acceptCh, loop[e].id)
      <4>1. Len(acceptCh') = Len(acceptCh) + 1 /\ acceptCh' \in Seq(Ids)
        BY <3>1, <3>5
      <4>2. QED BY <3>1, <3>5, <4>1, BoundsAssumption
    <3>6. QED BY <3>2, <3>4, <3>5
  <2>4. closing' \in [Halves -> {"no", "remove", "tell", "done"}]
    BY <1>4 DEF Offer, TypeInv, TypeOK
  <2>5. QED BY <1>4, <2>2, <2>3, <2>4 DEF Offer, TypeInv, TypeOK
<1>5. CASE PushData(e)
  <2> DEFINE h == <<e, loop[e].id>>
  <2>1. h \in Halves /\ loop[e].chunk \in Nat BY <1>5, <1>h DEF PushData
  <2>2. loop' \in [Ends -> Loops] /\ LoopIds' BY <1>5, LoopTypes DEF PushData
  <2>3. /\ Append(readCh[h], loop[e].chunk) \in Seq(Nat)
        /\ Len(Append(readCh[h], loop[e].chunk)) = Len(readCh[h]) + 1
        /\ Len(readCh[h]) \in Nat
    BY <2>1, QueueTypes DEF TypeInv, TypeOK
  <2>4. Len(Append(readCh[h], loop[e].chunk)) <= ReadCap
    BY <1>5, <2>3, BoundsAssumption DEF PushData
  <2>5. /\ readCh' \in [Halves -> Seq(Nat)]
        /\ \A g \in Halves : Len(readCh'[g]) <= ReadCap
    BY <1>5, <2>1, <2>3, <2>4 DEF PushData, TypeInv, TypeOK
  <2>6. QED BY <1>5, <2>2, <2>5 DEF PushData, TypeInv, TypeOK
<1>6. CASE PushOverflows(e)
  <2> DEFINE h == <<e, loop[e].id>>
  <2>1. h \in Halves /\ loop[e].id \in Ids BY <1>6, <1>h DEF PushOverflows
  <2>2. loop' \in [Ends -> Loops] /\ LoopIds'
    <3>1. \/ loop' = [loop EXCEPT ![e] = Reading]
          \/ loop' = [loop EXCEPT ![e].pc = "close"]
      BY <1>6 DEF PushOverflows
    <3>2. QED BY <2>1, <3>1, LoopTypes
  <2>3. closing' \in [Halves -> {"no", "remove", "tell", "done"}]
    BY <1>6, <2>1 DEF PushOverflows, Overflowed, TypeInv, TypeOK
  <2>4. QED BY <1>6, <2>2, <2>3 DEF PushOverflows, TypeInv, TypeOK
<1>7. CASE PushPanics(e)
  <2>1. /\ net' \in [Ends -> Seq(Frame)]
        /\ \A d \in Ends : Len(net'[d]) <= NetCap
    <3>1. <<>> \in Seq(Frame) /\ Len(<<>>) = 0 OBVIOUS
    <3>2. QED
      BY <1>7, <3>1, BoundsAssumption DEF PushPanics, Discard, TypeInv, TypeOK
  <2>2. QED BY <1>0, <1>7, <2>1 DEF PushPanics, TypeInv, TypeOK
<1>8. CASE LoopCloses(e)
  <2>1. loop' \in [Ends -> Loops] /\ LoopIds' BY <1>8, LoopTypes DEF LoopCloses
  <2>2. QED BY <1>8, <2>1 DEF LoopCloses, TypeInv, TypeOK
<1>9. CASE ReadFails(e)
  <2>1. loop' \in [Ends -> Loops] /\ LoopIds' BY <1>9, LoopTypes DEF ReadFails
  <2>2. /\ net' \in [Ends -> Seq(Frame)]
        /\ \A d \in Ends : Len(net'[d]) <= NetCap
    <3>1. <<>> \in Seq(Frame) /\ Len(<<>>) = 0 OBVIOUS
    <3>2. net' = net \/ net' = [net EXCEPT ![e] = <<>>]
      BY <1>9 DEF ReadFails, ClosesToo, SetClosed, Discard
    <3>3. net \in [Ends -> Seq(Frame)] /\ \A d \in Ends : Len(net[d]) <= NetCap
      BY DEF TypeInv, TypeOK
    <3>4. CASE net' = net BY <3>3, <3>4
    <3>5. CASE net' = [net EXCEPT ![e] = <<>>]
      BY <3>1, <3>3, <3>5, BoundsAssumption
    <3>6. QED BY <3>2, <3>4, <3>5
  <2>3. sess' \in [Ends -> {"open", "closing", "over", "panicked"}]
    BY <1>9 DEF ReadFails, ClosesToo, SetClosed, TypeInv, TypeOK
  <2>4. QED BY <1>9, <2>1, <2>2, <2>3 DEF ReadFails, TypeInv, TypeOK
<1>10. QED BY <1>1, <1>2, <1>3, <1>4, <1>5, <1>6, <1>7, <1>8, <1>9 DEF ReadLoop

\* And the end of a session and Accept.
LEMMA TypeEnd ==
  ASSUME TypeInv,
         \/ \E e \in Ends : CloseSession(e) \/ Sweep(e)
         \/ Accept \/ AcceptEnds
  PROVE  TypeInv'
PROOF
<1> USE DEF controlVars, userVars, readVars, writeVars, queueVars, streamVars
<1>0. UNCHANGED loop => LoopIds' BY DEF TypeInv, LoopIds
<1>1. ASSUME NEW e \in Ends, CloseSession(e) PROVE TypeInv'
  <2>1. <<>> \in Seq(Frame) /\ Len(<<>>) = 0 OBVIOUS
  <2>2. QED
    BY <1>0, <1>1, <2>1, BoundsAssumption
    DEF CloseSession, SetClosed, Discard, TypeInv, TypeOK
<1>2. ASSUME NEW e \in Ends, Sweep(e) PROVE TypeInv'
  <2>1. shut' \in [Halves -> BOOLEAN]
    BY <1>2 DEF Sweep, Ended, TypeInv, TypeOK
  <2>2. QED BY <1>0, <1>2, <2>1 DEF Sweep, TypeInv, TypeOK
<1>3. CASE Accept
  <2>1. /\ Tail(acceptCh) \in Seq(Ids) /\ Len(Tail(acceptCh)) <= AcceptCap
    BY <1>3, QueueTypes, BoundsAssumption DEF Accept, TypeInv, TypeOK
  <2>2. use' \in [Halves -> {"none", "register", "announce", "held"}]
    BY <1>3 DEF Accept, TypeInv, TypeOK
  <2>3. QED BY <1>0, <1>3, <2>1, <2>2 DEF Accept, TypeInv, TypeOK
<1>4. CASE AcceptEnds BY <1>0, <1>4 DEF AcceptEnds, TypeInv, TypeOK
<1>5. QED BY <1>1, <1>2, <1>3, <1>4

\* Every step keeps the types.
LEMMA TypeNext == TypeInv /\ [Next]_vars => TypeInv'
PROOF
<1>1. CASE UNCHANGED vars
  BY <1>1 DEF vars, streamVars, TypeInv, TypeOK, LoopIds
<1>2. QED BY <1>1, TypeStream, TypeLoop, TypeEnd DEF Next

\* Every reachable state of a session pair is well typed, and no channel and
\* no direction of the connection exceeds its capacity (readCh, acceptCh).
THEOREM TypeCorrect == Spec => []TypeOK
PROOF
<1>1. TypeInv => TypeOK BY DEF TypeInv
<1>2. QED BY <1>1, TypeInit, TypeNext, PTL DEF Spec

-----------------------------------------------------------------------------
(***************************************************************************)
(* What one half receives.  The values that matter to half h = <<e, i>>    *)
(* are: b and r, what is in buf and readCh; l, the read loop of its end;   *)
(* q, the frames on their way to that end; s, the chunks the far half has  *)
(* written; T and st, the table and the state of the session.              *)
(***************************************************************************)

DataFor(f, i) == f.type = "data" /\ f.id = i
OpenFor(f, i) == f.type = "open" /\ f.id = i

\* Chunks that have come as far as the read loop.
Reached(b, r, l, i) ==
  Len(b) + Len(r) + (IF l.pc = "push" /\ l.id = i THEN 1 ELSE 0)

\* The stream is registered or will be.
Due(l, q, T, i) ==
  \/ i \in T
  \/ l.pc = "register" /\ l.id = i
  \/ \E p \in 1..Len(q) : OpenFor(q[p], i)

\* The chunks that came are 1, 2, 3 and so on; those on the connection follow
\* them in order and behind the OPEN frame; and as long as the stream is due
\* none is missing between the two.
FlowOf(b, r, l, q, s, T, st, i) ==
  /\ \A k \in 1..Len(b) : b[k] = k
  /\ \A k \in 1..Len(r) : r[k] = Len(b) + k
  /\ l.pc = "push" /\ l.id = i => l.chunk = Len(b) + Len(r) + 1
  /\ Reached(b, r, l, i) <= s
  /\ \A p \in 1..Len(q) : DataFor(q[p], i) =>
       Reached(b, r, l, i) < q[p].chunk /\ q[p].chunk <= s
  /\ \A p, n \in 1..Len(q) : p < n /\ DataFor(q[p], i) /\ DataFor(q[n], i) =>
       q[p].chunk < q[n].chunk
  /\ \A p, n \in 1..Len(q) : OpenFor(q[p], i) /\ DataFor(q[n], i) => p < n
  /\ st = "open" /\ Due(l, q, T, i) =>
       \A c \in Nat : Reached(b, r, l, i) < c /\ c <= s =>
         \E p \in 1..Len(q) : DataFor(q[p], i) /\ q[p].chunk = c

\* The types of these values.
FlowTypes(b, r, l, q, s, T, i) ==
  /\ b \in Seq(Nat) /\ r \in Seq(Nat) /\ l \in Loops /\ q \in Seq(Frame)
  /\ s \in Nat /\ T \in SUBSET Ids /\ i \in Ids

\* Every frame of a queue is one.
LEMMA FrameAt ==
  ASSUME NEW q \in Seq(Frame), NEW p \in 1..Len(q)
  PROVE  q[p] \in Frame /\ q[p].chunk \in Nat
PROOF
<1>1. q[p] \in Frame BY ElementOfSeq
<1>2. QED BY <1>1 DEF Frame

\* A step of the loop that is not about this stream, a removal from the table
\* and a session that closes promise no more.
LEMMA FlowWeaker ==
  ASSUME NEW b, NEW r, NEW l, NEW q, NEW s, NEW T, NEW st, NEW i,
         NEW l2, NEW T2, NEW st2,
         FlowOf(b, r, l, q, s, T, st, i),
         \/ l2 = l
         \/ /\ l.pc = "push" => l.id # i
            /\ l2.pc = "push" => l2.id # i
            /\ l2.pc = "register" /\ l2.id = i => Due(l, q, T, i),
         i \in T2 => Due(l, q, T, i),
         st2 = "open" => st = "open"
  PROVE  FlowOf(b, r, l2, q, s, T2, st2, i)
PROOF
<1>1. Reached(b, r, l2, i) = Reached(b, r, l, i) BY DEF Reached
<1>2. Due(l2, q, T2, i) => Due(l, q, T, i) BY DEF Due
<1>3. QED BY <1>1, <1>2 DEF FlowOf

\* A stream on which nothing was written may be registered.
LEMMA FlowListed ==
  ASSUME NEW b, NEW r, NEW l, NEW q, NEW T, NEW st, NEW i,
         NEW T2, FlowTypes(b, r, l, q, 0, T, i), FlowOf(b, r, l, q, 0, T, st, i)
  PROVE  FlowOf(b, r, l, q, 0, T2, st, i)
PROOF
<1>1. Reached(b, r, l, i) \in Nat
  BY LenProperties DEF FlowTypes, Reached
<1>2. \A c \in Nat : ~(Reached(b, r, l, i) < c /\ c <= 0) BY <1>1
<1>3. QED BY <1>2 DEF FlowOf

\* The connection is closed at this end: it holds nothing and nothing will come.
LEMMA FlowDiscarded ==
  ASSUME NEW b, NEW r, NEW l, NEW q, NEW s, NEW T, NEW st, NEW i, NEW st2,
         FlowOf(b, r, l, q, s, T, st, i), st2 # "open"
  PROVE  FlowOf(b, r, l, <<>>, s, T, st2, i)
PROOF
<1>1. 1..Len(<<>>) = {} OBVIOUS
<1>2. QED BY <1>1 DEF FlowOf

\* What is written to a closed session vanishes.
LEMMA FlowVanished ==
  ASSUME NEW b, NEW r, NEW l, NEW q, NEW s, NEW T, NEW st, NEW i,
         FlowTypes(b, r, l, q, s, T, i),
         FlowOf(b, r, l, q, s, T, st, i), st # "open"
  PROVE  FlowOf(b, r, l, q, s + 1, T, st, i)
PROOF
<1>1. Reached(b, r, l, i) \in Nat
  BY LenProperties DEF FlowTypes, Reached
<1>2. \A p \in 1..Len(q) : q[p].chunk \in Nat BY FrameAt DEF FlowTypes
<1>3. s \in Nat BY DEF FlowTypes
<1>4. QED BY <1>1, <1>2, <1>3 DEF FlowOf

\* Positions of a queue one frame has been added to.
LEMMA Appended ==
  ASSUME NEW q \in Seq(Frame), NEW f \in Frame
  PROVE  /\ Len(q) \in Nat /\ Append(q, f) \in Seq(Frame)
         /\ Len(Append(q, f)) = Len(q) + 1
         /\ \A p \in 1..Len(q) : Append(q, f)[p] = q[p] /\ q[p] \in Frame
         /\ Append(q, f)[Len(q) + 1] = f
         /\ \A p \in 1..Len(Append(q, f)) : p \in 1..Len(q) \/ p = Len(q) + 1
PROOF BY AppendProperties, LenProperties, ElementOfSeq

\* A frame of another stream, or CLOSE, is written behind the others.
LEMMA FlowOther ==
  ASSUME NEW b, NEW r, NEW l, NEW q, NEW s, NEW T, NEW st, NEW i,
         FlowTypes(b, r, l, q, s, T, i), FlowOf(b, r, l, q, s, T, st, i),
         NEW f \in Frame, ~DataFor(f, i), ~OpenFor(f, i)
  PROVE  FlowOf(b, r, l, Append(q, f), s, T, st, i)
PROOF
<1> DEFINE q2 == Append(q, f)
<1>1. /\ Len(q) \in Nat /\ Len(q2) = Len(q) + 1
      /\ \A p \in 1..Len(q) : q2[p] = q[p] /\ p \in 1..Len(q2)
      /\ \A p \in 1..Len(q2) : DataFor(q2[p], i) \/ OpenFor(q2[p], i) =>
           p \in 1..Len(q) /\ q2[p] = q[p]
  BY Appended DEF FlowTypes
<1> HIDE DEF q2
<1>2. Due(l, q2, T, i) => Due(l, q, T, i) BY <1>1 DEF Due
<1>3. \A p \in 1..Len(q2) : DataFor(q2[p], i) =>
        Reached(b, r, l, i) < q2[p].chunk /\ q2[p].chunk <= s
  BY <1>1 DEF FlowOf
<1>4. \A p, n \in 1..Len(q2) : p < n /\ DataFor(q2[p], i) /\ DataFor(q2[n], i) =>
        q2[p].chunk < q2[n].chunk
  BY <1>1 DEF FlowOf
<1>5. \A p, n \in 1..Len(q2) : OpenFor(q2[p], i) /\ DataFor(q2[n], i) => p < n
  BY <1>1 DEF FlowOf
<1>6. st = "open" /\ Due(l, q2, T, i) =>
        \A c \in Nat : Reached(b, r, l, i) < c /\ c <= s =>
          \E p \in 1..Len(q2) : DataFor(q2[p], i) /\ q2[p].chunk = c
  <2> SUFFICES ASSUME st = "open", Due(l, q2, T, i), NEW c \in Nat,
                      Reached(b, r, l, i) < c, c <= s
               PROVE  \E p \in 1..Len(q2) : DataFor(q2[p], i) /\ q2[p].chunk = c
    OBVIOUS
  <2>1. PICK p \in 1..Len(q) : DataFor(q[p], i) /\ q[p].chunk = c
    BY <1>2 DEF FlowOf
  <2>2. QED BY <1>1, <2>1
<1>7. QED BY <1>3, <1>4, <1>5, <1>6 DEF FlowOf, q2

\* The next chunk is written behind the others.
LEMMA FlowSent ==
  ASSUME NEW b, NEW r, NEW l, NEW q, NEW s, NEW T, NEW st, NEW i,
         FlowTypes(b, r, l, q, s, T, i), FlowOf(b, r, l, q, s, T, st, i),
         NEW f \in Frame, DataFor(f, i), f.chunk = s + 1
  PROVE  FlowOf(b, r, l, Append(q, f), s + 1, T, st, i)
PROOF
<1> DEFINE q2 == Append(q, f)
<1>0. Reached(b, r, l, i) \in Nat /\ s \in Nat
  BY LenProperties DEF FlowTypes, Reached
<1>1. /\ Len(q) \in Nat /\ Len(q2) = Len(q) + 1
      /\ \A p \in 1..Len(q) : q2[p] = q[p] /\ p \in 1..Len(q2) /\ q[p].chunk \in Nat
      /\ q2[Len(q) + 1] = f /\ Len(q) + 1 \in 1..Len(q2)
      /\ \A p \in 1..Len(q2) : p \in 1..Len(q) \/ p = Len(q) + 1
  BY Appended, FrameAt DEF FlowTypes
<1>a. ~OpenFor(f, i) BY DEF DataFor, OpenFor
<1> HIDE DEF q2
<1>2. Due(l, q2, T, i) => Due(l, q, T, i) BY <1>1, <1>a DEF Due
<1>3. \A p \in 1..Len(q2) : DataFor(q2[p], i) =>
        Reached(b, r, l, i) < q2[p].chunk /\ q2[p].chunk <= s + 1
  <2> SUFFICES ASSUME NEW p \in 1..Len(q2), DataFor(q2[p], i)
               PROVE  Reached(b, r, l, i) < q2[p].chunk /\ q2[p].chunk <= s + 1
    OBVIOUS
  <2>1. Reached(b, r, l, i) <= s BY DEF FlowOf
  <2>2. CASE p = Len(q) + 1 BY <1>0, <1>1, <2>1, <2>2
  <2>3. CASE p \in 1..Len(q)
    <3>1. q2[p] = q[p] /\ q[p].chunk \in Nat BY <1>1, <2>3
    <3>2. Reached(b, r, l, i) < q[p].chunk /\ q[p].chunk <= s
      BY <2>3, <3>1 DEF FlowOf
    <3>3. QED BY <1>0, <3>1, <3>2
  <2>4. QED BY <1>1, <2>2, <2>3
<1>4. \A p, n \in 1..Len(q2) : p < n /\ DataFor(q2[p], i) /\ DataFor(q2[n], i) =>
        q2[p].chunk < q2[n].chunk
  BY <1>0, <1>1 DEF FlowOf
<1>5. \A p, n \in 1..Len(q2) : OpenFor(q2[p], i) /\ DataFor(q2[n], i) => p < n
  BY <1>1, <1>a DEF FlowOf
<1>6. st = "open" /\ Due(l, q2, T, i) =>
        \A c \in Nat : Reached(b, r, l, i) < c /\ c <= s + 1 =>
          \E p \in 1..Len(q2) : DataFor(q2[p], i) /\ q2[p].chunk = c
  <2> SUFFICES ASSUME st = "open", Due(l, q2, T, i), NEW c \in Nat,
                      Reached(b, r, l, i) < c, c <= s + 1
               PROVE  \E p \in 1..Len(q2) : DataFor(q2[p], i) /\ q2[p].chunk = c
    OBVIOUS
  <2>1. CASE c = s + 1 BY <1>1, <2>1
  <2>2. CASE c <= s
    <3>1. PICK p \in 1..Len(q) : DataFor(q[p], i) /\ q[p].chunk = c
      BY <1>2, <2>2 DEF FlowOf
    <3>2. QED BY <1>1, <3>1
  <2>3. QED BY <1>0, <2>1, <2>2
<1>7. Reached(b, r, l, i) <= s + 1 BY <1>0 DEF FlowOf
<1>8. QED BY <1>3, <1>4, <1>5, <1>6, <1>7 DEF FlowOf, q2

\* OPEN is written before any chunk.
LEMMA FlowAnnounced ==
  ASSUME NEW b, NEW r, NEW l, NEW q, NEW T, NEW st, NEW i,
         FlowTypes(b, r, l, q, 0, T, i), FlowOf(b, r, l, q, 0, T, st, i),
         NEW f \in Frame, OpenFor(f, i)
  PROVE  FlowOf(b, r, l, Append(q, f), 0, T, st, i)
PROOF
<1> DEFINE q2 == Append(q, f)
<1>0. Reached(b, r, l, i) \in Nat
  BY LenProperties DEF FlowTypes, Reached
<1>1. /\ Len(q) \in Nat
      /\ \A p \in 1..Len(q) : q2[p] = q[p] /\ q[p].chunk \in Nat
      /\ q2[Len(q) + 1] = f
      /\ \A p \in 1..Len(q2) : p \in 1..Len(q) \/ p = Len(q) + 1
  BY Appended, FrameAt DEF FlowTypes
<1>2. \A p \in 1..Len(q) : ~DataFor(q[p], i) BY <1>0, <1>1 DEF FlowOf
<1>3. ~DataFor(f, i) BY DEF DataFor, OpenFor
<1> HIDE DEF q2
<1>4. \A p \in 1..Len(q2) : ~DataFor(q2[p], i) BY <1>1, <1>2, <1>3
<1>5. \A c \in Nat : ~(Reached(b, r, l, i) < c /\ c <= 0) BY <1>0
<1>6. QED BY <1>4, <1>5 DEF FlowOf, q2

\* Positions of a queue without its first frame.
LEMMA Shortened ==
  ASSUME NEW q \in Seq(Frame), q # <<>>
  PROVE  /\ Len(q) \in Nat /\ Tail(q) \in Seq(Frame) /\ Head(q) = q[1]
         /\ Len(Tail(q)) = Len(q) - 1 /\ 1 \in 1..Len(q)
         /\ \A p \in 1..Len(Tail(q)) :
              Tail(q)[p] = q[p + 1] /\ p + 1 \in 1..Len(q)
         /\ \A p \in 1..Len(q) : p = 1 \/ (p - 1 \in 1..Len(Tail(q)) /\ Tail(q)[p - 1] = q[p])
PROOF BY HeadTailProperties, LenProperties, EmptySeq

\* The loop reads a frame that is no chunk of this stream: OPEN, CLOSE or a
\* frame of another one.
LEMMA FlowPassed ==
  ASSUME NEW b, NEW r, NEW l, NEW q, NEW s, NEW T, NEW st, NEW i,
         FlowTypes(b, r, l, q, s, T, i), FlowOf(b, r, l, q, s, T, st, i),
         q # <<>>, ~DataFor(Head(q), i), l.pc = "read",
         NEW l2, l2.pc = "push" => l2.id # i,
         l2.pc = "register" /\ l2.id = i => Due(l, q, T, i),
         NEW T2, i \in T2 => i \in T
  PROVE  FlowOf(b, r, l2, Tail(q), s, T2, st, i)
PROOF
<1> DEFINE q2 == Tail(q)
<1>1. /\ Len(q) \in Nat /\ ~DataFor(q[1], i)
      /\ \A p \in 1..Len(q2) : q2[p] = q[p + 1] /\ p + 1 \in 1..Len(q)
      /\ \A p \in 1..Len(q) :
           p = 1 \/ (p - 1 \in 1..Len(q2) /\ q2[p - 1] = q[p])
  BY Shortened DEF FlowTypes
<1> HIDE DEF q2
<1>2. Reached(b, r, l2, i) = Reached(b, r, l, i) BY DEF Reached
<1>3. Due(l2, q2, T2, i) => Due(l, q, T, i) BY <1>1 DEF Due
<1>4. \A p \in 1..Len(q2) : DataFor(q2[p], i) =>
        Reached(b, r, l, i) < q2[p].chunk /\ q2[p].chunk <= s
  BY <1>1 DEF FlowOf
<1>5. \A p, n \in 1..Len(q2) : p < n /\ DataFor(q2[p], i) /\ DataFor(q2[n], i) =>
        q2[p].chunk < q2[n].chunk
  <2> SUFFICES ASSUME NEW p \in 1..Len(q2), NEW n \in 1..Len(q2), p < n,
                      DataFor(q2[p], i), DataFor(q2[n], i)
               PROVE  q2[p].chunk < q2[n].chunk
    OBVIOUS
  <2>1. p + 1 < n + 1 OBVIOUS
  <2>2. QED BY <1>1, <2>1 DEF FlowOf
<1>6. \A p, n \in 1..Len(q2) : OpenFor(q2[p], i) /\ DataFor(q2[n], i) => p < n
  BY <1>1 DEF FlowOf
<1>7. st = "open" /\ Due(l2, q2, T2, i) =>
        \A c \in Nat : Reached(b, r, l, i) < c /\ c <= s =>
          \E p \in 1..Len(q2) : DataFor(q2[p], i) /\ q2[p].chunk = c
  <2> SUFFICES ASSUME st = "open", Due(l2, q2, T2, i), NEW c \in Nat,
                      Reached(b, r, l, i) < c, c <= s
               PROVE  \E p \in 1..Len(q2) : DataFor(q2[p], i) /\ q2[p].chunk = c
    OBVIOUS
  <2>1. PICK p \in 1..Len(q) : DataFor(q[p], i) /\ q[p].chunk = c
    BY <1>3 DEF FlowOf
  <2>2. p - 1 \in 1..Len(q2) /\ q2[p - 1] = q[p] BY <1>1, <2>1
  <2>3. QED BY <2>1, <2>2
<1>8. QED BY <1>2, <1>4, <1>5, <1>6, <1>7 DEF FlowOf, q2

\* A chunk of a stream that is not registered is dropped; it never will be, for
\* its OPEN frame, if there is one, would be ahead of the chunk.
LEMMA FlowDropped ==
  ASSUME NEW b, NEW r, NEW l, NEW q, NEW s, NEW T, NEW st, NEW i,
         FlowTypes(b, r, l, q, s, T, i), FlowOf(b, r, l, q, s, T, st, i),
         q # <<>>, DataFor(Head(q), i), l.pc = "read", i \notin T
  PROVE  FlowOf(b, r, Reading, Tail(q), s, T, st, i)
PROOF
<1> DEFINE q2 == Tail(q)
<1>1. /\ Len(q) \in Nat /\ DataFor(q[1], i) /\ 1 \in 1..Len(q)
      /\ \A p \in 1..Len(q2) : q2[p] = q[p + 1] /\ p + 1 \in 1..Len(q)
  BY Shortened DEF FlowTypes
<1> HIDE DEF q2
<1>2. Reached(b, r, Reading, i) = Reached(b, r, l, i) BY DEF Reached, Reading
<1>3. \A p \in 1..Len(q) : ~OpenFor(q[p], i) BY <1>1 DEF FlowOf
<1>4. ~Due(Reading, q2, T, i) BY <1>1, <1>3 DEF Due, Reading
<1>5. \A p \in 1..Len(q2) : DataFor(q2[p], i) =>
        Reached(b, r, l, i) < q2[p].chunk /\ q2[p].chunk <= s
  BY <1>1 DEF FlowOf
<1>6. \A p, n \in 1..Len(q2) : p < n /\ DataFor(q2[p], i) /\ DataFor(q2[n], i) =>
        q2[p].chunk < q2[n].chunk
  BY <1>1 DEF FlowOf
<1>7. \A p \in 1..Len(q2) : ~OpenFor(q2[p], i) BY <1>1, <1>3
<1>8. Reading.pc # "push" BY DEF Reading
<1>9. QED BY <1>2, <1>4, <1>5, <1>6, <1>7, <1>8 DEF FlowOf, q2

\* A chunk of a registered stream is the next one.
LEMMA FlowRead ==
  ASSUME NEW b, NEW r, NEW l, NEW q, NEW s, NEW T, NEW st, NEW i,
         FlowTypes(b, r, l, q, s, T, i), FlowOf(b, r, l, q, s, T, st, i),
         q # <<>>, DataFor(Head(q), i), l.pc = "read", i \in T, st = "open"
  PROVE  FlowOf(b, r, [pc |-> "push", id |-> i, chunk |-> Head(q).chunk],
                Tail(q), s, T, st, i)
PROOF
<1> DEFINE q2 == Tail(q)
           l2 == [pc |-> "push", id |-> i, chunk |-> Head(q).chunk]
           N == Len(b) + Len(r)
<1>0. N \in Nat /\ s \in Nat BY LenProperties DEF FlowTypes
<1>1. /\ Len(q) \in Nat /\ DataFor(q[1], i) /\ 1 \in 1..Len(q)
      /\ \A p \in 1..Len(q2) : q2[p] = q[p + 1] /\ p + 1 \in 1..Len(q)
      /\ \A p \in 1..Len(q) :
           p = 1 \/ (p - 1 \in 1..Len(q2) /\ q2[p - 1] = q[p])
  BY Shortened DEF FlowTypes
<1>2. /\ Reached(b, r, l, i) = N /\ Reached(b, r, l2, i) = N + 1
      /\ l2.chunk = q[1].chunk
  BY Shortened DEF Reached, FlowTypes
<1> HIDE DEF q2, l2, N
<1>3. \A p \in 1..Len(q) : q[p].chunk \in Nat BY FrameAt DEF FlowTypes
<1>4. \A c \in Nat : N < c /\ c <= s =>
        \E p \in 1..Len(q) : DataFor(q[p], i) /\ q[p].chunk = c
  BY <1>2 DEF FlowOf, Due
<1>5. q[1].chunk = N + 1 /\ N + 1 <= s
  <2>1. N < q[1].chunk /\ q[1].chunk <= s BY <1>1, <1>2 DEF FlowOf
  <2>2. N + 1 \in Nat /\ N < N + 1 /\ N + 1 <= s BY <1>0, <1>1, <1>3, <2>1
  <2>3. PICK p \in 1..Len(q) : DataFor(q[p], i) /\ q[p].chunk = N + 1
    BY <1>4, <2>2
  <2>4. CASE p = 1 BY <2>2, <2>3, <2>4
  <2>5. CASE 1 < p
    <3>1. q[1].chunk < N + 1 BY <1>1, <2>3, <2>5 DEF FlowOf
    <3>2. QED BY <1>0, <1>1, <1>3, <2>1, <3>1
  <2>6. QED BY <1>1, <2>4, <2>5
<1>6. \A p \in 1..Len(q2) : DataFor(q2[p], i) =>
        N + 1 < q2[p].chunk /\ q2[p].chunk <= s
  <2> SUFFICES ASSUME NEW p \in 1..Len(q2), DataFor(q2[p], i)
               PROVE  N + 1 < q2[p].chunk /\ q2[p].chunk <= s
    OBVIOUS
  <2>1. 1 < p + 1 /\ p + 1 \in 1..Len(q) /\ q2[p] = q[p + 1] BY <1>1
  <2>2. q[1].chunk < q[p + 1].chunk /\ q[p + 1].chunk <= s
    BY <1>1, <2>1 DEF FlowOf
  <2>3. QED BY <1>5, <2>1, <2>2
<1>7. \A p, n \in 1..Len(q2) : p < n /\ DataFor(q2[p], i) /\ DataFor(q2[n], i) =>
        q2[p].chunk < q2[n].chunk
  <2> SUFFICES ASSUME NEW p \in 1..Len(q2), NEW n \in 1..Len(q2), p < n,
                      DataFor(q2[p], i), DataFor(q2[n], i)
               PROVE  q2[p].chunk < q2[n].chunk
    OBVIOUS
  <2>1. p + 1 < n + 1 OBVIOUS
  <2>2. QED BY <1>1, <2>1 DEF FlowOf
<1>8. \A p, n \in 1..Len(q2) : OpenFor(q2[p], i) /\ DataFor(q2[n], i) => p < n
  BY <1>1 DEF FlowOf
<1>9. \A c \in Nat : N + 1 < c /\ c <= s =>
        \E p \in 1..Len(q2) : DataFor(q2[p], i) /\ q2[p].chunk = c
  <2> SUFFICES ASSUME NEW c \in Nat, N + 1 < c, c <= s
               PROVE  \E p \in 1..Len(q2) : DataFor(q2[p], i) /\ q2[p].chunk = c
    OBVIOUS
  <2>1. PICK p \in 1..Len(q) : DataFor(q[p], i) /\ q[p].chunk = c
    BY <1>0, <1>4
  <2>2. p # 1 BY <1>0, <1>5, <2>1
  <2>3. p - 1 \in 1..Len(q2) /\ q2[p - 1] = q[p] BY <1>1, <2>2
  <2>4. QED BY <2>1, <2>3
<1>10. l2.chunk = N + 1 BY <1>2, <1>5
<1>11. /\ \A k \in 1..Len(b) : b[k] = k
       /\ \A k \in 1..Len(r) : r[k] = Len(b) + k
  BY DEF FlowOf
<1>12. FlowOf(b, r, l2, q2, s, T, st, i)
  BY <1>2, <1>5, <1>6, <1>7, <1>8, <1>9, <1>10, <1>11 DEF FlowOf, N
<1>13. QED BY <1>12 DEF l2, q2

\* pushData appends the chunk the loop has read to readCh.
LEMMA FlowPushed ==
  ASSUME NEW b, NEW r, NEW l, NEW q, NEW s, NEW T, NEW st, NEW i,
         FlowTypes(b, r, l, q, s, T, i), FlowOf(b, r, l, q, s, T, st, i),
         l.pc = "push", l.id = i
  PROVE  FlowOf(b, Append(r, l.chunk), Reading, q, s, T, st, i)
PROOF
<1> DEFINE r2 == Append(r, l.chunk)
<1>1. /\ Len(b) \in Nat /\ Len(r) \in Nat /\ Len(r2) = Len(r) + 1
      /\ r2[Len(r) + 1] = l.chunk
      /\ \A k \in 1..Len(r) : r2[k] = r[k]
      /\ \A k \in 1..Len(r2) : k \in 1..Len(r) \/ k = Len(r) + 1
  <2>1. r \in Seq(Nat) /\ l.chunk \in Nat BY DEF FlowTypes, Loops
  <2>2. QED BY <2>1, AppendProperties, LenProperties DEF FlowTypes
<1> HIDE DEF r2
<1>2. l.chunk = Len(b) + Len(r) + 1 BY DEF FlowOf
<1>3. \A k \in 1..Len(r2) : r2[k] = Len(b) + k
  <2>1. \A k \in 1..Len(r) : r[k] = Len(b) + k BY DEF FlowOf
  <2>2. r2[Len(r) + 1] = Len(b) + (Len(r) + 1) BY <1>1, <1>2
  <2>3. QED BY <1>1, <2>1, <2>2
<1>4. Reached(b, r2, Reading, i) = Reached(b, r, l, i)
  BY <1>1 DEF Reached, Reading
<1>5. Due(Reading, q, T, i) => Due(l, q, T, i) BY DEF Due, Reading
<1>6. Reading.pc # "push" BY DEF Reading
<1>7. QED BY <1>3, <1>4, <1>5, <1>6 DEF FlowOf, r2

\* ingestLoop moves the first chunk of readCh to the end of buf.
LEMMA FlowIngested ==
  ASSUME NEW b, NEW r, NEW l, NEW q, NEW s, NEW T, NEW st, NEW i,
         FlowTypes(b, r, l, q, s, T, i), FlowOf(b, r, l, q, s, T, st, i),
         r # <<>>
  PROVE  FlowOf(Append(b, Head(r)), Tail(r), l, q, s, T, st, i)
PROOF
<1> DEFINE b2 == Append(b, Head(r))
           r2 == Tail(r)
<1>1. /\ Len(r) \in Nat /\ Head(r) = r[1] /\ 1 \in 1..Len(r)
      /\ Len(r2) = Len(r) - 1
      /\ \A k \in 1..Len(r2) : r2[k] = r[k + 1] /\ k + 1 \in 1..Len(r)
      /\ Head(r) \in Nat
  BY HeadTailProperties, LenProperties, EmptySeq DEF FlowTypes
<1>2. /\ Len(b) \in Nat /\ Len(b2) = Len(b) + 1 /\ b2[Len(b) + 1] = Head(r)
      /\ \A k \in 1..Len(b) : b2[k] = b[k]
      /\ \A k \in 1..Len(b2) : k \in 1..Len(b) \/ k = Len(b) + 1
  BY <1>1, AppendProperties, LenProperties DEF FlowTypes
<1> HIDE DEF b2, r2
<1>3. Head(r) = Len(b) + 1 BY <1>1 DEF FlowOf
<1>4. \A k \in 1..Len(b2) : b2[k] = k BY <1>2, <1>3 DEF FlowOf
<1>5. \A k \in 1..Len(r2) : r2[k] = Len(b2) + k BY <1>1, <1>2 DEF FlowOf
<1>6. /\ Len(b2) + Len(r2) = Len(b) + Len(r)
      /\ Reached(b2, r2, l, i) = Reached(b, r, l, i)
  BY <1>1, <1>2 DEF Reached
<1>7. QED BY <1>4, <1>5, <1>6 DEF FlowOf, b2, r2

-----------------------------------------------------------------------------
(* Who may write on a stream. *)

\* The client has heard of stream i, or will.
Seen(i) ==
  \/ use[<<"client", i>>] = "held"
  \/ \E n \in 1..Len(acceptCh) : acceptCh[n] = i
  \/ \E e \in Ends : loop[e].pc \in {"register", "accept"} /\ loop[e].id = i
  \/ \E e \in Ends : \E p \in 1..Len(net[e]) : OpenFor(net[e][p], i)

\* Only who holds a half writes on it, and the client hears of a stream only
\* when the server has announced it, which it does once.
HeldInv ==
  /\ \A h \in Halves : writing[h] \/ sent[h] > 0 => use[h] = "held"
  /\ \A i \in Ids : Seen(i) => use[<<"server", i>>] = "held"
  /\ \A i \in Ids : i > opened => use[<<"server", i>>] = "none"
  /\ \A i \in Ids : use[<<"client", i>>] \in {"none", "held"}

\* The halves of stream i.
LEMMA HalvesOf ==
  ASSUME NEW i \in Ids
  PROVE  /\ <<"server", i>> \in Halves /\ <<"client", i>> \in Halves
         /\ <<"server", i>> # <<"client", i>>
         /\ Far(<<"server", i>>) = <<"client", i>>
         /\ Far(<<"client", i>>) = <<"server", i>>
PROOF BY DEF Halves, Ends, Far, Peer

\* Every half is the server's or the client's of its stream.
LEMMA HalfOf ==
  ASSUME NEW h \in Halves
  PROVE  /\ Id(h) \in Ids
         /\ \/ End(h) = "server" /\ h = <<"server", Id(h)>>
            \/ End(h) = "client" /\ h = <<"client", Id(h)>>
PROOF BY DEF Halves, Ends, End, Id

\* No news for the client and no change of who holds what.
LEMMA HeldSame ==
  ASSUME TypeInv, HeldInv, UNCHANGED <<use, opened>>,
         \A h \in Halves : writing'[h] \/ sent'[h] > 0 => use[h] = "held",
         \A i \in Ids : Seen(i)' => Seen(i)
  PROVE  HeldInv'
PROOF BY DEF HeldInv

\* The OPEN frames of a queue, after a step on it.
LEMMA OpensKept ==
  ASSUME NEW q \in Seq(Frame), NEW q2, NEW i,
         \/ q2 = q
         \/ q2 = <<>>
         \/ q # <<>> /\ q2 = Tail(q)
         \/ \E f \in Frame : f.type # "open" /\ q2 = Append(q, f),
         NEW p \in 1..Len(q2), OpenFor(q2[p], i)
  PROVE  \E n \in 1..Len(q) : OpenFor(q[n], i)
PROOF
<1>1. CASE q2 = q BY <1>1
<1>2. CASE q2 = <<>> BY <1>2
<1>3. CASE q # <<>> /\ q2 = Tail(q)
  <2>1. q2[p] = q[p + 1] /\ p + 1 \in 1..Len(q) BY <1>3, Shortened
  <2>2. QED BY <2>1
<1>4. CASE \E f \in Frame : f.type # "open" /\ q2 = Append(q, f)
  <2>1. PICK f \in Frame : f.type # "open" /\ q2 = Append(q, f) BY <1>4
  <2>2. p \in 1..Len(q) /\ q2[p] = q[p] BY <2>1, Appended DEF OpenFor
  <2>3. QED BY <2>2
<1>5. QED BY <1>1, <1>2, <1>3, <1>4

\* What the client will hear of, after a step on the connection.
LEMMA SeenSame ==
  ASSUME TypeInv, UNCHANGED <<use, acceptCh>>,
         \A e \in Ends :
           /\ \/ loop'[e] = loop[e]
              \/ loop'[e].pc \notin {"register", "accept"}
              \/ /\ loop[e].pc = "register" /\ loop'[e].pc = "accept"
                 /\ loop'[e].id = loop[e].id
           /\ \/ net'[e] = net[e]
              \/ net'[e] = <<>>
              \/ net[e] # <<>> /\ net'[e] = Tail(net[e])
              \/ \E f \in Frame : f.type # "open" /\ net'[e] = Append(net[e], f)
  PROVE  \A i \in Ids : Seen(i)' => Seen(i)
PROOF
<1>1. \A e \in Ends : net[e] \in Seq(Frame) BY DEF TypeInv, TypeOK
<1>2. \A i \in Ids : \A e \in Ends :
        (\E p \in 1..Len(net'[e]) : OpenFor(net'[e][p], i)) =>
          \E n \in 1..Len(net[e]) : OpenFor(net[e][n], i)
  BY <1>1, OpensKept
<1>3. \A i \in Ids : \A e \in Ends :
        loop'[e].pc \in {"register", "accept"} /\ loop'[e].id = i =>
          loop[e].pc \in {"register", "accept"} /\ loop[e].id = i
  OBVIOUS
<1>4. QED BY <1>2, <1>3 DEF Seen

\* The users of the streams.
LEMMA HeldStream ==
  ASSUME TypeInv, HeldInv, NEW h \in Halves, Stream(h)
  PROVE  HeldInv'
PROOF
<1> USE HalfOf, HalvesOf DEF controlVars, userVars, readVars, writeVars, queueVars
<1>t. /\ use \in [Halves -> {"none", "register", "announce", "held"}]
      /\ writing \in [Halves -> BOOLEAN] /\ sent \in [Halves -> Nat]
      /\ opened \in Nat /\ \A i \in Ids : i \in Nat
      /\ net \in [Ends -> Seq(Frame)]
  BY BoundsAssumption DEF TypeInv, TypeOK, Ids
<1>1. CASE OpenStream(h)
  <2>1. /\ h = <<"server", opened + 1>> /\ Id(h) = opened + 1
        /\ opened' = opened + 1
        /\ use' = [use EXCEPT ![h] = "register"]
        /\ UNCHANGED <<writing, sent, acceptCh, loop, net>>
    BY <1>1 DEF OpenStream
  <2>2. use[h] = "none" BY <1>t, <2>1 DEF HeldInv
  <2>3. ~Seen(Id(h)) BY <2>1, <2>2 DEF HeldInv
  <2>4. \A i \in Ids : Seen(i)' <=> Seen(i) BY <1>t, <2>1 DEF Seen
  <2>5. \A g \in Halves : g # h => use'[g] = use[g] BY <1>t, <2>1
  <2>6. \A i \in Ids : i > opened' => i > opened /\ <<"server", i>> # h
    BY <1>t, <2>1
  <2>7. QED BY <1>t, <2>1, <2>2, <2>3, <2>4, <2>5, <2>6 DEF HeldInv
<1>2. CASE RegisterStream(h)
  <2>1. /\ use[h] = "register" /\ use' = [use EXCEPT ![h] = "announce"]
        /\ UNCHANGED <<writing, sent, opened, acceptCh, loop, net>>
    BY <1>2 DEF RegisterStream
  <2>2. h = <<"server", Id(h)>> BY <2>1 DEF HeldInv
  <2>3. \A i \in Ids : Seen(i)' <=> Seen(i) BY <1>t, <2>1, <2>2 DEF Seen
  <2>4. \A g \in Halves : g # h => use'[g] = use[g] BY <1>t, <2>1
  <2>5. QED BY <1>t, <2>1, <2>2, <2>3, <2>4 DEF HeldInv
<1>3. CASE AnnounceStream(h)
  <2>1. /\ use[h] = "announce"
        /\ UNCHANGED <<writing, sent, opened, acceptCh, loop>>
    BY <1>3 DEF AnnounceStream
  <2>2. h = <<"server", Id(h)>> BY <2>1 DEF HeldInv
  <2>3. CASE Written("server", Open(h)) /\ use' = [use EXCEPT ![h] = "held"]
    <3>1. \/ net' = net
          \/ net' = [net EXCEPT !["client"] = Append(@, Open(h))]
      BY <2>3 DEF Written, Peer
    <3>2. \A i \in Ids : i # Id(h) => (Seen(i)' => Seen(i))
      <4>1. SUFFICES ASSUME NEW i \in Ids, i # Id(h), NEW e \in Ends,
                            NEW p \in 1..Len(net'[e]), OpenFor(net'[e][p], i)
                     PROVE  \E n \in 1..Len(net[e]) : OpenFor(net[e][n], i)
        BY <1>t, <2>1, <2>2, <2>3 DEF Seen
      <4>2. CASE net'[e] = net[e] BY <4>1, <4>2
      <4>3. CASE net'[e] = Append(net[e], Open(h))
        <5>1. Open(h) \in Frame /\ ~OpenFor(Open(h), i)
          BY <4>1, FrameTypes DEF OpenFor, Open
        <5>2. p \in 1..Len(net[e]) /\ net'[e][p] = net[e][p]
          BY <1>t, <4>1, <4>3, <5>1, Appended
        <5>3. QED BY <4>1, <5>2
      <4>4. QED BY <1>t, <3>1, <4>2, <4>3
    <3>3. \A g \in Halves : g # h => use'[g] = use[g] BY <1>t, <2>3
    <3>4. use'[h] = "held" BY <1>t, <2>3
    <3>5. \A i \in Ids : Seen(i)' => use'[<<"server", i>>] = "held"
      BY <2>2, <3>2, <3>3, <3>4 DEF HeldInv
    <3>6. \A i \in Ids : i > opened => <<"server", i>> # h
      BY <2>1, <2>2 DEF HeldInv
    <3>7. \A g \in Halves : writing'[g] \/ sent'[g] > 0 => use'[g] = "held"
      BY <2>1, <3>3, <3>4 DEF HeldInv
    <3>8. \A i \in Ids : i > opened' => use'[<<"server", i>>] = "none"
      BY <2>1, <3>3, <3>6, HalvesOf DEF HeldInv
    <3>9. \A i \in Ids : use'[<<"client", i>>] \in {"none", "held"}
      BY <3>3, <3>4, HalvesOf DEF HeldInv
    <3>10. QED BY <3>5, <3>7, <3>8, <3>9 DEF HeldInv
  <2>4. CASE WriteFails("server") /\ use' = [use EXCEPT ![h] = "none"]
    <3>1. net' = net BY <2>4 DEF WriteFails
    <3>2. \A i \in Ids : Seen(i)' <=> Seen(i)
      BY <1>t, <2>1, <2>2, <2>4, <3>1 DEF Seen
    <3>3. \A g \in Halves : g # h => use'[g] = use[g] BY <1>t, <2>4
    <3>4. use'[h] = "none" BY <1>t, <2>4
    <3>5. \A g \in Halves : writing'[g] \/ sent'[g] > 0 => use'[g] = "held"
      BY <2>1, <3>3 DEF HeldInv
    <3>6. \A i \in Ids : Seen(i)' => use'[<<"server", i>>] = "held"
      BY <2>1, <2>2, <3>2, <3>3, HalvesOf DEF HeldInv
    <3>7. \A i \in Ids : i > opened' => use'[<<"server", i>>] = "none"
      BY <2>1, <3>3, <3>4, HalvesOf DEF HeldInv
    <3>8. \A i \in Ids : use'[<<"client", i>>] \in {"none", "held"}
      BY <2>2, <3>3, <3>4, HalvesOf DEF HeldInv
    <3>9. QED BY <3>5, <3>6, <3>7, <3>8 DEF HeldInv
  <2>5. QED BY <1>3, <2>3, <2>4 DEF AnnounceStream
<1>4. CASE StartWrite(h)
  <2>1. /\ UNCHANGED <<use, opened, sent, loop, net, acceptCh>>
        /\ \A g \in Halves : writing'[g] => writing[g] \/ use[g] = "held"
    BY <1>4, <1>t DEF StartWrite
  <2>2. \A i \in Ids : Seen(i)' => Seen(i) BY <2>1 DEF Seen
  <2>3. QED BY <2>1, <2>2, HeldSame DEF HeldInv
<1>5. CASE WriteChunk(h)
  <2>1. /\ writing[h] /\ UNCHANGED <<use, opened, loop, acceptCh>>
        /\ \A g \in Halves : g # h => writing'[g] = writing[g] /\ sent'[g] = sent[g]
    BY <1>5, <1>t DEF WriteChunk
  <2>2. \A e \in Ends : \/ net'[e] = net[e]
                       \/ net'[e] = Append(net[e], Data(h, sent[h] + 1))
    BY <1>5, <1>t DEF WriteChunk, Written, WriteFails
  <2>3. Data(h, sent[h] + 1) \in Frame /\ Data(h, sent[h] + 1).type # "open"
    <3>1. sent[h] + 1 \in Nat BY <1>t
    <3>2. QED BY <3>1, FrameTypes DEF Data
  <2>4. \A i \in Ids : Seen(i)' => Seen(i) BY <2>1, <2>2, <2>3, SeenSame
  <2>5. use[h] = "held" BY <2>1 DEF HeldInv
  <2>6. QED BY <2>1, <2>4, <2>5, HeldSame DEF HeldInv
<1>6. CASE CloseTell(h)
  <2>1. UNCHANGED <<use, opened, sent, writing, loop, acceptCh>>
    BY <1>6 DEF CloseTell
  <2>2. \A e \in Ends :
          net'[e] = net[e] \/ net'[e] = Append(net[e], Close(h))
    BY <1>6, <1>t DEF CloseTell, CloseSaid, Written, WriteFails
  <2>3. Close(h) \in Frame /\ Close(h).type # "open"
    BY FrameTypes DEF Close
  <2>4. \A i \in Ids : Seen(i)' => Seen(i) BY <2>1, <2>2, <2>3, SeenSame
  <2>5. QED BY <2>1, <2>4, HeldSame DEF HeldInv
<1>7. CASE CloseStream(h) \/ CloseRemove(h) \/ Ingest(h) \/ IngestEnds(h)
  <2>1. UNCHANGED <<use, opened, sent, writing, loop, acceptCh, net>>
    BY <1>7 DEF CloseStream, CloseRemove, Ingest, IngestEnds
  <2>2. \A i \in Ids : Seen(i)' => Seen(i) BY <2>1 DEF Seen
  <2>3. QED BY <2>1, <2>2, HeldSame DEF HeldInv
<1>8. QED BY <1>1, <1>2, <1>3, <1>4, <1>5, <1>6, <1>7 DEF Stream

\* The read loops.
LEMMA HeldLoop ==
  ASSUME TypeInv, HeldInv, NEW e \in Ends, ReadLoop(e)
  PROVE  HeldInv'
PROOF
<1> USE DEF controlVars, userVars, readVars, writeVars, queueVars, streamVars
<1>t. /\ loop \in [Ends -> Loops] /\ net \in [Ends -> Seq(Frame)]
      /\ sess \in [Ends -> {"open", "closing", "over", "panicked"}]
      /\ acceptCh \in Seq(Ids)
  BY DEF TypeInv, TypeOK
<1>1. ASSUME UNCHANGED <<use, opened, sent, writing>>,
             \A i \in Ids : Seen(i)' => Seen(i)
      PROVE  HeldInv'
  BY <1>1, HeldSame DEF HeldInv
<1>2. CASE ReadFrame(e)
  <2> DEFINE f == Head(net[e])
  <2>1. /\ net[e] # <<>> /\ net' = [net EXCEPT ![e] = Tail(@)]
        /\ UNCHANGED <<use, opened, sent, writing, acceptCh>>
        /\ \/ f.type = "open"
              /\ loop' = [loop EXCEPT ![e] =
                            [pc |-> "register", id |-> f.id, chunk |-> 0]]
           \/ loop' = [loop EXCEPT ![e] = Reading]
           \/ loop' = [loop EXCEPT ![e] =
                         [pc |-> "push", id |-> f.id, chunk |-> f.chunk]]
    BY <1>2 DEF ReadFrame
  <2>2. CASE loop' = [loop EXCEPT ![e] =
                        [pc |-> "register", id |-> f.id, chunk |-> 0]]
             /\ f.type = "open"
    <3>1. f = net[e][1] /\ 1 \in 1..Len(net[e]) BY <1>t, <2>1, Shortened
    <3>2. \A i \in Ids : \A d \in Ends :
            loop'[d].pc \in {"register", "accept"} /\ loop'[d].id = i => Seen(i)
      BY <1>t, <2>2, <3>1 DEF Seen, OpenFor
    <3>3. \A i \in Ids : \A d \in Ends :
            (\E p \in 1..Len(net'[d]) : OpenFor(net'[d][p], i)) => Seen(i)
      <4>1. SUFFICES ASSUME NEW i \in Ids, NEW d \in Ends,
                            NEW p \in 1..Len(net'[d]), OpenFor(net'[d][p], i)
                     PROVE  \E n \in 1..Len(net[d]) : OpenFor(net[d][n], i)
        BY DEF Seen
      <4>2. \/ net'[d] = net[d]
            \/ net[d] # <<>> /\ net'[d] = Tail(net[d])
        BY <1>t, <2>1
      <4>3. QED BY <1>t, <4>1, <4>2, OpensKept
    <3>4. \A i \in Ids : Seen(i)' => Seen(i) BY <2>1, <3>2, <3>3 DEF Seen
    <3>5. QED BY <1>1, <2>1, <3>4
  <2>3. CASE loop'[e].pc \notin {"register", "accept"}
             /\ \A d \in Ends : d # e => loop'[d] = loop[d]
    <3>1. \A i \in Ids : Seen(i)' => Seen(i) BY <1>t, <2>1, <2>3, SeenSame
    <3>2. QED BY <1>1, <2>1, <3>1
  <2>4. QED BY <1>t, <2>1, <2>2, <2>3 DEF Reading
<1>3. CASE ReadClose(e)
  <2>1. /\ net[e] # <<>> /\ net' = [net EXCEPT ![e] = Tail(@)]
        /\ UNCHANGED <<use, opened, sent, writing, acceptCh, loop>>
    BY <1>3 DEF ReadClose
  <2>2. \A i \in Ids : Seen(i)' => Seen(i) BY <1>t, <2>1, SeenSame
  <2>3. QED BY <1>1, <2>1, <2>2
<1>4. CASE Register(e)
  <2>1. /\ UNCHANGED <<use, opened, sent, writing, acceptCh, net>>
        /\ \A d \in Ends : d # e => loop'[d] = loop[d]
        /\ loop[e].pc = "register" /\ loop'[e].pc = "accept"
        /\ loop'[e].id = loop[e].id
    BY <1>4, <1>t DEF Register, Loops
  <2>2. \A i \in Ids : Seen(i)' => Seen(i) BY <2>1, SeenSame
  <2>3. QED BY <1>1, <2>1, <2>2
<1>5. CASE Offer(e)
  <2>1. /\ UNCHANGED <<use, opened, sent, writing, net>>
        /\ \A d \in Ends : d # e => loop'[d] = loop[d]
        /\ loop[e].pc = "accept" /\ loop'[e].pc \notin {"register", "accept"}
        /\ acceptCh' = acceptCh \/ acceptCh' = Append(acceptCh, loop[e].id)
    BY <1>5, <1>t DEF Offer, Loops, Reading
  <2>2. loop[e].id \in Ids BY <2>1 DEF TypeInv, LoopIds
  <2>3. \A i \in Ids : (\E n \in 1..Len(acceptCh') : acceptCh'[n] = i) =>
          (\E n \in 1..Len(acceptCh) : acceptCh[n] = i) \/ i = loop[e].id
    <3>1. CASE acceptCh' = acceptCh BY <3>1
    <3>2. CASE acceptCh' = Append(acceptCh, loop[e].id)
      <4>1. /\ Len(acceptCh') = Len(acceptCh) + 1 /\ Len(acceptCh) \in Nat
            /\ acceptCh'[Len(acceptCh) + 1] = loop[e].id
            /\ \A n \in 1..Len(acceptCh) : acceptCh'[n] = acceptCh[n]
        BY <1>t, <2>2, <3>2, AppendProperties, LenProperties
      <4>2. QED BY <4>1
    <3>3. QED BY <2>1, <3>1, <3>2
  <2>4. Seen(loop[e].id) BY <2>1 DEF Seen
  <2>5. \A i \in Ids : Seen(i)' => Seen(i) BY <2>1, <2>3, <2>4 DEF Seen
  <2>6. QED BY <1>1, <2>1, <2>5
<1>6. CASE PushData(e) \/ PushOverflows(e) \/ LoopCloses(e)
  <2>1. /\ UNCHANGED <<use, opened, sent, writing, net, acceptCh>>
        /\ \A d \in Ends : d # e => loop'[d] = loop[d]
        /\ loop'[e].pc \notin {"register", "accept"}
    BY <1>6, <1>t DEF PushData, PushOverflows, LoopCloses, Loops, Reading
  <2>2. \A i \in Ids : Seen(i)' => Seen(i) BY <2>1, SeenSame
  <2>3. QED BY <1>1, <2>1, <2>2
<1>7. CASE PushPanics(e) \/ ReadFails(e)
  <2>1. /\ UNCHANGED <<use, opened, sent, writing, acceptCh>>
        /\ \A d \in Ends : net'[d] = net[d] \/ net'[d] = <<>>
        /\ \A d \in Ends : loop'[d] = loop[d] \/ loop'[d].pc = "returned"
    BY <1>7, <1>t
    DEF PushPanics, ReadFails, ClosesToo, SetClosed, Discard, Loops
  <2>2. \A i \in Ids : Seen(i)' => Seen(i) BY <2>1, SeenSame
  <2>3. QED BY <1>1, <2>1, <2>2
<1>8. QED BY <1>2, <1>3, <1>4, <1>5, <1>6, <1>7 DEF ReadLoop

\* The end of a session, and Accept.
LEMMA HeldEnd ==
  ASSUME TypeInv, HeldInv,
         \/ \E e \in Ends : CloseSession(e) \/ Sweep(e)
         \/ Accept \/ AcceptEnds
  PROVE  HeldInv'
PROOF
<1> USE DEF controlVars, userVars, readVars, writeVars, queueVars, streamVars
<1>t. /\ net \in [Ends -> Seq(Frame)]
      /\ use \in [Halves -> {"none", "register", "announce", "held"}]
      /\ acceptCh \in Seq(Ids)
  BY DEF TypeInv, TypeOK
<1>1. CASE (\E e \in Ends : CloseSession(e) \/ Sweep(e)) \/ AcceptEnds
  <2>1. /\ UNCHANGED <<use, opened, sent, writing, acceptCh, loop>>
        /\ \A d \in Ends : net'[d] = net[d] \/ net'[d] = <<>>
    BY <1>1, <1>t DEF CloseSession, SetClosed, Discard, Sweep, AcceptEnds
  <2>2. \A i \in Ids : Seen(i)' => Seen(i) BY <2>1, SeenSame
  <2>3. QED BY <2>1, <2>2, HeldSame DEF HeldInv
<1>2. CASE Accept
  <2> DEFINE j == Head(acceptCh)
             h == <<"client", j>>
  <2>1. /\ UNCHANGED <<opened, sent, writing, net, loop>>
        /\ acceptCh # <<>> /\ acceptCh' = Tail(acceptCh)
        /\ use' = [use EXCEPT ![h] = "held"]
    BY <1>2 DEF Accept
  <2>2. /\ j \in Ids /\ j = acceptCh[1] /\ 1 \in 1..Len(acceptCh)
        /\ \A n \in 1..Len(acceptCh') :
             acceptCh'[n] = acceptCh[n + 1] /\ n + 1 \in 1..Len(acceptCh)
    BY <1>t, <2>1, HeadTailProperties, LenProperties, EmptySeq
  <2>3. h \in Halves /\ \A i \in Ids : <<"server", i>> # h
    BY <2>2, HalvesOf
  <2>4. /\ use'[h] = "held" /\ \A g \in Halves : g # h => use'[g] = use[g]
    BY <1>t, <2>1, <2>3
  <2>5. Seen(j) BY <2>2 DEF Seen
  <2>6. \A i \in Ids : <<"client", i>> # h => i # j OBVIOUS
  <2>7. \A i \in Ids : i # j => <<"client", i>> # h OBVIOUS
  <2>8. \A i \in Ids : Seen(i)' => Seen(i)
    <3>1. \A i \in Ids : i # j => use'[<<"client", i>>] = use[<<"client", i>>]
      BY <2>4, <2>7, HalvesOf
    <3>2. \A i \in Ids : (\E n \in 1..Len(acceptCh') : acceptCh'[n] = i) =>
            (\E n \in 1..Len(acceptCh) : acceptCh[n] = i)
      BY <2>2
    <3>3. QED BY <2>1, <2>5, <3>1, <3>2 DEF Seen
  <2>9. \A i \in Ids : use'[<<"server", i>>] = use[<<"server", i>>]
    BY <2>3, <2>4, HalvesOf
  <2>10. \A i \in Ids : use'[<<"client", i>>] \in {"none", "held"}
    BY <2>4, HalvesOf DEF HeldInv
  <2>11. \A g \in Halves : use[g] = "held" => use'[g] = "held" BY <2>4
  <2>12. QED BY <2>1, <2>8, <2>9, <2>10, <2>11 DEF HeldInv
<1>3. QED BY <1>1, <1>2

-----------------------------------------------------------------------------
(* The chunks of every half that nobody has closed. *)

Flow(h) ==
  FlowOf(buf[h], readCh[h], loop[End(h)], net[End(h)], sent[Far(h)],
         table[End(h)], sess[End(h)], Id(h))

FlowInv == \A h \in Halves : closing[h] = "no" => Flow(h)

IInv == TypeInv /\ HeldInv /\ FlowInv

\* The types of what Flow is about.
LEMMA FlowTyped ==
  ASSUME TypeInv, NEW h \in Halves
  PROVE  FlowTypes(buf[h], readCh[h], loop[End(h)], net[End(h)], sent[Far(h)],
                   table[End(h)], Id(h))
PROOF BY FrameTypes DEF TypeInv, TypeOK, FlowTypes

\* A step that moves nothing of half h.
LEMMA FlowSame ==
  ASSUME NEW h \in Halves, Flow(h),
         buf'[h] = buf[h], readCh'[h] = readCh[h],
         net'[End(h)] = net[End(h)], sent'[Far(h)] = sent[Far(h)],
         \/ loop'[End(h)] = loop[End(h)]
         \/ /\ loop[End(h)].pc = "push" => loop[End(h)].id # Id(h)
            /\ loop'[End(h)].pc \notin {"push", "register"},
         Id(h) \in table'[End(h)] =>
           \/ Id(h) \in table[End(h)]
           \/ loop[End(h)].pc = "register" /\ loop[End(h)].id = Id(h),
         sess'[End(h)] = "open" => sess[End(h)] = "open"
  PROVE  Flow(h)'
PROOF
<1> DEFINE l == loop[End(h)]
           q == net[End(h)]
           T == table[End(h)]
<1>1. Id(h) \in table'[End(h)] => Due(l, q, T, Id(h)) BY DEF Due
<1>2. FlowOf(buf[h], readCh[h], loop'[End(h)], q, sent[Far(h)],
             table'[End(h)], sess'[End(h)], Id(h))
  BY <1>1, FlowWeaker DEF Flow
<1>3. QED BY <1>2 DEF Flow

\* The connection is closed at the end of half h, and its loop may return.
LEMMA FlowCut ==
  ASSUME NEW h \in Halves, Flow(h),
         buf'[h] = buf[h], readCh'[h] = readCh[h],
         net'[End(h)] = <<>>, sent'[Far(h)] = sent[Far(h)],
         \/ loop'[End(h)] = loop[End(h)]
         \/ loop[End(h)].pc = "read" /\ loop'[End(h)].pc = "returned",
         table'[End(h)] = table[End(h)], sess'[End(h)] # "open"
  PROVE  Flow(h)'
PROOF
<1>1. FlowOf(buf[h], readCh[h], loop[End(h)], <<>>, sent[Far(h)],
             table[End(h)], sess'[End(h)], Id(h))
  BY FlowDiscarded DEF Flow
<1>2. Id(h) \in table'[End(h)] => Due(loop[End(h)], <<>>, table[End(h)], Id(h))
  BY DEF Due
<1>3. FlowOf(buf[h], readCh[h], loop'[End(h)], <<>>, sent[Far(h)],
             table'[End(h)], sess'[End(h)], Id(h))
  BY <1>1, <1>2, FlowWeaker
<1>4. QED BY <1>3 DEF Flow

\* Half h when another frame is written to its end.
LEMMA FlowBehind ==
  ASSUME TypeInv, NEW h \in Halves, Flow(h),
         NEW f \in Frame, ~DataFor(f, Id(h)), ~OpenFor(f, Id(h)),
         net'[End(h)] = net[End(h)] \/ net'[End(h)] = Append(net[End(h)], f),
         buf'[h] = buf[h], readCh'[h] = readCh[h], sent'[Far(h)] = sent[Far(h)],
         loop' = loop, sess' = sess, table' = table
  PROVE  Flow(h)'
PROOF
<1>1. CASE net'[End(h)] = net[End(h)] BY <1>1, FlowSame
<1>2. CASE net'[End(h)] = Append(net[End(h)], f)
  <2>1. FlowOf(buf[h], readCh[h], loop[End(h)], Append(net[End(h)], f),
               sent[Far(h)], table[End(h)], sess[End(h)], Id(h))
    BY FlowTyped, FlowOther DEF Flow
  <2>2. QED BY <1>2, <2>1 DEF Flow
<1>3. QED BY <1>1, <1>2

\* OpenStream registers a stream of which nothing was written, and announces it.
LEMMA FlowOpen ==
  ASSUME TypeInv, HeldInv, FlowInv, NEW h \in Halves,
         RegisterStream(h) \/ AnnounceStream(h),
         NEW g \in Halves, Flow(g), closing[g] = "no"
  PROVE  Flow(g)'
PROOF
<1> USE DEF controlVars, userVars, readVars, writeVars, queueVars
<1>t. /\ use \in [Halves -> {"none", "register", "announce", "held"}]
      /\ sent \in [Halves -> Nat] /\ net \in [Ends -> Seq(Frame)]
      /\ table \in [Ends -> SUBSET Ids]
  BY DEF TypeInv, TypeOK
<1>f. /\ g = <<End(g), Id(g)>> /\ End(g) \in Ends /\ Id(g) \in Ids
      /\ Far(g) \in Halves /\ Id(h) \in Ids
  BY FrameTypes
<1>1. CASE RegisterStream(h)
  <2>1. /\ use[h] = "register"
        /\ UNCHANGED <<buf, readCh, loop, net, sent, sess>>
        /\ table' = [table EXCEPT !["server"] = @ \cup {Id(h)}]
    BY <1>1 DEF RegisterStream
  <2>2. h = <<"server", Id(h)>> BY <2>1, HalfOf DEF HeldInv
  <2>3. CASE g = h
    <3>1. ~Seen(Id(h)) BY <1>f, <2>1, <2>2 DEF HeldInv
    <3>2. Far(h) = <<"client", Id(h)>> BY <1>f, <2>2, HalvesOf
    <3>3. use[Far(h)] # "held" BY <3>1, <3>2 DEF Seen
    <3>4. sent[Far(g)] = 0 BY <1>t, <1>f, <2>3, <3>3 DEF HeldInv
    <3>5. FlowOf(buf[g], readCh[g], loop[End(g)], net[End(g)], 0,
                 table'[End(g)], sess[End(g)], Id(g))
      BY <3>4, FlowTyped, FlowListed DEF Flow
    <3>6. QED BY <2>1, <3>4, <3>5 DEF Flow
  <2>4. CASE g # h
    <3>1. Id(g) \in table'[End(g)] => Id(g) \in table[End(g)]
      BY <1>t, <1>f, <2>1, <2>2, <2>4 DEF Ends
    <3>2. QED BY <2>1, <3>1, FlowSame
  <2>5. QED BY <2>3, <2>4
<1>2. CASE AnnounceStream(h)
  <2>1. use[h] = "announce" /\ UNCHANGED <<buf, readCh, loop, sent, sess>>
    BY <1>2 DEF AnnounceStream
  <2>2. h = <<"server", Id(h)>> BY <2>1, HalfOf DEF HeldInv
  <2>3. CASE UNCHANGED net /\ table' = [table EXCEPT !["server"] = @ \ {Id(h)}]
    <3>1. Id(g) \in table'[End(g)] => Id(g) \in table[End(g)]
      BY <1>t, <1>f, <2>3
    <3>2. QED BY <2>1, <2>3, <3>1, FlowSame
  <2>4. CASE Written("server", Open(h)) /\ UNCHANGED table
    <3>1. \/ net'[End(g)] = net[End(g)]
          \/ End(g) = "client" /\ net'[End(g)] = Append(net[End(g)], Open(h))
      BY <1>t, <1>f, <2>4 DEF Written, Peer
    <3>2. Open(h) \in Frame /\ OpenFor(Open(h), Id(h)) /\ ~DataFor(Open(h), Id(g))
      BY FrameTypes DEF OpenFor, DataFor, Open
    <3>3. CASE net'[End(g)] = net[End(g)] BY <2>1, <2>4, <3>3, FlowSame
    <3>4. CASE Id(g) # Id(h)
      <4>1. ~OpenFor(Open(h), Id(g)) BY <3>4 DEF OpenFor, Open
      <4>2. QED BY <2>1, <2>4, <3>1, <3>2, <4>1, FlowBehind
    <3>5. CASE /\ Id(g) = Id(h) /\ End(g) = "client"
               /\ net'[End(g)] = Append(net[End(g)], Open(h))
      <4>1. Far(g) = h BY <1>f, <2>2, <3>5, HalvesOf
      <4>2. sent[Far(g)] = 0 BY <1>t, <2>1, <4>1 DEF HeldInv
      <4>3. FlowOf(buf[g], readCh[g], loop[End(g)], Append(net[End(g)], Open(h)),
                   0, table[End(g)], sess[End(g)], Id(g))
        BY <3>2, <3>5, <4>2, FlowTyped, FlowAnnounced DEF Flow
      <4>4. QED BY <2>1, <2>4, <3>5, <4>2, <4>3 DEF Flow
    <3>6. QED BY <3>1, <3>3, <3>4, <3>5
  <2>5. QED BY <1>2, <2>3, <2>4 DEF AnnounceStream, WriteFails
<1>3. QED BY <1>1, <1>2

\* A chunk that is written reaches the connection of the far half, or vanishes
\* if that is closed.
LEMMA FlowWrite ==
  ASSUME TypeInv, NEW h \in Halves, WriteChunk(h), NEW g \in Halves, Flow(g)
  PROVE  Flow(g)'
PROOF
<1> USE DEF controlVars, userVars, readVars, writeVars, queueVars
<1> DEFINE f == Data(h, sent[h] + 1)
<1>t. /\ sent \in [Halves -> Nat] /\ net \in [Ends -> Seq(Frame)]
      /\ sess \in [Ends -> {"open", "closing", "over", "panicked"}]
  BY DEF TypeInv, TypeOK
<1>f. /\ End(g) \in Ends /\ Far(g) \in Halves /\ Far(Far(g)) = g
      /\ Far(h) \in Halves /\ Far(Far(h)) = h
  BY FrameTypes
<1>0. UNCHANGED <<buf, readCh, loop, sess, table>> BY DEF WriteChunk
<1>1. f \in Frame /\ DataFor(f, Id(h)) /\ f.chunk = sent[h] + 1
      /\ ~OpenFor(f, Id(g))
  <2>1. sent[h] + 1 \in Nat BY <1>t
  <2>2. QED BY <2>1, FrameTypes DEF DataFor, OpenFor, Data
<1>2. CASE UNCHANGED <<net, sent>> BY <1>0, <1>2, FlowSame
<1>3. CASE Written(End(h), f) /\ sent' = [sent EXCEPT ![h] = @ + 1]
  <2>1. CASE g = Far(h)
    <3>1. Far(g) = h /\ End(g) = Peer(End(h)) /\ Id(g) = Id(h)
      BY <1>f, <2>1 DEF Far, End, Id
    <3>2. sent'[Far(g)] = sent[Far(g)] + 1 BY <1>t, <1>3, <3>1
    <3>3. CASE sess[End(g)] = "open"
      <4>1. net'[End(g)] = Append(net[End(g)], f)
        BY <1>t, <1>f, <1>3, <3>1, <3>3 DEF Written
      <4>2. FlowOf(buf[g], readCh[g], loop[End(g)], Append(net[End(g)], f),
                   sent[Far(g)] + 1, table[End(g)], sess[End(g)], Id(g))
        BY <1>1, <3>1, FlowTyped, FlowSent DEF Flow
      <4>3. QED BY <1>0, <3>2, <4>1, <4>2 DEF Flow
    <3>4. CASE sess[End(g)] # "open"
      <4>1. net' = net BY <1>3, <3>1, <3>4 DEF Written
      <4>2. FlowOf(buf[g], readCh[g], loop[End(g)], net[End(g)],
                   sent[Far(g)] + 1, table[End(g)], sess[End(g)], Id(g))
        BY <3>4, FlowTyped, FlowVanished DEF Flow
      <4>3. QED BY <1>0, <3>2, <4>1, <4>2 DEF Flow
    <3>5. QED BY <3>3, <3>4
  <2>2. CASE g # Far(h)
    <3>1. sent'[Far(g)] = sent[Far(g)] BY <1>t, <1>f, <1>3, <2>2
    <3>2. \/ net'[End(g)] = net[End(g)]
          \/ End(g) = Peer(End(h)) /\ net'[End(g)] = Append(net[End(g)], f)
      BY <1>t, <1>f, <1>3 DEF Written
    <3>3. End(g) = Peer(End(h)) => Id(g) # Id(h)
      BY <2>2, FrameTypes DEF Far, End, Id
    <3>4. CASE net'[End(g)] = net[End(g)] BY <1>0, <3>1, <3>4, FlowSame
    <3>5. CASE Id(g) # Id(h)
      <4>1. ~DataFor(f, Id(g)) BY <1>1, <3>5 DEF DataFor
      <4>2. QED BY <1>0, <1>1, <3>1, <3>2, <4>1, FlowBehind
    <3>6. QED BY <3>2, <3>3, <3>4, <3>5
  <2>3. QED BY <2>1, <2>2
<1>4. QED BY <1>2, <1>3 DEF WriteChunk, WriteFails

\* The users of the streams keep the flow of every half that stays open.
LEMMA FlowStream ==
  ASSUME TypeInv, HeldInv, FlowInv, NEW h \in Halves, Stream(h)
  PROVE  FlowInv'
PROOF
<1> USE DEF controlVars, userVars, readVars, writeVars, queueVars
<1>t. /\ table \in [Ends -> SUBSET Ids] /\ net \in [Ends -> Seq(Frame)]
      /\ readCh \in [Halves -> Seq(Nat)] /\ buf \in [Halves -> Seq(Nat)]
      /\ closing \in [Halves -> {"no", "remove", "tell", "done"}]
  BY DEF TypeInv, TypeOK
<1>0. SUFFICES ASSUME NEW g \in Halves, closing'[g] = "no" PROVE Flow(g)'
  BY DEF FlowInv
<1>1. closing[g] = "no"
  BY <1>0, <1>t
  DEF Stream, OpenStream, RegisterStream, AnnounceStream, StartWrite, WriteChunk,
      CloseStream, CloseRemove, CloseTell, Ingest, IngestEnds
<1>2. Flow(g) BY <1>1 DEF FlowInv
<1>f. End(g) \in Ends /\ Id(g) \in Ids BY FrameTypes
<1>3. CASE OpenStream(h) \/ StartWrite(h) \/ CloseStream(h) \/ IngestEnds(h)
  <2>1. UNCHANGED <<buf, readCh, loop, net, sent, table, sess>>
    BY <1>3 DEF OpenStream, StartWrite, CloseStream, IngestEnds
  <2>2. QED BY <1>2, <2>1, FlowSame
<1>4. CASE RegisterStream(h) \/ AnnounceStream(h) BY <1>1, <1>2, <1>4, FlowOpen
<1>5. CASE WriteChunk(h) BY <1>2, <1>5, FlowWrite
<1>6. CASE CloseRemove(h)
  <2>1. /\ UNCHANGED <<buf, readCh, loop, net, sent, sess>>
        /\ table' = [table EXCEPT ![End(h)] = @ \ {Id(h)}]
    BY <1>6 DEF CloseRemove
  <2>2. Id(g) \in table'[End(g)] => Id(g) \in table[End(g)]
    BY <1>t, <1>f, <2>1
  <2>3. QED BY <1>2, <2>1, <2>2, FlowSame
<1>7. CASE CloseTell(h)
  <2>1. /\ UNCHANGED <<buf, readCh, loop, table, sent, sess>>
        /\ net'[End(g)] = net[End(g)] \/ net'[End(g)] = Append(net[End(g)], Close(h))
    BY <1>7, <1>t, <1>f DEF CloseTell, CloseSaid, Written, WriteFails
  <2>2. /\ Close(h) \in Frame
        /\ ~DataFor(Close(h), Id(g)) /\ ~OpenFor(Close(h), Id(g))
    BY FrameTypes DEF Close, DataFor, OpenFor
  <2>3. QED BY <1>2, <2>1, <2>2, FlowBehind
<1>8. CASE Ingest(h)
  <2>1. /\ UNCHANGED <<loop, net, sent, table, sess>>
        /\ readCh[h] # <<>>
        /\ readCh' = [readCh EXCEPT ![h] = Tail(@)]
        /\ buf' = [buf EXCEPT ![h] = Append(@, Head(readCh[h]))]
    BY <1>8 DEF Ingest
  <2>2. CASE g = h
    <3>1. FlowOf(Append(buf[g], Head(readCh[g])), Tail(readCh[g]), loop[End(g)],
                 net[End(g)], sent[Far(g)], table[End(g)], sess[End(g)], Id(g))
      BY <1>2, <2>1, <2>2, FlowTyped, FlowIngested DEF Flow
    <3>2. QED BY <1>t, <2>1, <2>2, <3>1 DEF Flow
  <2>3. CASE g # h
    <3>1. buf'[g] = buf[g] /\ readCh'[g] = readCh[g] BY <1>t, <2>1, <2>3
    <3>2. QED BY <1>2, <2>1, <3>1, FlowSame
  <2>4. QED BY <2>2, <2>3
<1>9. QED BY <1>3, <1>4, <1>5, <1>6, <1>7, <1>8 DEF Stream

\* The read loop takes a frame off the connection.
LEMMA FlowFrame ==
  ASSUME TypeInv, NEW e \in Ends, ReadFrame(e), NEW g \in Halves, Flow(g),
         End(g) = e
  PROVE  Flow(g)'
PROOF
<1> USE DEF controlVars, userVars, readVars, writeVars, queueVars, streamVars
<1> DEFINE f == Head(net[e])
           l2 == CASE f.type = "open" ->
                        [pc |-> "register", id |-> f.id, chunk |-> 0]
                   [] f.type = "data" /\ f.id \in table[e] ->
                        [pc |-> "push", id |-> f.id, chunk |-> f.chunk]
                   [] OTHER -> Reading
<1>1. /\ loop[e].pc = "read" /\ sess[e] = "open" /\ net[e] # <<>>
      /\ UNCHANGED <<buf, readCh, sent, table, sess>>
  BY DEF ReadFrame
<1>2. net'[e] = Tail(net[e]) /\ loop'[e] = l2
  BY DEF ReadFrame, TypeInv, TypeOK
<1>3. FlowTypes(buf[g], readCh[g], loop[e], net[e], sent[Far(g)], table[e], Id(g))
      /\ FlowOf(buf[g], readCh[g], loop[e], net[e], sent[Far(g)], table[e],
                sess[e], Id(g))
  BY FlowTyped DEF Flow
<1>4. FlowOf(buf[g], readCh[g], l2, Tail(net[e]), sent[Far(g)], table[e],
             sess[e], Id(g))
  <2>1. CASE DataFor(f, Id(g)) /\ Id(g) \in table[e]
    <3>1. l2 = [pc |-> "push", id |-> Id(g), chunk |-> f.chunk]
      BY <2>1 DEF DataFor
    <3>2. QED BY <1>1, <1>3, <2>1, <3>1, FlowRead
  <2>2. CASE DataFor(f, Id(g)) /\ Id(g) \notin table[e]
    <3>1. l2 = Reading BY <2>2 DEF DataFor
    <3>2. QED BY <1>1, <1>3, <2>2, <3>1, FlowDropped
  <2>3. CASE ~DataFor(f, Id(g))
    <3>1. l2.pc = "push" => l2.id # Id(g) BY <2>3 DEF DataFor, Reading
    <3>2. l2.pc = "register" /\ l2.id = Id(g) => OpenFor(f, Id(g))
      BY DEF OpenFor, Reading
    <3>3. f = net[e][1] /\ 1 \in 1..Len(net[e])
      BY <1>1, <1>3, Shortened DEF FlowTypes
    <3>4. l2.pc = "register" /\ l2.id = Id(g) =>
            Due(loop[e], net[e], table[e], Id(g))
      BY <3>2, <3>3 DEF Due
    <3> HIDE DEF f, l2
    <3>5. ~DataFor(Head(net[e]), Id(g)) BY <2>3 DEF f
    <3>6. QED BY <1>1, <1>3, <3>1, <3>4, <3>5, FlowPassed
  <2>4. QED BY <2>1, <2>2, <2>3
<1> HIDE DEF l2, f
<1>5. QED BY <1>1, <1>2, <1>4 DEF Flow

\* The read loop keeps the flow of every half that stays open.
LEMMA FlowLoop ==
  ASSUME TypeInv, FlowInv, NEW e \in Ends, ReadLoop(e)
  PROVE  FlowInv'
PROOF
<1> USE DEF controlVars, userVars, readVars, writeVars, queueVars, streamVars
<1>t. /\ table \in [Ends -> SUBSET Ids] /\ net \in [Ends -> Seq(Frame)]
      /\ readCh \in [Halves -> Seq(Nat)] /\ loop \in [Ends -> Loops]
      /\ closing \in [Halves -> {"no", "remove", "tell", "done"}]
      /\ sess \in [Ends -> {"open", "closing", "over", "panicked"}]
  BY DEF TypeInv, TypeOK
<1>0. SUFFICES ASSUME NEW g \in Halves, closing'[g] = "no" PROVE Flow(g)'
  BY DEF FlowInv
<1>1. closing[g] = "no"
  BY <1>0, <1>t
  DEF ReadLoop, ReadFrame, ReadClose, Register, Offer, PushData, PushOverflows,
      PushPanics, LoopCloses, ReadFails, Overflowed
<1>2. Flow(g) BY <1>1 DEF FlowInv
<1>f. End(g) \in Ends /\ Id(g) \in Ids /\ g = <<End(g), Id(g)>>
  BY FrameTypes
<1>3. CASE ReadFrame(e)
  <2>1. CASE End(g) = e BY <1>2, <1>3, <2>1, FlowFrame
  <2>2. CASE End(g) # e
    <3>1. /\ net'[End(g)] = net[End(g)] /\ loop'[End(g)] = loop[End(g)]
          /\ UNCHANGED <<buf, readCh, sent, table, sess>>
      BY <1>3, <1>t, <1>f, <2>2 DEF ReadFrame
    <3>2. QED BY <1>2, <3>1, FlowSame
  <2>3. QED BY <2>1, <2>2
<1>4. CASE ReadClose(e)
  <2> DEFINE f == Head(net[e])
  <2>1. /\ loop[e].pc = "read" /\ net[e] # <<>> /\ f.type = "close"
        /\ UNCHANGED <<buf, readCh, sent, loop, sess>>
        /\ net' = [net EXCEPT ![e] = Tail(@)]
        /\ table' = [table EXCEPT ![e] = @ \ {f.id}]
    BY <1>4 DEF ReadClose, Unlisted
  <2>2. Id(g) \in table'[End(g)] => Id(g) \in table[End(g)] BY <1>t, <1>f, <2>1
  <2>3. CASE End(g) = e
    <3>1. ~DataFor(f, Id(g)) BY <2>1 DEF DataFor
    <3>2. net'[End(g)] = Tail(net[End(g)]) BY <1>t, <2>1, <2>3
    <3>3. FlowOf(buf[g], readCh[g], loop[End(g)], Tail(net[End(g)]), sent[Far(g)],
                 table'[End(g)], sess[End(g)], Id(g))
      BY <1>2, <2>1, <2>2, <2>3, <3>1, FlowTyped, FlowPassed DEF Flow
    <3>4. QED BY <2>1, <3>2, <3>3 DEF Flow
  <2>4. CASE End(g) # e
    <3>1. net'[End(g)] = net[End(g)] BY <1>t, <1>f, <2>1, <2>4
    <3>2. QED BY <1>2, <2>1, <2>2, <3>1, FlowSame
  <2>5. QED BY <2>3, <2>4
<1>5. CASE Register(e)
  <2>1. /\ loop[e].pc = "register"
        /\ UNCHANGED <<buf, readCh, sent, net, sess>>
        /\ table' = [table EXCEPT ![e] = @ \cup {loop[e].id}]
        /\ loop' = [loop EXCEPT ![e].pc = "accept"]
    BY <1>5 DEF Register
  <2>2. /\ \A d \in Ends : d # e => loop'[d] = loop[d]
        /\ loop'[e].pc = "accept"
    BY <1>t, <2>1 DEF Loops
  <2>3. Id(g) \in table'[End(g)] =>
          \/ Id(g) \in table[End(g)]
          \/ loop[End(g)].pc = "register" /\ loop[End(g)].id = Id(g)
    BY <1>t, <1>f, <2>1
  <2>4. \/ loop'[End(g)] = loop[End(g)]
        \/ /\ loop[End(g)].pc = "push" => loop[End(g)].id # Id(g)
           /\ loop'[End(g)].pc \notin {"push", "register"}
    BY <1>f, <2>1, <2>2
  <2>5. QED BY <1>2, <2>1, <2>3, <2>4, FlowSame
<1>6. CASE Offer(e) \/ LoopCloses(e)
  <2>1. /\ loop[e].pc # "push"
        /\ UNCHANGED <<buf, readCh, sent, net, sess, table>>
        /\ \A d \in Ends : d # e => loop'[d] = loop[d]
        /\ loop'[e].pc \in {"read", "close"}
    BY <1>6, <1>t DEF Offer, LoopCloses, Loops, Reading
  <2>2. \/ loop'[End(g)] = loop[End(g)]
        \/ /\ loop[End(g)].pc = "push" => loop[End(g)].id # Id(g)
           /\ loop'[End(g)].pc \notin {"push", "register"}
    BY <1>f, <2>1
  <2>3. QED BY <1>2, <2>1, <2>2, FlowSame
<1>7. CASE PushData(e)
  <2> DEFINE h == <<e, loop[e].id>>
  <2>1. /\ loop[e].pc = "push" /\ UNCHANGED <<buf, sent, net, sess, table>>
        /\ readCh' = [readCh EXCEPT ![h] = Append(@, loop[e].chunk)]
        /\ loop' = [loop EXCEPT ![e] = Reading]
    BY <1>7 DEF PushData
  <2>2. CASE g = h
    <3>1. End(g) = e /\ Id(g) = loop[e].id BY <2>2 DEF End, Id
    <3>2. FlowOf(buf[g], Append(readCh[g], loop[End(g)].chunk), Reading,
                 net[End(g)], sent[Far(g)], table[End(g)], sess[End(g)], Id(g))
      BY <1>2, <2>1, <3>1, FlowTyped, FlowPushed DEF Flow
    <3>3. readCh'[g] = Append(readCh[g], loop[End(g)].chunk)
          /\ loop'[End(g)] = Reading
      BY <1>t, <1>f, <2>1, <2>2, <3>1
    <3>4. QED BY <2>1, <3>2, <3>3 DEF Flow
  <2>3. CASE g # h
    <3>1. readCh'[g] = readCh[g] BY <1>t, <2>1, <2>3
    <3>2. \/ loop'[End(g)] = loop[End(g)]
          \/ /\ loop[End(g)].pc = "push" => loop[End(g)].id # Id(g)
             /\ loop'[End(g)].pc \notin {"push", "register"}
      <4>1. CASE End(g) = e
        <5>1. loop[e].id # Id(g) BY <1>f, <2>3, <4>1
        <5>2. loop'[e] = Reading BY <1>t, <2>1
        <5>3. QED BY <4>1, <5>1, <5>2 DEF Reading
      <4>2. CASE End(g) # e BY <1>t, <1>f, <2>1, <4>2
      <4>3. QED BY <4>1, <4>2
    <3>3. QED BY <1>2, <2>1, <3>1, <3>2, FlowSame
  <2>4. QED BY <2>2, <2>3
<1>8. CASE PushOverflows(e)
  <2> DEFINE h == <<e, loop[e].id>>
  <2>1. /\ UNCHANGED <<buf, readCh, sent, net, sess, table>>
        /\ closing' = [closing EXCEPT ![h] = Overflowed(h)]
        /\ \A d \in Ends : d # e => loop'[d] = loop[d]
        /\ loop'[e].pc \in {"read", "close"}
    BY <1>8, <1>t DEF PushOverflows, Loops, Reading
  <2>2. g # h BY <1>0, <1>t, <2>1 DEF Overflowed
  <2>3. End(g) = e => loop[e].id # Id(g) BY <1>f, <2>2
  <2>4. \/ loop'[End(g)] = loop[End(g)]
        \/ /\ loop[End(g)].pc = "push" => loop[End(g)].id # Id(g)
           /\ loop'[End(g)].pc \notin {"push", "register"}
    BY <1>f, <2>1, <2>3
  <2>5. QED BY <1>2, <2>1, <2>4, FlowSame
<1>9. CASE PushPanics(e) \/ ReadFails(e)
  <2>1. /\ UNCHANGED <<buf, readCh, sent, table>>
        /\ \A d \in Ends : d # e => loop'[d] = loop[d] /\ net'[d] = net[d]
                                    /\ sess'[d] = sess[d]
        /\ \/ loop'[e] = loop[e]
           \/ loop[e].pc = "read" /\ loop'[e].pc = "returned"
        /\ sess'[e] # "open"
        /\ net'[e] = <<>> \/ net'[e] = net[e]
    BY <1>9, <1>t DEF PushPanics, ReadFails, ClosesToo, SetClosed, Discard, Loops
  <2>2. CASE End(g) = e /\ net'[e] = <<>>
    BY <1>2, <2>1, <2>2, FlowCut
  <2>3. CASE End(g) # e \/ net'[e] = net[e]
    <3>1. /\ net'[End(g)] = net[End(g)]
          /\ sess'[End(g)] = "open" => sess[End(g)] = "open"
          /\ \/ loop'[End(g)] = loop[End(g)]
             \/ /\ loop[End(g)].pc = "push" => loop[End(g)].id # Id(g)
                /\ loop'[End(g)].pc \notin {"push", "register"}
      BY <1>f, <2>1, <2>3
    <3>2. QED BY <1>2, <2>1, <3>1, FlowSame
  <2>4. QED BY <2>1, <2>2, <2>3
<1>10. QED BY <1>3, <1>4, <1>5, <1>6, <1>7, <1>8, <1>9 DEF ReadLoop

\* The end of a session, and Accept.
LEMMA FlowEnd ==
  ASSUME TypeInv, FlowInv,
         \/ \E e \in Ends : CloseSession(e) \/ Sweep(e)
         \/ Accept \/ AcceptEnds
  PROVE  FlowInv'
PROOF
<1> USE DEF controlVars, userVars, readVars, writeVars, queueVars, streamVars
<1>t. /\ table \in [Ends -> SUBSET Ids] /\ net \in [Ends -> Seq(Frame)]
      /\ sess \in [Ends -> {"open", "closing", "over", "panicked"}]
  BY DEF TypeInv, TypeOK
<1>0. SUFFICES ASSUME NEW g \in Halves, closing'[g] = "no" PROVE Flow(g)'
  BY DEF FlowInv
<1>1. UNCHANGED closing
  BY DEF CloseSession, SetClosed, Sweep, Accept, AcceptEnds
<1>2. Flow(g) BY <1>0, <1>1 DEF FlowInv
<1>f. End(g) \in Ends /\ Id(g) \in Ids BY FrameTypes
<1>3. ASSUME NEW e \in Ends, CloseSession(e) PROVE Flow(g)'
  <2>1. /\ UNCHANGED <<buf, readCh, sent, table, loop>>
        /\ sess' = [sess EXCEPT ![e] = "closing"]
        /\ net' = [net EXCEPT ![e] = <<>>]
    BY <1>3 DEF CloseSession, SetClosed, Discard
  <2>2. CASE End(g) = e
    <3>1. net'[End(g)] = <<>> /\ sess'[End(g)] # "open"
      BY <1>t, <1>f, <2>1, <2>2
    <3>2. QED BY <1>2, <2>1, <3>1, FlowCut
  <2>3. CASE End(g) # e
    <3>1. net'[End(g)] = net[End(g)] /\ sess'[End(g)] = sess[End(g)]
      BY <1>t, <1>f, <2>1, <2>3
    <3>2. QED BY <1>2, <2>1, <3>1, FlowSame
  <2>4. QED BY <2>2, <2>3
<1>4. ASSUME NEW e \in Ends, Sweep(e) PROVE Flow(g)'
  <2>1. /\ UNCHANGED <<buf, readCh, sent, loop, net>>
        /\ sess' = [sess EXCEPT ![e] = "over"]
        /\ table' = [table EXCEPT ![e] = {}]
    BY <1>4 DEF Sweep
  <2>2. /\ Id(g) \in table'[End(g)] => Id(g) \in table[End(g)]
        /\ sess'[End(g)] = "open" => sess[End(g)] = "open"
    BY <1>t, <1>f, <2>1
  <2>3. QED BY <1>2, <2>1, <2>2, FlowSame
<1>5. CASE Accept \/ AcceptEnds
  <2>1. UNCHANGED <<buf, readCh, sent, loop, net, table, sess>>
    BY <1>5 DEF Accept, AcceptEnds
  <2>2. QED BY <1>2, <2>1, FlowSame
<1>6. QED BY <1>3, <1>4, <1>5

\* At first there is no frame, no chunk and no stream.
LEMMA IInit == Init => IInv
PROOF
<1> SUFFICES ASSUME Init PROVE IInv OBVIOUS
<1>1. TypeInv BY TypeInit
<1>2. 1..Len(<<>>) = {} /\ Len(<<>>) = 0 OBVIOUS
<1>3. \A h \in Halves : ~writing[h] /\ sent[h] = 0 /\ use[h] = "none"
                        /\ buf[h] = <<>> /\ readCh[h] = <<>>
  BY DEF Init
<1>4. \A e \in Ends : net[e] = <<>> /\ loop[e] = Reading BY DEF Init
<1>5. acceptCh = <<>> BY DEF Init
<1>6. HeldInv
  <2>1. \A i \in Ids : ~Seen(i)
    <3> SUFFICES ASSUME NEW i \in Ids PROVE ~Seen(i) OBVIOUS
    <3>1. use[<<"client", i>>] = "none" BY <1>3, HalvesOf
    <3>2. \A e \in Ends : Len(net[e]) = 0 /\ loop[e].pc = "read"
      BY <1>2, <1>4 DEF Reading
    <3>3. Len(acceptCh) = 0 BY <1>2, <1>5
    <3>4. QED BY <3>1, <3>2, <3>3 DEF Seen
  <2>2. \A h \in Halves : ~(sent[h] > 0) BY <1>3
  <2>3. QED BY <1>3, <2>1, <2>2, HalvesOf DEF HeldInv
<1>7. FlowInv
  <2> SUFFICES ASSUME NEW h \in Halves PROVE Flow(h) BY DEF FlowInv
  <2>1. End(h) \in Ends /\ Far(h) \in Halves BY FrameTypes
  <2>2. FlowOf(<<>>, <<>>, Reading, <<>>, 0, table[End(h)], sess[End(h)], Id(h))
    <3>1. Reached(<<>>, <<>>, Reading, Id(h)) = 0 BY <1>2 DEF Reached, Reading
    <3>2. \A c \in Nat : ~(0 < c /\ c <= 0) OBVIOUS
    <3>3. Reading.pc # "push" BY DEF Reading
    <3>4. QED BY <1>2, <3>1, <3>2, <3>3 DEF FlowOf
  <2>3. QED BY <1>3, <1>4, <2>1, <2>2 DEF Flow
<1>8. QED BY <1>1, <1>6, <1>7 DEF IInv

\* Every step keeps it.
LEMMA INext == IInv /\ [Next]_vars => IInv'
PROOF
<1> SUFFICES ASSUME IInv, [Next]_vars PROVE IInv' OBVIOUS
<1>1. TypeInv /\ HeldInv /\ FlowInv BY DEF IInv
<1>2. TypeInv' BY <1>1, TypeNext
<1>3. CASE UNCHANGED vars
  <2>1. HeldInv' BY <1>1, <1>3 DEF vars, streamVars, HeldInv, Seen
  <2>2. FlowInv' BY <1>1, <1>3 DEF vars, streamVars, FlowInv, Flow
  <2>3. QED BY <1>2, <2>1, <2>2 DEF IInv
<1>4. CASE Next
  <2>1. HeldInv' BY <1>1, <1>4, HeldStream, HeldLoop, HeldEnd DEF Next
  <2>2. FlowInv' BY <1>1, <1>4, FlowStream, FlowLoop, FlowEnd DEF Next
  <2>3. QED BY <1>2, <2>1, <2>2 DEF IInv
<1>5. QED BY <1>3, <1>4

\* What has come is the beginning of what was written.
LEMMA FlowInOrder == IInv => InOrder
PROOF
<1> SUFFICES ASSUME IInv, NEW h \in Halves, closing[h] = "no",
                    NEW k \in 1..Len(Received(h))
             PROVE  Received(h)[k] = k /\ k <= sent[Far(h)]
  BY DEF InOrder
<1> DEFINE b == buf[h]
           r == readCh[h]
<1>1. b \in Seq(Nat) /\ r \in Seq(Nat) /\ sent[Far(h)] \in Nat
  BY FrameTypes DEF IInv, TypeInv, TypeOK
<1>2. Len(b) \in Nat /\ Len(r) \in Nat /\ Len(b \o r) = Len(b) + Len(r)
  BY <1>1, ConcatProperties, LenProperties
<1>3. k \in 1..(Len(b) + Len(r))
  <2>1. k \in 1..Len(b \o r) BY DEF Received
  <2>2. QED BY <1>2, <2>1
<1>v. (b \o r)[k] = IF k <= Len(b) THEN b[k] ELSE r[k - Len(b)]
  BY <1>1, <1>3, ConcatProperties
<1>4. /\ \A n \in 1..Len(b) : b[n] = n
      /\ \A n \in 1..Len(r) : r[n] = Len(b) + n
      /\ Reached(b, r, loop[End(h)], Id(h)) <= sent[Far(h)]
  BY DEF IInv, FlowInv, Flow, FlowOf
<1> HIDE DEF b, r
<1>5. Len(b) + Len(r) <= sent[Far(h)]
  <2>1. \/ Reached(b, r, loop[End(h)], Id(h)) = Len(b) + Len(r)
        \/ Reached(b, r, loop[End(h)], Id(h)) = Len(b) + Len(r) + 1
    BY <1>2 DEF Reached
  <2>2. QED BY <1>1, <1>2, <1>4, <2>1
<1>6. k <= sent[Far(h)] BY <1>1, <1>2, <1>3, <1>5
<1>7. (b \o r)[k] = k
  <2>1. CASE k <= Len(b) BY <1>2, <1>3, <1>4, <1>v, <2>1
  <2>2. CASE ~(k <= Len(b))
    <3>1. k - Len(b) \in 1..Len(r) BY <1>2, <1>3, <2>2
    <3>2. r[k - Len(b)] = Len(b) + (k - Len(b)) BY <1>4, <3>1
    <3>3. QED BY <1>2, <1>3, <1>v, <2>2, <3>2
  <2>3. QED BY <2>1, <2>2
<1>8. QED BY <1>6, <1>7 DEF Received, b, r

\* Until its user closes it, a stream delivers what the other end wrote in order
\* and without a gap, for every number of streams, every capacity of readCh,
\* acceptCh and the connection, and wherever the session ends.
THEOREM ChunksInOrder == Spec => []InOrder
PROOF
<1>1. QED BY IInit, INext, FlowInOrder, PTL DEF Spec

-----------------------------------------------------------------------------
(***************************************************************************)
(* The stages of a stream, from its OPEN frame to its two CLOSE frames.    *)
(***************************************************************************)

CloseFor(f, i) == f.type = "close" /\ f.id = i

\* What a queue holds of stream i; its OPEN frame is the first of them.
Frames(q, i) == \E p \in 1..Len(q) : q[p].id = i
Opens(q, i) == \E p \in 1..Len(q) : OpenFor(q[p], i)
Closes(q, i) == \E p \in 1..Len(q) : CloseFor(q[p], i)
OpenFirst(q, i) ==
  \A p, n \in 1..Len(q) : OpenFor(q[p], i) /\ q[n].id = i => p <= n

\* A frame is written.
LEMMA FramesAppended ==
  ASSUME NEW q \in Seq(Frame), NEW f \in Frame, NEW i
  PROVE  LET q2 == Append(q, f) IN
         /\ Frames(q2, i) <=> Frames(q, i) \/ f.id = i
         /\ Opens(q2, i) <=> Opens(q, i) \/ OpenFor(f, i)
         /\ Closes(q2, i) <=> Closes(q, i) \/ CloseFor(f, i)
         /\ OpenFirst(q, i) /\ (OpenFor(f, i) => ~Frames(q, i)) => OpenFirst(q2, i)
PROOF
<1> DEFINE q2 == Append(q, f)
<1>1. /\ Len(q) \in Nat /\ Len(q2) = Len(q) + 1
      /\ \A p \in 1..Len(q) : q2[p] = q[p] /\ p \in 1..Len(q2)
      /\ q2[Len(q) + 1] = f /\ Len(q) + 1 \in 1..Len(q2)
      /\ \A p \in 1..Len(q2) : p \in 1..Len(q) \/ p = Len(q) + 1
  BY Appended
<1> HIDE DEF q2
<1>2. Frames(q2, i) <=> Frames(q, i) \/ f.id = i BY <1>1 DEF Frames
<1>3. Opens(q2, i) <=> Opens(q, i) \/ OpenFor(f, i) BY <1>1 DEF Opens
<1>4. Closes(q2, i) <=> Closes(q, i) \/ CloseFor(f, i) BY <1>1 DEF Closes
<1>5. ASSUME OpenFirst(q, i), OpenFor(f, i) => ~Frames(q, i) PROVE OpenFirst(q2, i)
  <2> SUFFICES ASSUME NEW p \in 1..Len(q2), NEW n \in 1..Len(q2),
                      OpenFor(q2[p], i), q2[n].id = i
               PROVE  p <= n
    BY DEF OpenFirst
  <2>1. CASE p \in 1..Len(q)
    <3>1. CASE n \in 1..Len(q) BY <1>1, <1>5, <2>1, <3>1 DEF OpenFirst
    <3>2. CASE n = Len(q) + 1 BY <1>1, <2>1, <3>2
    <3>3. QED BY <1>1, <3>1, <3>2
  <2>2. CASE p = Len(q) + 1
    <3>1. ~Frames(q, i) BY <1>1, <1>5, <2>2
    <3>2. n = Len(q) + 1 BY <1>1, <3>1 DEF Frames
    <3>3. QED BY <1>1, <2>2, <3>2
  <2>3. QED BY <1>1, <2>1, <2>2
<1>6. QED BY <1>2, <1>3, <1>4, <1>5 DEF q2

\* A frame is read.
LEMMA FramesRead ==
  ASSUME NEW q \in Seq(Frame), q # <<>>, NEW i
  PROVE  LET q2 == Tail(q)  f == Head(q) IN
         /\ Frames(q, i) <=> Frames(q2, i) \/ f.id = i
         /\ Opens(q, i) <=> Opens(q2, i) \/ OpenFor(f, i)
         /\ Closes(q, i) <=> Closes(q2, i) \/ CloseFor(f, i)
         /\ OpenFirst(q, i) => OpenFirst(q2, i)
         /\ OpenFirst(q, i) /\ f.id = i => ~Opens(q2, i)
PROOF
<1> DEFINE q2 == Tail(q)
           f == Head(q)
<1>1. /\ Len(q) \in Nat /\ f = q[1] /\ Len(q2) = Len(q) - 1 /\ 1 \in 1..Len(q)
      /\ \A p \in 1..Len(q2) : q2[p] = q[p + 1] /\ p + 1 \in 1..Len(q)
      /\ \A p \in 1..Len(q) : p = 1 \/ (p - 1 \in 1..Len(q2) /\ q2[p - 1] = q[p])
  BY Shortened
<1> HIDE DEF q2, f
<1>2. Frames(q, i) <=> Frames(q2, i) \/ f.id = i BY <1>1 DEF Frames
<1>3. Opens(q, i) <=> Opens(q2, i) \/ OpenFor(f, i) BY <1>1 DEF Opens
<1>4. Closes(q, i) <=> Closes(q2, i) \/ CloseFor(f, i) BY <1>1 DEF Closes
<1>5. ASSUME OpenFirst(q, i) PROVE OpenFirst(q2, i)
  <2> SUFFICES ASSUME NEW p \in 1..Len(q2), NEW n \in 1..Len(q2),
                      OpenFor(q2[p], i), q2[n].id = i
               PROVE  p <= n
    BY DEF OpenFirst
  <2>1. p + 1 <= n + 1 BY <1>1, <1>5 DEF OpenFirst
  <2>2. QED BY <1>1, <2>1
<1>6. ASSUME OpenFirst(q, i), f.id = i PROVE ~Opens(q2, i)
  <2> SUFFICES ASSUME NEW p \in 1..Len(q2), OpenFor(q2[p], i) PROVE FALSE
    BY DEF Opens
  <2>1. p + 1 <= 1 BY <1>1, <1>6 DEF OpenFirst
  <2>2. QED BY <1>1, <2>1
<1>7. QED BY <1>2, <1>3, <1>4, <1>5, <1>6 DEF q2, f

\* The read loop is busy with stream i.
Busy(e, i) == loop[e].pc \notin {"read", "returned"} /\ loop[e].id = i

\* Something is there that tells of stream i.
Known(i) ==
  \/ i \in table["client"]
  \/ \E e \in Ends :
       Busy(e, i) \/ closing[<<e, i>>] # "no" \/ Frames(net[e], i)

\* The client has still to offer stream i to Accept.
Opening(i) ==
  \/ Opens(net["client"], i)
  \/ loop["client"].pc \in {"register", "accept"} /\ loop["client"].id = i

Waits(i) == \E n \in 1..Len(acceptCh) : acceptCh[n] = i

BothOpen == \A e \in Ends : sess[e] = "open"

DueAt(e, i) == Due(loop[e], net[e], table[e], i)

\* One end of stream i: who has removed it does not have it again; who does not
\* have it has removed it, or the far end has closed it; and if that has, the CLOSE
\* frame is on its way to an end that still has it.
EndStage(e, i) ==
  /\ closing[<<e, i>>] \in {"tell", "done"} => i \notin table[e]
  /\ Closes(net[e], i) => closing[<<Peer(e), i>>] = "done"
  /\ BothOpen /\ use[<<"server", i>>] = "held"
       /\ closing[<<e, i>>] \in {"no", "remove"} /\ ~DueAt(e, i)
       => closing[<<Peer(e), i>>] = "done"
  /\ BothOpen /\ closing[<<Peer(e), i>>] = "done" /\ DueAt(e, i)
       => Closes(net[e], i)

\* The server alone opens a stream, once, and nobody hears of it before.
StageOf(i) ==
  /\ Known(i) => use[<<"server", i>>] = "held"
  /\ ~Opens(net["server"], i)
  /\ OpenFirst(net["client"], i)
  /\ Opens(net["client"], i) => i \notin table["client"] /\ ~Busy("client", i)
  /\ Opening(i) => /\ use[<<"client", i>>] = "none" /\ closing[<<"client", i>>] = "no"
                   /\ ~Waits(i)
  /\ i \in table["server"] => use[<<"server", i>>] \in {"announce", "held"}
  /\ use[<<"server", i>>] = "announce" /\ sess["server"] = "open" =>
       i \in table["server"]
  /\ \A e \in Ends : EndStage(e, i)

StageInv ==
  /\ loop["server"].pc \notin {"register", "accept"}
  /\ \A i \in Ids : StageOf(i)

\* A step on a queue that writes nothing of stream i but data of a stream that is
\* open, and reads nothing of it.
FramesMove(q, q2, i) ==
  \/ q2 = q
  \/ \E f \in Frame : /\ q2 = Append(q, f)
                      /\ f.id = i => f.type = "data" /\ use[<<"server", i>>] = "held"
  \/ q # <<>> /\ Head(q).id # i /\ q2 = Tail(q)

\* A step of a loop that neither leaves nor takes up stream i.
LoopMoves(l, l2, i) ==
  \/ l2 = l
  \/ /\ l.pc \in {"register", "accept"} => l.id # i
     /\ l2.pc \notin {"read", "returned"} => l2.id # i

\* The stages of stream i stay in a step that is about other streams, or that only
\* ends a session.
LEMMA StageSame ==
  ASSUME TypeInv, NEW i \in Ids, StageOf(i),
         \A e \in Ends :
           /\ use'[<<e, i>>] = use[<<e, i>>] /\ closing'[<<e, i>>] = closing[<<e, i>>]
           /\ i \in table'[e] => i \in table[e]
           /\ sess'[e] = "open" => sess[e] = "open" /\ (i \in table[e] => i \in table'[e])
           /\ LoopMoves(loop[e], loop'[e], i)
           /\ \/ FramesMove(net[e], net'[e], i)
              \/ net'[e] = <<>> /\ sess'[e] # "open",
         Waits(i)' => Waits(i)
  PROVE  StageOf(i)'
PROOF
<1> DEFINE s == <<"server", i>>
<1>0. "server" \in Ends /\ "client" \in Ends /\ \A e \in Ends : Peer(e) \in Ends
  BY DEF Ends, Peer
<1> DEFINE Kept(e) ==
             /\ Frames(net'[e], i) => Frames(net[e], i) \/ use[s] = "held"
             /\ Opens(net'[e], i) => Opens(net[e], i)
             /\ Closes(net'[e], i) => Closes(net[e], i)
             /\ OpenFirst(net[e], i) => OpenFirst(net'[e], i)
             /\ sess'[e] = "open" => (Opens(net'[e], i) <=> Opens(net[e], i))
             /\ sess'[e] = "open" => (Closes(net'[e], i) <=> Closes(net[e], i))
<1>1. ASSUME NEW e \in Ends PROVE Kept(e)
  <2>t. net[e] \in Seq(Frame) BY DEF TypeInv, TypeOK
  <2>1. CASE net'[e] = net[e] BY <2>1
  <2>2. CASE net'[e] = <<>> /\ sess'[e] # "open"
    <3>1. 1..Len(<<>>) = {} OBVIOUS
    <3>2. QED BY <2>2, <3>1 DEF Frames, Opens, Closes, OpenFirst
  <2>3. ASSUME NEW f \in Frame, net'[e] = Append(net[e], f),
               f.id = i => f.type = "data" /\ use[s] = "held"
        PROVE  Kept(e)
    <3>1. ~OpenFor(f, i) /\ ~CloseFor(f, i) BY <2>3 DEF OpenFor, CloseFor
    <3>2. QED BY <2>t, <2>3, <3>1, FramesAppended
  <2>4. CASE net[e] # <<>> /\ Head(net[e]).id # i /\ net'[e] = Tail(net[e])
    <3>1. ~OpenFor(Head(net[e]), i) /\ ~CloseFor(Head(net[e]), i)
      BY <2>4 DEF OpenFor, CloseFor
    <3>2. QED BY <2>t, <2>4, <3>1, FramesRead
  <2>5. QED BY <2>1, <2>2, <2>3, <2>4 DEF FramesMove
<1>2. \A e \in Ends :
        /\ Busy(e, i)' => Busy(e, i)
        /\ \A pc \in {"register", "accept"} :
             loop'[e].pc = pc /\ loop'[e].id = i <=> loop[e].pc = pc /\ loop[e].id = i
  BY DEF LoopMoves, Busy
<1>3. BothOpen' => BothOpen BY DEF BothOpen
<1>4. \A e \in Ends : DueAt(e, i)' => DueAt(e, i)
  BY <1>1, <1>2 DEF DueAt, Due, Opens
<1>5. BothOpen' => \A e \in Ends : DueAt(e, i) => DueAt(e, i)'
  BY <1>1, <1>2 DEF DueAt, Due, Opens, BothOpen
<1>6. Known(i)' => Known(i) \/ use[s] = "held" BY <1>0, <1>1, <1>2 DEF Known
<1>7. Opening(i)' => Opening(i) BY <1>0, <1>1, <1>2 DEF Opening
<1>8. ASSUME NEW e \in Ends PROVE EndStage(e, i)'
  <2>1. EndStage(e, i) BY DEF StageOf
  <2>2. BothOpen' => (Closes(net[e], i) => Closes(net'[e], i))
    BY <1>1 DEF BothOpen
  <2>3. closing'[<<Peer(e), i>>] = closing[<<Peer(e), i>>] /\ use'[s] = use[s]
    BY <1>0
  <2>4. QED BY <1>1, <1>3, <1>4, <1>5, <2>1, <2>2, <2>3 DEF EndStage
<1>9. QED BY <1>0, <1>1, <1>2, <1>6, <1>7, <1>8 DEF StageOf

\* A step that leaves all but the users' own state.
LEMMA StageKept ==
  ASSUME TypeInv, StageInv, UNCHANGED <<sess, net, loop, table, acceptCh, use, closing>>
  PROVE  StageInv'
PROOF
<1>1. StageInv' <=> StageInv
  BY DEF StageInv, StageOf, EndStage, Known, Busy, Opening, Waits, BothOpen, DueAt
<1>2. QED BY <1>1

\* The types the stages rest on.
LEMMA StageTypes ==
  ASSUME TypeInv
  PROVE  /\ sess \in [Ends -> {"open", "closing", "over", "panicked"}]
         /\ net \in [Ends -> Seq(Frame)]
         /\ loop \in [Ends -> Loops]
         /\ table \in [Ends -> SUBSET Ids]
         /\ use \in [Halves -> {"none", "register", "announce", "held"}]
         /\ closing \in [Halves -> {"no", "remove", "tell", "done"}]
PROOF BY DEF TypeInv, TypeOK

\* The ends, and a half that is not one of stream i.
LEMMA EndTypes ==
  /\ "server" \in Ends /\ "client" \in Ends /\ "server" # "client"
  /\ Peer("server") = "client" /\ Peer("client") = "server"
  /\ \A e \in Ends : Peer(e) \in Ends /\ Peer(e) # e /\ Peer(Peer(e)) = e
                     /\ (e = "server" \/ e = "client")
  /\ \A e \in Ends, i \in Ids : <<e, i>> \in Halves /\ End(<<e, i>>) = e /\ Id(<<e, i>>) = i
                                /\ Far(<<e, i>>) = <<Peer(e), i>>
  /\ \A d, e \in Ends : (d = "server" /\ e = "server") \/ (d = "client" /\ e = "client")
                        \/ (d = Peer(e) /\ e = Peer(d) /\ d # e)
PROOF BY DEF Ends, Peer, Halves, End, Id, Far

\* The client hears of a stream only from its OPEN frame.
LEMMA Unheard ==
  ASSUME TypeInv, HeldInv, StageInv, NEW i \in Ids, use[<<"server", i>>] # "held"
  PROVE  /\ ~Known(i) /\ ~Opening(i) /\ ~Waits(i) /\ ~Seen(i)
         /\ use[<<"client", i>>] = "none"
         /\ \A e \in Ends : /\ closing[<<e, i>>] = "no" /\ ~Busy(e, i)
                            /\ ~Frames(net[e], i) /\ ~Opens(net[e], i)
                            /\ ~Closes(net[e], i)
         /\ i \notin table["client"]
PROOF
<1>1. ~Known(i) BY DEF StageInv, StageOf
<1>2. ~Seen(i) BY DEF HeldInv
<1>3. ~Waits(i) BY <1>2 DEF Seen, Waits
<1>4. use[<<"client", i>>] = "none" BY <1>2 DEF Seen, HeldInv
<1>5. \A e \in Ends : /\ closing[<<e, i>>] = "no" /\ ~Busy(e, i)
                      /\ ~Frames(net[e], i)
  BY <1>1 DEF Known
<1>6. \A e \in Ends : ~Opens(net[e], i) /\ ~Closes(net[e], i)
  BY <1>5 DEF Frames, Opens, Closes, OpenFor, CloseFor
<1>7. ~Opening(i) BY <1>5, <1>6, EndTypes DEF Opening, Busy
<1>8. QED BY <1>1, <1>2, <1>3, <1>4, <1>5, <1>6, <1>7 DEF Known

\* OpenStream.
LEMMA StageOpen ==
  ASSUME TypeInv, HeldInv, StageInv, NEW h \in Halves,
         OpenStream(h) \/ RegisterStream(h) \/ AnnounceStream(h),
         NEW i \in Ids
  PROVE  StageOf(i)'
PROOF
<1> USE EndTypes DEF controlVars, userVars, readVars, writeVars, queueVars
<1>t. /\ sess \in [Ends -> {"open", "closing", "over", "panicked"}]
      /\ net \in [Ends -> Seq(Frame)]
      /\ table \in [Ends -> SUBSET Ids]
      /\ use \in [Halves -> {"none", "register", "announce", "held"}]
  BY StageTypes
<1>s. StageOf(i) BY DEF StageInv
<1> DEFINE j == Id(h)
<1>j. j \in Ids /\ h \in Halves BY HalfOf
<1>o. OpenStream(h) => use[h] = "none" /\ h = <<"server", j>>
  <2>1. opened \in Nat BY BoundsAssumption DEF TypeInv, TypeOK
  <2>2. QED BY <1>j, <2>1, HalfOf DEF OpenStream, HeldInv
<1>1. use[h] # "held" /\ h = <<"server", j>>
  <2>1. CASE OpenStream(h) BY <2>1, <1>o
  <2>2. CASE RegisterStream(h) \/ AnnounceStream(h)
    BY <2>2, HalfOf DEF RegisterStream, AnnounceStream, HeldInv
  <2>3. QED BY <2>1, <2>2
<1>2. UNCHANGED <<sess, loop, acceptCh, closing>>
  BY DEF OpenStream, RegisterStream, AnnounceStream
<1>3. ASSUME i # j PROVE StageOf(i)'
  <2>1. \A e \in Ends : use'[<<e, i>>] = use[<<e, i>>]
    BY <1>t, <1>1, <1>3 DEF OpenStream, RegisterStream, AnnounceStream
  <2>2. \A e \in Ends : i \in table'[e] <=> i \in table[e]
    BY <1>t, <1>1, <1>3 DEF OpenStream, RegisterStream, AnnounceStream
  <2>3. \A e \in Ends : FramesMove(net[e], net'[e], i)
    <3>1. Open(h) \in Frame /\ Open(h).id # i BY <1>3, FrameTypes DEF Open
    <3>2. \A e \in Ends : net'[e] = net[e] \/ net'[e] = Append(net[e], Open(h))
      BY <1>t DEF OpenStream, RegisterStream, AnnounceStream, Written, WriteFails
    <3>3. QED BY <3>1, <3>2 DEF FramesMove
  <2>4. QED BY <1>s, <1>2, <2>1, <2>2, <2>3, StageSame DEF LoopMoves, Waits
<1>4. ASSUME i = j PROVE StageOf(i)'
  <2> DEFINE s == <<"server", i>>
             c == <<"client", i>>
  <2>0. h = s /\ s # c /\ s \in Halves /\ c \in Halves BY <1>1, <1>4, HalvesOf
  <2>1. /\ ~Known(i) /\ ~Opening(i) /\ ~Waits(i) /\ use[c] = "none"
        /\ \A e \in Ends : /\ closing[<<e, i>>] = "no" /\ ~Busy(e, i)
                           /\ ~Frames(net[e], i) /\ ~Opens(net[e], i)
                           /\ ~Closes(net[e], i)
        /\ i \notin table["client"]
    BY <1>1, <1>4, Unheard
  <2>2. \A e \in Ends : closing'[<<e, i>>] = "no" /\ ~Busy(e, i)' /\ ~Waits(i)'
    BY <1>2, <2>1 DEF Busy, Waits
  <2>3. use'[c] = "none" /\ i \notin table'["client"]
    BY <1>t, <2>0, <2>1 DEF OpenStream, RegisterStream, AnnounceStream
  <2>4. \A e \in Ends : ~(closing'[<<Peer(e), i>>] \in {"tell", "done"})
    BY <2>2
  <2>5. ASSUME net' = net,
               \/ use'[s] = "register" /\ (i \in table'["server"] => i \in table["server"])
                    /\ use[s] = "none"
               \/ use'[s] = "announce" /\ i \in table'["server"]
               \/ use'[s] = "none" /\ i \notin table'["server"]
        PROVE  StageOf(i)'
    <3>1. \A e \in Ends : /\ ~Frames(net'[e], i) /\ ~Opens(net'[e], i)
                          /\ ~Closes(net'[e], i)
      BY <2>1, <2>5
    <3>2. OpenFirst(net["client"], i)' BY <1>s, <2>5 DEF StageOf
    <3>3. ~Known(i)' /\ ~Opening(i)'
      BY <2>1, <2>2, <2>3, <3>1, <1>2 DEF Known, Opening, Busy
    <3>4. \A e \in Ends : EndStage(e, i)' BY <2>2, <2>5, <3>1 DEF EndStage
    <3>5. i \in table'["server"] => use'[s] \in {"announce", "held"}
      BY <1>s, <2>5 DEF StageOf
    <3>6. use'[s] = "announce" => i \in table'["server"] BY <2>5
    <3>7. QED BY <2>3, <3>1, <3>2, <3>3, <3>4, <3>5, <3>6 DEF StageOf
  <2>6. CASE OpenStream(h)
    <3>1. /\ net' = net /\ table' = table /\ use[s] = "none" /\ use'[s] = "register"
      BY <1>t, <1>o, <2>0, <2>6 DEF OpenStream
    <3>2. QED BY <2>5, <3>1
  <2>7. CASE RegisterStream(h)
    <3>1. net' = net /\ use'[s] = "announce" /\ i \in table'["server"]
      BY <1>t, <1>4, <2>0, <2>7 DEF RegisterStream
    <3>2. QED BY <2>5, <3>1
  <2>8. CASE AnnounceStream(h) /\ WriteFails("server") /\ use' = [use EXCEPT ![h] = "none"]
             /\ table' = [table EXCEPT !["server"] = @ \ {Id(h)}]
    <3>1. net' = net /\ use'[s] = "none" /\ i \notin table'["server"]
      BY <1>t, <1>4, <2>0, <2>8 DEF WriteFails
    <3>2. QED BY <2>5, <3>1
  <2>9. CASE AnnounceStream(h) /\ Written("server", Open(h))
             /\ use' = [use EXCEPT ![h] = "held"] /\ table' = table
    <3>1. use'[s] = "held" /\ use[s] = "announce"
      BY <1>t, <2>0, <2>9 DEF AnnounceStream
    <3>2. /\ Open(h) \in Frame /\ Open(h).id = i /\ OpenFor(Open(h), i)
          /\ ~CloseFor(Open(h), i)
      BY <1>4, FrameTypes DEF Open, OpenFor, CloseFor
    <3>3. /\ sess["server"] = "open"
          /\ net'["server"] = net["server"]
          /\ \/ net'["client"] = net["client"] /\ sess["client"] # "open"
             \/ net'["client"] = Append(net["client"], Open(h))
      BY <1>t, <2>9 DEF Written
    <3>4. OpenFirst(net["client"], i) /\ i \in table["server"]
      BY <1>s, <3>1, <3>3 DEF StageOf
    <3>5. /\ OpenFirst(net'["client"], i)
          /\ ~Closes(net'["client"], i) /\ ~Closes(net'["server"], i)
          /\ ~Opens(net'["server"], i)
          /\ sess["client"] = "open" => Opens(net'["client"], i)
      <4>1. CASE net'["client"] = net["client"] /\ sess["client"] # "open"
        BY <2>1, <3>3, <3>4, <4>1
      <4>2. CASE net'["client"] = Append(net["client"], Open(h))
        <5> DEFINE q == net["client"]
        <5>1. q \in Seq(Frame) /\ OpenFirst(q, i) /\ ~Frames(q, i) /\ ~Closes(q, i)
          BY <1>t, <2>1, <3>4
        <5> HIDE DEF q
        <5>2. /\ OpenFirst(Append(q, Open(h)), i) /\ Opens(Append(q, Open(h)), i)
              /\ ~Closes(Append(q, Open(h)), i)
          BY <3>2, <5>1, FramesAppended
        <5>3. QED BY <2>1, <3>3, <4>2, <5>2 DEF q
      <4>3. QED BY <3>3, <4>1, <4>2
    <3>6. BothOpen' => \A e \in Ends : DueAt(e, i)'
      BY <1>2, <2>9, <3>4, <3>5 DEF BothOpen, DueAt, Due, Opens
    <3>7. \A e \in Ends : EndStage(e, i)' BY <2>2, <3>5, <3>6 DEF EndStage
    <3>8. QED BY <2>2, <2>3, <3>1, <3>5, <3>7 DEF StageOf
  <2>10. QED BY <2>6, <2>7, <2>8, <2>9 DEF AnnounceStream
<1>5. QED BY <1>3, <1>4

\* Whoever holds an end of a stream, or has closed one, knows that it is open.
LEMMA HeldKnown ==
  ASSUME TypeInv, HeldInv, StageInv, NEW h \in Halves,
         use[h] = "held" \/ writing[h] \/ closing[h] # "no"
  PROVE  use[<<"server", Id(h)>>] = "held"
PROOF
<1>1. Id(h) \in Ids /\ (h = <<"server", Id(h)>> \/ h = <<"client", Id(h)>>)
  BY HalfOf
<1>2. CASE closing[h] # "no"
  <2>1. Known(Id(h)) BY <1>1, <1>2, EndTypes DEF Known
  <2>2. QED BY <1>1, <2>1 DEF StageInv, StageOf
<1>3. CASE use[h] = "held" \/ writing[h]
  <2>1. use[h] = "held" BY <1>3 DEF HeldInv
  <2>2. h = <<"client", Id(h)>> => Seen(Id(h)) BY <2>1 DEF Seen
  <2>3. QED BY <1>1, <2>1, <2>2 DEF HeldInv
<1>4. QED BY <1>2, <1>3

\* Close of a stream by its user.
LEMMA StageClose ==
  ASSUME TypeInv, HeldInv, StageInv, NEW h \in Halves,
         CloseStream(h) \/ CloseRemove(h) \/ CloseTell(h),
         NEW i \in Ids
  PROVE  StageOf(i)'
PROOF
<1> USE EndTypes DEF controlVars, userVars, readVars, writeVars, queueVars
<1>t. /\ sess \in [Ends -> {"open", "closing", "over", "panicked"}]
      /\ net \in [Ends -> Seq(Frame)]
      /\ table \in [Ends -> SUBSET Ids]
      /\ use \in [Halves -> {"none", "register", "announce", "held"}]
      /\ closing \in [Halves -> {"no", "remove", "tell", "done"}]
  BY StageTypes
<1>s. StageOf(i) BY DEF StageInv
<1> DEFINE j == Id(h)
           d == End(h)
<1>1. j \in Ids /\ d \in Ends /\ h = <<d, j>> BY FrameTypes
<1>2. UNCHANGED <<sess, loop, acceptCh, use>>
  BY DEF CloseStream, CloseRemove, CloseTell
<1>3. Close(h) \in Frame /\ Close(h).id = j /\ CloseFor(Close(h), j)
      /\ ~OpenFor(Close(h), j) /\ Close(h).type # "open"
  BY FrameTypes DEF Close, CloseFor, OpenFor
<1> HIDE DEF d, j
<1>4. ASSUME i # j PROVE StageOf(i)'
  <2>1. \A e \in Ends : closing'[<<e, i>>] = closing[<<e, i>>]
    BY <1>t, <1>1, <1>4 DEF CloseStream, CloseRemove, CloseTell
  <2>2. \A e \in Ends : i \in table'[e] <=> i \in table[e]
    <3>1. CASE CloseStream(h) \/ CloseTell(h)
      BY <3>1 DEF CloseStream, CloseTell
    <3>2. CASE CloseRemove(h) BY <1>t, <1>1, <1>4, <3>2 DEF CloseRemove, j, d
    <3>3. QED BY <3>1, <3>2
  <2>3. \A e \in Ends : FramesMove(net[e], net'[e], i)
    <3>1. \A e \in Ends : net'[e] = net[e] \/ net'[e] = Append(net[e], Close(h))
      BY <1>t DEF CloseStream, CloseRemove, CloseTell, CloseSaid, Written, WriteFails
    <3>2. QED BY <1>3, <1>4, <3>1 DEF FramesMove
  <2>4. QED BY <1>s, <1>2, <2>1, <2>2, <2>3, StageSame DEF LoopMoves, Waits
<1>5. ASSUME i = j PROVE StageOf(i)'
  <2>1. /\ h = <<d, i>> /\ h \in Halves
        /\ \A e \in Ends : <<e, i>> \in Halves /\ (e # d => <<e, i>> # h)
    BY <1>1, <1>5
  <2>2. use[<<"server", i>>] = "held"
    BY <1>5, HeldKnown DEF CloseStream, CloseRemove, CloseTell, j
  <2>3. d = "client" => ~Opening(i) /\ ~Opens(net["client"], i)
    <3>1. use[h] = "held" \/ closing[h] # "no"
      BY DEF CloseStream, CloseRemove, CloseTell
    <3>2. QED BY <1>s, <2>1, <3>1 DEF StageOf, Opening
  <2>4. CASE CloseStream(h)
    <3>1. /\ net' = net /\ table' = table /\ closing[h] = "no" /\ closing'[h] = "remove"
          /\ \A e \in Ends : e # d => closing'[<<e, i>>] = closing[<<e, i>>]
      BY <1>t, <2>1, <2>4 DEF CloseStream
    <3>2. \A e \in Ends : EndStage(e, i)'
      <4> SUFFICES ASSUME NEW e \in Ends PROVE EndStage(e, i)' OBVIOUS
      <4>1. EndStage(e, i) BY <1>s DEF StageOf
      <4>2. /\ closing[<<e, i>>] \in {"no", "remove"} <=> closing'[<<e, i>>] \in {"no", "remove"}
            /\ closing'[<<e, i>>] \in {"tell", "done"} => closing[<<e, i>>] \in {"tell", "done"}
            /\ closing[<<Peer(e), i>>] = "done" <=> closing'[<<Peer(e), i>>] = "done"
        BY <1>1, <2>1, <3>1
      <4>3. QED BY <1>2, <3>1, <4>1, <4>2 DEF EndStage, BothOpen, DueAt
    <3>3. Opening(i)' <=> Opening(i) BY <1>2, <3>1 DEF Opening
    <3>4. QED
      BY <1>s, <1>2, <1>1, <2>1, <2>2, <2>3, <3>1, <3>2, <3>3 DEF StageOf, Busy, Waits
  <2>5. CASE CloseRemove(h)
    <3>1. /\ net' = net /\ closing[h] = "remove" /\ closing'[h] = "tell"
          /\ \A e \in Ends : e # d => /\ closing'[<<e, i>>] = closing[<<e, i>>]
                                      /\ (i \in table'[e] <=> i \in table[e])
          /\ i \notin table'[d]
      BY <1>t, <1>1, <1>5, <2>1, <2>5 DEF CloseRemove, j, d
    <3>2. \A e \in Ends : i \in table'[e] => i \in table[e] BY <1>1, <3>1
    <3>3. \A e \in Ends : EndStage(e, i)'
      <4> SUFFICES ASSUME NEW e \in Ends PROVE EndStage(e, i)' OBVIOUS
      <4>1. EndStage(e, i) BY <1>s DEF StageOf
      <4>2. /\ closing'[<<e, i>>] \in {"tell", "done"} => i \notin table'[e]
            /\ closing[<<Peer(e), i>>] = "done" <=> closing'[<<Peer(e), i>>] = "done"
        BY <1>1, <2>1, <3>1, <4>1 DEF EndStage
      <4>3. e # d => /\ DueAt(e, i)' <=> DueAt(e, i)
                     /\ closing'[<<e, i>>] = closing[<<e, i>>]
        BY <1>2, <3>1 DEF DueAt, Due
      <4>4. DueAt(e, i)' => DueAt(e, i)
        BY <1>2, <3>1, <3>2 DEF DueAt, Due
      <4>5. e = d => closing'[<<e, i>>] = "tell" BY <2>1, <3>1
      <4>6. QED
        BY <1>2, <3>1, <4>1, <4>2, <4>3, <4>4, <4>5 DEF EndStage, BothOpen
    <3>4. Opening(i)' <=> Opening(i) BY <1>2, <3>1 DEF Opening
    <3>5. QED
      BY <1>s, <1>2, <1>1, <2>1, <2>2, <2>3, <3>1, <3>2, <3>3, <3>4
      DEF StageOf, Busy, Waits
  <2>6. CASE CloseTell(h)
    <3>1. /\ table' = table /\ closing[h] = "tell" /\ closing'[h] = "done"
          /\ \A e \in Ends : e # d => closing'[<<e, i>>] = closing[<<e, i>>]
      BY <1>t, <2>1, <2>6 DEF CloseTell
    <3>2. /\ net'[d] = net[d]
          /\ \/ net'[Peer(d)] = net[Peer(d)] /\ ~BothOpen
             \/ net'[Peer(d)] = Append(net[Peer(d)], Close(h))
      BY <1>t, <1>1, <2>6 DEF CloseTell, CloseSaid, Written, WriteFails, BothOpen, d
    <3>3. \A e \in Ends : /\ Opens(net'[e], i) <=> Opens(net[e], i)
                          /\ OpenFirst(net[e], i) => OpenFirst(net'[e], i)
                          /\ e = d => (Closes(net'[e], i) <=> Closes(net[e], i))
      <4>1. /\ Opens(Append(net[Peer(d)], Close(h)), i) <=> Opens(net[Peer(d)], i)
            /\ OpenFirst(net[Peer(d)], i) => OpenFirst(Append(net[Peer(d)], Close(h)), i)
        BY <1>t, <1>1, <1>3, <1>5, FramesAppended
      <4>2. \A e \in Ends : e = d \/ e = Peer(d) BY <1>1 DEF Ends, Peer
      <4>3. ASSUME NEW e \in Ends
            PROVE  /\ Opens(net'[e], i) <=> Opens(net[e], i)
                   /\ OpenFirst(net[e], i) => OpenFirst(net'[e], i)
        <5>1. CASE e = d BY <3>2, <5>1
        <5>2. CASE e = Peer(d) BY <3>2, <4>1, <5>2
        <5>3. QED BY <4>2, <5>1, <5>2
      <4>4. QED BY <3>2, <4>3
    <3>4. BothOpen => Closes(net'[Peer(d)], i)
      <4>1. Closes(Append(net[Peer(d)], Close(h)), i)
        BY <1>t, <1>1, <1>3, <1>5, FramesAppended
      <4>2. QED BY <3>2, <4>1
    <3>5. \A e \in Ends : DueAt(e, i)' <=> DueAt(e, i)
      BY <1>2, <3>1, <3>3 DEF DueAt, Due, Opens
    <3>6. \A e \in Ends : EndStage(e, i)'
      <4> SUFFICES ASSUME NEW e \in Ends PROVE EndStage(e, i)' OBVIOUS
      <4>1. EndStage(e, i) BY <1>s DEF StageOf
      <4>2. CASE e = d
        <5>1. Peer(e) # d /\ closing'[<<e, i>>] = "done" /\ i \notin table[e]
              /\ closing'[<<Peer(e), i>>] = closing[<<Peer(e), i>>]
          BY <1>1, <2>1, <3>1, <4>1, <4>2 DEF EndStage
        <5>2. QED
          BY <1>2, <3>1, <3>3, <3>5, <4>1, <4>2, <5>1 DEF EndStage, BothOpen
      <4>3. CASE e = Peer(d)
        <5>1. /\ Peer(e) = d /\ e # d /\ closing'[<<Peer(e), i>>] = "done"
              /\ closing'[<<e, i>>] = closing[<<e, i>>]
          BY <1>1, <2>1, <3>1, <4>3
        <5>2. BothOpen' => Closes(net'[e], i) BY <1>2, <3>4, <4>3 DEF BothOpen
        <5>3. QED BY <3>1, <4>1, <5>1, <5>2 DEF EndStage
      <4>4. QED BY <1>1, <4>2, <4>3
    <3>7. Opening(i)' <=> Opening(i) BY <1>2, <3>3 DEF Opening
    <3>8. QED
      BY <1>s, <1>2, <1>1, <2>1, <2>2, <2>3, <3>1, <3>3, <3>6, <3>7
      DEF StageOf, Busy, Waits
  <2>7. QED BY <2>4, <2>5, <2>6
<1>6. QED BY <1>4, <1>5

\* The users of the streams.
LEMMA StageStream ==
  ASSUME TypeInv, HeldInv, StageInv, NEW h \in Halves, Stream(h)
  PROVE  StageInv'
PROOF
<1> USE DEF controlVars, userVars, readVars, writeVars, queueVars
<1>1. loop' = loop
  BY DEF Stream, OpenStream, RegisterStream, AnnounceStream, StartWrite, WriteChunk,
         CloseStream, CloseRemove, CloseTell, Ingest, IngestEnds
<1>2. ASSUME \A i \in Ids : StageOf(i)' PROVE StageInv'
  BY <1>1, <1>2 DEF StageInv
<1>3. CASE OpenStream(h) \/ RegisterStream(h) \/ AnnounceStream(h)
  BY <1>2, <1>3, StageOpen
<1>4. CASE CloseStream(h) \/ CloseRemove(h) \/ CloseTell(h)
  BY <1>2, <1>4, StageClose
<1>5. CASE StartWrite(h) \/ Ingest(h) \/ IngestEnds(h)
  BY <1>5, StageKept DEF StartWrite, Ingest, IngestEnds
<1>6. CASE WriteChunk(h)
  <2> SUFFICES ASSUME NEW i \in Ids PROVE StageOf(i)' BY <1>2
  <2>1. UNCHANGED <<use, closing, table, sess, acceptCh>> BY <1>6 DEF WriteChunk
  <2>2. use[<<"server", Id(h)>>] = "held" BY <1>6, HeldKnown DEF WriteChunk
  <2> DEFINE f == Data(h, sent[h] + 1)
  <2>3. f \in Frame /\ f.id = Id(h) /\ f.type = "data"
    <3>1. sent[h] + 1 \in Nat BY DEF TypeInv, TypeOK
    <3>2. QED BY <3>1, FrameTypes DEF Data
  <2> HIDE DEF f
  <2>4. \A e \in Ends : net'[e] = net[e] \/ net'[e] = Append(net[e], f)
    BY <1>6, StageTypes DEF WriteChunk, Written, WriteFails, f
  <2>5. \A e \in Ends : FramesMove(net[e], net'[e], i)
    BY <2>2, <2>3, <2>4 DEF FramesMove
  <2>6. StageOf(i) BY DEF StageInv
  <2>7. QED BY <1>1, <2>1, <2>5, <2>6, StageSame DEF LoopMoves, Waits
<1>7. QED BY <1>3, <1>4, <1>5, <1>6 DEF Stream

\* A frame of the stream is read: OPEN, a chunk, or CLOSE.
LEMMA StageRead ==
  ASSUME TypeInv, StageInv, NEW e \in Ends, ReadFrame(e) \/ ReadClose(e),
         NEW i \in Ids
  PROVE  StageOf(i)'
PROOF
<1> USE EndTypes
    DEF controlVars, userVars, readVars, writeVars, queueVars, streamVars
<1>t. /\ net \in [Ends -> Seq(Frame)] /\ loop \in [Ends -> Loops]
      /\ table \in [Ends -> SUBSET Ids]
  BY StageTypes
<1>s. StageOf(i) /\ \A d \in Ends : EndStage(d, i) BY DEF StageInv, StageOf
<1> DEFINE q == net[e]
           f == Head(q)
<1>1. /\ q \in Seq(Frame) /\ q # <<>> /\ f \in Frame
      /\ net' = [net EXCEPT ![e] = Tail(q)] /\ loop[e].pc = "read"
      /\ UNCHANGED <<use, closing, sess, acceptCh>>
  BY <1>t, QueueTypes DEF ReadFrame, ReadClose
<1>2. net'[e] = Tail(q) /\ \A d \in Ends : d # e => net'[d] = net[d]
  BY <1>t, <1>1
<1>3. \A d \in Ends : d # e => loop'[d] = loop[d] /\ table'[d] = table[d]
  BY <1>t DEF ReadFrame, ReadClose
<1>4. \/ loop'[e].pc = "read"
      \/ loop'[e].pc \in {"register", "push"} /\ loop'[e].id = f.id
  BY <1>t, <1>1 DEF ReadFrame, ReadClose, Reading
<1>5. ASSUME f.id # i PROVE StageOf(i)'
  <2>1. \A d \in Ends : FramesMove(net[d], net'[d], i)
    BY <1>1, <1>2, <1>5 DEF FramesMove
  <2>2. \A d \in Ends : LoopMoves(loop[d], loop'[d], i)
    BY <1>1, <1>3, <1>4, <1>5 DEF LoopMoves
  <2>3. \A d \in Ends : i \in table'[d] <=> i \in table[d]
    BY <1>t, <1>5 DEF ReadFrame, ReadClose, Unlisted
  <2> HIDE DEF q, f
  <2>4. QED BY <1>s, <1>1, <2>1, <2>2, <2>3, StageSame DEF Waits
<1>6. ASSUME f.id = i PROVE StageOf(i)'
  <2> DEFINE s == <<"server", i>>
             c == <<"client", i>>
  <2>1. /\ Frames(q, i)
        /\ Frames(Tail(q), i) => Frames(q, i)
        /\ Opens(q, i) <=> Opens(Tail(q), i) \/ OpenFor(f, i)
        /\ Closes(q, i) <=> Closes(Tail(q), i) \/ CloseFor(f, i)
        /\ OpenFirst(q, i) => OpenFirst(Tail(q), i) /\ ~Opens(Tail(q), i)
    BY <1>1, <1>6, FramesRead
  <2>2. Known(i) /\ use[s] = "held" BY <1>s, <2>1 DEF Known, StageOf
  <2>3. /\ ~Opens(net'[e], i) /\ OpenFirst(net'["client"], i)
        /\ ~Opens(net'["server"], i)
        /\ e = "server" => ~OpenFor(f, i)
        /\ \A d \in Ends : Opens(net'[d], i) => Opens(net[d], i)
    <3>1. CASE e = "client" BY <1>s, <1>2, <2>1, <3>1 DEF StageOf
    <3>2. CASE e = "server" BY <1>s, <1>2, <2>1, <3>2 DEF StageOf
    <3>3. QED BY <3>1, <3>2
  <2> HIDE DEF f
  <2>4. CASE ReadFrame(e)
    <3>1. /\ UNCHANGED table /\ ~CloseFor(f, i)
          /\ \/ f.type = "open" /\ loop'[e].pc = "register" /\ loop'[e].id = i
             \/ f.type # "open" /\ loop'[e].pc = "push"
             \/ f.type # "open" /\ loop'[e].pc = "read"
      BY <1>t, <1>6, <2>4 DEF ReadFrame, CloseFor, Reading, f
    <3>2. \A d \in Ends : Closes(net'[d], i) <=> Closes(net[d], i)
      BY <1>2, <2>1, <3>1
    <3>3. \A d \in Ends : DueAt(d, i)' <=> DueAt(d, i)
      <4> SUFFICES ASSUME NEW d \in Ends PROVE DueAt(d, i)' <=> DueAt(d, i) OBVIOUS
      <4>1. CASE d # e BY <1>2, <1>3, <4>1 DEF DueAt, Due
      <4>2. CASE d = e
        <5>1. OpenFor(f, i) <=> f.type = "open" BY <1>6 DEF OpenFor
        <5>2. Opens(net[e], i) <=> OpenFor(f, i) BY <1>2, <2>1, <2>3
        <5>3. DueAt(e, i) <=> i \in table[e] \/ Opens(net[e], i)
          BY <1>1 DEF DueAt, Due, Opens
        <5>4. DueAt(e, i)' <=> i \in table[e] \/ loop'[e].pc = "register"
          BY <2>3, <3>1 DEF DueAt, Due, Opens
        <5>5. QED BY <3>1, <4>2, <5>1, <5>2, <5>3, <5>4
      <4>3. QED BY <4>1, <4>2
    <3>4. \A d \in Ends : EndStage(d, i)'
      BY <1>s, <1>1, <3>1, <3>2, <3>3 DEF EndStage, BothOpen
    <3>5. Opening(i)' => Opening(i)
      <4>1. CASE e = "client"
        BY <1>1, <2>1, <2>3, <3>1, <4>1, <1>6 DEF Opening, OpenFor
      <4>2. CASE e = "server" BY <1>2, <1>3, <4>2 DEF Opening
      <4>3. QED BY <4>1, <4>2
    <3>6. Opens(net'["client"], i) => ~Busy("client", i)'
      BY <1>s, <1>3, <2>3 DEF StageOf, Busy
    <3>7. QED
      BY <1>s, <1>1, <2>2, <2>3, <3>1, <3>4, <3>5, <3>6 DEF StageOf, Waits
  <2>5. CASE ReadClose(e)
    <3>1. UNCHANGED loop /\ CloseFor(f, i) /\ i \notin table'[e]
      BY <1>t, <1>6, <2>5 DEF ReadClose, CloseFor, Unlisted, f
    <3>2. \A d \in Ends : /\ Closes(net'[d], i) => Closes(net[d], i)
                          /\ i \in table'[d] => i \in table[d]
      BY <1>2, <1>3, <2>1, <3>1
    <3>3. ~DueAt(e, i)' BY <1>1, <2>3, <3>1 DEF DueAt, Due, Opens
    <3>4. closing[<<Peer(e), i>>] = "done" BY <1>s, <2>1, <3>1 DEF EndStage
    <3>5. \A d \in Ends : EndStage(d, i)'
      <4> SUFFICES ASSUME NEW d \in Ends PROVE EndStage(d, i)' OBVIOUS
      <4>1. EndStage(d, i) BY <1>s
      <4>2. CASE d = e BY <1>1, <3>2, <3>3, <3>4, <4>1, <4>2 DEF EndStage
      <4>3. CASE d # e
        <5>1. DueAt(d, i)' <=> DueAt(d, i) BY <1>2, <1>3, <4>3 DEF DueAt, Due
        <5>2. QED BY <1>1, <1>2, <1>3, <4>1, <4>3, <5>1 DEF EndStage, BothOpen
      <4>4. QED BY <4>2, <4>3
    <3>6. Opening(i)' => Opening(i) BY <2>3, <3>1 DEF Opening
    <3>7. QED
      BY <1>s, <1>1, <2>2, <2>3, <3>1, <3>2, <3>5, <3>6 DEF StageOf, Busy, Waits
  <2>6. QED BY <2>4, <2>5
<1>7. QED BY <1>5, <1>6

\* handleFrame: the stream is registered and offered, a chunk overflows readCh.
LEMMA StageHandle ==
  ASSUME TypeInv, HeldInv, StageInv, NEW e \in Ends,
         Register(e) \/ Offer(e) \/ PushOverflows(e),
         NEW i \in Ids
  PROVE  StageOf(i)'
PROOF
<1> USE EndTypes
    DEF controlVars, userVars, readVars, writeVars, queueVars, streamVars
<1>t. /\ loop \in [Ends -> Loops] /\ table \in [Ends -> SUBSET Ids]
      /\ closing \in [Halves -> {"no", "remove", "tell", "done"}]
  BY StageTypes
<1>s. StageOf(i) /\ \A d \in Ends : EndStage(d, i) BY DEF StageInv, StageOf
<1> DEFINE j == loop[e].id
           h == <<e, j>>
<1>1. /\ UNCHANGED <<use, sess, net>> /\ j \in Ids /\ h \in Halves
      /\ loop[e].pc \in {"register", "accept", "push"}
      /\ \A d \in Ends : d # e => loop'[d] = loop[d] /\ table'[d] = table[d]
      /\ loop'[e].pc = "read" \/ (loop'[e].id = j /\ loop'[e].pc \in {"accept", "close"})
  <2>1. /\ UNCHANGED <<use, sess, net>> /\ loop[e].pc \in {"register", "accept", "push"}
        /\ \A d \in Ends : d # e => table'[d] = table[d]
    BY <1>t DEF Register, Offer, PushOverflows
  <2>2. j \in Ids /\ h \in Halves BY <2>1 DEF TypeInv, LoopIds
  <2>3. \/ loop' = [loop EXCEPT ![e] = Reading]
        \/ \E pc \in {"accept", "close"} : loop' = [loop EXCEPT ![e].pc = pc]
    BY <1>t DEF Register, Offer, PushOverflows
  <2>4. /\ \A d \in Ends : d # e => loop'[d] = loop[d]
        /\ loop'[e].pc = "read" \/ (loop'[e].id = j /\ loop'[e].pc \in {"accept", "close"})
    BY <1>t, <2>3 DEF Reading, Loops
  <2>5. QED BY <2>1, <2>2, <2>4
<1>2. \A g \in Halves : g # h => closing'[g] = closing[g]
  BY <1>t, <1>1 DEF Register, Offer, PushOverflows
<1>3. \A n \in 1..Len(acceptCh') :
        \/ n \in 1..Len(acceptCh) /\ acceptCh'[n] = acceptCh[n]
        \/ acceptCh'[n] = j
  <2>1. acceptCh \in Seq(Ids) BY DEF TypeInv, TypeOK
  <2>2. acceptCh' = acceptCh \/ acceptCh' = Append(acceptCh, j)
    BY DEF Register, Offer, PushOverflows
  <2>3. QED BY <1>1, <2>1, <2>2, AppendProperties, LenProperties
<1>4. ASSUME i # j PROVE StageOf(i)'
  <2>1. \A d \in Ends : closing'[<<d, i>>] = closing[<<d, i>>] BY <1>2, <1>4
  <2>2. \A d \in Ends : i \in table'[d] <=> i \in table[d]
    BY <1>t, <1>4 DEF Register, Offer, PushOverflows
  <2>3. Waits(i)' => Waits(i) BY <1>3, <1>4 DEF Waits
  <2>4. \A d \in Ends : LoopMoves(loop[d], loop'[d], i) BY <1>1, <1>4 DEF LoopMoves
  <2> HIDE DEF j
  <2>5. QED BY <1>s, <1>1, <2>1, <2>2, <2>3, <2>4, StageSame DEF FramesMove
<1>5. ASSUME i = j PROVE StageOf(i)'
  <2> DEFINE s == <<"server", i>>
             c == <<"client", i>>
  <2>1. Busy(e, i) /\ Known(i) /\ use[s] = "held"
    BY <1>s, <1>1, <1>5 DEF Busy, Known, StageOf
  <2>2. /\ \A d \in Ends : <<d, i>> # <<e, i>> => closing'[<<d, i>>] = closing[<<d, i>>]
        /\ <<e, i>> \in Halves
    BY <1>1, <1>2, <1>5
  <2>3. e = "client" => ~Opens(net["client"], i) BY <1>s, <2>1 DEF StageOf
  <2>4. loop[e].pc \in {"register", "accept"} =>
          e = "client" /\ Opening(i) /\ use[c] = "none" /\ closing[c] = "no" /\ ~Waits(i)
    <3>1. loop[e].pc \in {"register", "accept"} => e = "client" BY DEF StageInv
    <3>2. QED BY <1>s, <1>5, <3>1 DEF Opening, StageOf
  <2>5. CASE Register(e)
    <3>1. /\ e = "client" /\ UNCHANGED <<closing, acceptCh>> /\ loop[e].pc = "register"
          /\ i \in table'[e] /\ table'["server"] = table["server"]
          /\ loop'[e].pc = "accept" /\ loop'[e].id = i
      BY <1>t, <1>1, <1>5, <2>4, <2>5 DEF Register, Loops
    <3>2. \A d \in Ends : DueAt(d, i)' <=> DueAt(d, i)
      <4>1. DueAt(e, i) /\ DueAt(e, i)' BY <1>5, <3>1 DEF DueAt, Due
      <4>2. \A d \in Ends : d # e => (DueAt(d, i)' <=> DueAt(d, i))
        BY <1>1 DEF DueAt, Due
      <4>3. QED BY <4>1, <4>2
    <3>3. \A d \in Ends : EndStage(d, i)'
      <4>1. closing[c] = "no" BY <2>4, <3>1
      <4>2. SUFFICES ASSUME NEW d \in Ends PROVE EndStage(d, i)' OBVIOUS
      <4>3. closing'[<<d, i>>] \in {"tell", "done"} => i \notin table'[d]
        BY <1>s, <1>1, <3>1, <4>1 DEF EndStage
      <4>4. EndStage(d, i) /\ (BothOpen' <=> BothOpen) BY <1>s, <1>1 DEF BothOpen
      <4>5. QED BY <1>1, <3>1, <3>2, <4>3, <4>4 DEF EndStage
    <3>4. QED
      BY <1>s, <1>1, <2>1, <2>3, <2>4, <3>1, <3>3 DEF StageOf, Waits
  <2>6. CASE Offer(e)
    <3>1. /\ e = "client" /\ UNCHANGED table /\ loop[e].pc = "accept"
          /\ loop'[e].pc \in {"read", "close"}
          /\ closing[c] = "no" /\ closing'[c] \in {"no", "remove"}
          /\ closing'[s] = closing[s]
      BY <1>t, <1>1, <1>5, <2>2, <2>4, <2>6 DEF Offer, Reading, Loops
    <3>2. \A d \in Ends : DueAt(d, i)' <=> DueAt(d, i)
      BY <1>1, <3>1 DEF DueAt, Due
    <3>3. \A d \in Ends : EndStage(d, i)'
      <4> SUFFICES ASSUME NEW d \in Ends PROVE EndStage(d, i)' OBVIOUS
      <4>1. EndStage(d, i) /\ (BothOpen' <=> BothOpen) BY <1>s, <1>1 DEF BothOpen
      <4>2. /\ closing[<<d, i>>] \in {"no", "remove"} <=>
                 closing'[<<d, i>>] \in {"no", "remove"}
            /\ closing'[<<d, i>>] \in {"tell", "done"} =>
                 closing[<<d, i>>] \in {"tell", "done"}
            /\ closing[<<Peer(d), i>>] = "done" <=> closing'[<<Peer(d), i>>] = "done"
        BY <3>1
      <4>3. QED BY <1>1, <3>1, <3>2, <4>1, <4>2 DEF EndStage
    <3>4. ~Opening(i)' BY <1>1, <2>3, <3>1 DEF Opening
    <3>5. QED BY <1>s, <1>1, <2>1, <2>3, <3>1, <3>3, <3>4 DEF StageOf
  <2>7. CASE PushOverflows(e)
    <3>1. /\ UNCHANGED <<table, acceptCh>> /\ loop[e].pc = "push"
          /\ loop'[e].pc \in {"read", "close"}
          /\ closing'[<<e, i>>] =
               IF closing[<<e, i>>] = "no" THEN "remove" ELSE closing[<<e, i>>]
      BY <1>t, <1>1, <1>5, <2>2, <2>7 DEF PushOverflows, Overflowed, Reading, Loops
    <3>2. \A d \in Ends :
            /\ closing[<<d, i>>] \in {"no", "remove"} <=>
                 closing'[<<d, i>>] \in {"no", "remove"}
            /\ closing[<<d, i>>] \in {"tell", "done"} <=>
                 closing'[<<d, i>>] \in {"tell", "done"}
            /\ closing[<<d, i>>] = "done" <=> closing'[<<d, i>>] = "done"
      BY <2>2, <3>1
    <3>3. \A d \in Ends : DueAt(d, i)' <=> DueAt(d, i)
      BY <1>1, <3>1 DEF DueAt, Due
    <3>4. \A d \in Ends : EndStage(d, i)'
      BY <1>s, <1>1, <3>1, <3>2, <3>3 DEF EndStage, BothOpen
    <3>5. e = "client" => ~Opening(i)' BY <1>1, <2>3, <3>1 DEF Opening
    <3>6. e = "server" => /\ Opening(i)' <=> Opening(i)
                          /\ closing'[c] = closing[c]
                          /\ Busy("client", i)' <=> Busy("client", i)
      BY <1>1, <2>2 DEF Opening, Busy
    <3>7. e = "client" => ~Opens(net'["client"], i) BY <1>1, <2>3
    <3>8. QED
      BY <1>s, <1>1, <2>1, <3>1, <3>4, <3>5, <3>6, <3>7 DEF StageOf, Waits
  <2>8. QED BY <2>5, <2>6, <2>7
<1>6. QED BY <1>4, <1>5

\* The read loops.
LEMMA StageLoop ==
  ASSUME TypeInv, HeldInv, StageInv, NEW e \in Ends, ReadLoop(e)
  PROVE  StageInv'
PROOF
<1> USE EndTypes
    DEF controlVars, userVars, readVars, writeVars, queueVars, streamVars
<1>t. /\ sess \in [Ends -> {"open", "closing", "over", "panicked"}]
      /\ net \in [Ends -> Seq(Frame)]
      /\ loop \in [Ends -> Loops]
  BY StageTypes
<1>1. CASE ReadFrame(e) \/ ReadClose(e)
  <2>1. \A i \in Ids : StageOf(i)' BY <1>1, StageRead
  <2>2. loop'["server"].pc \notin {"register", "accept"}
    <3>1. CASE e = "server" /\ ReadFrame(e)
      <4> DEFINE f == Head(net[e])
      <4>1. f \in Frame /\ (Opens(net[e], f.id) <=> Opens(Tail(net[e]), f.id) \/ OpenFor(f, f.id))
        BY <1>t, <3>1, FramesRead, QueueTypes DEF ReadFrame
      <4>2. f.id \in Ids BY <4>1 DEF Frame
      <4>3. ~OpenFor(f, f.id) BY <3>1, <4>1, <4>2 DEF StageInv, StageOf
      <4>4. f.type # "open" BY <4>3 DEF OpenFor
      <4>5. QED BY <1>t, <3>1, <4>4 DEF ReadFrame, Reading
    <3>2. CASE e = "client" \/ ReadClose(e)
      BY <1>1, <1>t, <3>2 DEF ReadFrame, ReadClose, StageInv
    <3>3. QED BY <1>1, <3>1, <3>2
  <2>3. QED BY <2>1, <2>2 DEF StageInv
<1>2. CASE Register(e) \/ Offer(e) \/ PushOverflows(e)
  <2>1. \A i \in Ids : StageOf(i)' BY <1>2, StageHandle
  <2>2. loop'["server"].pc \notin {"register", "accept"}
    <3>1. CASE Register(e) \/ Offer(e)
      BY <1>t, <3>1 DEF Register, Offer, StageInv
    <3>2. CASE PushOverflows(e)
      BY <1>t, <3>2 DEF PushOverflows, StageInv, Reading, Loops
    <3>3. QED BY <1>2, <3>1, <3>2
  <2>3. QED BY <2>1, <2>2 DEF StageInv
<1>3. CASE PushData(e) \/ LoopCloses(e) \/ PushPanics(e) \/ ReadFails(e)
  <2>1. /\ UNCHANGED <<use, closing, table, acceptCh>>
        /\ \A d \in Ends : sess'[d] = "open" => sess[d] = "open"
        /\ \A d \in Ends : net'[d] = net[d] \/ (net'[d] = <<>> /\ sess'[d] # "open")
    BY <1>3, <1>t
    DEF PushData, LoopCloses, PushPanics, ReadFails, ClosesToo, SetClosed, Discard
  <2>2. \A d \in Ends :
          \/ loop'[d] = loop[d]
          \/ loop'[d].pc \in {"read", "returned"} /\ loop[d].pc \in {"push", "close", "read"}
    BY <1>3, <1>t DEF PushData, LoopCloses, PushPanics, ReadFails, Reading, Loops
  <2>3. \A i \in Ids : StageOf(i)'
    <3> SUFFICES ASSUME NEW i \in Ids PROVE StageOf(i)' OBVIOUS
    <3>1. StageOf(i) BY DEF StageInv
    <3>2. \A d \in Ends : LoopMoves(loop[d], loop'[d], i) BY <2>2 DEF LoopMoves
    <3>3. QED BY <2>1, <3>1, <3>2, StageSame DEF FramesMove, Waits
  <2>4. QED BY <2>2, <2>3 DEF StageInv
<1>4. QED BY <1>1, <1>2, <1>3 DEF ReadLoop

\* The end of a session, and Accept.
LEMMA StageEnd ==
  ASSUME TypeInv, HeldInv, StageInv,
         \/ \E e \in Ends : CloseSession(e) \/ Sweep(e)
         \/ Accept \/ AcceptEnds
  PROVE  StageInv'
PROOF
<1> USE EndTypes
    DEF controlVars, userVars, readVars, writeVars, queueVars, streamVars
<1>t. /\ sess \in [Ends -> {"open", "closing", "over", "panicked"}]
      /\ net \in [Ends -> Seq(Frame)]
      /\ table \in [Ends -> SUBSET Ids]
      /\ use \in [Halves -> {"none", "register", "announce", "held"}]
  BY StageTypes
<1>1. loop' = loop BY DEF CloseSession, Sweep, Accept, AcceptEnds
<1>2. SUFFICES ASSUME NEW i \in Ids PROVE StageOf(i)' BY <1>1 DEF StageInv
<1>s. StageOf(i) BY DEF StageInv
<1>l. \A d \in Ends : LoopMoves(loop[d], loop'[d], i) BY <1>1 DEF LoopMoves
<1>3. ASSUME NEW e \in Ends, CloseSession(e) \/ Sweep(e) PROVE StageOf(i)'
  <2>1. /\ UNCHANGED <<use, closing, acceptCh>>
        /\ \A d \in Ends :
             /\ sess'[d] = "open" => sess[d] = "open" /\ table'[d] = table[d]
             /\ i \in table'[d] => i \in table[d]
             /\ net'[d] = net[d] \/ (net'[d] = <<>> /\ sess'[d] # "open")
    BY <1>3, <1>t DEF CloseSession, SetClosed, Discard, Sweep
  <2>2. QED BY <1>s, <1>l, <2>1, StageSame DEF FramesMove, Waits
<1>4. CASE AcceptEnds
  <2>1. UNCHANGED <<use, closing, acceptCh, sess, net, table>>
    BY <1>4 DEF AcceptEnds
  <2>2. QED BY <1>s, <1>l, <2>1, StageSame DEF FramesMove, Waits
<1>5. CASE Accept
  <2> DEFINE j == Head(acceptCh)
  <2>1. /\ UNCHANGED <<closing, sess, net, table>>
        /\ acceptCh # <<>> /\ acceptCh' = Tail(acceptCh)
        /\ use' = [use EXCEPT ![<<"client", j>>] = "held"]
    BY <1>5 DEF Accept
  <2>2. /\ j \in Ids /\ j = acceptCh[1] /\ 1 \in 1..Len(acceptCh)
        /\ \A n \in 1..Len(acceptCh') :
             acceptCh'[n] = acceptCh[n + 1] /\ n + 1 \in 1..Len(acceptCh)
    <3>1. acceptCh \in Seq(Ids) BY DEF TypeInv, TypeOK
    <3>2. QED BY <2>1, <3>1, HeadTailProperties, LenProperties, EmptySeq
  <2> HIDE DEF j
  <2>3. Waits(i)' => Waits(i) BY <2>2 DEF Waits
  <2>4. CASE i # j
    <3>1. \A d \in Ends : use'[<<d, i>>] = use[<<d, i>>] BY <1>t, <2>1, <2>4
    <3>2. QED BY <1>s, <1>l, <2>1, <2>3, <3>1, StageSame DEF FramesMove
  <2>5. CASE i = j
    <3>1. Waits(i) BY <2>2, <2>5 DEF Waits
    <3>2. use'[<<"server", i>>] = use[<<"server", i>>] BY <1>t, <2>1
    <3>3. ~Opening(i) BY <1>s, <3>1 DEF StageOf
    <3>4. ~Opening(i)' BY <1>1, <2>1, <3>3 DEF Opening
    <3>5. \A d \in Ends : EndStage(d, i)'
      <4> SUFFICES ASSUME NEW d \in Ends PROVE EndStage(d, i)' OBVIOUS
      <4>1. EndStage(d, i) BY <1>s DEF StageOf
      <4>2. (DueAt(d, i)' <=> DueAt(d, i)) /\ (BothOpen' <=> BothOpen)
        BY <1>1, <2>1 DEF DueAt, BothOpen
      <4>3. QED BY <2>1, <3>2, <4>1, <4>2 DEF EndStage
    <3>6. Known(i)' <=> Known(i) BY <1>1, <2>1 DEF Known, Busy
    <3>7. QED BY <1>s, <1>1, <2>1, <3>2, <3>4, <3>5, <3>6 DEF StageOf, Busy
  <2>6. QED BY <2>4, <2>5
<1>6. QED BY <1>3, <1>4, <1>5

\* Before the first stream.
LEMMA StageInit == Init => StageInv
PROOF
<1> SUFFICES ASSUME Init PROVE StageInv OBVIOUS
<1>1. /\ \A e \in Ends : net[e] = <<>> /\ loop[e] = Reading /\ table[e] = {}
      /\ \A h \in Halves : use[h] = "none" /\ closing[h] = "no"
      /\ acceptCh = <<>>
  BY DEF Init
<1>2. 1..Len(<<>>) = {} OBVIOUS
<1>3. \A e \in Ends, i \in Ids : /\ ~Frames(net[e], i) /\ ~Opens(net[e], i)
                                 /\ ~Closes(net[e], i) /\ OpenFirst(net[e], i)
  BY <1>1, <1>2 DEF Frames, Opens, Closes, OpenFirst
<1>4. \A e \in Ends : loop[e].pc = "read" BY <1>1 DEF Reading
<1>5. ASSUME NEW i \in Ids PROVE StageOf(i)
  <2>1. ~Known(i) /\ ~Opening(i)
    BY <1>1, <1>3, <1>4, EndTypes DEF Known, Opening, Busy
  <2>2. \A e \in Ends : EndStage(e, i)
    BY <1>1, <1>3, EndTypes DEF EndStage
  <2>3. QED BY <1>1, <1>3, <2>1, <2>2, EndTypes DEF StageOf
<1>6. QED BY <1>4, <1>5, EndTypes DEF StageInv

\* Every step keeps the stages.
LEMMA StageNext == IInv /\ StageInv /\ [Next]_vars => StageInv'
PROOF
<1> SUFFICES ASSUME IInv, StageInv, [Next]_vars PROVE StageInv' OBVIOUS
<1>1. TypeInv /\ HeldInv BY DEF IInv
<1>2. CASE UNCHANGED vars
  BY <1>1, <1>2, StageKept DEF vars, streamVars
<1>3. CASE Next BY <1>1, <1>3, StageStream, StageLoop, StageEnd DEF Next
<1>4. QED BY <1>2, <1>3

\* Neither end keeps a stream the other has forgotten: whenever an open session is
\* quiet its two tables are equal and hold no stream that was closed.
THEOREM TablesEqual == Spec => []TablesAgree
PROOF
<1>1. TypeInv /\ StageInv => TablesAgree
  <2> SUFFICES ASSUME TypeInv, StageInv, Quiet
               PROVE  /\ table["server"] = table["client"]
                      /\ \A h \in Halves : closing[h] = "done" => Id(h) \notin table[End(h)]
    BY DEF TablesAgree
  <2>1. BothOpen /\ \A e \in Ends : net[e] = <<>> /\ loop[e].pc = "read"
    BY DEF Quiet, BothOpen
  <2>2. 1..Len(<<>>) = {} OBVIOUS
  <2>3. ASSUME NEW i \in Ids
        PROVE  \A e \in Ends : ~Closes(net[e], i) /\ (DueAt(e, i) <=> i \in table[e])
    BY <2>1, <2>2 DEF Closes, DueAt, Due
  <2>4. ASSUME NEW i \in Ids, NEW e \in Ends, i \in table[e] PROVE i \in table[Peer(e)]
    <3> DEFINE s == <<"server", i>>
    <3>1. /\ StageOf(i) /\ EndStage(e, i) /\ EndStage(Peer(e), i)
          /\ <<e, i>> \in Halves /\ <<Peer(e), i>> \in Halves /\ s \in Halves
          /\ Peer(Peer(e)) = e /\ Peer(e) \in Ends
      BY EndTypes DEF StageInv, StageOf
    <3>2. use[s] = "held"
      <4>1. CASE e = "server"
        <5>1. use[s] \in {"announce", "held"} BY <2>4, <3>1, <4>1 DEF StageOf
        <5>2. QED BY <3>1, <5>1 DEF Quiet
      <4>2. CASE e = "client" BY <2>4, <3>1, <4>2 DEF StageOf, Known
      <4>3. QED BY <4>1, <4>2, EndTypes
    <3>3. closing[<<e, i>>] = "no" BY <2>4, <3>1 DEF EndStage, Quiet
    <3>4. closing[<<Peer(e), i>>] # "done" BY <2>1, <2>3, <2>4, <3>1 DEF EndStage
    <3>5. closing[<<Peer(e), i>>] = "no" BY <3>1, <3>4 DEF Quiet
    <3>6. QED BY <2>1, <2>3, <3>1, <3>2, <3>3, <3>5 DEF EndStage
  <2>5. table["server"] = table["client"]
    <3>1. table["server"] \subseteq Ids /\ table["client"] \subseteq Ids
      BY EndTypes, StageTypes
    <3>2. ASSUME NEW i \in Ids, i \in table["server"] PROVE i \in table["client"]
      <4>1. i \in table[Peer("server")] BY <2>4, <3>2, EndTypes
      <4>2. QED BY <4>1, EndTypes
    <3>3. ASSUME NEW i \in Ids, i \in table["client"] PROVE i \in table["server"]
      <4>1. i \in table[Peer("client")] BY <2>4, <3>3, EndTypes
      <4>2. QED BY <4>1, EndTypes
    <3>4. QED BY <3>1, <3>2, <3>3
  <2>6. ASSUME NEW h \in Halves, closing[h] = "done" PROVE Id(h) \notin table[End(h)]
    <3>1. Id(h) \in Ids /\ End(h) \in Ends /\ h = <<End(h), Id(h)>> BY FrameTypes
    <3>2. EndStage(End(h), Id(h)) BY <3>1 DEF StageInv, StageOf
    <3>3. QED BY <2>6, <3>1, <3>2 DEF EndStage
  <2>7. QED BY <2>5, <2>6
<1>2. Init => IInv /\ StageInv BY IInit, StageInit
<1>3. IInv /\ StageInv /\ [Next]_vars => (IInv /\ StageInv)' BY INext, StageNext
<1>4. IInv => TypeInv BY DEF IInv
<1>5. QED BY <1>1, <1>2, <1>3, <1>4, PTL DEF Spec

-----------------------------------------------------------------------------
(***************************************************************************)
(* The end of a stream.  The CLOSE frame lies behind the chunks the far    *)
(* half had written when it closed and ahead of any a goroutine still      *)
(* writes; so when it is read, or readCh is closed because of it, they     *)
(* have all come.                                                          *)
(***************************************************************************)

\* With n chunks received and y written when the far half closed: where CLOSE
\* stands in queue q.
MarkOf(n, q, i, y) ==
  \A p \in 1..Len(q) : CloseFor(q[p], i) =>
    /\ n <= y
    /\ \A k \in 1..Len(q) : DataFor(q[k], i) =>
         /\ k < p => q[k].chunk <= y
         /\ p < k => y < q[k].chunk

Pushing(h) == loop[End(h)].pc = "push" /\ loop[End(h)].id = Id(h)

\* The chunks half h has, those in the hands of its read loop included.
Got(h) == Reached(buf[h], readCh[h], loop[End(h)], Id(h))

Marked(h) == MarkOf(Got(h), net[End(h)], Id(h), fin[Far(h)])

\* Nothing more comes, and nothing is missing.
Complete(h) ==
  shut[h] => /\ ~DueAt(End(h), Id(h)) /\ ~Pushing(h)
             /\ Got(h) = fin[Far(h)]
             /\ closing[Far(h)] = "done"

FinInv ==
  /\ \A h \in Halves : fin[h] <= sent[h]
  /\ \A h \in Halves : eof[h] => shut[h] /\ readCh[h] = <<>>
  /\ \A h \in Halves : closing[h] = "no" /\ sess[End(h)] = "open" =>
       Marked(h) /\ Complete(h)

\* A frame is written behind the others: not CLOSE, and no chunk from before it.
LEMMA MarkBehind ==
  ASSUME NEW q \in Seq(Frame), NEW f \in Frame, NEW i, NEW n, NEW y,
         MarkOf(n, q, i, y), ~CloseFor(f, i), DataFor(f, i) => y < f.chunk
  PROVE  MarkOf(n, Append(q, f), i, y)
PROOF
<1> DEFINE q2 == Append(q, f)
<1>1. /\ Len(q) \in Nat
      /\ \A p \in 1..Len(q) : q2[p] = q[p]
      /\ q2[Len(q) + 1] = f
      /\ \A p \in 1..Len(q2) : p \in 1..Len(q) \/ p = Len(q) + 1
  BY Appended
<1> HIDE DEF q2
<1>2. SUFFICES ASSUME NEW p \in 1..Len(q2), CloseFor(q2[p], i)
               PROVE  /\ n <= y
                      /\ \A k \in 1..Len(q2) : DataFor(q2[k], i) =>
                           /\ k < p => q2[k].chunk <= y
                           /\ p < k => y < q2[k].chunk
  BY DEF MarkOf, q2
<1>3. p \in 1..Len(q) /\ CloseFor(q[p], i) BY <1>1, <1>2
<1>4. ASSUME NEW k \in 1..Len(q2), DataFor(q2[k], i)
      PROVE  (k < p => q2[k].chunk <= y) /\ (p < k => y < q2[k].chunk)
  <2>1. CASE k \in 1..Len(q) BY <1>1, <1>3, <1>4, <2>1 DEF MarkOf
  <2>2. CASE k = Len(q) + 1
    <3>1. ~(k < p) BY <1>1, <1>3, <2>2
    <3>2. QED BY <1>1, <1>4, <2>2, <3>1
  <2>3. QED BY <1>1, <2>1, <2>2
<1>5. QED BY <1>3, <1>4 DEF MarkOf

\* The first CLOSE frame of the stream is written.
LEMMA MarkClose ==
  ASSUME NEW q \in Seq(Frame), NEW f \in Frame, NEW i, NEW n, NEW y,
         ~Closes(q, i), CloseFor(f, i), n <= y,
         \A k \in 1..Len(q) : DataFor(q[k], i) => q[k].chunk <= y
  PROVE  MarkOf(n, Append(q, f), i, y)
PROOF
<1> DEFINE q2 == Append(q, f)
<1>1. /\ Len(q) \in Nat
      /\ \A p \in 1..Len(q) : q2[p] = q[p]
      /\ q2[Len(q) + 1] = f
      /\ \A p \in 1..Len(q2) : p \in 1..Len(q) \/ p = Len(q) + 1
  BY Appended
<1>2. ~DataFor(f, i) BY DEF DataFor, CloseFor
<1> HIDE DEF q2
<1>3. SUFFICES ASSUME NEW p \in 1..Len(q2), CloseFor(q2[p], i),
                      NEW k \in 1..Len(q2), DataFor(q2[k], i)
               PROVE  (k < p => q2[k].chunk <= y) /\ (p < k => y < q2[k].chunk)
  BY DEF MarkOf, q2
<1>4. p = Len(q) + 1 BY <1>1, <1>3 DEF Closes
<1>5. k \in 1..Len(q) /\ q2[k] = q[k] BY <1>1, <1>2, <1>3
<1>6. ~(p < k) BY <1>1, <1>4, <1>5
<1>7. QED BY <1>3, <1>5, <1>6

\* A frame is read, and if it is a chunk of the stream the loop may take it.
LEMMA MarkRead ==
  ASSUME NEW q \in Seq(Frame), q # <<>>, NEW i, NEW n, NEW y, MarkOf(n, q, i, y),
         NEW n2, n2 = n \/ (DataFor(Head(q), i) /\ n2 = Head(q).chunk)
  PROVE  MarkOf(n2, Tail(q), i, y)
PROOF
<1> DEFINE q2 == Tail(q)
<1>1. /\ Len(q) \in Nat /\ Head(q) = q[1] /\ 1 \in 1..Len(q)
      /\ \A p \in 1..Len(q2) : q2[p] = q[p + 1] /\ p + 1 \in 1..Len(q) /\ 1 < p + 1
  BY Shortened
<1> HIDE DEF q2
<1>2. SUFFICES ASSUME NEW p \in 1..Len(q2), CloseFor(q2[p], i)
               PROVE  /\ n2 <= y
                      /\ \A k \in 1..Len(q2) : DataFor(q2[k], i) =>
                           /\ k < p => q2[k].chunk <= y
                           /\ p < k => y < q2[k].chunk
  BY DEF MarkOf, q2
<1>3. n2 <= y
  <2>1. CASE n2 = n BY <1>1, <1>2, <2>1 DEF MarkOf
  <2>2. CASE DataFor(Head(q), i) /\ n2 = Head(q).chunk
    BY <1>1, <1>2, <2>2 DEF MarkOf
  <2>3. QED BY <2>1, <2>2
<1>4. ASSUME NEW k \in 1..Len(q2), DataFor(q2[k], i)
      PROVE  (k < p => q2[k].chunk <= y) /\ (p < k => y < q2[k].chunk)
  <2>1. (k < p => k + 1 < p + 1) /\ (p < k => p + 1 < k + 1) OBVIOUS
  <2>2. QED BY <1>1, <1>2, <1>4, <2>1 DEF MarkOf
<1>5. QED BY <1>3, <1>4

\* What half h has received is a number, and depends on its queues and its loop.
LEMMA GotNat ==
  ASSUME TypeInv, NEW h \in Halves
  PROVE  /\ Got(h) \in Nat
         /\ Got(h) = Len(buf[h]) + Len(readCh[h]) + (IF Pushing(h) THEN 1 ELSE 0)
         /\ fin[h] \in Nat /\ sent[h] \in Nat /\ fin[Far(h)] \in Nat /\ sent[Far(h)] \in Nat
         /\ net[End(h)] \in Seq(Frame) /\ Id(h) \in Ids /\ End(h) \in Ends
PROOF
<1>1. buf[h] \in Seq(Nat) /\ readCh[h] \in Seq(Nat) BY DEF TypeInv, TypeOK
<1>2. Len(buf[h]) \in Nat /\ Len(readCh[h]) \in Nat BY <1>1, LenProperties
<1>3. Far(h) \in Halves BY FrameTypes
<1>4. QED BY <1>2, <1>3, FrameTypes DEF Got, Reached, Pushing, TypeInv, TypeOK

\* A step that brings half h nothing but frames behind a CLOSE, if there is one, and
\* does not make it due again if it has come to its end.
LEMMA EndSame ==
  ASSUME TypeInv, NEW h \in Halves, Marked(h), Complete(h),
         Got(h)' = Got(h), fin'[Far(h)] = fin[Far(h)], shut'[h] => shut[h],
         closing[Far(h)] = "done" => closing'[Far(h)] = "done",
         \/ net'[End(h)] = net[End(h)]
         \/ \E f \in Frame : /\ net'[End(h)] = Append(net[End(h)], f)
                             /\ ~CloseFor(f, Id(h))
                             /\ OpenFor(f, Id(h)) => ~shut[h]
                             /\ DataFor(f, Id(h)) => fin[Far(h)] < f.chunk,
         Id(h) \in table'[End(h)] => DueAt(End(h), Id(h)) \/ ~shut[h],
         loop'[End(h)] = loop[End(h)] \/ loop'[End(h)].pc \notin {"push", "register"}
  PROVE  Marked(h)' /\ Complete(h)'
PROOF
<1> DEFINE q == net[End(h)]
           q2 == net'[End(h)]
           i == Id(h)
<1>1. q \in Seq(Frame) /\ i \in Ids BY GotNat
<1>2. MarkOf(Got(h), q2, i, fin[Far(h)])
  <2>1. CASE q2 = q BY <2>1 DEF Marked
  <2>2. CASE \E f \in Frame : /\ q2 = Append(q, f) /\ ~CloseFor(f, i)
                              /\ DataFor(f, i) => fin[Far(h)] < f.chunk
    <3>1. PICK f \in Frame : /\ q2 = Append(q, f) /\ ~CloseFor(f, i)
                             /\ DataFor(f, i) => fin[Far(h)] < f.chunk
      BY <2>2
    <3> HIDE DEF q, q2, i
    <3>2. MarkOf(Got(h), q, i, fin[Far(h)]) BY DEF Marked, q, i
    <3>3. MarkOf(Got(h), Append(q, f), i, fin[Far(h)])
      BY <1>1, <3>1, <3>2, MarkBehind
    <3>4. QED BY <3>1, <3>3
  <2>3. QED BY <2>1, <2>2
<1>3. Marked(h)' BY <1>2 DEF Marked
<1>4. shut[h] => (Opens(q2, i) => Opens(q, i))
  <2>1. CASE q2 = q BY <2>1
  <2>2. ASSUME shut[h], NEW f \in Frame, q2 = Append(q, f), ~OpenFor(f, i)
        PROVE  Opens(q2, i) => Opens(q, i)
    <3> HIDE DEF q, q2, i
    <3>1. Opens(Append(q, f), i) <=> Opens(q, i) \/ OpenFor(f, i)
      BY <1>1, FramesAppended
    <3>2. QED BY <2>2, <3>1
  <2>3. QED BY <2>1, <2>2
<1>5. ASSUME shut[h] PROVE DueAt(End(h), i)' => DueAt(End(h), i)
  BY <1>4, <1>5 DEF DueAt, Due, Opens
<1>6. Pushing(h)' => Pushing(h) BY DEF Pushing
<1>7. Complete(h)' BY <1>5, <1>6 DEF Complete
<1>8. QED BY <1>3, <1>7

\* OpenStream: a stream that is not announced has not come to an end.
LEMMA EndOpen ==
  ASSUME TypeInv, HeldInv, StageInv, NEW h \in Halves,
         OpenStream(h) \/ RegisterStream(h) \/ AnnounceStream(h),
         NEW g \in Halves, Marked(g), Complete(g)
  PROVE  Marked(g)' /\ Complete(g)'
PROOF
<1> USE DEF controlVars, userVars, readVars, writeVars, queueVars
<1>t. /\ net \in [Ends -> Seq(Frame)] /\ table \in [Ends -> SUBSET Ids]
      /\ g = <<End(g), Id(g)>> /\ End(g) \in Ends /\ Id(g) \in Ids /\ Id(h) \in Ids
      /\ Far(g) = <<Peer(End(g)), Id(g)>> /\ Peer(End(g)) \in Ends
  BY StageTypes, FrameTypes DEF Far, End, Id
<1>1. UNCHANGED <<buf, readCh, loop, fin, shut, closing>>
  BY DEF OpenStream, RegisterStream, AnnounceStream
<1>2. Got(g)' = Got(g) BY <1>1 DEF Got
<1>3. OpenStream(h) \/ use[h] \in {"register", "announce"}
  BY DEF RegisterStream, AnnounceStream
<1>4. ASSUME Id(g) = Id(h), ~OpenStream(h) PROVE ~shut[g]
  <2>1. h = <<"server", Id(h)>> BY <1>3, <1>4, HalfOf DEF HeldInv
  <2>2. use[<<"server", Id(h)>>] # "held" BY <1>3, <1>4, <2>1
  <2>3. closing[Far(g)] = "no" BY <1>t, <1>4, <2>2, Unheard
  <2>4. QED BY <2>3 DEF Complete
<1>5. \/ net'[End(g)] = net[End(g)]
      \/ net'[End(g)] = Append(net[End(g)], Open(h)) /\ ~OpenStream(h)
  BY <1>t DEF OpenStream, RegisterStream, AnnounceStream, Written, WriteFails, Peer
<1>6. /\ Open(h) \in Frame /\ ~CloseFor(Open(h), Id(g)) /\ ~DataFor(Open(h), Id(g))
      /\ OpenFor(Open(h), Id(g)) => Id(g) = Id(h)
  BY FrameTypes DEF Open, CloseFor, DataFor, OpenFor
<1>7. Id(g) \in table'[End(g)] => Id(g) \in table[End(g)] \/ (Id(g) = Id(h) /\ ~OpenStream(h))
  <2>1. CASE table' = table /\ OpenStream(h) BY <2>1
  <2>2. CASE table' = [table EXCEPT !["server"] = @ \cup {Id(h)}] /\ ~OpenStream(h)
    <3>1. table'[End(g)] = table[End(g)] \/ table'[End(g)] = table[End(g)] \cup {Id(h)}
      BY <1>t, <2>2
    <3>2. QED BY <2>2, <3>1
  <2>3. CASE UNCHANGED table BY <2>3
  <2>4. CASE table' = [table EXCEPT !["server"] = @ \ {Id(h)}]
    <3>1. table'[End(g)] \subseteq table[End(g)] BY <1>t, <2>4
    <3>2. QED BY <3>1
  <2>5. QED
    BY <2>1, <2>2, <2>3, <2>4 DEF OpenStream, RegisterStream, AnnounceStream
<1>8. Id(g) \in table'[End(g)] => DueAt(End(g), Id(g)) \/ ~shut[g]
  BY <1>4, <1>7 DEF DueAt, Due
<1>9. \/ net'[End(g)] = net[End(g)]
      \/ \E f \in Frame : /\ net'[End(g)] = Append(net[End(g)], f)
                          /\ ~CloseFor(f, Id(g))
                          /\ OpenFor(f, Id(g)) => ~shut[g]
                          /\ DataFor(f, Id(g)) => fin[Far(g)] < f.chunk
  BY <1>4, <1>5, <1>6
<1>10. QED BY <1>1, <1>2, <1>8, <1>9, EndSame

\* Close writes its frame: behind every chunk, and before it another one is not
\* there.
LEMMA EndTell ==
  ASSUME IInv, StageInv, FinInv, NEW h \in Halves, CloseTell(h),
         NEW g \in Halves, closing'[g] = "no", sess[End(g)] = "open"
  PROVE  Marked(g)' /\ Complete(g)'
PROOF
<1> USE DEF controlVars, userVars, readVars, writeVars, queueVars
<1>t. /\ net \in [Ends -> Seq(Frame)] /\ closing \in [Halves -> {"no", "remove", "tell", "done"}]
      /\ shut \in [Halves -> BOOLEAN] /\ fin \in [Halves -> Nat]
      /\ End(g) \in Ends /\ Id(g) \in Ids /\ End(h) \in Ends /\ Id(h) \in Ids
      /\ g = <<End(g), Id(g)>> /\ h = <<End(h), Id(h)>>
      /\ Far(g) \in Halves /\ Far(Far(g)) = g /\ Far(g) = <<Peer(End(g)), Id(g)>>
      /\ TypeInv
  BY StageTypes, FrameTypes DEF Far, End, Id, IInv, TypeInv, TypeOK
<1>1. /\ UNCHANGED <<buf, readCh, loop, table, sent>>
      /\ closing[h] = "tell" /\ closing' = [closing EXCEPT ![h] = "done"]
      /\ fin' = [fin EXCEPT ![h] = sent[h]] /\ shut' = [shut EXCEPT ![h] = TRUE]
  BY DEF CloseTell
<1>2. g # h /\ closing[g] = "no" /\ shut'[g] = shut[g] BY <1>t, <1>1
<1>3. Marked(g) /\ Complete(g) BY <1>2 DEF FinInv
<1>4. Got(g)' = Got(g) BY <1>1 DEF Got
<1>5. \/ net'[End(g)] = net[End(g)]
      \/ End(g) = Peer(End(h)) /\ net'[End(g)] = Append(net[End(g)], Close(h))
  BY <1>t DEF CloseTell, CloseSaid, Written, WriteFails
<1>6. /\ Close(h) \in Frame /\ ~DataFor(Close(h), Id(g)) /\ ~OpenFor(Close(h), Id(g))
      /\ CloseFor(Close(h), Id(h)) /\ (CloseFor(Close(h), Id(g)) => Id(g) = Id(h))
  BY FrameTypes DEF Close, CloseFor, DataFor, OpenFor
<1>7. CASE Far(g) # h
  <2>1. fin'[Far(g)] = fin[Far(g)] /\ closing'[Far(g)] = closing[Far(g)]
    BY <1>t, <1>1, <1>7
  <2>2. End(g) = Peer(End(h)) /\ Id(g) = Id(h) => Far(g) = h
    BY <1>t, EndTypes
  <2>3. \/ net'[End(g)] = net[End(g)]
        \/ \E f \in Frame : /\ net'[End(g)] = Append(net[End(g)], f)
                            /\ ~CloseFor(f, Id(g))
                            /\ OpenFor(f, Id(g)) => ~shut[g]
                            /\ DataFor(f, Id(g)) => fin[Far(g)] < f.chunk
    BY <1>5, <1>6, <1>7, <2>2
  <2>4. Id(g) \in table'[End(g)] => DueAt(End(g), Id(g)) BY <1>1 DEF DueAt, Due
  <2>5. QED BY <1>t, <1>1, <1>2, <1>3, <1>4, <2>1, <2>3, <2>4, EndSame
<1>8. CASE Far(g) = h
  <2> DEFINE q == net[End(g)]
             i == Id(g)
             n == Got(g)
             y == sent[h]
  <2>1. ~shut[g] BY <1>1, <1>3, <1>8 DEF Complete
  <2>2. Complete(g)' BY <1>2, <2>1 DEF Complete
  <2>3. ~Closes(q, i)
    <3>1. EndStage(End(g), i) BY <1>t DEF StageInv, StageOf
    <3>2. QED BY <1>t, <1>1, <1>8, <3>1 DEF EndStage
  <2>4. n <= y /\ \A k \in 1..Len(q) : DataFor(q[k], i) => q[k].chunk <= y
    <3>1. Flow(g) BY <1>2 DEF IInv, FlowInv
    <3>2. QED BY <1>8, <3>1 DEF Flow, FlowOf, Got
  <2>5. q \in Seq(Frame) /\ Close(h) \in Frame /\ CloseFor(Close(h), i)
    <3>1. i = Id(h) BY <1>t, <1>8
    <3>2. QED BY <1>t, <1>6, <3>1
  <2>6. fin'[Far(g)] = y BY <1>t, <1>1, <1>8
  <2> HIDE DEF q, i, n, y
  <2>7. MarkOf(n, q, i, y) BY <2>3 DEF MarkOf, Closes
  <2>8. MarkOf(n, Append(q, Close(h)), i, y) BY <2>3, <2>4, <2>5, MarkClose
  <2>9. MarkOf(n, net'[End(g)], i, y)
    <3>1. net'[End(g)] = q \/ net'[End(g)] = Append(q, Close(h)) BY <1>5 DEF q
    <3>2. QED BY <2>7, <2>8, <3>1
  <2>10. Marked(g)' BY <1>4, <2>6, <2>9 DEF Marked, n, i
  <2>11. QED BY <2>2, <2>10
<1>9. QED BY <1>7, <1>8

\* The users of the streams.
LEMMA EndStream ==
  ASSUME IInv, StageInv, FinInv, NEW h \in Halves, Stream(h),
         NEW g \in Halves, closing'[g] = "no", sess'[End(g)] = "open"
  PROVE  Marked(g)' /\ Complete(g)'
PROOF
<1> USE DEF controlVars, userVars, readVars, writeVars, queueVars
<1>t. /\ net \in [Ends -> Seq(Frame)] /\ closing \in [Halves -> {"no", "remove", "tell", "done"}]
      /\ table \in [Ends -> SUBSET Ids]
      /\ End(g) \in Ends /\ Id(g) \in Ids /\ Far(g) \in Halves
      /\ TypeInv /\ HeldInv
  BY StageTypes, FrameTypes DEF IInv
<1>1. UNCHANGED <<sess, loop>>
  BY DEF Stream, OpenStream, RegisterStream, AnnounceStream, StartWrite, WriteChunk,
         CloseStream, CloseRemove, CloseTell, Ingest, IngestEnds
<1>2. closing[g] = "no"
  <2>1. \/ closing' = closing
        \/ \E x \in {"remove", "tell", "done"} : closing' = [closing EXCEPT ![h] = x]
    BY DEF Stream, OpenStream, RegisterStream, AnnounceStream, StartWrite, WriteChunk,
           CloseStream, CloseRemove, CloseTell, Ingest, IngestEnds
  <2>2. QED BY <1>t, <2>1
<1>3. Marked(g) /\ Complete(g) BY <1>1, <1>2 DEF FinInv
<1>4. CASE OpenStream(h) \/ RegisterStream(h) \/ AnnounceStream(h)
  BY <1>t, <1>3, <1>4, EndOpen
<1>5. CASE StartWrite(h) \/ IngestEnds(h) \/ CloseStream(h) \/ CloseRemove(h)
  <2>1. UNCHANGED <<buf, readCh, net, fin, shut>>
    BY <1>5 DEF StartWrite, IngestEnds, CloseStream, CloseRemove
  <2>2. Got(g)' = Got(g) BY <1>1, <2>1 DEF Got
  <2>3. closing[Far(g)] = "done" => closing'[Far(g)] = "done"
    BY <1>t, <1>5 DEF StartWrite, IngestEnds, CloseStream, CloseRemove
  <2>4. Id(g) \in table'[End(g)] => Id(g) \in table[End(g)]
    BY <1>t, <1>5 DEF StartWrite, IngestEnds, CloseStream, CloseRemove
  <2>5. Id(g) \in table'[End(g)] => DueAt(End(g), Id(g)) BY <2>4 DEF DueAt, Due
  <2>6. QED BY <1>t, <1>1, <1>3, <2>1, <2>2, <2>3, <2>5, EndSame
<1>6. CASE WriteChunk(h)
  <2> DEFINE f == Data(h, sent[h] + 1)
  <2>1. UNCHANGED <<buf, readCh, fin, shut, table, closing>> BY <1>6 DEF WriteChunk
  <2>2. Got(g)' = Got(g) BY <1>1, <2>1 DEF Got
  <2>3. f \in Frame /\ f.type = "data" /\ f.id = Id(h) /\ f.chunk = sent[h] + 1
    <3>1. sent[h] \in Nat BY GotNat, <1>t
    <3>2. sent[h] + 1 \in Nat BY <3>1
    <3>3. QED BY <3>2, FrameTypes DEF Data
  <2> HIDE DEF f
  <2>4. \/ net'[End(g)] = net[End(g)]
        \/ End(g) = Peer(End(h)) /\ net'[End(g)] = Append(net[End(g)], f)
    BY <1>t, <1>6 DEF WriteChunk, Written, WriteFails, f
  <2>5. End(g) = Peer(End(h)) /\ DataFor(f, Id(g)) => fin[Far(g)] < f.chunk
    <3>1. SUFFICES ASSUME End(g) = Peer(End(h)), Id(g) = Id(h)
                   PROVE  fin[Far(g)] < f.chunk
      BY <2>3 DEF DataFor
    <3>2. Far(g) = h
      <4>1. h = <<End(h), Id(h)>> /\ End(h) \in Ends BY FrameTypes
      <4>2. Far(g) = <<Peer(End(g)), Id(g)>> BY DEF Far, End, Id
      <4>3. QED BY <3>1, <4>1, <4>2, EndTypes
    <3>3. fin[h] <= sent[h] BY DEF FinInv
    <3>4. fin[h] \in Nat /\ sent[h] \in Nat BY <1>t, GotNat
    <3>5. QED BY <2>3, <3>2, <3>3, <3>4
  <2>6. ~CloseFor(f, Id(g)) /\ ~OpenFor(f, Id(g)) BY <2>3 DEF CloseFor, OpenFor
  <2>7. \/ net'[End(g)] = net[End(g)]
        \/ \E f2 \in Frame : /\ net'[End(g)] = Append(net[End(g)], f2)
                             /\ ~CloseFor(f2, Id(g))
                             /\ OpenFor(f2, Id(g)) => ~shut[g]
                             /\ DataFor(f2, Id(g)) => fin[Far(g)] < f2.chunk
    BY <2>3, <2>4, <2>5, <2>6
  <2>8. Id(g) \in table'[End(g)] => DueAt(End(g), Id(g)) BY <2>1 DEF DueAt, Due
  <2>9. QED BY <1>t, <1>1, <1>3, <2>1, <2>2, <2>7, <2>8, EndSame
<1>7. CASE CloseTell(h) BY <1>1, <1>7, EndTell
<1>8. CASE Ingest(h)
  <2>1. UNCHANGED <<net, fin, shut, table, closing>> BY <1>8 DEF Ingest
  <2>2. Got(g)' = Got(g)
    <3>1. /\ buf \in [Halves -> Seq(Nat)] /\ readCh \in [Halves -> Seq(Nat)]
          /\ buf' = [buf EXCEPT ![h] = Append(@, Head(readCh[h]))]
          /\ readCh' = [readCh EXCEPT ![h] = Tail(@)] /\ readCh[h] # <<>>
      BY <1>t, <1>8 DEF Ingest, TypeInv, TypeOK
    <3>2. CASE g # h
      <4>1. buf'[g] = buf[g] /\ readCh'[g] = readCh[g] BY <3>1, <3>2
      <4>2. QED BY <1>1, <4>1 DEF Got
    <3>3. CASE g = h
      <4>1. /\ buf'[h] = Append(buf[h], Head(readCh[h])) /\ readCh'[h] = Tail(readCh[h])
            /\ buf[h] \in Seq(Nat) /\ readCh[h] \in Seq(Nat)
        BY <3>1
      <4>2. /\ Len(buf'[h]) = Len(buf[h]) + 1 /\ Len(readCh'[h]) = Len(readCh[h]) - 1
            /\ Len(buf[h]) \in Nat /\ Len(readCh[h]) \in Nat
        BY <3>1, <4>1, QueueTypes
      <4> DEFINE b == Len(buf[h])
                 r == Len(readCh[h])
                 b2 == Len(buf'[h])
                 r2 == Len(readCh'[h])
      <4>3. b2 + r2 = b + r
        <5>1. b \in Nat /\ r \in Nat /\ b2 = b + 1 /\ r2 = r - 1 BY <4>2
        <5> HIDE DEF b, r, b2, r2
        <5>2. QED BY <5>1
      <4>4. QED BY <1>1, <3>3, <4>3 DEF Got, Reached
    <3>4. QED BY <3>2, <3>3
  <2>3. Id(g) \in table'[End(g)] => DueAt(End(g), Id(g)) BY <2>1 DEF DueAt, Due
  <2>4. QED BY <1>t, <1>1, <1>3, <2>1, <2>2, <2>3, EndSame
<1>9. QED BY <1>4, <1>5, <1>6, <1>7, <1>8 DEF Stream

\* A frame is read.  A half that has come to its end takes none of it.
LEMMA EndFrame ==
  ASSUME IInv, FlowInv', StageInv, FinInv, NEW e \in Ends, ReadFrame(e),
         NEW g \in Halves, closing[g] = "no", sess[End(g)] = "open"
  PROVE  Marked(g)' /\ Complete(g)'
PROOF
<1> USE DEF controlVars, userVars, readVars, writeVars, queueVars, streamVars
<1>t. /\ net \in [Ends -> Seq(Frame)] /\ loop \in [Ends -> Loops]
      /\ End(g) \in Ends /\ Id(g) \in Ids /\ Far(g) \in Halves /\ TypeInv
  BY StageTypes, FrameTypes DEF IInv
<1>1. UNCHANGED <<buf, readCh, fin, shut, table, closing, sess>> BY DEF ReadFrame
<1>2. Marked(g) /\ Complete(g) BY DEF FinInv
<1>3. CASE End(g) # e
  <2>1. net'[End(g)] = net[End(g)] /\ loop'[End(g)] = loop[End(g)]
    BY <1>t, <1>3 DEF ReadFrame
  <2>2. Got(g)' = Got(g) BY <1>1, <2>1 DEF Got
  <2>3. Id(g) \in table'[End(g)] => DueAt(End(g), Id(g)) BY <1>1 DEF DueAt, Due
  <2>4. QED BY <1>t, <1>1, <1>2, <2>1, <2>2, <2>3, EndSame
<1>4. CASE End(g) = e
  <2> DEFINE q == net[e]
             f == Head(q)
             i == Id(g)
             l2 == loop'[e]
             n == Got(g)
             n2 == Got(g)'
             y == fin[Far(g)]
  <2>1. q \in Seq(Frame) /\ q # <<>> /\ net'[e] = Tail(q) /\ loop[e].pc = "read"
    BY <1>t DEF ReadFrame
  <2>2. \/ f.type = "open" /\ l2.pc = "register" /\ l2.id = f.id
        \/ f.type = "data" /\ f.id \in table[e] /\ l2.pc = "push" /\ l2.id = f.id
             /\ l2.chunk = f.chunk
        \/ l2.pc = "read"
    BY <1>t DEF ReadFrame, Reading
  <2> DEFINE b == Len(buf[g])
             r == Len(readCh[g])
             a == b + r
  <2>a. a \in Nat
    <3>1. buf[g] \in Seq(Nat) /\ readCh[g] \in Seq(Nat) BY <1>t DEF TypeInv, TypeOK
    <3>2. b \in Nat /\ r \in Nat BY <3>1, LenProperties
    <3> HIDE DEF b, r
    <3>3. QED BY <3>2
  <2>3. n = a
    <3>1. n = a + 0 BY <1>4, <2>1 DEF Got, Reached
    <3> HIDE DEF a, n
    <3>2. QED BY <2>a, <3>1
  <2>4. n2 = IF l2.pc = "push" /\ l2.id = i THEN n + 1 ELSE n
    <3>1. n2 = a + (IF l2.pc = "push" /\ l2.id = i THEN 1 ELSE 0)
      BY <1>1, <1>4 DEF Got, Reached
    <3> HIDE DEF a, n, n2, l2, i
    <3>2. QED BY <2>a, <2>3, <3>1
  <2>5. ASSUME l2.pc = "push", l2.id = i
        PROVE  DataFor(f, i) /\ n2 = f.chunk /\ i \in table[e]
    <3>1. /\ f.type = "data" /\ f.id = i /\ i \in table[e] /\ l2.chunk = f.chunk
      BY <2>2, <2>5
    <3>2. Flow(g)' BY <1>1 DEF FlowInv
    <3>3. l2.chunk = Len(buf[g]) + Len(readCh[g]) + 1
      BY <1>1, <1>4, <2>5, <3>2 DEF Flow, FlowOf
    <3>4. QED BY <2>3, <2>4, <2>5, <3>1, <3>3 DEF DataFor
  <2>6. n2 = n \/ (DataFor(f, i) /\ n2 = f.chunk) BY <2>4, <2>5
  <2>7. MarkOf(n, q, i, y) BY <1>2, <1>4 DEF Marked
  <2>8. Marked(g)'
    <3> HIDE DEF q, i, l2, n, n2, y
    <3>1. MarkOf(n2, Tail(q), i, y) BY <2>1, <2>6, <2>7, MarkRead DEF f
    <3>2. QED BY <1>1, <1>4, <2>1, <3>1 DEF Marked, i, n2, y
  <2>9. ASSUME shut[g] PROVE ~DueAt(e, i)' /\ ~Pushing(g)' /\ n2 = n
    <3>1. ~DueAt(e, i) BY <1>2, <1>4, <2>9 DEF Complete
    <3>2. i \notin table[e] /\ ~Opens(q, i) BY <3>1 DEF DueAt, Due, Opens
    <3>3. ~OpenFor(f, i) /\ ~Opens(Tail(q), i)
      <4> HIDE DEF q, i
      <4>1. Opens(q, i) <=> Opens(Tail(q), i) \/ OpenFor(Head(q), i)
        BY <2>1, FramesRead
      <4>2. QED BY <3>2, <4>1 DEF f
    <3>4. ~(l2.pc = "register" /\ l2.id = i) /\ ~(l2.pc = "push" /\ l2.id = i)
      BY <2>2, <3>2, <3>3 DEF OpenFor
    <3>5. ~DueAt(e, i)' BY <1>1, <2>1, <3>2, <3>3, <3>4 DEF DueAt, Due, Opens
    <3>6. QED BY <1>4, <2>4, <3>4, <3>5 DEF Pushing
  <2>10. Complete(g)' BY <1>1, <1>2, <1>4, <2>9 DEF Complete
  <2>11. QED BY <2>8, <2>10
<1>5. QED BY <1>3, <1>4

\* CLOSE is read: what was written before it has come.
LEMMA EndRead ==
  ASSUME IInv, StageInv, FinInv, NEW e \in Ends, ReadClose(e),
         NEW g \in Halves, closing[g] = "no", sess[End(g)] = "open"
  PROVE  Marked(g)' /\ Complete(g)'
PROOF
<1> USE DEF controlVars, userVars, readVars, writeVars, queueVars, streamVars
<1>t. /\ net \in [Ends -> Seq(Frame)] /\ loop \in [Ends -> Loops]
      /\ table \in [Ends -> SUBSET Ids] /\ shut \in [Halves -> BOOLEAN]
      /\ End(g) \in Ends /\ Id(g) \in Ids /\ Far(g) \in Halves /\ TypeInv
      /\ g = <<End(g), Id(g)>> /\ Far(g) = <<Peer(End(g)), Id(g)>>
  BY StageTypes, FrameTypes DEF IInv, TypeInv, TypeOK, Far, End, Id
<1>u. \A d, j : g = <<d, j>> => End(g) = d /\ Id(g) = j BY DEF End, Id
<1>1. UNCHANGED <<buf, readCh, fin, loop, closing, sess>> BY DEF ReadClose
<1>2. Marked(g) /\ Complete(g) BY DEF FinInv
<1>3. Got(g)' = Got(g) BY <1>1 DEF Got
<1>4. CASE End(g) # e
  <2>1. net'[End(g)] = net[End(g)] /\ table'[End(g)] = table[End(g)]
    BY <1>t, <1>4 DEF ReadClose
  <2>2. shut'[g] = shut[g] BY <1>t, <1>u, <1>4 DEF ReadClose
  <2>3. Id(g) \in table'[End(g)] => DueAt(End(g), Id(g)) BY <2>1 DEF DueAt, Due
  <2>4. QED BY <1>t, <1>1, <1>2, <1>3, <2>1, <2>2, <2>3, EndSame
<1>5. CASE End(g) = e
  <2> DEFINE q == net[e]
             f == Head(q)
             i == Id(g)
             n == Got(g)
             y == fin[Far(g)]
  <2>1. /\ q \in Seq(Frame) /\ q # <<>> /\ net'[e] = Tail(q) /\ loop[e].pc = "read"
        /\ f.type = "close" /\ table'[e] = table[e] \ {f.id}
        /\ shut' = IF f.id \in table[e] THEN [shut EXCEPT ![<<e, f.id>>] = TRUE] ELSE shut
    BY <1>t DEF ReadClose, Unlisted
  <2>2. MarkOf(n, q, i, y) BY <1>2, <1>5 DEF Marked
  <2>3. Marked(g)'
    <3> HIDE DEF q, f, i, n, y
    <3>1. MarkOf(n, Tail(q), i, y) BY <2>1, <2>2, MarkRead
    <3>2. QED BY <1>1, <1>3, <1>5, <2>1, <3>1 DEF Marked, i, n, y
  <2>4. ~Pushing(g)' BY <1>1, <1>5, <2>1 DEF Pushing
  <2>5. CASE f.id = i /\ i \in table[e]
    <3>1. CloseFor(f, i) /\ f = q[1] /\ 1 \in 1..Len(q)
      BY <2>1, <2>5, Shortened DEF CloseFor
    <3>2. n = y
      <4>1. /\ n <= y
            /\ \A k \in 1..Len(q) : DataFor(q[k], i) => (1 < k => y < q[k].chunk)
        BY <2>2, <3>1 DEF MarkOf
      <4>2. ~DataFor(q[1], i) BY <3>1 DEF DataFor, CloseFor
      <4>3. Flow(g) BY DEF IInv, FlowInv
      <4>4. DueAt(e, i) BY <2>5 DEF DueAt, Due
      <4>5. y \in Nat /\ n \in Nat /\ sent[Far(g)] \in Nat /\ y <= sent[Far(g)]
        BY <1>t, GotNat DEF FinInv
      <4>6. ASSUME n < y PROVE FALSE
        <5>1. PICK k \in 1..Len(q) : DataFor(q[k], i) /\ q[k].chunk = y
          BY <1>5, <4>3, <4>4, <4>5, <4>6 DEF Flow, FlowOf, Got, DueAt
        <5>2. 1 < k BY <4>2, <5>1
        <5>3. y < y BY <4>1, <5>1, <5>2
        <5>4. QED BY <4>5, <5>3
      <4>7. QED BY <4>1, <4>5, <4>6
    <3>3. EndStage(e, i) /\ OpenFirst(net["client"], i) /\ ~Opens(net["server"], i)
      BY <1>t, <1>5 DEF StageInv, StageOf
    <3>4. closing[Far(g)] = "done"
      <4>1. Closes(q, i) BY <3>1 DEF Closes
      <4>2. QED BY <1>t, <1>5, <3>3, <4>1 DEF EndStage
    <3>5. ~Opens(Tail(q), i)
      <4>1. /\ Opens(q, i) <=> Opens(Tail(q), i) \/ OpenFor(f, i)
            /\ OpenFirst(q, i) => ~Opens(Tail(q), i)
        BY <2>1, <2>5, FramesRead
      <4>2. e = "client" \/ e = "server" BY EndTypes
      <4>3. QED BY <3>3, <4>1, <4>2
    <3>6. ~DueAt(e, i)' BY <1>1, <2>1, <2>5, <3>5 DEF DueAt, Due, Opens
    <3>7. QED BY <1>1, <1>3, <1>5, <2>3, <2>4, <3>2, <3>4, <3>6 DEF Complete
  <2>6. CASE ~(f.id = i /\ i \in table[e])
    <3>1. shut'[g] = shut[g] BY <1>t, <1>u, <1>5, <2>1, <2>6
    <3>2. DueAt(e, i)' => DueAt(e, i)
      <4>1. i \in table'[e] => i \in table[e] BY <2>1
      <4>2. Opens(Tail(q), i) => Opens(q, i) BY <2>1, FramesRead
      <4>3. QED BY <1>1, <2>1, <4>1, <4>2 DEF DueAt, Due, Opens
    <3>3. QED BY <1>1, <1>2, <1>3, <1>5, <2>3, <2>4, <3>1, <3>2 DEF Complete
  <2>7. QED BY <2>5, <2>6
<1>6. QED BY <1>4, <1>5

\* The rest of handleFrame, and a loop that ends.
LEMMA EndLoop ==
  ASSUME IInv, StageInv, FinInv, NEW e \in Ends,
         \/ Register(e) \/ Offer(e) \/ PushData(e) \/ PushOverflows(e)
         \/ PushPanics(e) \/ LoopCloses(e) \/ ReadFails(e),
         NEW g \in Halves, closing'[g] = "no", sess'[End(g)] = "open"
  PROVE  Marked(g)' /\ Complete(g)'
PROOF
<1> USE DEF controlVars, userVars, readVars, writeVars, queueVars, streamVars
<1>t. /\ net \in [Ends -> Seq(Frame)] /\ loop \in [Ends -> Loops]
      /\ table \in [Ends -> SUBSET Ids] /\ readCh \in [Halves -> Seq(Nat)]
      /\ sess \in [Ends -> {"open", "closing", "over", "panicked"}]
      /\ closing \in [Halves -> {"no", "remove", "tell", "done"}]
      /\ End(g) \in Ends /\ Id(g) \in Ids /\ Far(g) \in Halves /\ TypeInv
      /\ g = <<End(g), Id(g)>> /\ buf[g] \in Seq(Nat) /\ readCh[g] \in Seq(Nat)
  BY StageTypes, FrameTypes DEF IInv, TypeInv, TypeOK
<1>u. \A d, j : g = <<d, j>> <=> End(g) = d /\ Id(g) = j BY <1>t DEF End, Id
<1> DEFINE j == loop[e].id
           h == <<e, j>>
<1>1. UNCHANGED <<buf, fin, shut>>
  BY DEF Register, Offer, PushData, PushOverflows, PushPanics, LoopCloses, ReadFails
<1>2. /\ \A d \in Ends : d # e => /\ loop'[d] = loop[d] /\ net'[d] = net[d]
                                  /\ table'[d] = table[d] /\ sess'[d] = sess[d]
      /\ sess'[e] = "open" => sess[e] = "open" /\ net'[e] = net[e]
  <2>1. CASE Register(e) \/ Offer(e) \/ PushData(e) \/ PushOverflows(e) \/ LoopCloses(e)
    BY <1>t, <2>1 DEF Register, Offer, PushData, PushOverflows, LoopCloses
  <2>2. CASE PushPanics(e) BY <1>t, <2>2 DEF PushPanics, Discard
  <2>3. CASE ReadFails(e)
    BY <1>t, <2>3 DEF ReadFails, ClosesToo, SetClosed, Discard
  <2>4. QED BY <2>1, <2>2, <2>3
<1>3. closing' = closing \/ \E x \in {"remove", "tell", "done"} : closing' = [closing EXCEPT ![h] = x]
  <2>1. CASE Offer(e) BY <2>1 DEF Offer
  <2>2. CASE PushOverflows(e)
    <3>1. h \in Halves BY <2>2 DEF PushOverflows, IInv, TypeInv, LoopIds, Halves
    <3>2. Overflowed(h) \in {"remove", "tell", "done"} BY <1>t, <3>1 DEF Overflowed
    <3>3. QED BY <2>2, <3>2 DEF PushOverflows
  <2>3. CASE UNCHANGED closing BY <2>3
  <2>4. QED
    BY <2>1, <2>2, <2>3
    DEF Register, PushData, PushPanics, LoopCloses, ReadFails
<1>4. /\ closing[g] = "no" /\ sess[End(g)] = "open"
      /\ closing[Far(g)] = "done" => closing'[Far(g)] = "done" \/ Far(g) = h
  <2>1. closing[g] = "no" BY <1>t, <1>3
  <2>2. closing[Far(g)] = "done" => closing'[Far(g)] = "done" \/ Far(g) = h
    BY <1>t, <1>3
  <2>3. QED BY <1>t, <1>2, <2>1, <2>2
<1>5. Marked(g) /\ Complete(g) BY <1>4 DEF FinInv
<1>6. closing[Far(g)] = "done" => closing'[Far(g)] = "done"
  <2>1. CASE Offer(e) /\ Far(g) = h
    <3>1. closing[h] = "no"
      <4>1. j \in Ids /\ e = "client" BY <2>1 DEF Offer, IInv, TypeInv, LoopIds, StageInv, Ends
      <4>2. Opening(j) BY <2>1, <4>1 DEF Offer, Opening
      <4>3. QED BY <4>1, <4>2 DEF StageInv, StageOf
    <3>2. QED BY <2>1, <3>1
  <2>2. CASE PushOverflows(e) /\ Far(g) = h
    BY <1>t, <2>2 DEF PushOverflows, Overflowed
  <2>3. CASE UNCHANGED closing BY <2>3
  <2>4. QED
    BY <1>4, <2>1, <2>2, <2>3
    DEF Register, Offer, PushData, PushOverflows, PushPanics, LoopCloses, ReadFails
<1>7. CASE End(g) # e
  <2>1. readCh'[g] = readCh[g]
    <3>1. g # h BY <1>u, <1>7
    <3>2. CASE PushData(e) BY <1>t, <3>1, <3>2 DEF PushData
    <3>3. CASE UNCHANGED readCh BY <3>3
    <3>4. QED
      BY <3>2, <3>3
      DEF Register, Offer, PushData, PushOverflows, PushPanics, LoopCloses, ReadFails
  <2>2. net'[End(g)] = net[End(g)] /\ loop'[End(g)] = loop[End(g)]
        /\ table'[End(g)] = table[End(g)]
    BY <1>t, <1>2, <1>7
  <2>3. Got(g)' = Got(g) BY <1>1, <2>1, <2>2 DEF Got
  <2>4. Id(g) \in table'[End(g)] => DueAt(End(g), Id(g)) BY <2>2 DEF DueAt, Due
  <2>5. QED BY <1>t, <1>1, <1>5, <1>6, <2>2, <2>3, <2>4, EndSame
<1>8. CASE End(g) = e
  <2>1. net'[e] = net[e] /\ ~PushPanics(e) /\ ~ReadFails(e)
    <3>1. ~PushPanics(e) BY <1>t, <1>8 DEF PushPanics
    <3>2. ~ReadFails(e) BY <1>t, <1>8 DEF ReadFails, ClosesToo, SetClosed
    <3>3. QED BY <1>2, <1>8, <3>1, <3>2
  <2>2. loop'[e].pc \in {"accept", "read", "close"}
    BY <1>t, <2>1 DEF Register, Offer, PushData, PushOverflows, LoopCloses, Loops, Reading
  <2>3. Id(g) \in table'[e] => DueAt(e, Id(g))
    <3>1. CASE Register(e)
      <4>1. table'[e] = table[e] \cup {j} /\ loop[e].pc = "register"
        BY <1>t, <3>1 DEF Register
      <4>2. QED BY <4>1 DEF DueAt, Due
    <3>2. CASE UNCHANGED table BY <3>2 DEF DueAt, Due
    <3>3. QED BY <2>1, <3>1, <3>2 DEF Offer, PushData, PushOverflows, LoopCloses
  <2> DEFINE b == Len(buf[g])
             r == Len(readCh[g])
             r2 == Len(readCh'[g])
  <2>4. b \in Nat /\ r \in Nat BY <1>t, LenProperties
  <2>5. /\ Got(g) = b + r + (IF loop[e].pc = "push" /\ j = Id(g) THEN 1 ELSE 0)
        /\ Got(g)' = b + r2 + 0
    BY <1>1, <1>8, <2>2 DEF Got, Reached
  <2>6. r2 = r + (IF loop[e].pc = "push" /\ j = Id(g) THEN 1 ELSE 0)
    <3>1. CASE PushData(e) /\ j = Id(g)
      <4>1. /\ g = h /\ loop[e].pc = "push" /\ loop[e].chunk \in Nat
            /\ readCh'[g] = Append(readCh[g], loop[e].chunk)
        BY <1>t, <1>u, <1>8, <3>1 DEF PushData, Loops
      <4>2. Len(readCh'[g]) = Len(readCh[g]) + 1 BY <1>t, <4>1, QueueTypes
      <4>3. QED BY <3>1, <4>1, <4>2
    <3>2. CASE PushData(e) /\ j # Id(g)
      <4>1. readCh'[g] = readCh[g] BY <1>t, <1>u, <3>2 DEF PushData
      <4> HIDE DEF j
      <4>2. QED BY <2>4, <3>2, <4>1
    <3>3. CASE PushOverflows(e)
      <4>1. j # Id(g)
        <5>1. g # h BY <1>t, <1>4, <3>3 DEF PushOverflows, Overflowed
        <5>2. QED BY <1>u, <1>8, <5>1
      <4>2. readCh' = readCh BY <3>3 DEF PushOverflows
      <4> HIDE DEF j
      <4>3. QED BY <2>4, <4>1, <4>2
    <3>4. CASE Register(e) \/ Offer(e) \/ LoopCloses(e)
      <4>1. readCh' = readCh /\ loop[e].pc # "push"
        BY <3>4 DEF Register, Offer, LoopCloses
      <4> HIDE DEF j
      <4>2. r2 = r + 0 BY <2>4, <4>1
      <4>3. QED BY <4>1, <4>2
    <3>5. QED BY <2>1, <3>1, <3>2, <3>3, <3>4
  <2>7. Got(g)' = Got(g)
    <3> DEFINE n == Got(g)
               n2 == Got(g)'
    <3> HIDE DEF b, r, r2, n, n2, j
    <3>1. n = b + r + (IF loop[e].pc = "push" /\ j = Id(g) THEN 1 ELSE 0) BY <2>5 DEF n
    <3>2. n2 = b + r2 + 0 BY <2>5 DEF n2
    <3>3. n2 = n BY <2>4, <2>6, <3>1, <3>2
    <3>4. QED BY <3>3 DEF n, n2
  <2>8. QED BY <1>t, <1>1, <1>5, <1>6, <1>8, <2>1, <2>2, <2>3, <2>7, EndSame
<1>9. QED BY <1>7, <1>8

\* The end of a session, and Accept.
LEMMA EndSession ==
  ASSUME IInv, FinInv,
         (\E e \in Ends : CloseSession(e) \/ Sweep(e)) \/ Accept \/ AcceptEnds,
         NEW g \in Halves, closing'[g] = "no", sess'[End(g)] = "open"
  PROVE  Marked(g)' /\ Complete(g)'
PROOF
<1> USE DEF controlVars, userVars, readVars, writeVars, queueVars, streamVars
<1>t. /\ net \in [Ends -> Seq(Frame)] /\ table \in [Ends -> SUBSET Ids]
      /\ sess \in [Ends -> {"open", "closing", "over", "panicked"}]
      /\ End(g) \in Ends /\ Id(g) \in Ids /\ TypeInv
  BY StageTypes, FrameTypes DEF IInv
<1>1. /\ UNCHANGED <<buf, readCh, fin, loop, closing>> /\ sess[End(g)] = "open"
      /\ net'[End(g)] = net[End(g)] /\ table'[End(g)] = table[End(g)]
      /\ shut'[g] => shut[g]
  <2>1. ASSUME NEW e \in Ends, CloseSession(e)
        PROVE  /\ UNCHANGED <<buf, readCh, fin, loop, closing>> /\ sess[End(g)] = "open"
               /\ net'[End(g)] = net[End(g)] /\ table'[End(g)] = table[End(g)]
               /\ shut'[g] => shut[g]
    BY <1>t, <2>1 DEF CloseSession, SetClosed, Discard
  <2>2. ASSUME NEW e \in Ends, Sweep(e)
        PROVE  /\ UNCHANGED <<buf, readCh, fin, loop, closing>> /\ sess[End(g)] = "open"
               /\ net'[End(g)] = net[End(g)] /\ table'[End(g)] = table[End(g)]
               /\ shut'[g] => shut[g]
    <3>1. End(g) # e BY <1>t, <2>2 DEF Sweep
    <3>2. QED BY <1>t, <2>2, <3>1 DEF Sweep, Ended
  <2>3. CASE Accept \/ AcceptEnds BY <2>3 DEF Accept, AcceptEnds
  <2>4. QED BY <2>1, <2>2, <2>3
<1>2. Marked(g) /\ Complete(g) BY <1>1 DEF FinInv
<1>3. Got(g)' = Got(g) BY <1>1 DEF Got
<1>4. Id(g) \in table'[End(g)] => DueAt(End(g), Id(g)) BY <1>1 DEF DueAt, Due
<1>5. QED BY <1>t, <1>1, <1>2, <1>3, <1>4, EndSame

\* Nobody closes after more than it wrote, and a stream that Read has seen the end
\* of has nothing left.
LEMMA FinKept ==
  ASSUME TypeInv, FinInv, Next, NEW g \in Halves
  PROVE  fin'[g] <= sent'[g] /\ (eof'[g] => shut'[g] /\ readCh'[g] = <<>>)
PROOF
<1> USE DEF controlVars, userVars, readVars, writeVars, queueVars, streamVars
<1>t. /\ fin \in [Halves -> Nat] /\ sent \in [Halves -> Nat]
      /\ shut \in [Halves -> BOOLEAN] /\ eof \in [Halves -> BOOLEAN]
      /\ readCh \in [Halves -> Seq(Nat)]
  BY DEF TypeInv, TypeOK
<1>0. fin[g] <= sent[g] /\ (eof[g] => shut[g] /\ readCh[g] = <<>>) BY DEF FinInv
<1>1. CASE UNCHANGED <<readCh, shut, eof, fin, sent>> BY <1>0, <1>1
<1>2. ASSUME NEW h \in Halves, Stream(h)
      PROVE  fin'[g] <= sent'[g] /\ (eof'[g] => shut'[g] /\ readCh'[g] = <<>>)
  <2>1. CASE WriteChunk(h)
    <3>1. UNCHANGED <<readCh, shut, eof, fin>> BY <2>1 DEF WriteChunk
    <3>2. sent'[g] = sent[g] \/ sent'[g] = sent[g] + 1 BY <1>t, <2>1 DEF WriteChunk
    <3>3. fin[g] \in Nat /\ sent[g] \in Nat BY <1>t
    <3>4. QED BY <1>0, <3>1, <3>2, <3>3
  <2>2. CASE CloseTell(h)
    <3>1. UNCHANGED <<readCh, eof, sent>> /\ (shut[g] => shut'[g])
      BY <1>t, <2>2 DEF CloseTell
    <3>2. fin'[g] = fin[g] \/ fin'[g] = sent[g] BY <1>t, <2>2 DEF CloseTell
    <3>3. sent[g] \in Nat BY <1>t
    <3>4. QED BY <1>0, <3>1, <3>2, <3>3
  <2>3. CASE Ingest(h)
    <3>1. UNCHANGED <<shut, eof, fin, sent>> BY <2>3 DEF Ingest
    <3>2. readCh'[g] = readCh[g] \/ readCh[g] # <<>> BY <1>t, <2>3 DEF Ingest
    <3>3. QED BY <1>0, <3>1, <3>2
  <2>4. CASE IngestEnds(h)
    <3>1. UNCHANGED <<readCh, shut, fin, sent>> BY <2>4 DEF IngestEnds
    <3>2. eof'[g] => eof[g] \/ (shut[g] /\ readCh[g] = <<>>)
      BY <1>t, <2>4 DEF IngestEnds, Drained
    <3>3. QED BY <1>0, <3>1, <3>2
  <2>5. QED
    BY <1>1, <1>2, <2>1, <2>2, <2>3, <2>4
    DEF Stream, OpenStream, RegisterStream, AnnounceStream, StartWrite, CloseStream,
        CloseRemove
<1>3. ASSUME NEW e \in Ends, ReadLoop(e)
      PROVE  fin'[g] <= sent'[g] /\ (eof'[g] => shut'[g] /\ readCh'[g] = <<>>)
  <2>1. CASE ReadClose(e)
    <3>1. UNCHANGED <<readCh, eof, fin, sent>> /\ (shut[g] => shut'[g])
      BY <1>t, <2>1 DEF ReadClose
    <3>2. QED BY <1>0, <3>1
  <2>2. CASE PushData(e)
    <3>1. UNCHANGED <<shut, eof, fin, sent>> BY <2>2 DEF PushData
    <3>2. readCh'[g] = readCh[g] \/ ~shut[g] BY <1>t, <2>2 DEF PushData
    <3>3. QED BY <1>0, <3>1, <3>2
  <2>3. QED
    BY <1>1, <1>3, <2>1, <2>2
    DEF ReadLoop, ReadFrame, Register, Offer, PushOverflows, PushPanics, LoopCloses,
        ReadFails
<1>4. ASSUME NEW e \in Ends, Sweep(e)
      PROVE  fin'[g] <= sent'[g] /\ (eof'[g] => shut'[g] /\ readCh'[g] = <<>>)
  <2>1. UNCHANGED <<readCh, eof, fin, sent>> /\ (shut[g] => shut'[g])
    BY <1>t, <1>4 DEF Sweep, Ended
  <2>2. QED BY <1>0, <2>1
<1>5. CASE (\E e \in Ends : CloseSession(e)) \/ Accept \/ AcceptEnds
  BY <1>1, <1>5 DEF CloseSession, Accept, AcceptEnds
<1>6. QED BY <1>2, <1>3, <1>4, <1>5 DEF Next

LEMMA FinInit == Init => FinInv
PROOF
<1> SUFFICES ASSUME Init PROVE FinInv OBVIOUS
<1>1. /\ \A h \in Halves : fin[h] = 0 /\ sent[h] = 0 /\ ~eof[h] /\ ~shut[h]
      /\ \A e \in Ends : net[e] = <<>>
  BY DEF Init
<1>2. 1..Len(<<>>) = {} OBVIOUS
<1>3. \A h \in Halves : Marked(h) /\ Complete(h)
  BY <1>1, <1>2, FrameTypes DEF Marked, MarkOf, Complete
<1>4. QED BY <1>1, <1>3 DEF FinInv

\* Every step keeps what the end of a stream promises.
LEMMA FinNext == IInv /\ StageInv /\ FinInv /\ [Next]_vars => FinInv'
PROOF
<1> SUFFICES ASSUME IInv, StageInv, FinInv, [Next]_vars PROVE FinInv' OBVIOUS
<1>1. CASE UNCHANGED vars
  <2>1. FinInv' <=> FinInv
    BY <1>1 DEF vars, streamVars, FinInv, Marked, Complete, Got, Pushing, DueAt
  <2>2. QED BY <2>1
<1>2. CASE Next
  <2>1. FlowInv' /\ TypeInv BY <1>2, INext DEF IInv
  <2>2. \A g \in Halves : fin'[g] <= sent'[g] /\ (eof'[g] => shut'[g] /\ readCh'[g] = <<>>)
    BY <1>2, <2>1, FinKept
  <2>3. ASSUME NEW g \in Halves, closing'[g] = "no", sess'[End(g)] = "open"
        PROVE  Marked(g)' /\ Complete(g)'
    <3>1. ASSUME NEW h \in Halves, Stream(h) PROVE Marked(g)' /\ Complete(g)'
      BY <2>3, <3>1, EndStream
    <3>2. ASSUME NEW e \in Ends, ReadLoop(e) PROVE Marked(g)' /\ Complete(g)'
      <4>1. CASE ReadFrame(e)
        <5>1. closing[g] = "no" /\ sess[End(g)] = "open"
          BY <2>3, <4>1 DEF ReadFrame, streamVars
        <5>2. QED BY <2>1, <4>1, <5>1, EndFrame
      <4>2. CASE ReadClose(e)
        <5>1. closing[g] = "no" /\ sess[End(g)] = "open"
          BY <2>3, <4>2 DEF ReadClose, userVars, controlVars
        <5>2. QED BY <4>2, <5>1, EndRead
      <4>3. CASE ~ReadFrame(e) /\ ~ReadClose(e)
        BY <2>3, <3>2, <4>3, EndLoop DEF ReadLoop
      <4>4. QED BY <4>1, <4>2, <4>3
    <3>3. CASE (\E e \in Ends : CloseSession(e) \/ Sweep(e)) \/ Accept \/ AcceptEnds
      BY <2>3, <3>3, EndSession
    <3>4. QED BY <1>2, <3>1, <3>2, <3>3 DEF Next
  <2>4. QED BY <2>2, <2>3 DEF FinInv
<1>3. QED BY <1>1, <1>2

\* The CLOSE frame does not overtake data: when Read reports the end of a stream that
\* its user has not closed, in a session that is open, it has delivered every chunk the
\* other end had written when it closed.
THEOREM EndsComplete == Spec => []NothingLost
PROOF
<1>1. IInv /\ FinInv => NothingLost
  <2> SUFFICES ASSUME IInv, FinInv, NEW h \in Halves, eof[h], closing[h] = "no",
                      sess[End(h)] = "open"
               PROVE  Len(buf[h]) = fin[Far(h)]
    BY DEF NothingLost
  <2>1. shut[h] /\ readCh[h] = <<>> /\ Complete(h) BY DEF FinInv
  <2>2. Got(h) = fin[Far(h)] /\ ~Pushing(h) BY <2>1 DEF Complete
  <2>3. Got(h) = Len(buf[h]) + 0 + 0 BY <2>1, <2>2 DEF Got, Reached, Pushing
  <2>4. Len(buf[h]) \in Nat
    <3>1. buf[h] \in Seq(Nat) BY DEF IInv, TypeInv, TypeOK
    <3>2. QED BY <3>1, LenProperties
  <2>5. QED BY <2>2, <2>3, <2>4
<1>2. Init => IInv /\ StageInv /\ FinInv BY IInit, StageInit, FinInit
<1>3. IInv /\ StageInv /\ FinInv /\ [Next]_vars => (IInv /\ StageInv /\ FinInv)'
  BY INext, StageNext, FinNext
<1>4. QED BY <1>1, <1>2, <1>3, PTL DEF Spec

=============================================================================
