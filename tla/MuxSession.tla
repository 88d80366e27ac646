------------------------------ MODULE MuxSession ------------------------------
(***************************************************************************)
(* The multiplexer of the mux transports (simpleMuxSession and             *)
(* simpleMuxStream in src/internal/tunnel/runner.go): many streams over    *)
(* one connection, from the dial of the connection to the end of both      *)
(* sessions.  The server opens streams, the client accepts them.           *)
(*                                                                         *)
(* Each end has one read loop, which handles the frames that arrive, any   *)
(* number of goroutines that use its streams, and callers of Close.  A     *)
(* step ends where another goroutine can see a difference: at a lock that  *)
(* is released, a channel operation, an atomic, a write to the connection. *)
(* A half is one end of one stream.  Payloads are chunks, numbered per     *)
(* half in the order they are written.                                     *)
(***************************************************************************)
EXTENDS Naturals, Sequences, FiniteSets

CONSTANTS
  MaxStreams,  \* bound: streams opened in one session
  MaxChunks,   \* bound: per stream, chunks written on each half
  Writers,     \* bound: the ends whose users write
  Cancelled,   \* bound: the ends whose context may be cancelled
  ReadCap,     \* capacity of simpleMuxStream.readCh (256 in the code)
  AcceptCap,   \* capacity of simpleMuxSession.acceptCh (1024 in the code)
  NetCap       \* frames the connection buffers in one direction

ASSUME BoundsAssumption ==
  /\ MaxStreams \in Nat
  /\ MaxChunks \in [1..MaxStreams -> Nat]
  /\ Writers \subseteq {"server", "client"}
  /\ Cancelled \subseteq {"server", "client"}
  /\ ReadCap \in Nat \ {0}
  /\ AcceptCap \in Nat \ {0}
  /\ NetCap \in Nat \ {0}

VARIABLES
  sess,      \* per end: open; closing (flag set, streams not swept); over
  net,       \* per end, frames in flight towards it
  loop,      \* per end, what its read loop is doing
  table,     \* per end, simpleMuxSession.streams
  acceptCh,  \* the client's acceptCh
  serving,   \* the client's accept loop has not returned
  opened,    \* simpleMuxSession.nextID: streams the server has numbered
  use,       \* per half, how far the goroutine that uses it is
  writing,   \* per half, a Write that has passed its check
  closing,   \* per half, how far Close is; "no" until localClosed is set
  readCh,    \* per half, simpleMuxStream.readCh
  shut,      \* per half, readCh is closed
  buf,       \* per half, what ingestLoop has handed to Read, from the start
  eof,       \* per half, readClosed
  sent,      \* per half, chunks written to the connection
  fin        \* per half, chunks written when Close wrote its frame

controlVars == <<sess, loop, acceptCh, serving, opened>>
userVars == <<use, writing, closing>>
queueVars == <<readCh, buf, eof>>
readVars == <<readCh, shut, buf, eof>>
writeVars == <<sent, fin>>
streamVars == <<use, writing, closing, readCh, shut, buf, eof, sent, fin>>
vars == <<sess, net, loop, table, acceptCh, serving, opened, streamVars>>

-----------------------------------------------------------------------------
Ends == {"server", "client"}

Peer(e) == IF e = "server" THEN "client" ELSE "server"

Ids == 1..MaxStreams

Halves == Ends \X Ids

End(h) == h[1]
Id(h)  == h[2]

Far(h) == <<Peer(h[1]), h[2]>>

Frame == [type : {"open", "data", "close"}, id : Ids, chunk : Nat]

Open(h)     == [type |-> "open", id |-> Id(h), chunk |-> 0]
Data(h, n)  == [type |-> "data", id |-> Id(h), chunk |-> n]
Close(h)    == [type |-> "close", id |-> Id(h), chunk |-> 0]

\* The read loop: reading, or in the middle of handleFrame.
Reading == [pc |-> "read", id |-> 0, chunk |-> 0]

Loops == [pc : {"read", "register", "accept", "push", "close", "returned"},
          id : 0..MaxStreams, chunk : Nat]

TypeOK ==
  /\ sess \in [Ends -> {"open", "closing", "over", "panicked"}]
  /\ net \in [Ends -> Seq(Frame)]
  /\ \A e \in Ends : Len(net[e]) <= NetCap
  /\ loop \in [Ends -> Loops]
  /\ table \in [Ends -> SUBSET Ids]
  /\ acceptCh \in Seq(Ids)
  /\ Len(acceptCh) <= AcceptCap
  /\ serving \in BOOLEAN
  /\ opened \in 0..MaxStreams
  /\ use \in [Halves -> {"none", "register", "announce", "held"}]
  /\ writing \in [Halves -> BOOLEAN]
  /\ closing \in [Halves -> {"no", "remove", "tell", "done"}]
  /\ readCh \in [Halves -> Seq(Nat)]
  /\ \A h \in Halves : Len(readCh[h]) <= ReadCap
  /\ shut \in [Halves -> BOOLEAN]
  /\ buf \in [Halves -> Seq(Nat)]
  /\ eof \in [Halves -> BOOLEAN]
  /\ sent \in [Halves -> Nat]
  /\ fin \in [Halves -> Nat]

Init ==
  /\ sess = [e \in Ends |-> "open"]
  /\ net = [e \in Ends |-> <<>>]
  /\ loop = [e \in Ends |-> Reading]
  /\ table = [e \in Ends |-> {}]
  /\ acceptCh = <<>>
  /\ serving = TRUE
  /\ opened = 0
  /\ use = [h \in Halves |-> "none"]
  /\ writing = [h \in Halves |-> FALSE]
  /\ closing = [h \in Halves |-> "no"]
  /\ readCh = [h \in Halves |-> <<>>]
  /\ shut = [h \in Halves |-> FALSE]
  /\ buf = [h \in Halves |-> <<>>]
  /\ eof = [h \in Halves |-> FALSE]
  /\ sent = [h \in Halves |-> 0]
  /\ fin = [h \in Halves |-> 0]

\* The process of an end has not died.
Running(e) == sess[e] # "panicked"

-----------------------------------------------------------------------------
(* The connection and writeFrame.  Frames are written whole under writeMu;  *)
(* who waits for writeMu behind a full connection waits for the connection. *)

\* The frame is written, or vanishes because the other end is closed.
Written(e, f) ==
  /\ sess[e] = "open"
  /\ IF sess[Peer(e)] = "open"
       THEN /\ Len(net[Peer(e)]) < NetCap
            /\ net' = [net EXCEPT ![Peer(e)] = Append(@, f)]
       ELSE UNCHANGED net

\* writeFrame returns an error.
WriteFails(e) ==
  /\ sess[e] # "open" \/ sess[Peer(e)] # "open"
  /\ UNCHANGED net

\* Closing the connection discards what this end has not read.
Discard(e) == net' = [net EXCEPT ![e] = <<>>]

-----------------------------------------------------------------------------
(* OpenStream (server). *)

\* The session is not closed: take the next id.
OpenStream(h) ==
  /\ End(h) = "server"
  /\ opened < MaxStreams
  /\ Id(h) = opened + 1
  /\ sess["server"] = "open"
  /\ opened' = opened + 1
  /\ use' = [use EXCEPT ![h] = "register"]
  /\ UNCHANGED <<sess, net, loop, table, acceptCh, serving,
                 writing, closing, readVars, writeVars>>

RegisterStream(h) ==
  /\ Running("server")
  /\ use[h] = "register"
  /\ table' = [table EXCEPT !["server"] = @ \cup {Id(h)}]
  /\ use' = [use EXCEPT ![h] = "announce"]
  /\ UNCHANGED <<net, writing, closing, controlVars, readVars, writeVars>>

AnnounceStream(h) ==
  /\ Running("server")
  /\ use[h] = "announce"
  /\ \/ /\ Written("server", Open(h))
        /\ use' = [use EXCEPT ![h] = "held"]
        /\ UNCHANGED table
     \/ /\ WriteFails("server")
        /\ use' = [use EXCEPT ![h] = "none"]
        /\ table' = [table EXCEPT !["server"] = @ \ {Id(h)}]
  /\ UNCHANGED <<writing, closing, controlVars, readVars, writeVars>>

-----------------------------------------------------------------------------
(* Write and Close of a stream, and its ingestLoop. *)

\* Write passes its check; another goroutine may call Close before it writes.
StartWrite(h) ==
  /\ Running(End(h))
  /\ use[h] = "held"
  /\ End(h) \in Writers
  /\ ~writing[h]
  /\ sent[h] < MaxChunks[Id(h)]
  /\ closing[h] = "no"
  /\ sess[End(h)] = "open"
  /\ writing' = [writing EXCEPT ![h] = TRUE]
  /\ UNCHANGED <<net, table, use, closing, controlVars, readVars, writeVars>>

WriteChunk(h) ==
  /\ Running(End(h))
  /\ writing[h]
  /\ writing' = [writing EXCEPT ![h] = FALSE]
  /\ \/ /\ Written(End(h), Data(h, sent[h] + 1))
        /\ sent' = [sent EXCEPT ![h] = @ + 1]
     \/ /\ WriteFails(End(h))
        /\ UNCHANGED sent
  /\ UNCHANGED <<table, use, closing, fin, controlVars, readVars>>

\* Close sets localClosed; whoever comes second returns at once.
CloseStream(h) ==
  /\ Running(End(h))
  /\ use[h] = "held"
  /\ closing[h] = "no"
  /\ closing' = [closing EXCEPT ![h] = "remove"]
  /\ UNCHANGED <<net, table, use, writing, controlVars, readVars, writeVars>>

CloseRemove(h) ==
  /\ Running(End(h))
  /\ closing[h] = "remove"
  /\ table' = [table EXCEPT ![End(h)] = @ \ {Id(h)}]
  /\ closing' = [closing EXCEPT ![h] = "tell"]
  /\ UNCHANGED <<net, use, writing, controlVars, readVars, writeVars>>

\* Mutant: Close does not write its frame.
CloseUnsaid(h) == UNCHANGED net

CloseSaid(h) == Written(End(h), Close(h)) \/ WriteFails(End(h))

\* The stream is no longer in the table, so that nothing arrives between the
\* frame and the end of readCh, which are one step here.
CloseTell(h) ==
  /\ Running(End(h))
  /\ closing[h] = "tell"
  /\ CloseSaid(h)
  /\ fin' = [fin EXCEPT ![h] = sent[h]]
  /\ shut' = [shut EXCEPT ![h] = TRUE]
  /\ closing' = [closing EXCEPT ![h] = "done"]
  /\ UNCHANGED <<table, use, writing, sent, controlVars, queueVars>>

\* ingestLoop: Read takes from the front of buf, and waits while it is empty.
Ingest(h) ==
  /\ Running(End(h))
  /\ readCh[h] # <<>>
  /\ readCh' = [readCh EXCEPT ![h] = Tail(@)]
  /\ buf' = [buf EXCEPT ![h] = Append(@, Head(readCh[h]))]
  /\ UNCHANGED <<net, table, shut, eof, controlVars, userVars, writeVars>>

\* Mutant: the loop ends as soon as the channel is closed.
ShutSeen(h) == shut[h]

\* A closed channel still delivers what it holds.
Drained(h) == shut[h] /\ readCh[h] = <<>>

IngestEnds(h) ==
  /\ Running(End(h))
  /\ Drained(h)
  /\ ~eof[h]
  /\ eof' = [eof EXCEPT ![h] = TRUE]
  /\ UNCHANGED <<net, table, readCh, shut, buf,
                 controlVars, userVars, writeVars>>

-----------------------------------------------------------------------------
(* readLoop and handleFrame. *)

\* A frame is read whole. OPEN creates a stream, DATA is for a registered one.
ReadFrame(e) ==
  LET f == Head(net[e]) IN
  /\ loop[e].pc = "read"
  /\ sess[e] = "open"
  /\ net[e] # <<>>
  /\ f.type # "close"
  /\ net' = [net EXCEPT ![e] = Tail(@)]
  /\ loop' = [loop EXCEPT ![e] =
       CASE f.type = "open" -> [pc |-> "register", id |-> f.id, chunk |-> 0]
         [] f.type = "data" /\ f.id \in table[e] ->
              [pc |-> "push", id |-> f.id, chunk |-> f.chunk]
         [] OTHER -> Reading]
  /\ UNCHANGED <<sess, table, acceptCh, serving, opened, streamVars>>

\* Mutant: the stream stays in the table.
StillListed(e, i) == table[e]

Unlisted(e, i) == table[e] \ {i}

\* CLOSE closes readCh of a registered stream and removes it. Neither step is
\* visible to the goroutines that close the same stream.
ReadClose(e) ==
  LET f == Head(net[e]) IN
  /\ loop[e].pc = "read"
  /\ sess[e] = "open"
  /\ net[e] # <<>>
  /\ f.type = "close"
  /\ net' = [net EXCEPT ![e] = Tail(@)]
  /\ shut' = IF f.id \in table[e] THEN [shut EXCEPT ![<<e, f.id>>] = TRUE] ELSE shut
  /\ table' = [table EXCEPT ![e] = Unlisted(e, f.id)]
  /\ UNCHANGED <<controlVars, userVars, queueVars, writeVars>>

Register(e) ==
  /\ Running(e)
  /\ loop[e].pc = "register"
  /\ table' = [table EXCEPT ![e] = @ \cup {loop[e].id}]
  /\ loop' = [loop EXCEPT ![e].pc = "accept"]
  /\ UNCHANGED <<sess, net, acceptCh, serving, opened, streamVars>>

\* Mutant: no limit to the streams that wait.
Unlimited == TRUE

AcceptHasRoom == Len(acceptCh) < AcceptCap

\* The stream is offered to Accept, or closed if too many wait.
Offer(e) ==
  LET h == <<e, loop[e].id>> IN
  /\ Running(e)
  /\ loop[e].pc = "accept"
  /\ IF AcceptHasRoom
       THEN /\ acceptCh' = Append(acceptCh, loop[e].id)
            /\ loop' = [loop EXCEPT ![e] = Reading]
            /\ UNCHANGED closing
       ELSE /\ closing' = [closing EXCEPT ![h] = "remove"]
            /\ loop' = [loop EXCEPT ![e].pc = "close"]
            /\ UNCHANGED acceptCh
  /\ UNCHANGED <<sess, net, table, serving, opened,
                 use, writing, readVars, writeVars>>

PushData(e) ==
  LET h == <<e, loop[e].id>> IN
  /\ Running(e)
  /\ loop[e].pc = "push"
  /\ ~shut[h]
  /\ Len(readCh[h]) < ReadCap
  /\ readCh' = [readCh EXCEPT ![h] = Append(@, loop[e].chunk)]
  /\ loop' = [loop EXCEPT ![e] = Reading]
  /\ UNCHANGED <<sess, net, table, acceptCh, serving, opened,
                 shut, buf, eof, userVars, writeVars>>

\* Mutant: a chunk that finds readCh full is dropped.
Dropped(h) == closing[h]

Overflowed(h) == IF closing[h] = "no" THEN "remove" ELSE closing[h]

\* readCh is full: the chunk is lost and the read loop closes the stream, unless
\* somebody else is closing it.
PushOverflows(e) ==
  LET h == <<e, loop[e].id>> IN
  /\ Running(e)
  /\ loop[e].pc = "push"
  /\ ~shut[h]
  /\ Len(readCh[h]) = ReadCap
  /\ closing' = [closing EXCEPT ![h] = Overflowed(h)]
  /\ loop' = [loop EXCEPT ![e] =
                IF closing[h] = "no" THEN [@ EXCEPT !.pc = "close"] ELSE Reading]
  /\ UNCHANGED <<sess, net, table, acceptCh, serving, opened,
                 use, writing, readVars, writeVars>>

\* Sending on a closed channel ends the process.
PushPanics(e) ==
  /\ Running(e)
  /\ loop[e].pc = "push"
  /\ shut[<<e, loop[e].id>>]
  /\ sess' = [sess EXCEPT ![e] = "panicked"]
  /\ Discard(e)
  /\ UNCHANGED <<loop, table, acceptCh, serving, opened, streamVars>>

\* The read loop goes on once the Close it called has returned.
LoopCloses(e) ==
  /\ Running(e)
  /\ loop[e].pc = "close"
  /\ closing[<<e, loop[e].id>>] \in {"no", "done"}
  /\ loop' = [loop EXCEPT ![e] = Reading]
  /\ UNCHANGED <<sess, net, table, acceptCh, serving, opened, streamVars>>

-----------------------------------------------------------------------------
(* Close of a session. *)

SetClosed(e) ==
  /\ sess[e] = "open"
  /\ sess' = [sess EXCEPT ![e] = "closing"]
  /\ Discard(e)

\* The context is cancelled.
CloseSession(e) ==
  /\ e \in Cancelled
  /\ SetClosed(e)
  /\ UNCHANGED <<loop, table, acceptCh, serving, opened, streamVars>>

\* Mutant: a failed read ends the loop but not the session.
LoopOnly(e) == UNCHANGED <<sess, net>>

ClosesToo(e) == IF sess[e] = "open" THEN SetClosed(e) ELSE UNCHANGED <<sess, net>>

\* Reading fails because either end is closed; the session is closed with it.
ReadFails(e) ==
  /\ Running(e)
  /\ loop[e].pc = "read"
  /\ sess[e] # "open" \/ sess[Peer(e)] # "open"
  /\ loop' = [loop EXCEPT ![e].pc = "returned"]
  /\ ClosesToo(e)
  /\ UNCHANGED <<table, acceptCh, serving, opened, streamVars>>

\* Mutant: streams are forgotten but not ended.
Forgotten(e) == shut

Ended(e) == [h \in Halves |-> shut[h] \/ (End(h) = e /\ Id(h) \in table[e])]

\* The rest of Close: every registered stream is ended.
Sweep(e) ==
  /\ sess[e] = "closing"
  /\ sess' = [sess EXCEPT ![e] = "over"]
  /\ shut' = Ended(e)
  /\ table' = [table EXCEPT ![e] = {}]
  /\ UNCHANGED <<net, loop, acceptCh, serving, opened,
                 userVars, queueVars, writeVars>>

\* Accept, in the loop of serveMuxClientSession; select picks any ready case.
Accept ==
  /\ Running("client")
  /\ serving
  /\ acceptCh # <<>>
  /\ acceptCh' = Tail(acceptCh)
  /\ use' = [use EXCEPT ![<<"client", Head(acceptCh)>>] = "held"]
  /\ UNCHANGED <<sess, net, loop, table, serving, opened,
                 writing, closing, readVars, writeVars>>

AcceptEnds ==
  /\ Running("client")
  /\ serving
  /\ sess["client"] # "open"
  /\ serving' = FALSE
  /\ UNCHANGED <<sess, net, loop, table, acceptCh, opened, streamVars>>

-----------------------------------------------------------------------------
Stream(h) ==
  \/ OpenStream(h) \/ RegisterStream(h) \/ AnnounceStream(h)
  \/ StartWrite(h) \/ WriteChunk(h)
  \/ CloseStream(h) \/ CloseRemove(h) \/ CloseTell(h)
  \/ Ingest(h) \/ IngestEnds(h)

ReadLoop(e) ==
  \/ ReadFrame(e) \/ ReadClose(e)
  \/ Register(e) \/ Offer(e)
  \/ PushData(e) \/ PushOverflows(e) \/ PushPanics(e)
  \/ LoopCloses(e) \/ ReadFails(e)

Next ==
  \/ \E h \in Halves : Stream(h)
  \/ \E e \in Ends : ReadLoop(e) \/ CloseSession(e) \/ Sweep(e)
  \/ Accept \/ AcceptEnds

(***************************************************************************)
(* Every goroutine that can run does.  Nobody has to open a stream, write, *)
(* close a stream or cancel the context.                                   *)
(***************************************************************************)
Fairness ==
  /\ \A h \in Halves :
       /\ WF_vars(RegisterStream(h))
       /\ WF_vars(AnnounceStream(h))
       /\ WF_vars(WriteChunk(h))
       /\ WF_vars(CloseRemove(h))
       /\ WF_vars(CloseTell(h))
       /\ WF_vars(Ingest(h))
       /\ WF_vars(IngestEnds(h))
  /\ \A e \in Ends :
       /\ WF_vars(ReadLoop(e))
       /\ WF_vars(Sweep(e))
  /\ WF_vars(Accept \/ AcceptEnds)

Spec == Init /\ [][Next]_vars

FairSpec == Spec /\ Fairness

-----------------------------------------------------------------------------
(* Safety. *)

Received(h) == buf[h] \o readCh[h]

\* Until its user closes a stream, Read delivers the chunks the other end wrote
\* in order and without a gap, whatever other streams, a full readCh or a session
\* that ends do meanwhile (pushData, ingestLoop).
InOrder ==
  \A h \in Halves :
    closing[h] = "no" =>
      \A k \in 1..Len(Received(h)) : Received(h)[k] = k /\ k <= sent[Far(h)]

\* If Read reports the end of a stream that nobody closed on this side, in a
\* session that is open, it has delivered everything written before the other
\* end's Close: the CLOSE frame does not overtake data.
NothingLost ==
  \A h \in Halves :
    eof[h] /\ closing[h] = "no" /\ sess[End(h)] = "open" =>
      Len(buf[h]) = fin[Far(h)]

\* Nothing in flight and no goroutine in the middle of a step.
Quiet ==
  /\ \A e \in Ends : sess[e] = "open" /\ net[e] = <<>> /\ loop[e].pc = "read"
  /\ \A h \in Halves :
       use[h] \in {"none", "held"} /\ closing[h] \in {"no", "done"}

\* Neither end keeps a stream the other has forgotten, and none that was closed,
\* however OPEN, DATA and CLOSE frames and overflows cross: whenever an open
\* session is quiet its two tables are equal (a leak would grow for ever).
TablesAgree ==
  Quiet =>
    /\ table["server"] = table["client"]
    /\ \A h \in Halves : closing[h] = "done" => Id(h) \notin table[End(h)]

\* The process survives the streams of its users: a chunk is never sent on a
\* readCh that Close has closed.
NeverPanics == \A e \in Ends : sess[e] # "panicked"

-----------------------------------------------------------------------------
(* Liveness, as long as no readCh overflows (see the README). *)

\* A Close at one end ends the stream at the other, unless the session ends.
CloseArrives ==
  \A h \in Halves :
    (closing[h] = "tell" /\ use[Far(h)] = "held")
      ~> (eof[Far(h)] \/ \E e \in Ends : sess[e] # "open")

\* When one session ends, so does the other, whoever is blocked in a write.
BothEnd ==
  \A e \in Ends : sess[e] \in {"over", "panicked"} ~>
    sess[Peer(e)] \in {"over", "panicked"}

\* A session that ends ends its streams: a goroutine blocked in Read returns.
\* A stream that handleFrame registers after the sweep is the exception (and one
\* that OpenStream fails to announce, which nobody holds).
StreamsEnd ==
  \A h \in Halves :
    (sess[End(h)] = "closing" /\ Id(h) \in table[End(h)]
       /\ (use[h] = "held" \/ End(h) = "client"))
      ~> (eof[h] \/ sess[End(h)] = "panicked")

=============================================================================
