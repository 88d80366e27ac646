------------------------------- MODULE MuxHolder -------------------------------
(***************************************************************************)
(* The mux transports above the single session (runMuxServer, runMuxClient *)
(* and simpleMuxHolder in src/internal/tunnel/runner.go).  Each session    *)
(* loop of the client keeps one authenticated connection with a session on *)
(* it; the server lists the sessions and serves requests from them in      *)
(* turn.                                                                   *)
(*                                                                         *)
(* Sessions close at any moment: after one was chosen and before the       *)
(* stream is opened on it, before it is listed, and while its own watcher  *)
(* and the requests that failed on it remove it.                           *)
(*                                                                         *)
(* A connection is a slot with at most one session at each end, dialled    *)
(* again once no goroutine refers to it.  It may stop taking writes, and a *)
(* request that writes a frame then waits, for writeMu or in conn.Write,   *)
(* whatever its context says.  Whether an end learns that the other is     *)
(* gone depends on the transport: a lost TCP connection fails the read,    *)
(* but over KCP and UDP nobody need ever hear of it.  What streams carry   *)
(* is the business of MuxSession.                                          *)
(***************************************************************************)
EXTENDS Naturals, Sequences, FiniteSets

CONSTANTS
  Conns,      \* connection slots
  Requests,   \* slots for public connections being served
  Loops,      \* session loops of the client process (PoolSize)
  Admitted,   \* loops whose token and role the server accepts
  MaxFaults,  \* bound: crashes, restarts, broken connections, cancellations
  NoConn      \* no connection

ASSUME HolderAssumption ==
  /\ Admitted \subseteq Loops
  /\ MaxFaults \in Nat
  /\ NoConn \notin Conns

VARIABLES
  sessions,  \* simpleMuxHolder.sessions
  next,      \* simpleMuxHolder.next, counted from 0
  srv,       \* per connection, how far the server's handler is with it
  closed,    \* per connection, IsClosed of the server's session
  full,      \* connections that take no writes of the server
  req,       \* per request, how far OpenStream is
  running,   \* FALSE once the client's context is cancelled
  loop,      \* per session loop, what it does and on which connection
  cl,        \* per connection, its client end is open
  turns,     \* history: per session, choices of others since its own
  faults     \* faults spent

holderVars == <<sessions, next, turns>>
serverVars == <<holderVars, srv, closed, full, req>>
clientVars == <<running, loop, cl>>
vars == <<serverVars, clientVars, faults>>

-----------------------------------------------------------------------------
\* The handler reads a token and a role that it will accept, or refuse; has made a
\* session, whose read loop runs; has listed it and watches for its end.
SrvState == {"none", "auth", "refuse", "made", "listed"}

ReqState == [pc : {"idle", "open", "pause", "target"},
             sess : Conns \cup {NoConn}]

LoopState == [pc : {"dial", "serve", "returned"}, conn : Conns \cup {NoConn}]

IdleReq == [pc |-> "idle", sess |-> NoConn]

AtDial == [pc |-> "dial", conn |-> NoConn]

Listed == {sessions[i] : i \in DOMAIN sessions}

\* The index stays one that nextSession may start from.
TypeOK ==
  /\ sessions \in Seq(Conns)
  /\ next \in Nat
  /\ next > 0 => next < Len(sessions)
  /\ srv \in [Conns -> SrvState]
  /\ closed \in [Conns -> BOOLEAN]
  /\ full \subseteq Conns
  /\ req \in [Requests -> ReqState]
  /\ running \in BOOLEAN
  /\ loop \in [Loops -> LoopState]
  /\ cl \in [Conns -> BOOLEAN]
  /\ turns \in [Conns -> Nat]
  /\ faults \in 0..MaxFaults

Init ==
  /\ sessions = <<>>
  /\ next = 0
  /\ srv = [c \in Conns |-> "none"]
  /\ closed = [c \in Conns |-> TRUE]
  /\ full = {}
  /\ req = [r \in Requests |-> IdleReq]
  /\ running = TRUE
  /\ loop = [w \in Loops |-> AtDial]
  /\ cl = [c \in Conns |-> FALSE]
  /\ turns = [c \in Conns |-> 0]
  /\ faults = 0

Fault == faults < MaxFaults /\ faults' = faults + 1

\* The server has not closed its end.
ServerOpen(c) == srv[c] # "none" /\ ~closed[c]

Reusable(c) ==
  /\ srv[c] = "none"
  /\ ~cl[c]
  /\ c \notin Listed
  /\ \A r \in Requests : req[r].sess # c
  /\ \A w \in Loops : loop[w].conn # c

-----------------------------------------------------------------------------
(* simpleMuxHolder; each of its operations is one critical section of mu.   *)

Add(c) ==
  /\ sessions' = Append(sessions, c)
  /\ turns' = [turns EXCEPT ![c] = 0]
  /\ UNCHANGED next

\* Mutant: the index is left where it was.
IndexKept(len) == next

IndexAfter(len) == IF next >= len THEN 0 ELSE next

\* Mutant: whatever stands at the index goes, too.
OthersToo(c, s) == c # s /\ ~closed[c] /\ c # sessions[next + 1]

Survives(c, s) == c # s /\ ~closed[c]

\* The loop that appends to out what is in V; a function, not SelectSeq, for it is
\* reasoned about.
Filter(q, V) ==
  LET out[n \in 0..Len(q)] ==
        IF n = 0 THEN <<>>
        ELSE IF q[n] \in V THEN Append(out[n - 1], q[n]) ELSE out[n - 1]
  IN  out[Len(q)]

\* Every closed session goes along with s.
Remove(s) ==
  LET kept == Filter(sessions, {c \in Listed : Survives(c, s)}) IN
  /\ sessions' = kept
  /\ next' = IndexAfter(Len(kept))
  /\ turns' = IF kept = sessions THEN turns ELSE [c \in Conns |-> 0]

At(i) == sessions[(i % Len(sessions)) + 1]

\* Mutant: the index stays on the chosen session.
SameAgain(i) == i % Len(sessions)

AfterChosen(i) == (i + 1) % Len(sessions)

\* nextSession: the first open session from the index on, i places further.
Choose(i) ==
  /\ i \in next .. next + Len(sessions) - 1
  /\ ~closed[At(i)]
  /\ \A j \in next .. i - 1 : closed[At(j)]
  /\ next' = AfterChosen(i)
  /\ turns' = [c \in Conns |-> IF c = At(i) THEN 0
                               ELSE IF c \in Listed /\ ~closed[c] THEN turns[c] + 1
                               ELSE turns[c]]
  /\ UNCHANGED sessions

NoneOpen == \A c \in Listed : closed[c]

-----------------------------------------------------------------------------
(* The server: the handler of a connection and the session's goroutines.    *)

Hello(w) == IF w \in Admitted THEN "auth" ELSE "refuse"

\* A refused connection, or one whose client is gone, is closed.
Authenticate(c) ==
  /\ \/ /\ srv[c] = "auth"
        /\ srv' = [srv EXCEPT ![c] = "made"]
        /\ UNCHANGED closed
     \/ /\ srv[c] = "refuse" \/ (srv[c] = "auth" /\ ~cl[c])
        /\ srv' = [srv EXCEPT ![c] = "none"]
        /\ closed' = [closed EXCEPT ![c] = TRUE]
  /\ UNCHANGED <<holderVars, full, req, clientVars, faults>>

\* holder.Add, whether or not the read loop has closed the session meanwhile.
ListSession(c) ==
  /\ srv[c] = "made"
  /\ srv' = [srv EXCEPT ![c] = "listed"]
  /\ Add(c)
  /\ UNCHANGED <<closed, full, req, clientVars, faults>>

\* readLoop fails and closes the session, and with it the connection.
ReadLoopEnds(c) ==
  /\ srv[c] \in {"made", "listed"}
  /\ ~closed[c]
  /\ ~cl[c]
  /\ closed' = [closed EXCEPT ![c] = TRUE]
  /\ full' = full \ {c}
  /\ UNCHANGED <<holderVars, srv, req, clientVars, faults>>

\* Mutant: nobody waits for Done.
Unwatched(c) == FALSE

DoneSeen(c) == closed[c]

\* The goroutine that waits for Done removes the session.
WatcherRemoves(c) ==
  /\ srv[c] = "listed"
  /\ DoneSeen(c)
  /\ Remove(c)
  /\ srv' = [srv EXCEPT ![c] = "none"]
  /\ UNCHANGED <<closed, full, req, clientVars, faults>>

\* The process ends, which closes its connections, and is started again.
ServerRestart ==
  /\ Fault
  /\ sessions' = <<>>
  /\ next' = 0
  /\ turns' = [c \in Conns |-> 0]
  /\ srv' = [c \in Conns |-> "none"]
  /\ closed' = [c \in Conns |-> TRUE]
  /\ full' = {}
  /\ req' = [r \in Requests |-> IdleReq]
  /\ UNCHANGED clientVars

-----------------------------------------------------------------------------
(* A request: OpenStream of the holder and the target.                      *)

Goes(r, pc) == req' = [req EXCEPT ![r].pc = pc]

Ends(r) == req' = [req EXCEPT ![r] = IdleReq]

\* One turn of the loop of OpenStream: nextSession, or the pause of 120 ms.
PickSession(r) ==
  /\ \/ \E i \in next .. next + Len(sessions) - 1 :
          /\ Choose(i)
          /\ req' = [req EXCEPT ![r] = [pc |-> "open", sess |-> At(i)]]
     \/ /\ NoneOpen
        /\ Goes(r, "pause")
        /\ UNCHANGED holderVars
  /\ UNCHANGED <<srv, closed, full, clientVars, faults>>

RequestArrives(r) == req[r].pc = "idle" /\ PickSession(r)

TryAgain(r) == req[r].pc = "pause" /\ PickSession(r)

\* What the client does not read, or the peer that is gone does not acknowledge,
\* fills the connection under somebody's writes.
ConnFills(c) ==
  /\ \E r \in Requests : req[r].sess = c /\ req[r].pc \in {"open", "target"}
  /\ ServerOpen(c)
  /\ c \notin full
  /\ full' = full \cup {c}
  /\ UNCHANGED <<holderVars, srv, closed, req, clientVars, faults>>

\* The client reads on.
ConnDrains(c) ==
  /\ c \in full
  /\ cl[c]
  /\ full' = full \ {c}
  /\ UNCHANGED <<holderVars, srv, closed, req, clientVars, faults>>

\* writeFrame has its turn at writeMu and its bytes go out.
Written(c) == ~closed[c] /\ c \notin full

\* A write on the session's connection fails if it is told that the peer is gone,
\* perhaps not the first; on a closed session it fails at once.
WriteFails(c) == closed[c] \/ ~cl[c]

\* The session's OpenStream, for as long as its frame takes.
OpenStream(r) ==
  LET s == req[r].sess IN
  /\ req[r].pc = "open"
  /\ \/ /\ Written(s)
        /\ Goes(r, "target")
        /\ UNCHANGED holderVars
     \/ /\ WriteFails(s)
        /\ Remove(s)
        /\ req' = [req EXCEPT ![r] = [pc |-> "pause", sess |-> NoConn]]
  /\ UNCHANGED <<srv, closed, full, clientVars, faults>>

\* The write of the request waits for nothing.
Takes(r) == req[r].sess \notin full

\* Mutant: the pause does not look at the context.
NeverDone == {}

DeadlineWatched == {"pause"}

RequestTimeout(r) ==
  /\ req[r].pc \in DeadlineWatched
  /\ Ends(r)
  /\ UNCHANGED <<holderVars, srv, closed, full, clientVars, faults>>

\* If the target cannot be written the request fails, and there is no other try;
\* else it goes on to the bridge, which the holder knows nothing of.
SendTarget(r) ==
  /\ req[r].pc = "target"
  /\ Written(req[r].sess) \/ WriteFails(req[r].sess)
  /\ Ends(r)
  /\ UNCHANGED <<holderVars, srv, closed, full, clientVars, faults>>

-----------------------------------------------------------------------------
(* The client: runMuxSessionLoop and serveMuxClientSession.                 *)

Dial(w, c) ==
  /\ running
  /\ loop[w].pc = "dial"
  /\ Reusable(c)
  /\ srv' = [srv EXCEPT ![c] = Hello(w)]
  /\ closed' = [closed EXCEPT ![c] = FALSE]
  /\ cl' = [cl EXCEPT ![c] = TRUE]
  /\ loop' = [loop EXCEPT ![w] = [pc |-> "serve", conn |-> c]]
  /\ UNCHANGED <<holderVars, full, req, running, faults>>

\* Mutant: the loop returns with the session.
OnceOnly == [pc |-> "returned", conn |-> NoConn]

AfterSession == AtDial

\* Accept fails with the session, if it is told; the loop closes both and dials
\* again.
SessionLost(w) ==
  LET c == loop[w].conn IN
  /\ loop[w].pc = "serve"
  /\ ~cl[c] \/ ~ServerOpen(c)
  /\ cl' = [cl EXCEPT ![c] = FALSE]
  /\ loop' = [loop EXCEPT ![w] = AfterSession]
  /\ UNCHANGED <<serverVars, running, faults>>

\* The connection breaks; either end notices in its own time, or never.
ConnBreaks(c) ==
  /\ cl[c]
  /\ Fault
  /\ cl' = [cl EXCEPT ![c] = FALSE]
  /\ UNCHANGED <<serverVars, running, loop>>

Cancel ==
  /\ running
  /\ Fault
  /\ running' = FALSE
  /\ UNCHANGED <<serverVars, loop, cl>>

\* The cancelled context closes the session, and the loop looks at it.
LoopReturns(w) ==
  /\ ~running
  /\ loop[w].pc # "returned"
  /\ cl' = [c \in Conns |-> cl[c] /\ c # loop[w].conn]
  /\ loop' = [loop EXCEPT ![w] = [pc |-> "returned", conn |-> NoConn]]
  /\ UNCHANGED <<serverVars, running, faults>>

AllReturned == \A w \in Loops : loop[w].pc = "returned"

\* The process is killed, or has returned, and is started again.
ClientRestart ==
  /\ IF AllReturned /\ ~running THEN UNCHANGED faults ELSE Fault
  /\ running' = TRUE
  /\ loop' = [w \in Loops |-> AtDial]
  /\ cl' = [c \in Conns |-> FALSE]
  /\ UNCHANGED serverVars

-----------------------------------------------------------------------------
Session(c) ==
  Authenticate(c) \/ ListSession(c) \/ ReadLoopEnds(c) \/ WatcherRemoves(c)

Request(r) ==
  \/ RequestArrives(r) \/ OpenStream(r) \/ TryAgain(r)
  \/ RequestTimeout(r) \/ SendTarget(r)

Loop(w) == (\E c \in Conns : Dial(w, c)) \/ SessionLost(w) \/ LoopReturns(w)

Next ==
  \/ \E c \in Conns : Session(c) \/ ConnFills(c) \/ ConnDrains(c) \/ ConnBreaks(c)
  \/ \E r \in Requests : Request(r)
  \/ \E w \in Loops : Loop(w)
  \/ ServerRestart \/ Cancel \/ ClientRestart

(***************************************************************************)
(* Goroutines run.  A request whose 12 seconds are over stays so, and      *)
(* select takes among the ready cases at random: it does not pause for     *)
(* ever.  writeMu goes to the one that has waited for it, so that a        *)
(* connection that takes writes again and again takes those of every       *)
(* request.  Arrivals and faults owe nothing, nor does whoever starts the  *)
(* client again; a connection need not take writes, and neither end need   *)
(* hear that the other is gone.                                            *)
(***************************************************************************)
Fairness ==
  /\ \A c \in Conns :
       /\ WF_vars(Authenticate(c)) /\ WF_vars(ListSession(c))
       /\ WF_vars(WatcherRemoves(c))
  /\ \A r \in Requests :
       /\ SF_vars(Takes(r) /\ OpenStream(r)) /\ SF_vars(Takes(r) /\ SendTarget(r))
       /\ WF_vars(TryAgain(r)) /\ SF_vars(RequestTimeout(r))
  /\ \A w \in Loops :
       WF_vars(\E c \in Conns : Dial(w, c)) /\ WF_vars(LoopReturns(w))

\* The transports that tell: a read fails if the other end is gone.
LossTold ==
  /\ \A c \in Conns : WF_vars(ReadLoopEnds(c))
  /\ \A w \in Loops : WF_vars(SessionLost(w))

Spec == Init /\ [][Next]_vars

FairSpec == Spec /\ Fairness

-----------------------------------------------------------------------------
(* Safety. *)

\* A session the handler has listed and whose client is there stays in the list,
\* once, whatever is removed around it by watchers and failed requests; a closed
\* one is in the list only as long as its watcher has still to run.
NoneForgotten ==
  \A c \in Conns :
    LET places == {i \in DOMAIN sessions : sessions[i] = c} IN
    /\ srv[c] = "listed" /\ ServerOpen(c) /\ cl[c] => Cardinality(places) = 1
    /\ c \in Listed => srv[c] = "listed" /\ Cardinality(places) = 1

\* nextSession goes round: between two removals an open session is passed over
\* at most once for each other session in the list, although sessions close, and
\* are added, in the middle of a round.
RoundRobin == \A c \in Listed : ~closed[c] => turns[c] < Len(sessions)

-----------------------------------------------------------------------------
(* Liveness. *)

\* A request comes to an end, with a stream or without, however often the session
\* chosen is closed by then, unless the connection it writes to takes no writes any
\* more while its session stays open: neither writeMu nor conn.Write has a deadline
\* or looks at the context.
RequestSettles ==
  \A r \in Requests : []<>Takes(r) => (req[r].pc # "idle" ~> req[r].pc = "idle")

\* Over a transport that tells, once faults cease and the client runs, every loop
\* whose token is right has a session in the server's list again, and the list
\* holds nothing else, whatever connections are full.
SessionsReturn ==
  LossTold /\ <>[]running =>
  <>[](/\ \A w \in Admitted : loop[w].conn \in Listed
       /\ \A c \in Listed : ~closed[c] /\ cl[c])

===============================================================================
