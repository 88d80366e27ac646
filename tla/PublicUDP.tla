------------------------------- MODULE PublicUDP --------------------------------
(***************************************************************************)
(* The boot of a server (app.Run, runWorkerServer, runMuxServer) and the   *)
(* public UDP listener it ends in with accept_udp: startPublicUDPListener  *)
(* receives in the thread that calls it, and the thread is the one that    *)
(* starts the listeners of all mappings.                                   *)
(*                                                                         *)
(* For each source address the listener keeps an association with a        *)
(* backend connection, whose far end (handleUDPClientRelay) relays to the  *)
(* target.  Datagrams are told apart by their source only.  Where backends *)
(* come from (the pool of workers, a mux session) is left out: to acquire  *)
(* one succeeds or fails.                                                  *)
(***************************************************************************)
EXTENDS Mappings

CONSTANTS
  Setups,      \* configurations: entries of [ports].mapping and accept_udp
  Sources,     \* addresses that send to the first mapping
  Backends,    \* slots for backend connections
  MaxSent,     \* bound: datagrams of each source
  SocketBuf,   \* datagrams the socket holds
  PipeCap,     \* frames a connection holds in each direction
  NoBackend,   \* no backend
  NoSource     \* no source

ASSUME PublicAssumption ==
  /\ {MaxSent, SocketBuf, PipeCap} \subseteq Nat \ {0}
  /\ NoBackend \notin Backends
  /\ NoSource \notin Sources

ASSUME SetupsAssumption ==
  \A s \in Setups :
    /\ s.entries \in Seq(ToSet(s.entries))
    /\ \A i \in DOMAIN s.entries : Sensible(s.entries[i])

VARIABLES
  setup,      \* the configuration
  running,    \* FALSE once the context is cancelled
  control,    \* the goroutine of acceptControl; "failed": its error is in errCh
  boot,       \* the thread of RunServer, and its local src and assoc
  mappings,   \* opts.Mappings
  listening,  \* ports with a public TCP listener
  inbox,      \* datagrams in the socket
  sent,       \* per source, datagrams sent
  assocs,     \* the backend of each source
  reader,     \* per backend, the goroutine that reads it
  key,        \* per backend, the source its goroutine was started for
  open,       \* per backend, the server has not closed it
  far,        \* per backend, the client relays on it
  fwd,        \* per backend, frames on their way to the client
  back,       \* per backend, frames on their way to the server
  answered    \* history: per source, whose answers it was sent

bootVars == <<setup, running, control, mappings, listening>>
backendVars == <<assocs, reader, key, open, far, fwd, back, answered>>
vars == <<bootVars, boot, inbox, sent, backendVars>>

BootState ==
  [pc : {"listen", "receive", "acquire", "write", "wait", "returned"},
   k : Nat, src : Sources \cup {NoSource}, b : Backends \cup {NoBackend}]

TypeOK ==
  /\ running \in BOOLEAN
  /\ control \in {"starting", "up", "failed"}
  /\ boot \in BootState
  /\ boot.pc \in {"acquire", "write"} => boot.src # NoSource
  /\ boot.pc = "write" => boot.b # NoBackend
  /\ inbox \in Seq(Sources)
  /\ sent \in [Sources -> 0..MaxSent]
  /\ assocs \in [Sources -> Backends \cup {NoBackend}]
  /\ reader \in [Backends -> {"none", "run", "delete"}]
  /\ key \in [Backends -> Sources \cup {NoSource}]
  /\ \A b \in Backends : reader[b] # "none" => key[b] # NoSource
  /\ open \in [Backends -> BOOLEAN]
  /\ far \in [Backends -> BOOLEAN]
  /\ fwd \in [Backends -> Seq(Sources)]
  /\ back \in [Backends -> Seq(Sources)]
  /\ answered \in [Sources -> SUBSET Sources]

\* What Run starts the server with: one sequence of mappings, or none.
Parsed == ParseMappings([i \in DOMAIN setup.entries |-> Written(setup.entries[i])])

Init ==
  /\ setup \in Setups
  /\ running = TRUE
  /\ control = "starting"
  /\ mappings \in IF Parsed = {} THEN {<<>>} ELSE Parsed
  /\ boot = [pc |-> IF Parsed = {} THEN "returned" ELSE "listen", k |-> 1,
             src |-> NoSource, b |-> NoBackend]
  /\ listening = {}
  /\ inbox = <<>>
  /\ sent = [s \in Sources |-> 0]
  /\ assocs = [s \in Sources |-> NoBackend]
  /\ reader = [b \in Backends |-> "none"]
  /\ key = [b \in Backends |-> NoSource]
  /\ open = [b \in Backends |-> FALSE]
  /\ far = [b \in Backends |-> FALSE]
  /\ fwd = [b \in Backends |-> <<>>]
  /\ back = [b \in Backends |-> <<>>]
  /\ answered = [s \in Sources |-> {}]

\* The end of RunServer is the end of the process.
Alive == boot.pc # "returned"

-----------------------------------------------------------------------------
(* Boot and end. *)

Return == boot' = [boot EXCEPT !.pc = "returned"]

\* acceptControl binds the control port, or leaves its error in errCh.
AcceptControl ==
  /\ Alive
  /\ control = "starting"
  /\ control' \in {"up", "failed"}
  /\ UNCHANGED <<setup, running, mappings, listening, boot, inbox, sent, backendVars>>

\* A cancelled context closes the listeners, each in its own time.
Free(port) == port \notin listening \/ ~running

\* The listeners of mapping k, if their ports can be bound.
Listen ==
  LET port == mappings[boot.k].listen IN
  /\ boot.pc = "listen"
  /\ boot.k <= Len(mappings)
  /\ \/ /\ Free(port)
        /\ listening' = listening \cup {port}
        /\ boot' = IF setup.udp THEN [boot EXCEPT !.pc = "receive"]
                                ELSE [boot EXCEPT !.k = @ + 1]
     \/ Return /\ UNCHANGED listening
  /\ UNCHANGED <<setup, running, control, mappings, inbox, sent, backendVars>>

ListenDone ==
  /\ boot.pc = "listen"
  /\ boot.k > Len(mappings)
  /\ boot' = [boot EXCEPT !.pc = "wait"]
  /\ UNCHANGED <<bootVars, inbox, sent, backendVars>>

\* Mutant: nobody reads errCh.
ErrorUnread == FALSE

ErrorSeen == control = "failed"

WaitEnds ==
  /\ boot.pc = "wait"
  /\ ~running \/ ErrorSeen
  /\ Return
  /\ UNCHANGED <<bootVars, inbox, sent, backendVars>>

\* SIGINT, SIGTERM.
Cancel ==
  /\ running
  /\ Alive
  /\ running' = FALSE
  /\ UNCHANGED <<setup, control, mappings, listening, boot, inbox, sent, backendVars>>

-----------------------------------------------------------------------------
(* The loop of startPublicUDPListener. *)

\* A datagram that the network or a full socket does not lose.
Send(s) ==
  /\ sent[s] < MaxSent
  /\ boot.pc \in {"receive", "acquire", "write"}
  /\ sent' = [sent EXCEPT ![s] = @ + 1]
  /\ inbox' \in {inbox} \cup {i \in {Append(inbox, s)} : Len(i) <= SocketBuf}
  /\ UNCHANGED <<bootVars, boot, backendVars>>

Goes(pc, s, b) == boot' = [boot EXCEPT !.pc = pc, !.src = s, !.b = b]

ToReceive == Goes("receive", NoSource, NoBackend)

Receive ==
  LET s == Head(inbox) IN
  /\ boot.pc = "receive"
  /\ inbox # <<>>
  /\ inbox' = Tail(inbox)
  /\ IF assocs[s] = NoBackend THEN Goes("acquire", s, NoBackend)
                              ELSE Goes("write", s, assocs[s])
  /\ UNCHANGED <<bootVars, sent, backendVars>>

\* A closed socket is the end of a cancelled listener, and the thread goes on to
\* the next mapping; any other error is the end of the server.
ReceiveFails ==
  /\ boot.pc = "receive"
  /\ IF running THEN Return ELSE boot' = [boot EXCEPT !.pc = "listen", !.k = @ + 1]
  /\ UNCHANGED <<bootVars, inbox, sent, backendVars>>

Fresh(b) == reader[b] = "none" /\ ~open[b] /\ ~far[b]

Acquire(b) ==
  /\ boot.pc = "acquire"
  /\ Fresh(b)
  /\ assocs' = [assocs EXCEPT ![boot.src] = b]
  /\ reader' = [reader EXCEPT ![b] = "run"]
  /\ key' = [key EXCEPT ![b] = boot.src]
  /\ open' = [open EXCEPT ![b] = TRUE]
  /\ far' = [far EXCEPT ![b] = TRUE]
  /\ fwd' = [fwd EXCEPT ![b] = <<>>]
  /\ back' = [back EXCEPT ![b] = <<>>]
  /\ Goes("write", boot.src, b)
  /\ UNCHANGED <<bootVars, inbox, sent, answered>>

\* Mutant: acquire waits for a backend without a deadline.
NoDeadline == FALSE

Deadline == TRUE

\* Within 12 seconds, and the datagram is lost.
AcquireFails ==
  /\ boot.pc = "acquire"
  /\ Deadline
  /\ ToReceive
  /\ UNCHANGED <<bootVars, inbox, sent, backendVars>>

\* Mutant: the loop forgets the association, as its reader does.
Forgotten(s) == [assocs EXCEPT ![s] = NoBackend]

AfterFailedWrite(s) == assocs

\* The first writes to a connection whose far end is gone may still succeed.
WriteFrame ==
  LET b == boot.b IN
  /\ boot.pc = "write"
  /\ \/ /\ open[b]
        /\ Len(fwd[b]) < PipeCap
        /\ fwd' = IF far[b] THEN [fwd EXCEPT ![b] = Append(@, boot.src)] ELSE fwd
        /\ UNCHANGED <<assocs, open>>
     \/ /\ ~open[b] \/ ~far[b]
        /\ open' = [open EXCEPT ![b] = FALSE]
        /\ assocs' = AfterFailedWrite(boot.src)
        /\ UNCHANGED fwd
  /\ ToReceive
  /\ UNCHANGED <<bootVars, inbox, sent, reader, key, far, back, answered>>

-----------------------------------------------------------------------------
(* The goroutine of an association. *)

\* Mutant: the address is that of the datagram the loop is at.
LoopSource(b) == IF boot.src = NoSource THEN key[b] ELSE boot.src

ReplyTo(b) == key[b]

ReaderReplies(b) ==
  /\ Alive
  /\ reader[b] = "run"
  /\ open[b]
  /\ back[b] # <<>>
  /\ back' = [back EXCEPT ![b] = Tail(@)]
  /\ answered' = [answered EXCEPT ![ReplyTo(b)] = @ \cup {Head(back[b])}]
  /\ UNCHANGED <<bootVars, boot, inbox, sent, assocs, reader, key, open, far, fwd>>

ReaderEnds(b) ==
  /\ Alive
  /\ reader[b] = "run"
  /\ ~open[b] \/ (~far[b] /\ back[b] = <<>>)
  /\ reader' = [reader EXCEPT ![b] = "delete"]
  /\ open' = [open EXCEPT ![b] = FALSE]
  /\ UNCHANGED <<bootVars, boot, inbox, sent, assocs, key, far, fwd, back, answered>>

ReaderDeletes(b) ==
  /\ Alive
  /\ reader[b] = "delete"
  /\ reader' = [reader EXCEPT ![b] = "none"]
  /\ assocs' = [assocs EXCEPT ![key[b]] = NoBackend]
  /\ UNCHANGED <<bootVars, boot, inbox, sent, key, open, far, fwd, back, answered>>

-----------------------------------------------------------------------------
(* handleUDPClientRelay at the far end. *)

\* The target answers a datagram or does not.
RelayForward(b) ==
  /\ far[b]
  /\ fwd[b] # <<>>
  /\ fwd' = [fwd EXCEPT ![b] = Tail(@)]
  /\ back' \in {back} \cup
       {[back EXCEPT ![b] = f] : f \in {g \in {Append(back[b], Head(fwd[b]))} : Len(g) <= PipeCap}}
  /\ UNCHANGED <<bootVars, boot, inbox, sent, assocs, reader, key, open, far, answered>>

\* The target refuses, the connection breaks, or the server has closed it.
RelayEnds(b) ==
  /\ far[b]
  /\ far' = [far EXCEPT ![b] = FALSE]
  /\ fwd' = [fwd EXCEPT ![b] = <<>>]
  /\ UNCHANGED <<bootVars, boot, inbox, sent, assocs, reader, key, open, back, answered>>

-----------------------------------------------------------------------------
Boot == AcceptControl \/ Listen \/ ListenDone \/ WaitEnds \/ Cancel

Serve ==
  \/ Receive \/ ReceiveFails \/ AcquireFails \/ WriteFrame
  \/ \E b \in Backends : Acquire(b)

Association(b) ==
  \/ ReaderReplies(b) \/ ReaderEnds(b) \/ ReaderDeletes(b)
  \/ RelayForward(b) \/ RelayEnds(b)

Next ==
  \/ Boot \/ Serve
  \/ \E s \in Sources : Send(s)
  \/ \E b \in Backends : Association(b)

(***************************************************************************)
(* Threads and goroutines run.  A deadline passes; a context, a far end    *)
(* and the sources owe nothing, but a far end reads, and sees its          *)
(* connection closed.                                                      *)
(***************************************************************************)
Fairness ==
  /\ WF_vars(AcceptControl) /\ WF_vars(Listen)
  /\ WF_vars(ListenDone) /\ WF_vars(WaitEnds)
  /\ WF_vars(Receive) /\ WF_vars(~running /\ ReceiveFails)
  /\ WF_vars(AcquireFails) /\ WF_vars(WriteFrame)
  /\ \A b \in Backends :
       /\ WF_vars(ReaderReplies(b))
       /\ WF_vars(ReaderEnds(b)) /\ WF_vars(ReaderDeletes(b))
       /\ WF_vars(RelayForward(b))
       /\ WF_vars(~open[b] /\ fwd[b] = <<>> /\ RelayEnds(b))

Spec == Init /\ [][Next]_vars

FairSpec == Spec /\ Fairness

-----------------------------------------------------------------------------
(* Properties. *)

\* ParseMappings gives the listeners that the entries mean, in their order, and
\* one entry out of bounds, or no entry, keeps the whole server from starting.
MappingsAsMeant ==
  LET entries == setup.entries IN
  IF entries # <<>> /\ \A i \in DOMAIN entries : Sound(entries[i])
  THEN mappings = FlattenSeq([i \in DOMAIN entries |-> Meant(entries[i])])
  ELSE mappings = <<>> /\ boot.pc = "returned"

\* A backend the server has not closed is the one of the source it was acquired
\* for, in the map and with a goroutine that will close it, although goroutines
\* remove entries by their key alone; and no source is sent the answers to
\* another, although the loop is busy with other sources meanwhile.
BackendsAccounted ==
  /\ \A b \in Backends : open[b] => reader[b] = "run" /\ assocs[key[b]] = b
  /\ \A s \in Sources : answered[s] \subseteq {s}

Dead(s) == \E b \in Backends : assocs[s] = b /\ ~open[b]

\* No datagram keeps the loop for ever from those of the other sources, and an
\* association whose backend was closed is forgotten: the next datagram of its
\* source gets another one.
LoopServes ==
  /\ boot.pc \in {"acquire", "write"} ~> boot.pc \notin {"acquire", "write"}
  /\ \A s \in Sources : Dead(s) ~> ~Dead(s) \/ ~Alive

\* Without accept_udp every mapping gets its listener, or the server ends, which
\* it also does when the control port cannot be bound.  With accept_udp the
\* thread stays in the loop of the first mapping and neither holds.
ServerComesUp ==
  /\ ~setup.udp /\ boot.pc = "listen" ~>
       \/ ~Alive
       \/ \A i \in DOMAIN mappings : mappings[i].listen \in listening
  /\ ~setup.udp /\ control = "failed" ~> ~Alive

=============================================================================
