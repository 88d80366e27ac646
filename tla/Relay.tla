--------------------------------- MODULE Relay ----------------------------------
(***************************************************************************)
(* A relayed TCP connection: bridge of src/internal/tunnel/runner.go at    *)
(* both ends of a tunnel connection, between the user's connection (in     *)
(* startPublicListener) and the target's (in runWorkerSlot and             *)
(* serveMuxClientSession).                                                 *)
(*                                                                         *)
(* Each end copies in both directions at once, a chunk at a time: a copy   *)
(* reads one, then writes it.  A write waits as long as a tunnel is full   *)
(* or a party does not read, and no deadline ends it.  A copy that is over *)
(* sets the read deadline of the connection the other copy reads from, to  *)
(* end that one, too; an end closes both its connections after both        *)
(* copies.  What a deadline and a close do depends on the kind of tunnel.  *)
(*                                                                         *)
(* Data are chunks without content, counted where they are.                *)
(***************************************************************************)
EXTENDS Naturals

CONSTANTS
  Kinds,      \* kinds of tunnel connections, see Kind
  MaxChunks,  \* bound: per end, the chunks its party sends
  TunCap      \* chunks of one direction that a tunnel holds

Ends == {"server", "client"}

\* The end across the tunnel.
Other(e) == IF e = "server" THEN "client" ELSE "server"

\* The ends at which SetReadDeadline ends a pending Read of the tunnel, whether an
\* end learns that the other has closed it, whether data can be lost on it (then no
\* write to it waits), and whether the client still has the deadline on it by which
\* it wanted a target.
Kind == [deadline : SUBSET Ends, eof : BOOLEAN, loss : BOOLEAN, expires : BOOLEAN]

ASSUME RelayAssumption ==
  Kinds \subseteq Kind /\ MaxChunks \in [Ends -> Nat] /\ TunCap \in Nat \ {0}

VARIABLES
  kind,    \* the kind of this tunnel
  party,   \* per end, the user or the target: open, has shut its side, gone
  room,    \* per end, its party's connection takes a write at once
  sent,    \* per end, chunks its party has sent
  rx,      \* per end, of these the chunks its bridge has still to read
  tun,     \* per end, chunks it has written that the other has still to read
  got,     \* per end, chunks its party was given
  copy,    \* per end and copy, the call of io.Copy it is in
  closed,  \* per end, it has closed both its connections
  lost,    \* the tunnel connection, or its session, is gone
  stalled, \* it stays, but takes nothing any more
  expired  \* the client's deadline for a target has passed

vars ==
  <<kind, party, room, sent, rx, tun, got, copy, closed, lost, stalled, expired>>

Copies == {"in", "out"}

TypeOK ==
  /\ kind \in Kinds
  /\ party \in [Ends -> {"open", "shut", "gone"}]
  /\ room \in [Ends -> BOOLEAN]
  /\ {sent, rx, tun, got} \subseteq [Ends -> Nat]
  /\ \A e \in Ends : sent[e] <= MaxChunks[e] /\ tun[e] <= TunCap
  /\ copy \in [Ends -> [Copies -> {"read", "write", "over"}]]
  /\ closed \in [Ends -> BOOLEAN]
  /\ {lost, stalled, expired} \subseteq BOOLEAN

Init ==
  /\ kind \in Kinds
  /\ party = [e \in Ends |-> "open"]
  /\ room = [e \in Ends |-> TRUE]
  /\ sent = [e \in Ends |-> 0]
  /\ rx = [e \in Ends |-> 0]
  /\ tun = [e \in Ends |-> 0]
  /\ got = [e \in Ends |-> 0]
  /\ copy = [e \in Ends |-> [c \in Copies |-> "read"]]
  /\ closed = [e \in Ends |-> FALSE]
  /\ lost = FALSE
  /\ stalled = FALSE
  /\ expired = FALSE

-----------------------------------------------------------------------------
(* The user, the target, the network. *)

Sends(e) ==
  /\ party[e] = "open"
  /\ ~closed[e]
  /\ sent[e] < MaxChunks[e]
  /\ sent' = [sent EXCEPT ![e] = @ + 1]
  /\ rx' = [rx EXCEPT ![e] = @ + 1]
  /\ UNCHANGED <<kind, party, room, tun, got, copy, closed, lost, stalled, expired>>

\* It has nothing more to send, or goes away with what it was not given yet.
Leaves(e) ==
  /\ \/ party[e] = "open" /\ party' = [party EXCEPT ![e] = "shut"]
     \/ party[e] # "gone" /\ party' = [party EXCEPT ![e] = "gone"]
  /\ UNCHANGED <<kind, room, sent, rx, tun, got, copy, closed, lost, stalled, expired>>

\* It reads what fills the buffers of its connection.
Reads(e) ==
  /\ ~room[e]
  /\ party[e] # "gone"
  /\ room' = [room EXCEPT ![e] = TRUE]
  /\ UNCHANGED <<kind, party, sent, rx, tun, got, copy, closed, lost, stalled, expired>>

\* The tunnel connection breaks, or its session closes.
TunnelLost ==
  /\ ~lost
  /\ lost' = TRUE
  /\ tun' = [e \in Ends |-> 0]
  /\ UNCHANGED <<kind, party, room, sent, rx, got, copy, closed, stalled, expired>>

\* The connection a session shares is full, or the far host does not answer.
TunnelStalls ==
  /\ ~kind.loss
  /\ ~stalled
  /\ stalled' = TRUE
  /\ UNCHANGED <<kind, party, room, sent, rx, tun, got, copy, closed, lost, expired>>

ChunkLost(e) ==
  /\ kind.loss
  /\ tun[e] > 0
  /\ tun' = [tun EXCEPT ![e] = @ - 1]
  /\ UNCHANGED <<kind, party, room, sent, rx, got, copy, closed, lost, stalled, expired>>

\* runWorkerLoop never takes back the deadline it has set (HeartbeatTimeout).
Expires ==
  /\ kind.expires
  /\ ~expired
  /\ expired' = TRUE
  /\ UNCHANGED <<kind, party, room, sent, rx, tun, got, copy, closed, lost, stalled>>

-----------------------------------------------------------------------------
(* bridge: one copy into the party's connection, one out of it.             *)

Goes(e, c, to) == copy' = [copy EXCEPT ![e][c] = to]

\* A write to the tunnel fails once the other end is closed, or is in vain until
\* then; where nothing tells, it waits as it does for an end that does not read.
Unwritable(e) == kind.eof /\ (lost \/ closed[Other(e)])

OutReads(e) ==
  /\ copy[e]["out"] = "read"
  /\ rx[e] > 0
  /\ rx' = [rx EXCEPT ![e] = @ - 1]
  /\ Goes(e, "out", "write")
  /\ UNCHANGED <<kind, party, room, sent, tun, got, closed, lost, stalled, expired>>

\* The write returns: the tunnel has room, or a datagram goes out, or is in vain.
OutWrites(e) ==
  /\ copy[e]["out"] = "write"
  /\ \/ /\ ~stalled /\ tun[e] < TunCap
        /\ tun' = IF lost THEN tun ELSE [tun EXCEPT ![e] = @ + 1]
     \/ (kind.loss \/ Unwritable(e)) /\ UNCHANGED tun
  /\ Goes(e, "out", "read")
  /\ UNCHANGED <<kind, party, room, sent, rx, got, closed, lost, stalled, expired>>

\* Mutant: a copy sets the deadline of the connection it has read itself.
WrongOne(e, c) == FALSE

\* The other copy is over and has set the deadline of what this one reads.
Woken(e, c) ==
  /\ \A d \in Copies \ {c} : copy[e][d] = "over"
  /\ c = "in" => e \in kind.deadline

\* The party's side is read to its end, a deadline ends the read, or a write fails.
OutEnds(e) ==
  /\ \/ copy[e]["out"] = "read" /\ party[e] # "open" /\ rx[e] = 0
     \/ copy[e]["out"] = "read" /\ Woken(e, "out")
     \/ copy[e]["out"] = "write" /\ Unwritable(e)
  /\ Goes(e, "out", "over")
  /\ UNCHANGED <<kind, party, room, sent, rx, tun, got, closed, lost, stalled, expired>>

InReads(e) ==
  /\ copy[e]["in"] = "read"
  /\ tun[Other(e)] > 0
  /\ tun' = [tun EXCEPT ![Other(e)] = @ - 1]
  /\ Goes(e, "in", "write")
  /\ UNCHANGED <<kind, party, room, sent, rx, got, closed, lost, stalled, expired>>

\* The write returns: the party's connection has room, or it is in vain.
InWrites(e) ==
  /\ copy[e]["in"] = "write"
  /\ IF party[e] = "gone"
       THEN UNCHANGED <<room, got>>
       ELSE /\ room[e]
            /\ room' = [room EXCEPT ![e] = FALSE]
            /\ got' = [got EXCEPT ![e] = @ + 1]
  /\ Goes(e, "in", "read")
  /\ UNCHANGED <<kind, party, sent, rx, tun, closed, lost, stalled, expired>>

\* Mutant: a stream reports its end with data still unread.
EndFirst(o) == TRUE

Drained(o) == tun[o] = 0

\* Read of the tunnel is at its end, unless the kind does not tell.
AtEnd(e) == kind.eof /\ Drained(Other(e)) /\ (closed[Other(e)] \/ lost)

InEnds(e) ==
  /\ \/ copy[e]["in"] = "read" /\ AtEnd(e)
     \/ copy[e]["in"] = "read" /\ Woken(e, "in")
     \/ copy[e]["in"] = "read" /\ e = "client" /\ expired
     \/ copy[e]["in"] = "write" /\ party[e] = "gone"
  /\ Goes(e, "in", "over")
  /\ UNCHANGED <<kind, party, room, sent, rx, tun, got, closed, lost, stalled, expired>>

\* bridge returns; its caller closes both connections.
Close(e) ==
  /\ ~closed[e]
  /\ \A c \in Copies : copy[e][c] = "over"
  /\ closed' = [closed EXCEPT ![e] = TRUE]
  /\ UNCHANGED <<kind, party, room, sent, rx, tun, got, copy, lost, stalled, expired>>

-----------------------------------------------------------------------------
Bridge(e) ==
  \/ OutReads(e) \/ OutWrites(e) \/ OutEnds(e)
  \/ InReads(e) \/ InWrites(e) \/ InEnds(e)
  \/ Close(e)

Party(e) == Sends(e) \/ Leaves(e) \/ Reads(e)

Next ==
  \/ \E e \in Ends : Party(e) \/ ChunkLost(e) \/ Bridge(e)
  \/ TunnelLost \/ TunnelStalls \/ Expires

(***************************************************************************)
(* The two copies of an end are goroutines of their own.  A write that     *)
(* waits is not enabled, so that nothing is promised of it: the parties    *)
(* and the network owe nothing.                                            *)
(***************************************************************************)
Fairness ==
  \A e \in Ends :
    /\ WF_vars(OutReads(e)) /\ WF_vars(OutWrites(e)) /\ WF_vars(OutEnds(e))
    /\ WF_vars(InReads(e)) /\ WF_vars(InWrites(e)) /\ WF_vars(InEnds(e))
    /\ WF_vars(Close(e))

Spec == Init /\ [][Next]_vars

FairSpec == Spec /\ Fairness

-----------------------------------------------------------------------------
(* Properties. *)

\* A party whose connection is closed by its bridge has been given all that the
\* other party sent before it left.  The exceptions: the tunnel loses data; the
\* worker's deadline has passed, which ends even a busy relay; the party has
\* gone, or has shut its own side where the deadline then set ends the copy
\* towards it; or the other left with data of this party still to come.
NothingCutOff ==
  \A e \in Ends :
    LET o == Other(e) IN
    closed[e] /\ got[e] < sent[o] =>
      \/ lost \/ kind.loss \/ expired
      \/ party[e] = "gone"
      \/ party[e] = "shut" /\ e \in kind.deadline
      \/ party[o] # "open" /\ got[o] < sent[e]

\* A write to the tunnel at this end may wait for ever: it takes nothing any more,
\* or its other end is gone and nothing tells.
Unheard(e) ==
  \/ stalled
  \/ ~kind.eof /\ ~kind.loss /\ (lost \/ closed[Other(e)])

\* As long as parties read what they are given or go away, a bridge returns once
\* its party has left, if deadlines work at its end; once the other end is closed
\* or the tunnel lost, if the kind tells; and a worker's at its deadline; unless it
\* writes to a tunnel that takes nothing.  A mux stream does not do the first:
\* after both parties have left, its two ends wait for each other until the
\* session ends.
RelayEnds ==
  (\A e \in Ends : []<>(room[e] \/ party[e] = "gone")) =>
    \A e \in Ends :
      /\ e \in kind.deadline /\ party[e] # "open" ~> closed[e] \/ Unheard(e)
      /\ e = "client" /\ expired ~> closed[e] \/ Unheard(e)
      /\ kind.eof /\ (closed[Other(e)] \/ lost) ~> closed[e] \/ stalled

=============================================================================
