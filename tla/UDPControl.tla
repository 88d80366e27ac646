------------------------------ MODULE UDPControl ------------------------------
(***************************************************************************)
(* The control listener of the UDP transports (udpControlListener and      *)
(* udpControlConn in src/internal/tunnel/runner.go): one socket, from      *)
(* whose datagrams a read loop makes a connection for each source address, *)
(* the accept loop that takes them, and their holders.                     *)
(*                                                                         *)
(* The entry of an address is removed by the address alone, by whoever     *)
(* closes the connection.  l.mu protects the entries; it is held over more *)
(* than one step only by Close of the listener, which calls closeLocal on  *)
(* the connections it finds and so waits for itself (closer = "stuck").    *)
(*                                                                         *)
(* Datagrams are numbered per address as the loop reads them: what the     *)
(* network loses, doubles or swaps is lost, doubled or swapped before.     *)
(***************************************************************************)
EXTENDS Naturals, Sequences

CONSTANTS
  Addrs,       \* source addresses
  Conns,       \* slots for udpControlConn objects
  InCap,       \* capacity of udpControlConn.incoming (512 in the code)
  AcceptCap,   \* capacity of acceptC (256 in the code)
  MaxPackets,  \* bound: per address, its datagrams
  NoConn,      \* no connection
  NoAddr       \* no address

ASSUME CapacityAssumption ==
  /\ InCap \in Nat \ {0}
  /\ AcceptCap \in Nat \ {0}
  /\ MaxPackets \in [Addrs -> Nat]
  /\ NoConn \notin Conns
  /\ NoAddr \notin Addrs

VARIABLES
  loop,      \* readLoop: what it is doing, for which address and connection
  arrived,   \* per address, datagrams it has read
  conns,     \* udpControlListener.conns
  acceptC,   \* udpControlListener.acceptC
  acceptor,  \* the loop of acceptControl
  closer,    \* Close of the listener
  stage,     \* per slot: free, in acceptC, or with a holder
  key,       \* per connection, its address
  once,      \* per connection, how far closeLocal is
  incoming,  \* per connection, its channel
  got        \* per connection, what Read has taken from incoming

connVars == <<stage, key, once, incoming, got>>
vars == <<loop, arrived, conns, acceptC, acceptor, closer, connVars>>

-----------------------------------------------------------------------------
LoopState == [pc : {"read", "lookup", "push", "close", "returned"},
              src : Addrs \cup {NoAddr}, conn : Conns \cup {NoConn}]

AtRead == [pc |-> "read", src |-> NoAddr, conn |-> NoConn]

TypeOK ==
  /\ loop \in LoopState
  /\ loop.pc \in {"lookup", "push", "close"} => loop.src \in Addrs
  /\ loop.pc \in {"push", "close"} => loop.conn \in Conns
  /\ arrived \in [Addrs -> Nat]
  /\ conns \in [Addrs -> Conns \cup {NoConn}]
  /\ acceptC \in Seq(Conns)
  /\ Len(acceptC) <= AcceptCap
  /\ acceptor \in {"accept", "return", "done"}
  /\ closer \in {"no", "shut", "stuck", "done"}
  /\ stage \in [Conns -> {"free", "queued", "held"}]
  /\ key \in [Conns -> Addrs]
  /\ once \in [Conns -> {"no", "removing", "done"}]
  /\ incoming \in [Conns -> Seq(Nat)]
  /\ \A c \in Conns : Len(incoming[c]) <= InCap
  /\ got \in [Conns -> Seq(Nat)]

Init ==
  /\ loop = AtRead
  /\ arrived = [a \in Addrs |-> 0]
  /\ conns = [a \in Addrs |-> NoConn]
  /\ acceptC = <<>>
  /\ acceptor = "accept"
  /\ closer = "no"
  /\ stage = [c \in Conns |-> "free"]
  /\ key \in {[c \in Conns |-> a] : a \in Addrs}
  /\ once = [c \in Conns |-> "done"]
  /\ incoming = [c \in Conns |-> <<>>]
  /\ got = [c \in Conns |-> <<>>]

\* Nobody holds l.mu.
Unlocked == closer # "stuck"

\* c.closed is closed.
Closed(c) == once[c] # "no"

-----------------------------------------------------------------------------
(* readLoop and push. *)

\* A new connection will find a free slot.
ReadPacket(a) ==
  /\ loop.pc = "read"
  /\ closer = "no"
  /\ arrived[a] < MaxPackets[a]
  /\ \E c \in Conns : stage[c] = "free"
  /\ arrived' = [arrived EXCEPT ![a] = @ + 1]
  /\ loop' = [loop EXCEPT !.pc = "lookup", !.src = a]
  /\ UNCHANGED <<conns, acceptC, acceptor, closer, connVars>>

ReadFails ==
  /\ loop.pc = "read"
  /\ closer # "no"
  /\ loop' = [loop EXCEPT !.pc = "returned"]
  /\ UNCHANGED <<arrived, conns, acceptC, acceptor, closer, connVars>>

\* Mutant: a connection that was closed is replaced before it is removed.
AbsentOrClosed(a) == conns[a] # NoConn => Closed(conns[a])

Absent(a) == conns[a] = NoConn

LookupFinds ==
  /\ loop.pc = "lookup"
  /\ Unlocked
  /\ ~Absent(loop.src)
  /\ loop' = [loop EXCEPT !.pc = "push", !.conn = conns[loop.src]]
  /\ UNCHANGED <<arrived, conns, acceptC, acceptor, closer, connVars>>

LookupMakes(c) ==
  /\ loop.pc = "lookup"
  /\ Unlocked
  /\ Absent(loop.src)
  /\ Len(acceptC) < AcceptCap
  /\ stage[c] = "free"
  /\ conns' = [conns EXCEPT ![loop.src] = c]
  /\ acceptC' = Append(acceptC, c)
  /\ stage' = [stage EXCEPT ![c] = "queued"]
  /\ key' = [key EXCEPT ![c] = loop.src]
  /\ once' = [once EXCEPT ![c] = "no"]
  /\ loop' = [loop EXCEPT !.pc = "push", !.conn = c]
  /\ UNCHANGED <<arrived, acceptor, closer, incoming, got>>

\* acceptC is full: entry and datagram are dropped before l.mu is released.
LookupRefuses ==
  /\ loop.pc = "lookup"
  /\ Unlocked
  /\ Absent(loop.src)
  /\ Len(acceptC) >= AcceptCap
  /\ loop' = AtRead
  /\ UNCHANGED <<arrived, conns, acceptC, acceptor, closer, connVars>>

\* select takes any case that is ready, so that a datagram may also be put into
\* the channel of a connection that is closed.
Push ==
  LET c == loop.conn IN
  /\ loop.pc = "push"
  /\ Len(incoming[c]) < InCap
  /\ incoming' = [incoming EXCEPT ![c] = Append(@, arrived[loop.src])]
  /\ loop' = AtRead
  /\ UNCHANGED <<arrived, conns, acceptC, acceptor, closer, stage, key, once, got>>

\* Mutant: a datagram that finds the channel full is dropped.
DropPacket == AtRead

ClosePushed == [loop EXCEPT !.pc = "close"]

\* Mutant: push waits for room.
OnlyClosed(c) == Closed(c)

ClosedOrFull(c) == Closed(c) \/ Len(incoming[c]) >= InCap

PushFails ==
  /\ loop.pc = "push"
  /\ ClosedOrFull(loop.conn)
  /\ loop' = ClosePushed
  /\ UNCHANGED <<arrived, conns, acceptC, acceptor, closer, connVars>>

-----------------------------------------------------------------------------
(* closeLocal: closeW lets one caller in, and the others wait for it. *)

BeginClose(c) ==
  /\ once[c] = "no"
  /\ once' = [once EXCEPT ![c] = "removing"]
  /\ UNCHANGED <<loop, arrived, conns, acceptC, acceptor, closer,
                 stage, key, incoming, got>>

LoopBegins == loop.pc = "close" /\ BeginClose(loop.conn)

HolderBegins(c) == stage[c] = "held" /\ BeginClose(c)

Remove(c) ==
  /\ once[c] = "removing"
  /\ Unlocked
  /\ conns' = [conns EXCEPT ![key[c]] = NoConn]
  /\ once' = [once EXCEPT ![c] = "done"]
  /\ UNCHANGED <<loop, arrived, acceptC, acceptor, closer,
                 stage, key, incoming, got>>

LoopClosed ==
  /\ loop.pc = "close"
  /\ once[loop.conn] = "done"
  /\ loop' = AtRead
  /\ UNCHANGED <<arrived, conns, acceptC, acceptor, closer, connVars>>

-----------------------------------------------------------------------------
(* Accept, and the holder of a connection (authenticateControlConn, bridge). *)

AcceptConn ==
  /\ acceptor = "accept"
  /\ acceptC # <<>>
  /\ acceptC' = Tail(acceptC)
  /\ stage' = [stage EXCEPT ![Head(acceptC)] = "held"]
  /\ UNCHANGED <<loop, arrived, conns, acceptor, closer, key, once, incoming, got>>

\* Mutant: Accept does not look at the end of the listener.
AcceptUntold == FALSE

AcceptTold == closer # "no"

\* Accept fails only when the context is cancelled; the deferred Close follows.
AcceptEnds ==
  /\ acceptor = "accept"
  /\ AcceptTold
  /\ acceptor' = "return"
  /\ UNCHANGED <<loop, arrived, conns, acceptC, closer, connVars>>

\* It waits for the Close that came first.
AcceptReturns ==
  /\ acceptor = "return"
  /\ closer = "done"
  /\ acceptor' = "done"
  /\ UNCHANGED <<loop, arrived, conns, acceptC, closer, connVars>>

\* Also when the connection is closed, for select takes any case that is ready.
Read(c) ==
  /\ stage[c] = "held"
  /\ incoming[c] # <<>>
  /\ incoming' = [incoming EXCEPT ![c] = Tail(@)]
  /\ got' = [got EXCEPT ![c] = Append(@, Head(incoming[c]))]
  /\ UNCHANGED <<loop, arrived, conns, acceptC, acceptor, closer, stage, key, once>>

\* The holder is told of the end, or has closed the connection itself; nobody has
\* a use for the object any more.
Drop(c) ==
  /\ stage[c] = "held"
  /\ once[c] = "done"
  /\ loop.conn # c
  /\ stage' = [stage EXCEPT ![c] = "free"]
  /\ incoming' = [incoming EXCEPT ![c] = <<>>]
  /\ got' = [got EXCEPT ![c] = <<>>]
  /\ UNCHANGED <<loop, arrived, conns, acceptC, acceptor, closer, key, once>>

-----------------------------------------------------------------------------
(* Close of the listener, when the context is cancelled. *)

Shutdown ==
  /\ closer = "no"
  /\ closer' = "shut"
  /\ UNCHANGED <<loop, arrived, conns, acceptC, acceptor, connVars>>

Idle == \A a \in Addrs : Absent(a)

CloseIdle ==
  /\ closer = "shut"
  /\ Idle
  /\ closer' = "done"
  /\ UNCHANGED <<loop, arrived, conns, acceptC, acceptor, connVars>>

\* Holding l.mu it closes the first connection it finds, or waits for whoever is
\* closing it, and either needs l.mu.
CloseSticks(a) ==
  /\ closer = "shut"
  /\ ~Absent(a)
  /\ closer' = "stuck"
  /\ once' = [once EXCEPT ![conns[a]] = IF @ = "no" THEN "removing" ELSE @]
  /\ UNCHANGED <<loop, arrived, conns, acceptC, acceptor,
                 stage, key, incoming, got>>

-----------------------------------------------------------------------------
Lookup == LookupFinds \/ (\E c \in Conns : LookupMakes(c)) \/ LookupRefuses

Loop ==
  \/ ReadFails \/ Lookup \/ Push \/ PushFails \/ LoopBegins \/ LoopClosed

Closer == CloseIdle \/ \E a \in Addrs : CloseSticks(a)

Conn(c) == HolderBegins(c) \/ Remove(c) \/ Read(c) \/ Drop(c)

Next ==
  \/ \E a \in Addrs : ReadPacket(a)
  \/ Loop
  \/ \E c \in Conns : Conn(c)
  \/ AcceptConn \/ AcceptEnds \/ AcceptReturns
  \/ Shutdown \/ Closer

(***************************************************************************)
(* The goroutines of the listener run, and whoever has begun to close a    *)
(* connection goes on.  Nobody has to send, read or close.                 *)
(***************************************************************************)
Fairness ==
  /\ WF_vars(Loop)
  /\ \A c \in Conns : WF_vars(Remove(c))
  /\ WF_vars(AcceptConn) /\ WF_vars(AcceptEnds) /\ WF_vars(AcceptReturns)
  /\ WF_vars(Closer)

Spec == Init /\ [][Next]_vars

FairSpec == Spec /\ Fairness

-----------------------------------------------------------------------------
(* Properties. *)

\* Entries and open connections agree, although remove goes by the address and
\* other connections of that address come and go (conns, remove): the datagrams of
\* an address reach its open connection, and no entry of one that is gone locks
\* the address out.
Registered ==
  /\ \A c \in Conns :
       stage[c] # "free" /\ ~Closed(c) => conns[key[c]] = c
  /\ \A a \in Addrs : conns[a] # NoConn =>
       /\ stage[conns[a]] # "free"
       /\ key[conns[a]] = a
       /\ once[conns[a]] # "done"

\* What has come to a connection, read or not.
Came(c) == got[c] \o incoming[c]

\* An open connection misses none of the datagrams since its first: when there is
\* no room for one it is closed, since a reader could not tell (push).
GapFree ==
  \A c \in Conns :
    stage[c] # "free" /\ ~Closed(c) =>
      /\ \A k \in 1..Len(Came(c)) : Came(c)[k] = Came(c)[1] + k - 1
      /\ \/ loop.src = key[c]
         \/ Came(c) # <<>> /\ Came(c)[Len(Came(c))] = arrived[key[c]]

\* The loop comes back to the socket, and with it to the datagrams of all other
\* addresses, whoever closes the connection it is at; a listener that is stuck in
\* Close no longer serves anybody.
LoopServes ==
  loop.pc \in {"lookup", "push", "close"} ~>
    loop.pc \in {"read", "returned"} \/ closer = "stuck"

\* A listener that has no connections when it is closed stops altogether.  (With
\* one it does not; see the README.)
StopsWhenIdle ==
  (closer = "shut" /\ Idle /\ loop.pc # "lookup") ~>
    (acceptor = "done" /\ loop.pc = "returned")

=============================================================================
