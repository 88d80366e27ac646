--------------------------- MODULE UDPControlProofs ---------------------------
(***************************************************************************)
(* Theorems about UDPControl for every number of addresses, connections    *)
(* and datagrams and every capacity of the channels.                       *)
(***************************************************************************)
EXTENDS UDPControl, SequenceTheorems, TLAPS

-----------------------------------------------------------------------------
(* Type correctness. *)

\* What Append, Head and Tail do to a queue.
LEMMA QueueTypes ==
  ASSUME NEW S, NEW q \in Seq(S)
  PROVE  /\ Len(q) \in Nat
         /\ \A x \in S : Append(q, x) \in Seq(S) /\ Len(Append(q, x)) = Len(q) + 1
         /\ q # <<>> =>
              Head(q) \in S /\ Tail(q) \in Seq(S) /\ Len(Tail(q)) = Len(q) - 1
PROOF BY AppendProperties, HeadTailProperties, LenProperties

\* Init has the right types.
LEMMA TypeInit == Init => TypeOK
PROOF
<1>1. <<>> \in Seq(Conns) /\ <<>> \in Seq(Nat) /\ Len(<<>>) = 0
  OBVIOUS
<1>2. QED BY <1>1, CapacityAssumption DEF Init, TypeOK, AtRead, LoopState

\* The steps of the read loop keep the types.
LEMMA TypeLoop ==
  ASSUME TypeOK, (\E a \in Addrs : ReadPacket(a)) \/ Loop
  PROVE  TypeOK'
PROOF
<1> USE DEF connVars
<1>r. AtRead \in LoopState /\ AtRead.pc = "read" BY DEF AtRead, LoopState
<1>1. ASSUME NEW a \in Addrs, ReadPacket(a) PROVE TypeOK'
  <2>1. loop' \in LoopState /\ loop'.pc = "lookup" /\ loop'.src = a
    BY <1>1 DEF ReadPacket, LoopState, TypeOK
  <2>2. arrived' \in [Addrs -> Nat]
    <3>1. arrived' = [arrived EXCEPT ![a] = @ + 1] BY <1>1 DEF ReadPacket
    <3>2. arrived \in [Addrs -> Nat] /\ arrived[a] + 1 \in Nat BY DEF TypeOK
    <3>3. QED BY <3>1, <3>2
  <2>3. QED BY <1>1, <2>1, <2>2 DEF ReadPacket, TypeOK
<1>2. CASE ReadFails
  <2>1. loop' \in LoopState /\ loop'.pc = "returned"
    BY <1>2 DEF ReadFails, LoopState, TypeOK
  <2>2. QED BY <1>2, <2>1 DEF ReadFails, TypeOK
<1>3. CASE LookupFinds
  <2>1. loop' \in LoopState /\ loop'.pc = "push" /\ loop'.src \in Addrs
        /\ loop'.conn \in Conns
    BY <1>3 DEF LookupFinds, Absent, LoopState, TypeOK
  <2>2. QED BY <1>3, <2>1 DEF LookupFinds, TypeOK
<1>4. ASSUME NEW c \in Conns, LookupMakes(c) PROVE TypeOK'
  <2>1. loop' \in LoopState /\ loop'.pc = "push" /\ loop'.src \in Addrs
        /\ loop'.conn \in Conns
    BY <1>4 DEF LookupMakes, LoopState, TypeOK
  <2>2. acceptC' \in Seq(Conns) /\ Len(acceptC') = Len(acceptC) + 1
        /\ Len(acceptC) \in Nat
    BY <1>4, QueueTypes DEF LookupMakes, TypeOK
  <2>3. Len(acceptC') <= AcceptCap
    BY <1>4, <2>2, CapacityAssumption DEF LookupMakes
  <2>4. /\ conns' \in [Addrs -> Conns \cup {NoConn}]
        /\ stage' \in [Conns -> {"free", "queued", "held"}]
        /\ key' \in [Conns -> Addrs]
        /\ once' \in [Conns -> {"no", "removing", "done"}]
    BY <1>4 DEF LookupMakes, TypeOK
  <2>5. QED BY <1>4, <2>1, <2>2, <2>3, <2>4 DEF LookupMakes, TypeOK
<1>5. CASE LookupRefuses BY <1>r, <1>5 DEF LookupRefuses, TypeOK
<1>6. CASE Push
  <2> DEFINE c == loop.conn
             q == Append(incoming[c], arrived[loop.src])
  <2>1. c \in Conns /\ loop.src \in Addrs BY <1>6 DEF Push, TypeOK
  <2>2. q \in Seq(Nat) /\ Len(q) = Len(incoming[c]) + 1 /\ Len(incoming[c]) \in Nat
    BY <2>1, QueueTypes DEF TypeOK
  <2>3. Len(q) <= InCap BY <1>6, <2>2, CapacityAssumption DEF Push
  <2>4. incoming' = [incoming EXCEPT ![c] = q] BY <1>6 DEF Push
  <2> HIDE DEF q, c
  <2>5. incoming' \in [Conns -> Seq(Nat)] /\ \A d \in Conns : Len(incoming'[d]) <= InCap
    BY <2>1, <2>2, <2>3, <2>4 DEF TypeOK
  <2>6. QED BY <1>r, <1>6, <2>5 DEF Push, TypeOK
<1>7. CASE PushFails
  <2>1. loop' \in LoopState /\ loop'.pc = "close" /\ loop'.src = loop.src
        /\ loop'.conn = loop.conn
    BY <1>7 DEF PushFails, ClosePushed, LoopState, TypeOK
  <2>2. QED BY <1>7, <2>1 DEF PushFails, TypeOK
<1>8. CASE LoopBegins BY <1>8 DEF LoopBegins, BeginClose, TypeOK
<1>9. CASE LoopClosed BY <1>r, <1>9 DEF LoopClosed, TypeOK
<1>10. QED BY <1>1, <1>2, <1>3, <1>4, <1>5, <1>6, <1>7, <1>8, <1>9 DEF Loop, Lookup

\* So do the holders of connections.
LEMMA TypeConn ==
  ASSUME TypeOK, NEW c \in Conns, Conn(c)
  PROVE  TypeOK'
PROOF
<1> USE DEF connVars
<1>1. CASE HolderBegins(c) BY <1>1 DEF HolderBegins, BeginClose, TypeOK
<1>2. CASE Remove(c) BY <1>2 DEF Remove, TypeOK
<1>3. CASE Read(c)
  <2>1. /\ Head(incoming[c]) \in Nat /\ Tail(incoming[c]) \in Seq(Nat)
        /\ Len(Tail(incoming[c])) = Len(incoming[c]) - 1
        /\ Len(incoming[c]) \in Nat
        /\ Append(got[c], Head(incoming[c])) \in Seq(Nat)
    BY <1>3, QueueTypes DEF Read, TypeOK
  <2>2. Len(Tail(incoming[c])) <= InCap
    BY <2>1, CapacityAssumption DEF TypeOK
  <2>3. incoming' \in [Conns -> Seq(Nat)] /\ \A d \in Conns : Len(incoming'[d]) <= InCap
    BY <1>3, <2>1, <2>2 DEF Read, TypeOK
  <2>4. got' \in [Conns -> Seq(Nat)] BY <1>3, <2>1 DEF Read, TypeOK
  <2>5. QED BY <1>3, <2>3, <2>4 DEF Read, TypeOK
<1>4. CASE Drop(c)
  <2>1. <<>> \in Seq(Nat) /\ Len(<<>>) = 0 /\ 0 <= InCap
    BY CapacityAssumption
  <2>2. incoming' \in [Conns -> Seq(Nat)] /\ \A d \in Conns : Len(incoming'[d]) <= InCap
    BY <1>4, <2>1 DEF Drop, TypeOK
  <2>3. QED BY <1>4, <2>1, <2>2 DEF Drop, TypeOK
<1>5. QED BY <1>1, <1>2, <1>3, <1>4 DEF Conn

\* And every other step.
LEMMA TypeNext == TypeOK /\ [Next]_vars => TypeOK'
PROOF
<1> USE DEF connVars
<1> SUFFICES ASSUME TypeOK, [Next]_vars PROVE TypeOK' OBVIOUS
<1>1. CASE UNCHANGED vars BY <1>1 DEF vars, TypeOK
<1>2. CASE AcceptConn
  <2>1. Tail(acceptC) \in Seq(Conns) /\ Len(Tail(acceptC)) <= AcceptCap
    BY <1>2, QueueTypes, CapacityAssumption DEF AcceptConn, TypeOK
  <2>2. stage' \in [Conns -> {"free", "queued", "held"}]
    BY <1>2 DEF AcceptConn, TypeOK
  <2>3. QED BY <1>2, <2>1, <2>2 DEF AcceptConn, TypeOK
<1>3. CASE AcceptEnds \/ AcceptReturns \/ Shutdown \/ CloseIdle
  BY <1>3 DEF AcceptEnds, AcceptReturns, Shutdown, CloseIdle, TypeOK
<1>4. ASSUME NEW a \in Addrs, CloseSticks(a) PROVE TypeOK'
  <2>1. once' \in [Conns -> {"no", "removing", "done"}]
    BY <1>4 DEF CloseSticks, TypeOK
  <2>2. QED BY <1>4, <2>1 DEF CloseSticks, TypeOK
<1>5. QED BY <1>1, <1>2, <1>3, <1>4, TypeLoop, TypeConn DEF Next, Closer

\* The state is always well typed; no channel exceeds its capacity (acceptC,
\* incoming) and the loop is at an address and a connection when it uses them.
THEOREM TypeCorrect == Spec => []TypeOK
PROOF BY TypeInit, TypeNext, PTL DEF Spec

-----------------------------------------------------------------------------
(***************************************************************************)
(* Entries.  Until it has been removed a connection is the entry of its    *)
(* address, also while whoever closes it has still to remove it: therefore *)
(* the loop makes no other one, and what is removed is its own entry.      *)
(***************************************************************************)

Listed ==
  /\ \A c \in Conns : once[c] # "done" => stage[c] # "free" /\ conns[key[c]] = c
  /\ \A a \in Addrs : conns[a] # NoConn =>
       key[conns[a]] = a /\ once[conns[a]] # "done"

\* Steps that make no entry and remove none.
LEMMA ListedSame ==
  ASSUME TypeOK, Listed, UNCHANGED <<conns, key>>,
         \A c \in Conns : once'[c] # "done" <=> once[c] # "done",
         \A c \in Conns : stage'[c] # "free" \/ stage'[c] = stage[c]
                          \/ once[c] = "done"
  PROVE  Listed'
PROOF BY DEF Listed, TypeOK

\* Every step keeps it.
LEMMA ListedNext == TypeOK /\ Listed /\ [Next]_vars => Listed'
PROOF
<1> USE DEF connVars
<1> SUFFICES ASSUME TypeOK, Listed, [Next]_vars PROVE Listed' OBVIOUS
<1>1. CASE UNCHANGED vars BY <1>1 DEF vars, Listed
<1>2. CASE \/ \E a \in Addrs : ReadPacket(a)
           \/ ReadFails \/ LookupFinds \/ LookupRefuses \/ Push \/ PushFails
           \/ LoopClosed \/ (\E c \in Conns : Read(c))
           \/ AcceptEnds \/ AcceptReturns \/ Shutdown \/ CloseIdle
  <2>1. UNCHANGED <<conns, key, once, stage>>
    BY <1>2
    DEF ReadPacket, ReadFails, LookupFinds, LookupRefuses, Push, PushFails,
        LoopClosed, Read, AcceptEnds, AcceptReturns, Shutdown, CloseIdle
  <2>2. QED BY <2>1 DEF Listed
<1>3. ASSUME NEW c \in Conns, LookupMakes(c) PROVE Listed'
  <2>1. /\ loop.src \in Addrs /\ conns[loop.src] = NoConn /\ stage[c] = "free"
        /\ conns' = [conns EXCEPT ![loop.src] = c]
        /\ stage' = [stage EXCEPT ![c] = "queued"]
        /\ key' = [key EXCEPT ![c] = loop.src]
        /\ once' = [once EXCEPT ![c] = "no"]
    BY <1>3 DEF LookupMakes, Absent, TypeOK
  <2>2. once[c] = "done" BY <2>1 DEF Listed
  <2>3. ASSUME NEW d \in Conns, once'[d] # "done"
        PROVE  stage'[d] # "free" /\ conns'[key'[d]] = d
    <3>1. CASE d = c BY <2>1, <3>1 DEF TypeOK
    <3>2. CASE d # c
      <4>1. once[d] # "done" /\ key'[d] = key[d] /\ stage'[d] = stage[d]
        BY <2>1, <2>3, <3>2 DEF TypeOK
      <4>2. stage[d] # "free" /\ conns[key[d]] = d BY <4>1 DEF Listed
      <4>3. key[d] # loop.src /\ key[d] \in Addrs
        BY <2>1, <4>2, CapacityAssumption DEF TypeOK
      <4>4. QED BY <2>1, <4>1, <4>2, <4>3 DEF TypeOK
    <3>3. QED BY <3>1, <3>2
  <2>4. ASSUME NEW a \in Addrs, conns'[a] # NoConn
        PROVE  key'[conns'[a]] = a /\ once'[conns'[a]] # "done"
    <3>1. CASE a = loop.src BY <2>1, <3>1 DEF TypeOK
    <3>2. CASE a # loop.src
      <4>1. conns'[a] = conns[a] BY <2>1, <3>2 DEF TypeOK
      <4>2. key[conns[a]] = a /\ once[conns[a]] # "done"
        BY <2>4, <4>1 DEF Listed
      <4>3. conns[a] # c /\ conns[a] \in Conns
        BY <2>2, <2>4, <4>1, <4>2 DEF TypeOK
      <4>4. QED BY <2>1, <4>1, <4>2, <4>3 DEF TypeOK
    <3>3. QED BY <3>1, <3>2
  <2>5. QED BY <2>3, <2>4 DEF Listed
<1>4. ASSUME NEW c \in Conns, BeginClose(c), UNCHANGED stage PROVE Listed'
  <2>1. once[c] = "no" /\ once' = [once EXCEPT ![c] = "removing"]
        /\ UNCHANGED <<conns, key>>
    BY <1>4 DEF BeginClose
  <2>2. \A d \in Conns : once'[d] # "done" <=> once[d] # "done"
    BY <2>1 DEF TypeOK
  <2>3. QED BY <1>4, <2>1, <2>2, ListedSame
<1>5. CASE LoopBegins
  <2>1. loop.conn \in Conns BY <1>5 DEF LoopBegins, TypeOK
  <2>2. QED BY <1>4, <1>5, <2>1 DEF LoopBegins, BeginClose
<1>6. ASSUME NEW c \in Conns, HolderBegins(c) PROVE Listed'
  BY <1>4, <1>6 DEF HolderBegins, BeginClose
<1>7. ASSUME NEW c \in Conns, Remove(c) PROVE Listed'
  <2>1. /\ once[c] = "removing" /\ UNCHANGED <<stage, key>>
        /\ conns' = [conns EXCEPT ![key[c]] = NoConn]
        /\ once' = [once EXCEPT ![c] = "done"]
    BY <1>7 DEF Remove
  <2>2. conns[key[c]] = c /\ key[c] \in Addrs BY <2>1 DEF Listed, TypeOK
  <2>3. ASSUME NEW d \in Conns, once'[d] # "done"
        PROVE  stage'[d] # "free" /\ conns'[key'[d]] = d
    <3>1. d # c /\ once[d] # "done" BY <2>1, <2>3 DEF TypeOK
    <3>2. stage[d] # "free" /\ conns[key[d]] = d /\ key[d] \in Addrs
      BY <3>1 DEF Listed, TypeOK
    <3>3. key[d] # key[c] BY <2>2, <3>1, <3>2
    <3>4. QED BY <2>1, <3>2, <3>3 DEF TypeOK
  <2>4. ASSUME NEW a \in Addrs, conns'[a] # NoConn
        PROVE  key'[conns'[a]] = a /\ once'[conns'[a]] # "done"
    <3>1. a # key[c] /\ conns'[a] = conns[a] BY <2>1, <2>2, <2>4 DEF TypeOK
    <3>2. key[conns[a]] = a /\ once[conns[a]] # "done" /\ conns[a] # c
      BY <2>4, <3>1 DEF Listed
    <3>3. QED BY <2>1, <3>1, <3>2 DEF TypeOK
  <2>5. QED BY <2>3, <2>4 DEF Listed
<1>8. ASSUME NEW c \in Conns, Drop(c) PROVE Listed'
  <2>1. /\ once[c] = "done" /\ UNCHANGED <<conns, key, once>>
        /\ stage' = [stage EXCEPT ![c] = "free"]
    BY <1>8 DEF Drop
  <2>2. \A d \in Conns : stage'[d] = stage[d] \/ once[d] = "done"
    BY <2>1 DEF TypeOK
  <2>3. QED BY <2>1, <2>2, ListedSame
<1>9. CASE AcceptConn
  <2>1. /\ UNCHANGED <<conns, key, once>>
        /\ stage' = [stage EXCEPT ![Head(acceptC)] = "held"]
    BY <1>9 DEF AcceptConn
  <2>2. \A d \in Conns : stage'[d] # "free" \/ stage'[d] = stage[d]
    BY <2>1 DEF TypeOK
  <2>3. QED BY <2>1, <2>2, ListedSame
<1>10. ASSUME NEW a \in Addrs, CloseSticks(a) PROVE Listed'
  <2>1. /\ conns[a] # NoConn /\ UNCHANGED <<conns, key, stage>>
        /\ once' = [once EXCEPT ![conns[a]] = IF @ = "no" THEN "removing" ELSE @]
    BY <1>10 DEF CloseSticks, Absent
  <2>2. \A d \in Conns : once'[d] # "done" <=> once[d] # "done"
    BY <2>1 DEF TypeOK
  <2>3. QED BY <2>1, <2>2, ListedSame
<1>11. QED BY <1>1, <1>2, <1>3, <1>5, <1>6, <1>7, <1>8, <1>9, <1>10
       DEF Next, Loop, Lookup, Conn, Closer

\* At first there is neither an entry nor a connection.
LEMMA ListedInit == Init => Listed
PROOF BY DEF Init, Listed

\* Entries and open connections agree: remove, which knows only the address, never
\* hits another connection, and no address is locked out by one that is gone.
THEOREM EntriesAgree == Spec => []Registered
PROOF
<1>1. TypeOK /\ Listed => Registered
  BY DEF TypeOK, Listed, Registered, Closed
<1>2. QED BY <1>1, TypeInit, TypeNext, ListedInit, ListedNext, PTL DEF Spec

-----------------------------------------------------------------------------
(***************************************************************************)
(* Datagrams.  What has come to an open connection ends with the last      *)
(* datagram of its address, or with the one before while the loop has that *)
(* in hand; and while it has, there is no other connection of the address. *)
(***************************************************************************)

\* g, what was read, and then q, what is in the channel, count up to n.
RunOf(g, q, n) ==
  /\ \A k \in 1..Len(g) : g[k] = n - Len(g) - Len(q) + k
  /\ \A k \in 1..Len(q) : q[k] = n - Len(q) + k

\* The datagram that came last to connection c, or would have if it was there.
Last(c) == IF loop.src = key[c] THEN arrived[key[c]] - 1 ELSE arrived[key[c]]

Run(c) ==
  /\ RunOf(got[c], incoming[c], Last(c))
  /\ loop.src # key[c] => Len(got[c]) + Len(incoming[c]) > 0

OpenRuns == \A c \in Conns : once[c] = "no" => Run(c)

FreeEmpty == \A c \in Conns : stage[c] = "free" => got[c] = <<>> /\ incoming[c] = <<>>

LoopHolds ==
  /\ loop.pc \in {"push", "close"} =>
       /\ stage[loop.conn] # "free"
       /\ key[loop.conn] = loop.src
       /\ conns[loop.src] \in {loop.conn, NoConn}
  /\ loop.pc \in {"read", "returned"} => loop.src = NoAddr

IInv == TypeOK /\ Listed /\ OpenRuns /\ FreeEmpty /\ LoopHolds

\* The next datagram is put into the channel.
LEMMA RunPush ==
  ASSUME NEW g \in Seq(Nat), NEW q \in Seq(Nat), NEW n \in Int, RunOf(g, q, n),
         n + 1 \in Nat
  PROVE  RunOf(g, Append(q, n + 1), n + 1)
PROOF
<1> DEFINE q2 == Append(q, n + 1)
<1>1. /\ Len(g) \in Nat /\ Len(q) \in Nat /\ Len(q2) = Len(q) + 1
      /\ q2[Len(q) + 1] = n + 1
      /\ \A k \in 1..Len(q) : q2[k] = q[k]
      /\ \A k \in 1..Len(q2) : k \in 1..Len(q) \/ k = Len(q) + 1
  BY AppendProperties, LenProperties
<1> HIDE DEF q2
<1>2. \A k \in 1..Len(g) : g[k] = (n + 1) - Len(g) - Len(q2) + k BY <1>1 DEF RunOf
<1>3. ASSUME NEW k \in 1..Len(q2) PROVE q2[k] = (n + 1) - Len(q2) + k
  <2>1. CASE k \in 1..Len(q)
    <3>1. q2[k] = n - Len(q) + k BY <1>1, <2>1 DEF RunOf
    <3>2. QED BY <1>1, <3>1
  <2>2. CASE k = Len(q) + 1 BY <1>1, <2>2
  <2>3. QED BY <1>1, <2>1, <2>2
<1>4. QED BY <1>2, <1>3 DEF RunOf, q2

\* The first datagram in the channel is read.
LEMMA RunRead ==
  ASSUME NEW g \in Seq(Nat), NEW q \in Seq(Nat), NEW n \in Int, RunOf(g, q, n),
         q # <<>>
  PROVE  /\ RunOf(Append(g, Head(q)), Tail(q), n)
         /\ Len(Append(g, Head(q))) + Len(Tail(q)) = Len(g) + Len(q)
PROOF
<1> DEFINE g2 == Append(g, Head(q))
           q2 == Tail(q)
<1>1. /\ Len(q) \in Nat /\ Head(q) = q[1] /\ 1 \in 1..Len(q)
      /\ Len(q2) = Len(q) - 1
      /\ \A k \in 1..Len(q2) : q2[k] = q[k + 1] /\ k + 1 \in 1..Len(q)
      /\ Head(q) \in Nat
  BY HeadTailProperties, LenProperties, EmptySeq
<1>2. /\ Len(g) \in Nat /\ Len(g2) = Len(g) + 1 /\ g2[Len(g) + 1] = Head(q)
      /\ \A k \in 1..Len(g) : g2[k] = g[k]
      /\ \A k \in 1..Len(g2) : k \in 1..Len(g) \/ k = Len(g) + 1
  BY <1>1, AppendProperties, LenProperties
<1> HIDE DEF g2, q2
<1>3. Head(q) = n - Len(q) + 1 BY <1>1 DEF RunOf
<1>4. ASSUME NEW k \in 1..Len(g2) PROVE g2[k] = n - Len(g2) - Len(q2) + k
  <2>1. Len(g2) + Len(q2) = Len(g) + Len(q) BY <1>1, <1>2
  <2>2. CASE k \in 1..Len(g)
    <3>1. g2[k] = n - Len(g) - Len(q) + k BY <1>2, <2>2 DEF RunOf
    <3>2. QED BY <1>1, <1>2, <2>1, <3>1
  <2>3. CASE k = Len(g) + 1 BY <1>1, <1>2, <1>3, <2>3
  <2>4. QED BY <1>2, <2>2, <2>3
<1>5. \A k \in 1..Len(q2) : q2[k] = n - Len(q2) + k BY <1>1 DEF RunOf
<1>6. Len(g2) + Len(q2) = Len(g) + Len(q) BY <1>1, <1>2
<1>7. QED BY <1>4, <1>5, <1>6 DEF RunOf, g2, q2

\* A connection that nothing comes to or is read from.
LEMMA RunSame ==
  ASSUME NEW c \in Conns, Run(c), key'[c] = key[c],
         got'[c] = got[c], incoming'[c] = incoming[c],
         arrived'[key[c]] = arrived[key[c]],
         loop'.src = key[c] <=> loop.src = key[c]
  PROVE  Run(c)'
PROOF BY DEF Run, Last

\* While the loop is at an address no other connection of it is open.
LEMMA OnlyOne ==
  ASSUME IInv, loop.pc \in {"lookup", "push", "close"},
         NEW c \in Conns, once[c] = "no", key[c] = loop.src
  PROVE  /\ conns[loop.src] = c
         /\ loop.pc \in {"push", "close"} => c = loop.conn
PROOF
<1>1. conns[loop.src] = c BY DEF IInv, Listed
<1>2. c # NoConn BY CapacityAssumption
<1>3. QED BY <1>1, <1>2 DEF IInv, LoopHolds

\* The steps of the read loop.
LEMMA RunsLoop ==
  ASSUME IInv, (\E a \in Addrs : ReadPacket(a)) \/ Loop
  PROVE  OpenRuns' /\ FreeEmpty' /\ LoopHolds'
PROOF
<1> USE DEF connVars
<1>t. /\ TypeOK /\ Listed /\ OpenRuns /\ FreeEmpty /\ LoopHolds
      /\ \A c \in Conns : key[c] \in Addrs /\ key[c] # NoAddr
      /\ loop \in LoopState
  BY CapacityAssumption DEF IInv, TypeOK
<1>r. AtRead.pc = "read" /\ AtRead.src = NoAddr BY DEF AtRead
<1>1. ASSUME NEW a \in Addrs, ReadPacket(a)
      PROVE  OpenRuns' /\ FreeEmpty' /\ LoopHolds'
  <2>1. /\ loop.src = NoAddr /\ loop'.src = a /\ loop'.pc = "lookup"
        /\ arrived' = [arrived EXCEPT ![a] = @ + 1]
        /\ UNCHANGED <<got, incoming, key, once, stage>>
    BY <1>1, <1>t DEF ReadPacket, LoopHolds, LoopState
  <2>2. ASSUME NEW c \in Conns, once[c] = "no" PROVE Run(c)'
    <3>1. Run(c) BY <1>t, <2>2 DEF OpenRuns
    <3>2. Last(c)' = Last(c)
      <4>1. arrived \in [Addrs -> Nat] /\ key[c] \in Addrs /\ key[c] # NoAddr
        BY <1>t DEF TypeOK
      <4>2. CASE key[c] = a
        <5>1. Last(c) = arrived[a] BY <2>1, <4>1, <4>2 DEF Last
        <5>2. Last(c)' = arrived[a] + 1 - 1 BY <2>1, <4>1, <4>2 DEF Last
        <5>3. QED BY <4>1, <4>2, <5>1, <5>2
      <4>3. CASE key[c] # a BY <2>1, <4>1, <4>3 DEF Last
      <4>4. QED BY <4>2, <4>3
    <3>3. Len(got[c]) + Len(incoming[c]) > 0 BY <1>t, <2>1, <3>1 DEF Run
    <3>4. QED BY <2>1, <3>1, <3>2, <3>3 DEF Run
  <2>3. QED BY <1>t, <2>1, <2>2 DEF OpenRuns, FreeEmpty, LoopHolds
<1>2. CASE ReadFails
  <2>1. /\ loop'.src = loop.src /\ loop.pc = "read" /\ loop'.pc = "returned"
        /\ UNCHANGED <<got, incoming, key, once, stage, arrived>>
    BY <1>2, <1>t DEF ReadFails, LoopState
  <2>2. \A c \in Conns : Run(c) => Run(c)' BY <2>1, RunSame
  <2>3. QED BY <1>t, <2>1, <2>2 DEF OpenRuns, FreeEmpty, LoopHolds
<1>3. CASE LookupFinds
  <2>1. /\ loop'.src = loop.src /\ loop'.pc = "push" /\ loop.src \in Addrs
        /\ loop'.conn = conns[loop.src] /\ conns[loop.src] # NoConn
        /\ UNCHANGED <<got, incoming, key, once, stage, arrived, conns>>
    BY <1>3, <1>t DEF LookupFinds, Absent, LoopState, TypeOK
  <2>2. \A c \in Conns : Run(c) => Run(c)' BY <2>1, RunSame
  <2>3. conns[loop.src] \in Conns BY <1>t, <2>1 DEF TypeOK
  <2>4. stage[conns[loop.src]] # "free" /\ key[conns[loop.src]] = loop.src
    BY <1>t, <2>1, <2>3 DEF Listed
  <2>5. QED BY <1>t, <2>1, <2>2, <2>4 DEF OpenRuns, FreeEmpty, LoopHolds
<1>4. ASSUME NEW c \in Conns, LookupMakes(c)
      PROVE  OpenRuns' /\ FreeEmpty' /\ LoopHolds'
  <2>1. /\ loop.src \in Addrs /\ stage[c] = "free"
        /\ loop'.src = loop.src /\ loop'.pc = "push" /\ loop'.conn = c
        /\ conns' = [conns EXCEPT ![loop.src] = c]
        /\ stage' = [stage EXCEPT ![c] = "queued"]
        /\ key' = [key EXCEPT ![c] = loop.src]
        /\ once' = [once EXCEPT ![c] = "no"]
        /\ UNCHANGED <<got, incoming, arrived>>
    BY <1>4, <1>t DEF LookupMakes, LoopState, TypeOK
  <2>2. /\ conns'[loop.src] = c /\ key'[c] = loop.src /\ stage'[c] = "queued"
        /\ \A d \in Conns : d # c => /\ key'[d] = key[d] /\ stage'[d] = stage[d]
                                     /\ once'[d] = once[d]
    BY <1>t, <2>1 DEF TypeOK
  <2>3. Run(c)'
    <3>1. got'[c] = <<>> /\ incoming'[c] = <<>> BY <1>t, <2>1 DEF FreeEmpty
    <3>2. 1..Len(<<>>) = {} OBVIOUS
    <3>3. QED BY <2>1, <2>2, <3>1, <3>2 DEF Run, RunOf
  <2>4. ASSUME NEW d \in Conns, d # c, once[d] = "no" PROVE Run(d)'
    <3>1. Run(d) BY <1>t, <2>4 DEF OpenRuns
    <3>2. key'[d] = key[d] BY <2>2, <2>4
    <3>3. QED BY <2>1, <3>1, <3>2, RunSame
  <2>5. OpenRuns' BY <2>2, <2>3, <2>4 DEF OpenRuns
  <2>6. FreeEmpty' BY <1>t, <2>1, <2>2 DEF FreeEmpty
  <2>7. LoopHolds' BY <2>1, <2>2 DEF LoopHolds
  <2>8. QED BY <2>5, <2>6, <2>7
<1>5. CASE LookupRefuses
  <2>1. /\ loop.pc = "lookup" /\ loop' = AtRead /\ conns[loop.src] = NoConn
        /\ UNCHANGED <<got, incoming, key, once, stage, arrived>>
    BY <1>5 DEF LookupRefuses, Absent
  <2>2. ASSUME NEW c \in Conns, once[c] = "no" PROVE Run(c)'
    <3>1. Run(c) BY <1>t, <2>2 DEF OpenRuns
    <3>2. key[c] # loop.src BY <2>1, <2>2, OnlyOne, CapacityAssumption
    <3>3. QED BY <1>r, <1>t, <2>1, <3>1, <3>2, RunSame
  <2>3. QED BY <1>r, <1>t, <2>1, <2>2 DEF OpenRuns, FreeEmpty, LoopHolds
<1>6. CASE Push
  <2> DEFINE c == loop.conn
  <2>1. /\ loop.pc = "push" /\ loop' = AtRead
        /\ incoming' = [incoming EXCEPT ![c] = Append(@, arrived[loop.src])]
        /\ UNCHANGED <<got, key, once, stage, arrived>>
    BY <1>6 DEF Push
  <2>2. c \in Conns /\ loop.src \in Addrs /\ stage[c] # "free" /\ key[c] = loop.src
    BY <1>t, <2>1 DEF TypeOK, LoopHolds
  <2> HIDE DEF c
  <2>3. ASSUME NEW d \in Conns, once[d] = "no" PROVE Run(d)'
    <3>1. Run(d) BY <1>t, <2>3 DEF OpenRuns
    <3>2. CASE d = c
      <4> DEFINE n == arrived[loop.src] - 1
      <4>1. /\ got[d] \in Seq(Nat) /\ incoming[d] \in Seq(Nat)
            /\ arrived[loop.src] \in Nat
        BY <1>t, <2>2 DEF TypeOK
      <4>2. n \in Int /\ n + 1 = arrived[loop.src] /\ n + 1 \in Nat BY <4>1
      <4>3. RunOf(got[d], incoming[d], n) BY <2>2, <3>1, <3>2 DEF Run, Last
      <4> HIDE DEF n
      <4>4. RunOf(got[d], Append(incoming[d], n + 1), n + 1)
        BY <4>1, <4>2, <4>3, RunPush
      <4>5. incoming'[d] = Append(incoming[d], n + 1)
        BY <1>t, <2>1, <2>2, <3>2, <4>2 DEF TypeOK
      <4>6. Last(d)' = n + 1
        BY <1>r, <1>t, <2>1, <2>2, <3>2, <4>2 DEF Last
      <4>7. Len(got[d]) + Len(incoming'[d]) > 0
        <5>1. Len(got[d]) \in Nat /\ Len(incoming[d]) \in Nat
          BY <4>1, LenProperties
        <5>2. Len(incoming'[d]) = Len(incoming[d]) + 1
          BY <4>1, <4>2, <4>5, AppendProperties
        <5>3. \A i, j \in Nat : i + (j + 1) > 0 OBVIOUS
        <5>4. QED BY <5>1, <5>2, <5>3
      <4>8. QED BY <2>1, <4>4, <4>5, <4>6, <4>7 DEF Run
    <3>3. CASE d # c
      <4>1. key[d] # loop.src BY <2>1, <2>3, <3>3, OnlyOne DEF c
      <4>2. incoming'[d] = incoming[d] BY <1>t, <2>1, <3>3 DEF TypeOK
      <4>3. QED BY <1>r, <1>t, <2>1, <3>1, <4>1, <4>2, RunSame
    <3>4. QED BY <3>2, <3>3
  <2>4. FreeEmpty' BY <1>t, <2>1, <2>2 DEF FreeEmpty, TypeOK
  <2>5. QED BY <1>r, <2>1, <2>3, <2>4 DEF OpenRuns, LoopHolds
<1>7. CASE PushFails
  <2>1. /\ loop.pc = "push" /\ loop'.pc = "close"
        /\ loop'.src = loop.src /\ loop'.conn = loop.conn
        /\ UNCHANGED <<got, incoming, key, once, stage, arrived, conns>>
    BY <1>7, <1>t DEF PushFails, ClosePushed, LoopState
  <2>2. \A c \in Conns : Run(c) => Run(c)' BY <2>1, RunSame
  <2>3. QED BY <1>t, <2>1, <2>2 DEF OpenRuns, FreeEmpty, LoopHolds
<1>8. CASE LoopBegins
  <2>1. UNCHANGED <<loop, got, incoming, key, stage, arrived, conns>>
        /\ \A c \in Conns : once'[c] = "no" => once[c] = "no"
    BY <1>8, <1>t DEF LoopBegins, BeginClose, TypeOK
  <2>2. \A c \in Conns : Run(c) => Run(c)' BY <2>1, RunSame
  <2>3. QED BY <1>t, <2>1, <2>2 DEF OpenRuns, FreeEmpty, LoopHolds
<1>9. CASE LoopClosed
  <2>1. /\ loop.pc = "close" /\ once[loop.conn] = "done" /\ loop' = AtRead
        /\ UNCHANGED <<got, incoming, key, once, stage, arrived>>
    BY <1>9 DEF LoopClosed
  <2>2. ASSUME NEW c \in Conns, once[c] = "no" PROVE Run(c)'
    <3>1. Run(c) BY <1>t, <2>2 DEF OpenRuns
    <3>2. key[c] # loop.src BY <2>1, <2>2, OnlyOne
    <3>3. QED BY <1>r, <1>t, <2>1, <3>1, <3>2, RunSame
  <2>3. QED BY <1>r, <1>t, <2>1, <2>2 DEF OpenRuns, FreeEmpty, LoopHolds
<1>10. QED BY <1>1, <1>2, <1>3, <1>4, <1>5, <1>6, <1>7, <1>8, <1>9 DEF Loop, Lookup

\* The holders, Accept and the end.
LEMMA RunsNext == IInv /\ [Next]_vars => IInv'
PROOF
<1> USE DEF connVars
<1> SUFFICES ASSUME IInv, [Next]_vars PROVE IInv' OBVIOUS
<1>t. /\ TypeOK /\ Listed /\ OpenRuns /\ FreeEmpty /\ LoopHolds
      /\ TypeOK' /\ Listed'
  BY TypeNext, ListedNext DEF IInv
<1> DEFINE Kept == OpenRuns' /\ FreeEmpty' /\ LoopHolds'
<1>1. CASE UNCHANGED vars
  <2>1. \A c \in Conns : Run(c) => Run(c)' BY <1>1, RunSame DEF vars
  <2>2. QED BY <1>1, <1>t, <2>1 DEF vars, OpenRuns, FreeEmpty, LoopHolds, IInv
<1>2. CASE (\E a \in Addrs : ReadPacket(a)) \/ Loop BY <1>2, <1>t, RunsLoop DEF IInv
<1>3. ASSUME NEW c \in Conns, HolderBegins(c) PROVE Kept
  <2>1. UNCHANGED <<loop, got, incoming, key, stage, arrived, conns>>
        /\ \A d \in Conns : once'[d] = "no" => once[d] = "no"
    BY <1>3, <1>t DEF HolderBegins, BeginClose, TypeOK
  <2>2. \A d \in Conns : Run(d) => Run(d)' BY <2>1, RunSame
  <2>3. QED BY <1>t, <2>1, <2>2 DEF OpenRuns, FreeEmpty, LoopHolds
<1>4. ASSUME NEW c \in Conns, Remove(c) PROVE Kept
  <2>1. /\ UNCHANGED <<loop, got, incoming, key, stage, arrived>>
        /\ \A d \in Conns : once'[d] = "no" => once[d] = "no"
        /\ \A a \in Addrs : conns'[a] \in {conns[a], NoConn}
    BY <1>4, <1>t DEF Remove, TypeOK
  <2>2. \A d \in Conns : Run(d) => Run(d)' BY <2>1, RunSame
  <2>3. loop.pc \in {"push", "close"} => loop.src \in Addrs BY <1>t DEF TypeOK
  <2>4. QED BY <1>t, <2>1, <2>2, <2>3 DEF OpenRuns, FreeEmpty, LoopHolds
<1>5. ASSUME NEW c \in Conns, Read(c) PROVE Kept
  <2>1. /\ stage[c] = "held" /\ incoming[c] # <<>>
        /\ incoming' = [incoming EXCEPT ![c] = Tail(@)]
        /\ got' = [got EXCEPT ![c] = Append(@, Head(incoming[c]))]
        /\ UNCHANGED <<loop, key, stage, arrived, conns, once>>
    BY <1>5 DEF Read
  <2>2. ASSUME NEW d \in Conns, once[d] = "no" PROVE Run(d)'
    <3>1. Run(d) BY <1>t, <2>2 DEF OpenRuns
    <3>2. CASE d = c
      <4>1. /\ got[d] \in Seq(Nat) /\ incoming[d] \in Seq(Nat) /\ Last(d) \in Int
        BY <1>t DEF TypeOK, Last
      <4>2. /\ got'[d] = Append(got[d], Head(incoming[d]))
            /\ incoming'[d] = Tail(incoming[d])
        BY <1>t, <2>1, <3>2 DEF TypeOK
      <4>3. RunOf(got[d], incoming[d], Last(d)) BY <3>1 DEF Run
      <4>4. /\ RunOf(got'[d], incoming'[d], Last(d))
            /\ Len(got'[d]) + Len(incoming'[d]) = Len(got[d]) + Len(incoming[d])
        <5> DEFINE g == got[d]
                   q == incoming[d]
                   n == Last(d)
        <5>1. g \in Seq(Nat) /\ q \in Seq(Nat) /\ n \in Int BY <4>1
        <5>2. RunOf(g, q, n) /\ q # <<>> BY <2>1, <3>2, <4>3
        <5>3. got'[d] = Append(g, Head(q)) /\ incoming'[d] = Tail(q) BY <4>2
        <5> HIDE DEF g, q, n
        <5>4. /\ RunOf(Append(g, Head(q)), Tail(q), n)
              /\ Len(Append(g, Head(q))) + Len(Tail(q)) = Len(g) + Len(q)
          BY <5>1, <5>2, RunRead
        <5>5. QED BY <5>3, <5>4 DEF g, q, n
      <4>5. Last(d)' = Last(d) BY <2>1 DEF Last
      <4>6. loop'.src # key'[d] => Len(got'[d]) + Len(incoming'[d]) > 0
        <5>1. loop.src # key[d] => Len(got[d]) + Len(incoming[d]) > 0
          BY <3>1 DEF Run
        <5>2. QED BY <2>1, <4>4, <5>1
      <4>7. QED BY <4>4, <4>5, <4>6 DEF Run
    <3>3. CASE d # c
      <4>1. got'[d] = got[d] /\ incoming'[d] = incoming[d]
        BY <1>t, <2>1, <3>3 DEF TypeOK
      <4>2. QED BY <2>1, <3>1, <4>1, RunSame
    <3>4. QED BY <3>2, <3>3
  <2>3. FreeEmpty' BY <1>t, <2>1 DEF FreeEmpty, TypeOK
  <2>4. QED BY <1>t, <2>1, <2>2, <2>3 DEF OpenRuns, LoopHolds
<1>6. ASSUME NEW c \in Conns, Drop(c) PROVE Kept
  <2>1. /\ once[c] = "done" /\ loop.conn # c
        /\ UNCHANGED <<loop, key, arrived, conns, once>>
        /\ got'[c] = <<>> /\ incoming'[c] = <<>>
        /\ \A d \in Conns : d # c => /\ got'[d] = got[d] /\ stage'[d] = stage[d]
                                     /\ incoming'[d] = incoming[d]
    BY <1>6, <1>t DEF Drop, TypeOK
  <2>2. ASSUME NEW d \in Conns, once[d] = "no" PROVE Run(d)'
    <3>1. Run(d) /\ d # c BY <1>t, <2>1, <2>2 DEF OpenRuns
    <3>2. QED BY <2>1, <3>1, RunSame
  <2>3. OpenRuns' BY <2>1, <2>2 DEF OpenRuns
  <2>4. FreeEmpty' BY <1>t, <2>1 DEF FreeEmpty
  <2>5. LoopHolds'
    <3>1. loop.pc \in {"push", "close"} => loop.conn \in Conns BY <1>t DEF TypeOK
    <3>2. QED BY <1>t, <2>1, <3>1 DEF LoopHolds
  <2>6. QED BY <2>3, <2>4, <2>5
<1>7. ASSUME AcceptConn PROVE Kept
  <2>1. /\ UNCHANGED <<loop, got, incoming, key, once, arrived, conns>>
        /\ \A d \in Conns : stage'[d] = "free" => stage[d] = "free"
    BY <1>7, <1>t DEF AcceptConn, TypeOK
  <2>2. \A d \in Conns : Run(d) => Run(d)' BY <2>1, RunSame
  <2>3. loop.pc \in {"push", "close"} => loop.conn \in Conns BY <1>t DEF TypeOK
  <2>4. OpenRuns' BY <1>t, <2>1, <2>2 DEF OpenRuns
  <2>5. FreeEmpty' BY <1>t, <2>1 DEF FreeEmpty
  <2>6. LoopHolds' BY <1>t, <2>1, <2>3 DEF LoopHolds
  <2>7. QED BY <2>4, <2>5, <2>6
<1>8. ASSUME AcceptEnds \/ AcceptReturns \/ Shutdown \/ Closer PROVE Kept
  <2>1. /\ UNCHANGED <<loop, got, incoming, key, stage, arrived, conns>>
        /\ \A d \in Conns : once'[d] = "no" => once[d] = "no"
    BY <1>8, <1>t
    DEF AcceptEnds, AcceptReturns, Shutdown, Closer, CloseIdle, CloseSticks, TypeOK
  <2>2. \A d \in Conns : Run(d) => Run(d)' BY <2>1, RunSame
  <2>3. OpenRuns' BY <1>t, <2>1, <2>2 DEF OpenRuns
  <2>4. FreeEmpty' BY <1>t, <2>1 DEF FreeEmpty
  <2>5. LoopHolds' BY <1>t, <2>1 DEF LoopHolds
  <2>6. QED BY <2>3, <2>4, <2>5
<1>9. ASSUME NEW c \in Conns, Conn(c) PROVE Kept
  <2> HIDE DEF Kept
  <2>1. QED BY <1>3, <1>4, <1>5, <1>6, <1>9 DEF Conn
<1>10. Kept => IInv' BY <1>t DEF IInv
<1> HIDE DEF Kept
<1>11. CASE Next BY <1>2, <1>7, <1>8, <1>9, <1>10, <1>11 DEF Next
<1>12. QED BY <1>1, <1>11

\* At first nothing is open and the loop is at the socket.
LEMMA RunsInit == Init => IInv
PROOF
<1> SUFFICES ASSUME Init PROVE IInv OBVIOUS
<1>1. TypeOK /\ Listed BY TypeInit, ListedInit
<1>2. OpenRuns /\ FreeEmpty BY DEF Init, OpenRuns, FreeEmpty
<1>3. LoopHolds BY DEF Init, LoopHolds, AtRead
<1>4. QED BY <1>1, <1>2, <1>3 DEF IInv

\* A run has no gaps.
LEMMA RunsGapFree == IInv => GapFree
PROOF
<1> SUFFICES ASSUME IInv, NEW c \in Conns, once[c] = "no"
             PROVE  /\ \A k \in 1..Len(Came(c)) : Came(c)[k] = Came(c)[1] + k - 1
                    /\ \/ loop.src = key[c]
                       \/ /\ Came(c) # <<>>
                          /\ Came(c)[Len(Came(c))] = arrived[key[c]]
  BY DEF GapFree, Closed
<1> DEFINE g == got[c]
           q == incoming[c]
           s == Came(c)
           n == Last(c)
           L == Len(g) + Len(q)
<1>1. /\ g \in Seq(Nat) /\ q \in Seq(Nat) /\ n \in Int /\ s = g \o q
      /\ RunOf(g, q, n)
      /\ loop.src # key[c] => L > 0 /\ n = arrived[key[c]]
  BY DEF IInv, TypeOK, OpenRuns, Run, Last, Came
<1> HIDE DEF g, q, s, n
<1>2. /\ Len(g) \in Nat /\ Len(q) \in Nat /\ Len(s) = L
      /\ \A k \in 1..L : s[k] = IF k <= Len(g) THEN g[k] ELSE q[k - Len(g)]
  BY <1>1, ConcatProperties, LenProperties
<1>3. \A k \in 1..L : s[k] = n - L + k
  <2> SUFFICES ASSUME NEW k \in 1..L PROVE s[k] = n - L + k OBVIOUS
  <2>1. CASE k <= Len(g)
    <3>1. k \in 1..Len(g) /\ s[k] = g[k] BY <1>2, <2>1
    <3>2. g[k] = n - Len(g) - Len(q) + k BY <1>1, <3>1 DEF RunOf
    <3>3. QED BY <1>1, <1>2, <3>1, <3>2
  <2>2. CASE ~(k <= Len(g))
    <3>1. k - Len(g) \in 1..Len(q) /\ s[k] = q[k - Len(g)] BY <1>2, <2>2
    <3>2. q[k - Len(g)] = n - Len(q) + (k - Len(g)) BY <1>1, <3>1 DEF RunOf
    <3>3. QED BY <1>1, <1>2, <3>1, <3>2
  <2>3. QED BY <2>1, <2>2
<1>4. ASSUME NEW k \in 1..Len(s) PROVE s[k] = s[1] + k - 1
  <2>1. k \in 1..L /\ 1 \in 1..L BY <1>2, <1>4
  <2>2. s[k] = n - L + k /\ s[1] = n - L + 1 BY <1>3, <2>1
  <2>3. QED BY <1>1, <1>2, <2>1, <2>2
<1>5. ASSUME loop.src # key[c] PROVE s # <<>> /\ s[Len(s)] = arrived[key[c]]
  <2>1. L \in 1..L /\ s # <<>> BY <1>1, <1>2, <1>5
  <2>2. s[L] = n - L + L BY <1>3, <2>1
  <2>3. QED BY <1>1, <1>2, <1>5, <2>1, <2>2
<1>6. QED BY <1>4, <1>5 DEF s

\* Until it is closed a connection gets every datagram of its address, in order,
\* whatever the capacity of incoming: push never skips one.
THEOREM NoGaps == Spec => []GapFree
PROOF BY RunsInit, RunsNext, RunsGapFree, PTL DEF Spec

=============================================================================
