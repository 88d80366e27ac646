---------------------------- MODULE PublicUDPProofs -----------------------------
(***************************************************************************)
(* Theorems about PublicUDP for every configuration, every number of       *)
(* sources, backends and datagrams and every capacity.                     *)
(***************************************************************************)
EXTENDS PublicUDP, SequenceTheorems, TLAPS

-----------------------------------------------------------------------------
(* The inductive invariant. *)

\* The map and the goroutines of the associations agree, also while a goroutine
\* has closed its backend and has still to remove the entry.
Owned ==
  /\ \A b \in Backends : open[b] => reader[b] = "run"
  /\ \A b \in Backends : reader[b] # "none" => assocs[key[b]] = b
  /\ \A s \in Sources : assocs[s] # NoBackend =>
       reader[assocs[s]] # "none" /\ key[assocs[s]] = s

\* What the loop has looked up stays true of the backend it writes to, although
\* the entry may have gone since.
Phase ==
  /\ boot.pc = "acquire" => assocs[boot.src] = NoBackend
  /\ boot.pc = "write" => key[boot.b] = boot.src

\* A connection carries the datagrams and the answers of one source.
Carried ==
  /\ \A b \in Backends : fwd[b] \in Seq({key[b]}) /\ back[b] \in Seq({key[b]})
  /\ \A s \in Sources : answered[s] \subseteq {s}

IInv == TypeOK /\ Owned /\ Phase /\ Carried

\* The invariant implies the property.
LEMMA IInvAccounts == IInv => BackendsAccounted
PROOF
  BY DEF IInv, Owned, Carried, BackendsAccounted

\* A server starts without associations.
LEMMA InitIInv == Init => IInv
PROOF
<1> SUFFICES ASSUME Init PROVE IInv
  OBVIOUS
<1>1. TypeOK
  BY PublicAssumption DEF Init, TypeOK, BootState
<1>2. Owned
  BY DEF Init, Owned
<1>3. Phase
  BY DEF Init, Phase
<1>4. Carried
  BY DEF Init, Carried
<1>5. QED BY <1>1, <1>2, <1>3, <1>4 DEF IInv

-----------------------------------------------------------------------------
(* The thread, as long as it does not touch the associations. *)

\* What the thread does to itself while backends stay as they are.
BootMoves ==
  /\ UNCHANGED backendVars
  /\ inbox' \in Seq(Sources)
  /\ sent' \in [Sources -> 0..MaxSent]
  /\ running' \in BOOLEAN
  /\ control' \in {"starting", "up", "failed"}
  /\ boot' \in BootState
  /\ boot'.pc \in {"acquire", "write"} =>
       \/ boot'.pc = boot.pc /\ boot'.src = boot.src /\ boot'.b = boot.b
       \/ /\ boot'.src # NoSource
          /\ boot'.pc = "acquire" => assocs[boot'.src] = NoBackend
          /\ boot'.pc = "write" => boot'.b # NoBackend /\ assocs[boot'.src] = boot'.b

\* Boot, the receiving of a datagram and a failed acquire keep the invariant.
LEMMA BootKeeps == IInv /\ BootMoves => IInv'
PROOF
<1> SUFFICES ASSUME IInv, BootMoves PROVE IInv'
  OBVIOUS
<1> USE DEF IInv, BootMoves, backendVars
<1>1. TypeOK'
  BY DEF TypeOK
<1>2. Owned'
  BY DEF Owned
<1>3. Phase'
  <2>1. boot'.pc = "acquire" => assocs'[boot'.src] = NoBackend
    BY DEF Phase
  <2>2. ASSUME boot'.pc = "write" PROVE key'[boot'.b] = boot'.src
    <3>1. CASE boot'.pc = boot.pc /\ boot'.src = boot.src /\ boot'.b = boot.b
      BY <2>2, <3>1 DEF Phase
    <3>2. CASE boot'.src # NoSource /\ boot'.b # NoBackend /\ assocs[boot'.src] = boot'.b
      BY <3>2 DEF Owned, BootState
    <3>3. QED BY <2>2, <3>1, <3>2
  <2>3. QED BY <2>1, <2>2 DEF Phase
<1>4. Carried'
  BY DEF Carried
<1>5. QED BY <1>1, <1>2, <1>3, <1>4

\* The actions that are such moves.
LEMMA BootMovesCover ==
  ASSUME TypeOK
  PROVE  /\ Boot => BootMoves
         /\ \A s \in Sources : Send(s) => BootMoves
         /\ Receive \/ ReceiveFails \/ AcquireFails => BootMoves
PROOF
<1> DEFINE Small == /\ running \in BOOLEAN
                     /\ control \in {"starting", "up", "failed"}
                     /\ boot \in BootState
                     /\ inbox \in Seq(Sources)
                     /\ sent \in [Sources -> 0..MaxSent]
<1>0. Small
  BY DEF TypeOK
<1> USE <1>0 DEF BootMoves
<1>1. ASSUME AcceptControl PROVE BootMoves
  BY <1>1 DEF AcceptControl
<1>2. ASSUME Cancel PROVE BootMoves
  BY <1>2 DEF Cancel
<1>3. ASSUME Listen PROVE BootMoves
  <2>1. boot' \in BootState /\ boot'.pc \notin {"acquire", "write"}
    <3>1. CASE boot' = [boot EXCEPT !.pc = "receive"]
      BY <3>1 DEF BootState
    <3>2. CASE boot.pc = "listen" /\ boot' = [boot EXCEPT !.k = @ + 1]
      BY <3>2 DEF BootState
    <3>3. CASE Return
      BY <3>3 DEF Return, BootState
    <3>4. QED BY <1>3, <3>1, <3>2, <3>3 DEF Listen
  <2>2. QED BY <1>3, <2>1 DEF Listen
<1>4. ASSUME ListenDone \/ WaitEnds PROVE BootMoves
  <2>1. boot' \in BootState /\ boot'.pc \notin {"acquire", "write"}
    BY <1>4 DEF ListenDone, WaitEnds, Return, BootState
  <2>2. QED BY <1>4, <2>1 DEF ListenDone, WaitEnds, bootVars
<1>5. ASSUME NEW s \in Sources, Send(s) PROVE BootMoves
  <2>1. inbox' \in Seq(Sources)
    BY <1>5 DEF Send
  <2>2. sent' \in [Sources -> 0..MaxSent]
    BY <1>5, PublicAssumption DEF Send
  <2>3. QED BY <1>5, <2>1, <2>2 DEF Send, bootVars
<1>6. ASSUME Receive PROVE BootMoves
  <2>1. Head(inbox) \in Sources /\ Tail(inbox) \in Seq(Sources)
    BY <1>6 DEF Receive
  <2>2. Head(inbox) # NoSource
    BY <2>1, PublicAssumption
  <2>3. assocs[Head(inbox)] \in Backends \cup {NoBackend}
    BY <2>1 DEF TypeOK
  <2>4. CASE assocs[Head(inbox)] = NoBackend
    <3>1. boot' = [boot EXCEPT !.pc = "acquire", !.src = Head(inbox), !.b = NoBackend]
      BY <1>6, <2>4 DEF Receive, Goes
    <3>2. boot' \in BootState /\ boot'.pc = "acquire" /\ boot'.src = Head(inbox)
      BY <2>1, <3>1 DEF BootState
    <3>3. QED BY <1>6, <2>1, <2>2, <2>4, <3>2 DEF Receive, bootVars
  <2>5. CASE assocs[Head(inbox)] # NoBackend
    <3>1. boot' = [boot EXCEPT !.pc = "write", !.src = Head(inbox), !.b = assocs[Head(inbox)]]
      BY <1>6, <2>5 DEF Receive, Goes
    <3>2. /\ boot' \in BootState /\ boot'.pc = "write"
          /\ boot'.src = Head(inbox) /\ boot'.b = assocs[Head(inbox)]
      BY <2>1, <2>3, <3>1 DEF BootState
    <3>3. QED BY <1>6, <2>1, <2>2, <2>5, <3>2 DEF Receive, bootVars
  <2>6. QED BY <2>4, <2>5
<1>7. ASSUME ReceiveFails \/ AcquireFails PROVE BootMoves
  <2>1. boot' \in BootState /\ boot'.pc \notin {"acquire", "write"}
    <3>1. CASE ReceiveFails
      <4>1. \/ boot' = [boot EXCEPT !.pc = "returned"]
            \/ boot' = [boot EXCEPT !.pc = "listen", !.k = @ + 1]
        BY <3>1 DEF ReceiveFails, Return
      <4>2. CASE boot' = [boot EXCEPT !.pc = "returned"]
        BY <4>2 DEF BootState
      <4>3. CASE boot' = [boot EXCEPT !.pc = "listen", !.k = @ + 1]
        <5>1. boot.k \in Nat /\ boot.k + 1 \in Nat
          BY DEF BootState
        <5>2. boot' = [pc |-> "listen", k |-> boot.k + 1, src |-> boot.src, b |-> boot.b]
          BY <4>3, <5>1 DEF BootState
        <5>3. QED BY <5>1, <5>2 DEF BootState
      <4>4. QED BY <4>1, <4>2, <4>3
    <3>2. CASE AcquireFails
      BY <3>2 DEF AcquireFails, ToReceive, Goes, BootState
    <3>3. QED BY <1>7, <3>1, <3>2
  <2>2. QED BY <1>7, <2>1 DEF ReceiveFails, AcquireFails, bootVars
<1>8. QED BY <1>1, <1>2, <1>3, <1>4, <1>5, <1>6, <1>7 DEF Boot

-----------------------------------------------------------------------------
(* The steps that touch an association. *)

\* A backend that is fresh has no entry, and the source to be served has none.
LEMMA AcquireKeeps ==
  ASSUME IInv, NEW b \in Backends, Acquire(b)
  PROVE  IInv'
PROOF
<1> USE DEF IInv
<1>1. /\ boot.pc = "acquire" /\ boot.src \in Sources /\ b # NoBackend
      /\ reader[b] = "none" /\ assocs[boot.src] = NoBackend
  <2>1. boot.pc = "acquire" /\ reader[b] = "none"
    BY DEF Acquire, Fresh
  <2>2. boot \in BootState /\ boot.src # NoSource
    BY <2>1 DEF TypeOK
  <2>3. boot.src \in Sources
    BY <2>2 DEF BootState
  <2>4. QED BY <2>1, <2>3, PublicAssumption DEF Phase
<1>2. boot' \in BootState /\ boot'.pc = "write" /\ boot'.src = boot.src /\ boot'.b = b
  <2>1. boot' = [boot EXCEPT !.pc = "write", !.src = boot.src, !.b = b]
    BY DEF Acquire, Goes
  <2>2. boot \in BootState
    BY DEF TypeOK
  <2>3. QED BY <1>1, <2>1, <2>2 DEF BootState
<1>3. /\ assocs \in [Sources -> Backends \cup {NoBackend}]
      /\ assocs' = [assocs EXCEPT ![boot.src] = b]
      /\ reader \in [Backends -> {"none", "run", "delete"}]
      /\ reader' = [reader EXCEPT ![b] = "run"]
      /\ key \in [Backends -> Sources \cup {NoSource}]
      /\ key' = [key EXCEPT ![b] = boot.src]
  BY DEF TypeOK, Acquire
<1>4. /\ open \in [Backends -> BOOLEAN]
      /\ open' = [open EXCEPT ![b] = TRUE]
      /\ far' \in [Backends -> BOOLEAN]
      /\ fwd \in [Backends -> Seq(Sources)]
      /\ fwd' = [fwd EXCEPT ![b] = <<>>]
      /\ back \in [Backends -> Seq(Sources)]
      /\ back' = [back EXCEPT ![b] = <<>>]
  BY DEF TypeOK, Acquire
<1>5. UNCHANGED <<bootVars, inbox, sent, answered>>
  BY DEF Acquire
<1>6. TypeOK'
  <2>1. /\ assocs' \in [Sources -> Backends \cup {NoBackend}]
        /\ reader' \in [Backends -> {"none", "run", "delete"}]
        /\ key' \in [Backends -> Sources \cup {NoSource}]
    BY <1>1, <1>3
  <2>2. /\ open' \in [Backends -> BOOLEAN]
        /\ fwd' \in [Backends -> Seq(Sources)] /\ back' \in [Backends -> Seq(Sources)]
    BY <1>4
  <2>3. \A x \in Backends : reader'[x] # "none" => key'[x] # NoSource
    <3>1. \A x \in Backends : reader[x] # "none" => key[x] # NoSource
      BY DEF TypeOK
    <3>2. QED BY <1>1, <1>3, <3>1, PublicAssumption
  <2>4. boot'.src # NoSource /\ boot'.b # NoBackend
    BY <1>1, <1>2, PublicAssumption
  <2>5. QED BY <1>2, <1>4, <1>5, <2>1, <2>2, <2>3, <2>4 DEF TypeOK, bootVars
<1>7. Owned'
  <2>1. \A x \in Backends : x # b =>
          /\ open'[x] = open[x] /\ reader'[x] = reader[x] /\ key'[x] = key[x]
    BY <1>3, <1>4
  <2>2. open'[b] /\ reader'[b] = "run" /\ key'[b] = boot.src /\ assocs'[boot.src] = b
    BY <1>1, <1>3, <1>4
  <2>3. \A s \in Sources : s # boot.src => assocs'[s] = assocs[s] /\ assocs[s] # b
    BY <1>1, <1>3 DEF Owned
  <2>4. ASSUME NEW x \in Backends, reader'[x] # "none" PROVE assocs'[key'[x]] = x
    <3>1. CASE x = b
      BY <2>2, <3>1
    <3>2. CASE x # b
      <4>1. key'[x] = key[x] /\ assocs[key[x]] = x /\ key[x] # NoSource
        BY <2>1, <2>4, <3>2 DEF Owned, TypeOK
      <4>2. key[x] \in Sources /\ x # NoBackend
        BY <1>3, <4>1, PublicAssumption
      <4>3. key[x] # boot.src
        BY <1>1, <4>1, <4>2
      <4>4. QED BY <2>3, <4>1, <4>2, <4>3
    <3>3. QED BY <3>1, <3>2
  <2>5. \A x \in Backends : open'[x] => reader'[x] = "run"
    BY <2>1, <2>2 DEF Owned
  <2>6. ASSUME NEW s \in Sources, assocs'[s] # NoBackend
        PROVE  reader'[assocs'[s]] # "none" /\ key'[assocs'[s]] = s
    <3>1. CASE s = boot.src
      BY <2>2, <3>1
    <3>2. CASE s # boot.src
      <4>1. assocs'[s] = assocs[s] /\ assocs[s] # b /\ assocs[s] \in Backends
        BY <1>3, <2>3, <2>6, <3>2
      <4>2. reader[assocs[s]] # "none" /\ key[assocs[s]] = s
        BY <2>6, <4>1 DEF Owned
      <4>3. QED BY <2>1, <4>1, <4>2
    <3>3. QED BY <3>1, <3>2
  <2>7. QED BY <2>4, <2>5, <2>6 DEF Owned
<1>8. Phase'
  BY <1>2, <1>3 DEF Phase
<1>9. Carried'
  <2>1. \A x \in Backends : x # b =>
          /\ fwd'[x] = fwd[x] /\ back'[x] = back[x] /\ key'[x] = key[x]
    BY <1>3, <1>4
  <2>2. fwd'[b] = <<>> /\ back'[b] = <<>> /\ answered' = answered
    BY <1>4, <1>5
  <2>3. ASSUME NEW x \in Backends
        PROVE  fwd'[x] \in Seq({key'[x]}) /\ back'[x] \in Seq({key'[x]})
    <3>0. <<>> \in Seq({key'[b]})
      OBVIOUS
    <3>1. CASE x = b
      BY <2>2, <3>0, <3>1
    <3>2. CASE x # b
      BY <2>1, <3>2 DEF Carried
    <3>3. QED BY <3>1, <3>2
  <2>4. \A s \in Sources : answered'[s] \subseteq {s}
    BY <2>2 DEF Carried
  <2>5. QED BY <2>3, <2>4 DEF Carried
<1>10. QED BY <1>6, <1>7, <1>8, <1>9

\* A datagram is written to a backend of its source, or the backend is closed.
LEMMA WriteKeeps == IInv /\ WriteFrame => IInv'
PROOF
<1> SUFFICES ASSUME IInv, WriteFrame PROVE IInv'
  OBVIOUS
<1> USE DEF IInv
<1>1. /\ boot.pc = "write" /\ boot.src \in Sources /\ boot.b \in Backends
      /\ key[boot.b] = boot.src
  BY DEF TypeOK, BootState, Phase, WriteFrame
<1>2. boot' \in BootState /\ boot'.pc = "receive"
  BY DEF TypeOK, BootState, WriteFrame, ToReceive, Goes
<1>3. /\ UNCHANGED <<running, control, inbox, sent, reader, key, far, back, answered>>
      /\ assocs' = assocs
  BY DEF WriteFrame, bootVars, AfterFailedWrite
<1>4. \/ fwd' = [fwd EXCEPT ![boot.b] = Append(fwd[boot.b], boot.src)] /\ open' = open
      \/ fwd' = fwd /\ open' = open
      \/ fwd' = fwd /\ open' = [open EXCEPT ![boot.b] = FALSE]
  BY DEF WriteFrame
<1>5. /\ fwd \in [Backends -> Seq(Sources)] /\ open \in [Backends -> BOOLEAN]
      /\ Append(fwd[boot.b], boot.src) \in Seq(Sources)
  BY <1>1 DEF TypeOK
<1>6. TypeOK'
  <2>1. fwd' \in [Backends -> Seq(Sources)]
    BY <1>1, <1>4, <1>5
  <2>2. open' \in [Backends -> BOOLEAN]
    BY <1>4, <1>5
  <2>3. QED BY <1>2, <1>3, <2>1, <2>2 DEF TypeOK
<1>7. Owned'
  <2>1. \A x \in Backends : open'[x] => open[x]
    BY <1>4, <1>5
  <2>2. QED BY <1>3, <2>1 DEF Owned
<1>8. Phase'
  BY <1>2 DEF Phase
<1>9. Carried'
  <2>1. Append(fwd[boot.b], boot.src) \in Seq({key[boot.b]})
    BY <1>1 DEF Carried
  <2>2. \A x \in Backends : fwd'[x] \in Seq({key[x]})
    BY <1>1, <1>4, <1>5, <2>1 DEF Carried
  <2>3. QED BY <1>3, <2>2 DEF Carried
<1>10. QED BY <1>6, <1>7, <1>8, <1>9

\* The goroutine passes answers on to the source it was started for.
LEMMA ReaderRepliesKeeps ==
  ASSUME IInv, NEW b \in Backends, ReaderReplies(b)
  PROVE  IInv'
PROOF
<1> USE DEF IInv
<1>1. key[b] \in Sources /\ Head(back[b]) = key[b] /\ Tail(back[b]) \in Seq({key[b]})
  <2>1. reader[b] = "run" /\ back[b] # <<>>
    BY DEF ReaderReplies
  <2>2. key[b] \in Sources
    BY <2>1 DEF TypeOK
  <2>3. back[b] \in Seq({key[b]})
    BY DEF Carried
  <2>4. Head(back[b]) \in {key[b]} /\ Tail(back[b]) \in Seq({key[b]})
    BY <2>1, <2>3
  <2>5. QED BY <2>2, <2>4
<1>2. /\ back' = [back EXCEPT ![b] = Tail(@)]
      /\ answered' = [answered EXCEPT ![key[b]] = @ \cup {key[b]}]
      /\ UNCHANGED <<bootVars, boot, inbox, sent, assocs, reader, key, open, far, fwd>>
  BY <1>1 DEF ReaderReplies, ReplyTo
<1>3. TypeOK'
  <2>1. back' \in [Backends -> Seq(Sources)]
    BY <1>2 DEF TypeOK, ReaderReplies
  <2>2. answered' \in [Sources -> SUBSET Sources]
    BY <1>1, <1>2 DEF TypeOK
  <2>3. QED BY <1>2, <2>1, <2>2 DEF TypeOK, bootVars
<1>4. Owned' /\ Phase'
  BY <1>2 DEF Owned, Phase
<1>5. Carried'
  <2>1. \A x \in Backends : fwd'[x] \in Seq({key'[x]}) /\ back'[x] \in Seq({key'[x]})
    BY <1>1, <1>2 DEF Carried, TypeOK
  <2>2. \A s \in Sources : answered'[s] \subseteq {s}
    BY <1>1, <1>2 DEF Carried, TypeOK
  <2>3. QED BY <2>1, <2>2 DEF Carried
<1>6. QED BY <1>3, <1>4, <1>5

\* It closes its backend before it removes the entry.
LEMMA ReaderEndsKeeps ==
  ASSUME IInv, NEW b \in Backends, ReaderEnds(b)
  PROVE  IInv'
PROOF
<1> USE DEF IInv
<1>1. /\ reader[b] = "run"
      /\ reader' = [reader EXCEPT ![b] = "delete"]
      /\ open' = [open EXCEPT ![b] = FALSE]
      /\ UNCHANGED <<bootVars, boot, inbox, sent, assocs, key, far, fwd, back, answered>>
  BY DEF ReaderEnds
<1>2. TypeOK'
  <2>1. /\ reader' \in [Backends -> {"none", "run", "delete"}]
        /\ open' \in [Backends -> BOOLEAN]
    BY <1>1 DEF TypeOK
  <2>2. \A x \in Backends : reader'[x] # "none" => reader[x] # "none"
    BY <1>1 DEF TypeOK
  <2>3. QED BY <1>1, <2>1, <2>2 DEF TypeOK, bootVars
<1>3. Owned'
  <2>1. \A x \in Backends :
          /\ reader'[x] # "none" <=> reader[x] # "none"
          /\ open'[x] => open[x] /\ x # b
          /\ x # b => reader'[x] = reader[x]
    BY <1>1 DEF TypeOK
  <2>2. \A s \in Sources : assocs[s] # NoBackend => assocs[s] \in Backends
    BY DEF TypeOK
  <2>3. \A x \in Backends : open'[x] => reader'[x] = "run"
    BY <2>1 DEF Owned
  <2>4. \A x \in Backends : reader'[x] # "none" => assocs'[key'[x]] = x
    BY <1>1, <2>1 DEF Owned
  <2>5. \A s \in Sources : assocs'[s] # NoBackend =>
          reader'[assocs'[s]] # "none" /\ key'[assocs'[s]] = s
    BY <1>1, <2>1, <2>2 DEF Owned
  <2>6. QED BY <2>3, <2>4, <2>5 DEF Owned
<1>4. Phase' /\ Carried'
  BY <1>1 DEF Phase, Carried
<1>5. QED BY <1>2, <1>3, <1>4

\* The entry it removes is its own: no later one of its source is there yet.
LEMMA ReaderDeletesKeeps ==
  ASSUME IInv, NEW b \in Backends, ReaderDeletes(b)
  PROVE  IInv'
PROOF
<1> USE DEF IInv
<1>1. /\ reader[b] = "delete" /\ assocs[key[b]] = b
      /\ reader' = [reader EXCEPT ![b] = "none"]
      /\ assocs' = [assocs EXCEPT ![key[b]] = NoBackend]
      /\ UNCHANGED <<bootVars, boot, inbox, sent, key, open, far, fwd, back, answered>>
  BY DEF ReaderDeletes, Owned
<1>2. /\ key[b] \in Sources
      /\ reader \in [Backends -> {"none", "run", "delete"}]
      /\ assocs \in [Sources -> Backends \cup {NoBackend}]
      /\ key \in [Backends -> Sources \cup {NoSource}]
      /\ \A x \in Backends : reader[x] # "none" => key[x] # NoSource
  BY <1>1 DEF TypeOK
<1>3. \A x \in Backends :
        /\ reader'[x] # "none" => x # b /\ reader[x] # "none"
        /\ x # b => reader'[x] = reader[x]
  BY <1>1, <1>2
<1>4. \A s \in Sources :
        /\ assocs'[s] # NoBackend => assocs'[s] = assocs[s] /\ s # key[b]
        /\ assocs[s] = NoBackend => assocs'[s] = NoBackend
  BY <1>1, <1>2
<1>5. TypeOK'
  <2>1. /\ reader' \in [Backends -> {"none", "run", "delete"}]
        /\ assocs' \in [Sources -> Backends \cup {NoBackend}]
    BY <1>1, <1>2
  <2>2. QED BY <1>1, <1>3, <2>1 DEF TypeOK, bootVars
<1>6. Owned'
  <2>1. \A x \in Backends : open'[x] => reader'[x] = "run"
    BY <1>1, <1>3 DEF Owned
  <2>2. ASSUME NEW x \in Backends, reader'[x] # "none" PROVE assocs'[key'[x]] = x
    <3>1. x # b /\ assocs[key[x]] = x /\ key[x] \in Sources
      BY <1>2, <1>3, <2>2 DEF Owned
    <3>2. key[x] # key[b]
      BY <1>1, <3>1
    <3>3. QED BY <1>1, <1>2, <3>1, <3>2
  <2>3. ASSUME NEW s \in Sources, assocs'[s] # NoBackend
        PROVE  reader'[assocs'[s]] # "none" /\ key'[assocs'[s]] = s
    <3>1. assocs'[s] = assocs[s] /\ s # key[b] /\ assocs[s] \in Backends
      BY <1>2, <1>4, <2>3
    <3>2. reader[assocs[s]] # "none" /\ key[assocs[s]] = s
      BY <2>3, <3>1 DEF Owned
    <3>3. assocs[s] # b
      BY <3>1, <3>2
    <3>4. QED BY <1>1, <1>3, <3>1, <3>2, <3>3
  <2>4. QED BY <2>1, <2>2, <2>3 DEF Owned
<1>7. Phase'
  <2>1. boot.pc = "acquire" => boot.src \in Sources
    BY DEF TypeOK, BootState
  <2>2. QED BY <1>1, <1>4, <2>1 DEF Phase
<1>8. Carried'
  BY <1>1 DEF Carried
<1>9. QED BY <1>5, <1>6, <1>7, <1>8

\* The far end passes datagrams on and answers on the connection they came by.
LEMMA RelayKeeps ==
  ASSUME IInv, NEW b \in Backends, RelayForward(b) \/ RelayEnds(b)
  PROVE  IInv'
PROOF
<1> USE DEF IInv
<1>1. UNCHANGED <<bootVars, boot, inbox, sent, assocs, reader, key, open, answered>>
  BY DEF RelayForward, RelayEnds
<1>2. far' \in [Backends -> BOOLEAN]
  BY DEF RelayForward, RelayEnds, TypeOK
<1>3. \A x \in Backends :
        /\ fwd[x] \in Seq({key[x]}) /\ back[x] \in Seq({key[x]})
        /\ fwd[x] \in Seq(Sources) /\ back[x] \in Seq(Sources)
  BY DEF Carried, TypeOK
<1>4. /\ fwd' \in [Backends -> Seq(Sources)] /\ back' \in [Backends -> Seq(Sources)]
      /\ \A x \in Backends : fwd'[x] \in Seq({key[x]}) /\ back'[x] \in Seq({key[x]})
  <2>1. CASE RelayForward(b)
    <3>0. fwd[b] # <<>>
      BY <2>1 DEF RelayForward
    <3>1. /\ Tail(fwd[b]) \in Seq({key[b]}) /\ Head(fwd[b]) = key[b]
          /\ Tail(fwd[b]) \in Seq(Sources) /\ Head(fwd[b]) \in Sources
      <4>1. fwd[b] \in Seq({key[b]}) /\ fwd[b] \in Seq(Sources)
        BY <1>3
      <4>2. Tail(fwd[b]) \in Seq({key[b]}) /\ Head(fwd[b]) \in {key[b]}
        BY <3>0, <4>1
      <4>3. Tail(fwd[b]) \in Seq(Sources) /\ Head(fwd[b]) \in Sources
        BY <3>0, <4>1
      <4>4. QED BY <4>2, <4>3
    <3>2. /\ Append(back[b], Head(fwd[b])) \in Seq({key[b]})
          /\ Append(back[b], Head(fwd[b])) \in Seq(Sources)
      BY <1>3, <3>1
    <3>3. /\ fwd' = [fwd EXCEPT ![b] = Tail(fwd[b])]
          /\ \/ back' = back
             \/ back' = [back EXCEPT ![b] = Append(back[b], Head(fwd[b]))]
      BY <2>1 DEF RelayForward
    <3>4. fwd \in [Backends -> Seq(Sources)] /\ back \in [Backends -> Seq(Sources)]
      BY DEF TypeOK
    <3>5. QED BY <1>3, <3>1, <3>2, <3>3, <3>4
  <2>2. CASE RelayEnds(b)
    <3>1. fwd' = [fwd EXCEPT ![b] = <<>>] /\ back' = back
      BY <2>2 DEF RelayEnds
    <3>2. fwd \in [Backends -> Seq(Sources)] /\ back \in [Backends -> Seq(Sources)]
      BY DEF TypeOK
    <3>3. \A S : <<>> \in Seq(S)
      OBVIOUS
    <3>4. /\ \A x \in Backends : x # b => fwd'[x] = fwd[x]
          /\ fwd'[b] = <<>>
      BY <3>1, <3>2
    <3>5. fwd' \in [Backends -> Seq(Sources)]
      BY <3>1, <3>2, <3>3
    <3>6. \A x \in Backends : fwd'[x] \in Seq({key[x]})
      BY <1>3, <3>3, <3>4
    <3>7. QED BY <1>3, <3>1, <3>2, <3>5, <3>6
  <2>3. QED BY <2>1, <2>2
<1>5. TypeOK'
  BY <1>1, <1>2, <1>4 DEF TypeOK, bootVars
<1>6. Owned' /\ Phase'
  BY <1>1 DEF Owned, Phase
<1>7. Carried'
  BY <1>1, <1>4 DEF Carried
<1>8. QED BY <1>5, <1>6, <1>7

-----------------------------------------------------------------------------
(* Texts, which the parser of the mappings cuts. *)

\* SplitN cuts at the first separator, LastIndex looks for the last.
LEMMA FirstIs ==
  ASSUME NEW s, NEW c, NEW n \in 1..Len(s), Len(s) \in Nat, s[n] = c,
         \A i \in 1..Len(s) : s[i] = c => n <= i
  PROVE  FirstOf(s, c) = n
PROOF
<1> DEFINE I == {i \in 1..Len(s) : s[i] = c}
<1>1. FirstOf(s, c) = IF I # {} THEN Min(I) ELSE 0
  BY DEF FirstOf, SelectInSeq
<1>2. n \in I OBVIOUS
<1>3. \A i \in I : i \in Int /\ n <= i /\ n \in Int OBVIOUS
<1> HIDE DEF I
<1>4. Min(I) = n
  <2>1. \E x \in I : \A y \in I : x <= y BY <1>2, <1>3
  <2>2. Min(I) \in I /\ \A y \in I : Min(I) <= y BY <2>1 DEF Min
  <2> DEFINE m == Min(I)
  <2>3. m \in I /\ \A y \in I : m <= y BY <2>2
  <2> HIDE DEF m
  <2>4. m \in Int /\ n \in Int /\ m <= n /\ n <= m BY <1>2, <1>3, <2>3
  <2>5. m = n BY <2>4
  <2>6. QED BY <2>5 DEF m
<1>5. QED BY <1>1, <1>2, <1>4

\* The last of several separators.
LEMMA LastIs ==
  ASSUME NEW s, NEW c, NEW n \in 1..Len(s), Len(s) \in Nat, s[n] = c,
         \A i \in 1..Len(s) : s[i] = c => i <= n
  PROVE  LastOf(s, c) = n
PROOF
<1> DEFINE I == {i \in 1..Len(s) : s[i] = c}
<1>1. LastOf(s, c) = IF I # {} THEN Max(I) ELSE 0
  BY DEF LastOf, SelectLastInSeq
<1>2. n \in I OBVIOUS
<1>3. \A i \in I : i \in Int /\ i <= n /\ n \in Int OBVIOUS
<1> HIDE DEF I
<1>4. Max(I) = n
  <2>1. \E x \in I : \A y \in I : x >= y BY <1>2, <1>3
  <2>2. Max(I) \in I /\ \A y \in I : Max(I) >= y BY <2>1 DEF Max
  <2> DEFINE m == Max(I)
  <2>3. m \in I /\ \A y \in I : m >= y BY <2>2
  <2> HIDE DEF m
  <2>4. m \in Int /\ n \in Int /\ m <= n /\ n <= m BY <1>2, <1>3, <2>3
  <2>5. m = n BY <2>4
  <2>6. QED BY <2>5 DEF m
<1>5. QED BY <1>1, <1>2, <1>4

\* No separator at all.
LEMMA LastIsNone ==
  ASSUME NEW s, NEW c, ~Contains(s, c)
  PROVE  LastOf(s, c) = 0
PROOF
<1> DEFINE I == {i \in 1..Len(s) : s[i] = c}
<1>1. LastOf(s, c) = IF I # {} THEN Max(I) ELSE 0
  BY DEF LastOf, SelectLastInSeq
<1>2. I = {} BY DEF Contains
<1>3. QED BY <1>1, <1>2

\* What texts are made of; the provers do not know a literal for a string.
Token == STRING \cup {"-", "=", ":"}

Text == Seq(Token)

\* What stands before and after the first separator.
LEMMA Joined ==
  ASSUME NEW a \in Text, NEW b \in Text
  PROVE  /\ a \o b \in Text
         /\ Len(a) \in Nat /\ Len(b) \in Nat /\ Len(a \o b) = Len(a) + Len(b)
         /\ \A i \in 1..Len(a) : (a \o b)[i] = a[i]
         /\ \A i \in 1..Len(b) : (a \o b)[Len(a) + i] = b[i]
PROOF
<1>1. Len(a) \in Nat /\ Len(b) \in Nat BY LenProperties DEF Text
<1>2. /\ a \o b \in Text /\ Len(a \o b) = Len(a) + Len(b)
      /\ \A i \in 1..Len(a) + Len(b) :
           (a \o b)[i] = IF i <= Len(a) THEN a[i] ELSE b[i - Len(a)]
  BY ConcatProperties DEF Text
<1> DEFINE s == a \o b
           n == Len(a)
           m == Len(b)
<1>3. /\ n \in Nat /\ m \in Nat
      /\ \A i \in 1..n + m : s[i] = IF i <= n THEN a[i] ELSE b[i - n]
  BY <1>1, <1>2
<1> HIDE DEF s, n, m
<1>4. \A i \in 1..n : s[i] = a[i] BY <1>3
<1>5. \A i \in 1..m : s[n + i] = b[i]
  <2>1. SUFFICES ASSUME NEW i \in 1..m PROVE s[n + i] = b[i] OBVIOUS
  <2>2. n + i \in 1..n + m /\ ~(n + i <= n) /\ (n + i) - n = i BY <1>3
  <2>3. QED BY <1>3, <2>2
<1>6. QED BY <1>1, <1>2, <1>4, <1>5 DEF s, n, m

\* The parts of a text.
LEMMA Parts ==
  ASSUME NEW a \in Text, NEW b \in Text
  PROVE  /\ SubSeq(a \o b, 1, Len(a)) = a
         /\ SubSeq(a \o b, Len(a) + 1, Len(a \o b)) = b
PROOF
<1> DEFINE s == a \o b
           n == Len(a)
           m == Len(b)
<1>1. /\ s \in Text /\ n \in Nat /\ m \in Nat /\ Len(s) = n + m
      /\ \A i \in 1..n : s[i] = a[i]
      /\ \A i \in 1..m : s[n + i] = b[i]
  BY Joined
<1>2. /\ a \in Text /\ Len(a) = n /\ \A i \in 1..n : a[i] \in Token
      /\ b \in Text /\ Len(b) = m
  BY ElementOfSeq DEF Text
<1> HIDE DEF s, n, m
<1>3. SubSeq(s, 1, n) = a
  <2> DEFINE t == SubSeq(s, 1, n)
  <2>1. 1 \in Int /\ n \in Int /\ \A i \in 1..n : s[i] \in Token BY <1>1, <1>2
  <2>2. /\ t \in Text /\ Len(t) = IF 1 <= n THEN n - 1 + 1 ELSE 0
        /\ \A i \in 1..(n - 1 + 1) : t[i] = s[1 + i - 1]
    BY <2>1, SubSeqProperties DEF Text
  <2> HIDE DEF t
  <2>3. Len(t) = n BY <1>1, <2>2
  <2>4. \A i \in 1..n : t[i] = s[i]
    <3>1. n - 1 + 1 = n /\ \A i \in 1..n : 1 + i - 1 = i BY <1>1
    <3>2. QED BY <2>2, <3>1
  <2>5. t = a BY <1>1, <1>2, <2>2, <2>3, <2>4, SeqEqual DEF Text
  <2>6. QED BY <2>5 DEF t
<1>4. SubSeq(s, n + 1, n + m) = b
  <2> DEFINE t == SubSeq(s, n + 1, n + m)
  <2>1. \A i \in 1..Len(s) : s[i] \in Token BY <1>1, ElementOfSeq DEF Text
  <2>2. \A i \in (n + 1)..(n + m) : i \in 1..Len(s) BY <1>1
  <2>3. /\ n + 1 \in Int /\ n + m \in Int
        /\ \A i \in (n + 1)..(n + m) : s[i] \in Token
    BY <1>1, <2>1, <2>2
  <2>4. /\ t \in Text
        /\ Len(t) = IF n + 1 <= n + m THEN (n + m) - (n + 1) + 1 ELSE 0
        /\ \A i \in 1..((n + m) - (n + 1) + 1) : t[i] = s[(n + 1) + i - 1]
    BY <2>3, SubSeqProperties DEF Text
  <2> HIDE DEF t
  <2>5. Len(t) = m BY <1>1, <2>4
  <2>6. \A i \in 1..m : t[i] = s[n + i]
    <3>1. (n + m) - (n + 1) + 1 = m /\ \A i \in 1..m : (n + 1) + i - 1 = n + i
      BY <1>1
    <3>2. QED BY <2>4, <3>1
  <2>7. t = b BY <1>1, <1>2, <2>4, <2>5, <2>6, SeqEqual DEF Text
  <2>8. QED BY <2>7 DEF t
<1>5. QED BY <1>1, <1>3, <1>4 DEF s, n, m

\* A token is a text.
LEMMA Single ==
  ASSUME NEW t \in Token
  PROVE  <<t>> \in Text /\ Len(<<t>>) = 1 /\ <<t>>[1] = t
PROOF
  BY DEF Text

\* A text contains what its parts contain.
LEMMA InJoined ==
  ASSUME NEW a \in Text, NEW b \in Text, NEW c
  PROVE  Contains(a \o b, c) <=> Contains(a, c) \/ Contains(b, c)
PROOF
<1> DEFINE s == a \o b
           n == Len(a)
           m == Len(b)
<1>1. /\ n \in Nat /\ m \in Nat /\ Len(s) = n + m
      /\ \A i \in 1..n : s[i] = a[i]
      /\ \A i \in 1..m : s[n + i] = b[i]
  BY Joined
<1>2. n = Len(a) /\ m = Len(b) OBVIOUS
<1> HIDE DEF s, n, m
<1>3. \A i \in 1..(n + m) : i \in 1..n \/ (i - n \in 1..m /\ n + (i - n) = i)
  BY <1>1
<1>4. \A i \in 1..n : i \in 1..(n + m) BY <1>1
<1>5. \A i \in 1..m : n + i \in 1..(n + m) BY <1>1
<1>6. Contains(s, c) => Contains(a, c) \/ Contains(b, c)
  <2>1. SUFFICES ASSUME NEW i \in 1..(n + m), s[i] = c
                 PROVE  (\E j \in 1..n : a[j] = c) \/ (\E j \in 1..m : b[j] = c)
    BY <1>1, <1>2 DEF Contains
  <2>2. CASE i \in 1..n BY <1>1, <2>1, <2>2
  <2>3. CASE i - n \in 1..m /\ n + (i - n) = i
    <3>1. b[i - n] = c BY <1>1, <2>1, <2>3
    <3>2. QED BY <2>3, <3>1
  <2>4. QED BY <1>3, <2>2, <2>3
<1>7. Contains(a, c) => Contains(s, c) BY <1>1, <1>2, <1>4 DEF Contains
<1>8. Contains(b, c) => Contains(s, c) BY <1>1, <1>2, <1>5 DEF Contains
<1>9. QED BY <1>6, <1>7, <1>8 DEF s

\* It contains itself.
LEMMA InSingle ==
  ASSUME NEW t \in Token, NEW c
  PROVE  Contains(<<t>>, c) <=> t = c
PROOF
  BY Single DEF Contains

\* What stands before and after the first separator.
\* Concatenation is associative.
LEMMA Regroup ==
  ASSUME NEW a \in Text, NEW b \in Text, NEW d \in Text
  PROVE  a \o (b \o d) = (a \o b) \o d
PROOF
  BY ConcatAssociative DEF Text

\* What stands before and after the first separator.
LEMMA Cut ==
  ASSUME NEW a \in Text, NEW b \in Text, NEW c \in Token, ~Contains(a, c)
  PROVE  /\ Contains(a \o (<<c>> \o b), c)
         /\ Before(a \o (<<c>> \o b), c) = a
         /\ After(a \o (<<c>> \o b), c) = b
PROOF
<1> DEFINE e == <<c>>
           s == a \o (e \o b)
           n == Len(a)
<1>1. e \in Text /\ Len(e) = 1 /\ e[1] = c BY Single
<1> HIDE DEF e
<1>2. /\ a \o e \in Text /\ n \in Nat /\ Len(a \o e) = n + 1
      /\ \A i \in 1..n : (a \o e)[i] = a[i]
      /\ (a \o e)[n + 1] = c
  <2>1. /\ a \o e \in Text /\ n \in Nat /\ Len(a \o e) = n + Len(e)
        /\ \A i \in 1..n : (a \o e)[i] = a[i]
        /\ \A i \in 1..Len(e) : (a \o e)[n + i] = e[i]
    BY <1>1, Joined
  <2>2. 1 \in 1..Len(e) BY <1>1
  <2>3. QED BY <1>1, <2>1, <2>2
<1>3. s = (a \o e) \o b BY <1>1, Regroup
<1>4. e \o b \in Text BY <1>1, Joined
<1>5. /\ SubSeq(s, 1, n) = a
      /\ SubSeq(s, n + 1 + 1, Len(s)) = b
  BY <1>2, <1>3, <1>4, Parts
<1>6. /\ Len(s) \in Nat /\ Len(s) = n + 1 + Len(b) /\ Len(b) \in Nat
      /\ \A i \in 1..(n + 1) : s[i] = (a \o e)[i]
  <2> DEFINE d == a \o e
  <2>1. d \in Text /\ Len(d) = n + 1 BY <1>2
  <2> HIDE DEF d
  <2>2. /\ d \o b \in Text /\ Len(d \o b) = Len(d) + Len(b) /\ Len(b) \in Nat
        /\ \A i \in 1..Len(d) : (d \o b)[i] = d[i]
    BY <2>1, Joined
  <2>3. s = d \o b BY <1>3 DEF d
  <2> HIDE DEF s, n
  <2>4. /\ Len(s) \in Nat /\ Len(s) = n + 1 + Len(b) /\ Len(b) \in Nat
        /\ \A i \in 1..(n + 1) : s[i] = d[i]
    BY <1>2, <2>1, <2>2, <2>3
  <2>5. QED BY <2>4 DEF d
<1> HIDE DEF s
<1>7. n + 1 \in 1..Len(s) /\ s[n + 1] = c BY <1>2, <1>6
<1>8. \A i \in 1..n : s[i] # c
  <2>1. \A i \in 1..n : i \in 1..(n + 1) BY <1>2
  <2>2. QED BY <1>2, <1>6, <2>1 DEF Contains
<1>9. \A i \in 1..Len(s) : s[i] = c => n + 1 <= i
  <2> HIDE DEF n
  <2>1. SUFFICES ASSUME NEW i \in 1..Len(s), ~(n + 1 <= i) PROVE s[i] # c
    OBVIOUS
  <2>2. i \in 1..n BY <1>2, <2>1
  <2>3. QED BY <1>8, <2>2
<1>10. FirstOf(s, c) = n + 1 BY <1>6, <1>7, <1>9, FirstIs
<1>11. Contains(s, c) BY <1>7 DEF Contains
<1>12. Before(s, c) = a /\ After(s, c) = b
  <2>1. n + 1 - 1 = n BY <1>2
  <2>2. QED BY <1>5, <1>10, <2>1 DEF Before, After
<1>13. QED BY <1>11, <1>12 DEF s, e

\* What stands after the last separator, and before it.
LEMMA CutLast ==
  ASSUME NEW a \in Text, NEW t \in Token, NEW c \in Token, t # c
  PROVE  LET s == a \o (<<c>> \o <<t>>) IN
         /\ Contains(s, c)
         /\ SubSeq(s, 1, LastOf(s, c) - 1) = a
         /\ SubSeq(s, LastOf(s, c) + 1, Len(s)) = <<t>>
PROOF
<1> DEFINE e == <<c>>
           u == <<t>>
           s == a \o (e \o u)
           n == Len(a)
<1>1. /\ e \in Text /\ Len(e) = 1 /\ e[1] = c
      /\ u \in Text /\ Len(u) = 1 /\ u[1] = t
  BY Single
<1> HIDE DEF e, u
<1>2. /\ a \o e \in Text /\ n \in Nat /\ Len(a \o e) = n + 1
      /\ (a \o e)[n + 1] = c
  <2>1. /\ a \o e \in Text /\ n \in Nat /\ Len(a \o e) = n + Len(e)
        /\ \A i \in 1..n : (a \o e)[i] = a[i]
        /\ \A i \in 1..Len(e) : (a \o e)[n + i] = e[i]
    BY <1>1, Joined
  <2>2. 1 \in 1..Len(e) BY <1>1
  <2>3. QED BY <1>1, <2>1, <2>2
<1>3. s = (a \o e) \o u BY <1>1, Regroup
<1>4. e \o u \in Text BY <1>1, Joined
<1>5. /\ SubSeq(s, 1, n) = a
      /\ SubSeq(s, n + 1 + 1, Len(s)) = u
  BY <1>1, <1>2, <1>3, <1>4, Parts
<1>6. /\ Len(s) = n + 1 + 1
      /\ \A i \in 1..(n + 1) : s[i] = (a \o e)[i]
      /\ s[n + 1 + 1] = t
  <2> DEFINE d == a \o e
  <2>1. d \in Text /\ Len(d) = n + 1 BY <1>2
  <2> HIDE DEF d
  <2>2. /\ Len(d \o u) = Len(d) + Len(u)
        /\ \A i \in 1..Len(d) : (d \o u)[i] = d[i]
        /\ \A i \in 1..Len(u) : (d \o u)[Len(d) + i] = u[i]
    BY <1>1, <2>1, Joined
  <2>3. s = d \o u BY <1>3 DEF d
  <2>4. 1 \in 1..Len(u) BY <1>1
  <2> HIDE DEF s, n
  <2>5. /\ Len(s) = n + 1 + 1
        /\ \A i \in 1..(n + 1) : s[i] = d[i]
        /\ s[n + 1 + 1] = t
    BY <1>1, <1>2, <2>1, <2>2, <2>3, <2>4
  <2>6. QED BY <2>5 DEF d
<1> HIDE DEF s
<1>7. n + 1 \in 1..Len(s) /\ s[n + 1] = c /\ Len(s) \in Nat BY <1>2, <1>6
<1>8. \A i \in 1..Len(s) : s[i] = c => i <= n + 1
  <2> HIDE DEF n
  <2>1. SUFFICES ASSUME NEW i \in 1..Len(s), ~(i <= n + 1) PROVE s[i] # c
    OBVIOUS
  <2>2. i = n + 1 + 1 BY <1>2, <1>6, <2>1
  <2>3. QED BY <1>6, <2>2
<1>9. LastOf(s, c) = n + 1 BY <1>7, <1>8, LastIs
<1>10. Contains(s, c) BY <1>7 DEF Contains
<1>11. n + 1 - 1 = n BY <1>2
<1>12. SubSeq(s, 1, LastOf(s, c) - 1) = a BY <1>5, <1>9, <1>11
<1>13. SubSeq(s, LastOf(s, c) + 1, Len(s)) = u BY <1>5, <1>9
<1>14. QED BY <1>10, <1>12, <1>13 DEF s, e, u

-----------------------------------------------------------------------------
(* What the parts of an entry are parsed to. *)

\* The numbers that have digits.
Numbers == {Value[t] : t \in DOMAIN Value}

Digits(p) == CHOOSE t \in DOMAIN Value : Value[t] = p

\* Digits are no separators, and denote their number.
LEMMA DigitsProperties ==
  ASSUME NEW p \in Numbers
  PROVE  /\ p \in Nat
         /\ Digits(p) \in Token /\ Digits(p) \in DOMAIN Value
         /\ Value[Digits(p)] = p
         /\ Digits(p) # "-" /\ Digits(p) # "=" /\ Digits(p) # ":"
PROOF
<1>1. \E t \in DOMAIN Value : Value[t] = p BY DEF Numbers
<1>2. Digits(p) \in DOMAIN Value /\ Value[Digits(p)] = p BY <1>1 DEF Digits
<1>3. QED BY <1>2, ValueAssumption DEF Token

\* Separators are tokens.
LEMMA Separators == "-" \in Token /\ "=" \in Token /\ ":" \in Token
PROOF
  BY DEF Token

\* A port within the bounds, or an error.
Port(p) == {q \in {p} : 1 <= q /\ q <= MaxPort}

\* Which of the two it is.
LEMMA PortCases ==
  ASSUME NEW p \in Nat
  PROVE  Port(p) = IF p \in 1..MaxPort THEN {p} ELSE {}
PROOF
<1>1. MaxPort \in Int /\ (p \in 1..MaxPort <=> 1 <= p /\ p <= MaxPort)
  BY DEF MaxPort
<1>2. CASE 1 <= p /\ p <= MaxPort BY <1>1, <1>2 DEF Port
<1>3. CASE ~(1 <= p /\ p <= MaxPort) BY <1>1, <1>3 DEF Port
<1>4. QED BY <1>2, <1>3

\* Atoi reads digits.
LEMMA AtoiDigits ==
  ASSUME NEW p \in Numbers
  PROVE  Atoi(<<Digits(p)>>) = {p}
PROOF
  BY DigitsProperties DEF Atoi

\* A port without a host.
LEMMA BarePort ==
  ASSUME NEW p \in Numbers
  PROVE  /\ ParsePort(<<Digits(p)>>) = Port(p)
         /\ NormalizeTarget(<<Digits(p)>>)
              = {[host |-> LocalHost, port |-> q] : q \in Port(p)}
PROOF
<1> DEFINE t == Digits(p)
           s == <<t>>
<1>1. t \in Token /\ t # ":" BY DigitsProperties
<1>2. s \in Text /\ Len(s) = 1 BY <1>1, Single
<1>3. ~Contains(s, ":") BY <1>1, InSingle
<1>4. LastOf(s, ":") = 0 BY <1>3, LastIsNone
<1>5. SubSeq(s, LastOf(s, ":") + 1, Len(s)) = s
  <2> HIDE DEF s
  <2>1. LastOf(s, ":") + 1 = 1 BY <1>4
  <2>2. SubSeq(s, 1, Len(s)) = s BY <1>2, SubSeqFull DEF Text
  <2>3. QED BY <2>1, <2>2
<1>6. Atoi(s) = {p} BY AtoiDigits
<1> HIDE DEF s
<1>7. ParsePort(s) = Port(p) BY <1>5, <1>6 DEF ParsePort, Port
<1>8. NormalizeTarget(s) = {[host |-> LocalHost, port |-> q] : q \in Port(p)}
  BY <1>3, <1>7 DEF NormalizeTarget
<1>9. QED BY <1>7, <1>8 DEF s

\* A port after a host.
LEMMA HostPort ==
  ASSUME NEW h \in Text, NEW p \in Numbers
  PROVE  LET s == h \o (<<":">> \o <<Digits(p)>>) IN
         NormalizeTarget(s) = {[host |-> h, port |-> q] : q \in Port(p)}
PROOF
<1> DEFINE t == Digits(p)
           u == <<t>>
           s == h \o (<<":">> \o u)
<1>1. t \in Token /\ t # ":" BY DigitsProperties
<1>2. /\ Contains(s, ":")
      /\ SubSeq(s, 1, LastOf(s, ":") - 1) = h
      /\ SubSeq(s, LastOf(s, ":") + 1, Len(s)) = u
  BY <1>1, CutLast, Separators
<1>3. Atoi(u) = {p} BY AtoiDigits
<1> HIDE DEF s, u
<1>4. ParsePort(s) = Port(p) BY <1>2, <1>3 DEF ParsePort, Port
<1>5. NormalizeTarget(s) = {[host |-> h, port |-> q] : q \in Port(p)}
  BY <1>2, <1>4 DEF NormalizeTarget
<1>6. QED BY <1>5 DEF s, u

\* A range as it is written.
RangeOf(lo, hi) == <<Digits(lo)>> \o (<<"-">> \o <<Digits(hi)>>)

\* It is cut at the dash between its bounds, and contains no other separator.
LEMMA RangeParsed ==
  ASSUME NEW lo \in Numbers, NEW hi \in Numbers
  PROVE  /\ RangeOf(lo, hi) \in Text
         /\ \A c : Contains(RangeOf(lo, hi), c) <=>
                     c = Digits(lo) \/ c = "-" \/ c = Digits(hi)
         /\ ParseRange(RangeOf(lo, hi)) =
              {r \in {<<lo, hi>>} : Within(r[1], r[2])}
         /\ <<Digits(lo), "-", Digits(hi)>> = RangeOf(lo, hi)
PROOF
<1> DEFINE a == <<Digits(lo)>>
           b == <<Digits(hi)>>
           d == <<"-">>
           s == a \o (d \o b)
<1>1. Digits(lo) \in Token /\ Digits(hi) \in Token /\ Digits(lo) # "-"
  BY DigitsProperties
<1>2. a \in Text /\ b \in Text /\ d \in Text BY <1>1, Single, Separators
<1>3. /\ \A c : Contains(a, c) <=> Digits(lo) = c
      /\ \A c : Contains(b, c) <=> Digits(hi) = c
      /\ \A c : Contains(d, c) <=> "-" = c
  BY <1>1, InSingle, Separators
<1>4. d \o b \in Text /\ s \in Text BY <1>2, Joined
<1>5. \A c : Contains(s, c) <=> c = Digits(lo) \/ c = "-" \/ c = Digits(hi)
  <2> HIDE DEF a, b, d
  <2>1. \A c : Contains(s, c) <=> Contains(a, c) \/ Contains(d \o b, c)
    BY <1>2, <1>4, InJoined
  <2>2. \A c : Contains(d \o b, c) <=> Contains(d, c) \/ Contains(b, c)
    BY <1>2, InJoined
  <2>3. QED BY <1>3, <2>1, <2>2
<1>6. Before(s, "-") = a /\ After(s, "-") = b
  <2>1. ~Contains(a, "-") BY <1>1, <1>3
  <2>2. QED BY <1>2, <2>1, Cut, Separators
<1>7. Atoi(a) = {lo} /\ Atoi(b) = {hi} BY AtoiDigits
<1>8. <<Digits(lo), "-", Digits(hi)>> = s OBVIOUS
<1> HIDE DEF a, b, d, s
<1>9. ParseRange(s) = {r \in {<<lo, hi>>} : Within(r[1], r[2])}
  BY <1>6, <1>7 DEF ParseRange
<1>10. QED BY <1>4, <1>5, <1>8, <1>9 DEF a, b, d, s, RangeOf

\* The target of an entry, as it is written and as it is meant.
TargetOf(e) == (IF e.host = <<>> THEN <<>> ELSE e.host \o <<":">>) \o <<Digits(e.port)>>

Host(e) == IF e.host = <<>> THEN LocalHost ELSE e.host

\* What Sensible says.
LEMMA SensibleParts ==
  ASSUME NEW e, Sensible(e)
  PROVE  /\ e.lo \in Numbers /\ e.hi \in Numbers
         /\ e.host \in Text /\ ~Contains(e.host, "=")
         /\ e.port # NoPort => e.port \in Numbers
         /\ e.port = NoPort => e.host = <<>>
         /\ \A p \in Numbers : p # NoPort
PROOF
<1>1. /\ e.lo \in Numbers /\ e.hi \in Numbers
      /\ e.host \in Seq(STRING) /\ ~Contains(e.host, "=")
      /\ e.port # NoPort => e.port \in Numbers
      /\ e.port = NoPort => e.host = <<>>
  BY DEF Sensible, Numbers
<1>2. e.host \in Text
  <2>1. STRING \subseteq Token BY DEF Token
  <2>2. QED BY <1>1, <2>1, SeqMonotonic DEF Text
<1>3. \A p \in Numbers : p # NoPort BY DigitsProperties DEF NoPort
<1>4. QED BY <1>1, <1>2, <1>3

\* A target is read as it is meant, with its host or on this machine.
LEMMA TargetParsed ==
  ASSUME NEW e, Sensible(e), e.port # NoPort
  PROVE  /\ TargetOf(e) \in Text
         /\ ~Contains(TargetOf(e), "=")
         /\ NormalizeTarget(TargetOf(e))
              = {[host |-> Host(e), port |-> q] : q \in Port(e.port)}
PROOF
<1> DEFINE d == <<Digits(e.port)>>
           k == <<":">>
<1>1. e.port \in Numbers /\ e.host \in Text /\ ~Contains(e.host, "=")
  BY SensibleParts
<1>2. Digits(e.port) \in Token /\ Digits(e.port) # "="
  BY <1>1, DigitsProperties
<1>3. d \in Text /\ k \in Text BY <1>2, Single, Separators
<1>4. ~Contains(d, "=") /\ ~Contains(k, "=") BY <1>2, InSingle, Separators
<1>5. CASE e.host = <<>>
  <2>1. TargetOf(e) = d
    <3>1. TargetOf(e) = <<>> \o d BY <1>5 DEF TargetOf
    <3> HIDE DEF d
    <3>2. <<>> \o d = d BY <1>3, ConcatEmptySeq DEF Text
    <3>3. QED BY <3>1, <3>2
  <2>2. Host(e) = LocalHost BY <1>5 DEF Host
  <2>3. NormalizeTarget(d) = {[host |-> LocalHost, port |-> q] : q \in Port(e.port)}
    BY <1>1, BarePort
  <2> HIDE DEF d
  <2>4. QED BY <1>3, <1>4, <2>1, <2>2, <2>3
<1>6. CASE e.host # <<>>
  <2>1. TargetOf(e) = e.host \o (k \o d)
    <3>1. TargetOf(e) = (e.host \o k) \o d BY <1>6 DEF TargetOf
    <3> HIDE DEF d, k
    <3>2. QED BY <1>1, <1>3, <3>1, Regroup
  <2>2. Host(e) = e.host BY <1>6 DEF Host
  <2>3. NormalizeTarget(e.host \o (k \o d))
          = {[host |-> e.host, port |-> q] : q \in Port(e.port)}
    BY <1>1, HostPort
  <2> HIDE DEF d, k
  <2>4. k \o d \in Text /\ ~Contains(k \o d, "=")
    BY <1>3, <1>4, Joined, InJoined
  <2>5. e.host \o (k \o d) \in Text /\ ~Contains(e.host \o (k \o d), "=")
    BY <1>1, <2>4, Joined, InJoined
  <2>6. QED BY <2>1, <2>2, <2>3, <2>5
<1>7. QED BY <1>5, <1>6

-----------------------------------------------------------------------------
(* An entry is parsed to what it means. *)

\* "port"
LEMMA PortAloneAsMeant ==
  ASSUME NEW e, Sensible(e), e.port = NoPort, e.lo = e.hi
  PROVE  /\ Written(e) # <<>>
         /\ MappingsOf(Written(e)) = IF Sound(e) THEN {Meant(e)} ELSE {}
PROOF
<1> DEFINE s == <<Digits(e.lo)>>
<1>1. e.lo \in Numbers /\ e.lo \in Nat /\ e.host = <<>>
  BY SensibleParts, DigitsProperties
<1>2. Written(e) = s BY DEF Written, Digits
<1>3. /\ Digits(e.lo) \in Token /\ Digits(e.lo) # ":" /\ Digits(e.lo) # "="
      /\ Digits(e.lo) # "-"
  BY <1>1, DigitsProperties
<1>4. ~Contains(s, ":") /\ ~Contains(s, "-") /\ ~Contains(s, "=") /\ Len(s) = 1
  BY <1>3, InSingle, Single
<1>5. ParsePort(s) = Port(e.lo) BY <1>1, BarePort
<1> HIDE DEF s
<1>6. MappingsOf(s) = PortAlone(s) BY <1>4 DEF MappingsOf
<1>7. PortAlone(s) = {<<[listen |-> p, target |-> Local(p)]>> : p \in Port(e.lo)}
  BY <1>5 DEF PortAlone
<1>8. Sound(e) <=> 1 <= e.lo /\ e.lo <= MaxPort BY <1>1 DEF Sound
<1>9. Meant(e) = <<[listen |-> e.lo, target |-> Local(e.lo)]>>
  <2>1. e.hi - e.lo + 1 = 1 /\ e.lo + 1 - 1 = e.lo BY <1>1
  <2>2. Meant(e) = [i \in 1..1 |-> [listen |-> e.lo, target |-> Local(e.lo)]]
    BY <1>1, <2>1 DEF Meant, Local
  <2>3. QED BY <2>2
<1>10. QED BY <1>2, <1>4, <1>6, <1>7, <1>8, <1>9 DEF Port

\* "lo-hi"
LEMMA RangeAloneAsMeant ==
  ASSUME NEW e, Sensible(e), e.port = NoPort, e.lo # e.hi
  PROVE  /\ Written(e) # <<>>
         /\ MappingsOf(Written(e)) = IF Sound(e) THEN {Meant(e)} ELSE {}
PROOF
<1> DEFINE s == RangeOf(e.lo, e.hi)
<1>1. /\ e.lo \in Numbers /\ e.lo \in Nat /\ e.hi \in Numbers /\ e.hi \in Nat
      /\ e.host = <<>>
  BY SensibleParts, DigitsProperties
<1>2. Written(e) = <<Digits(e.lo), "-", Digits(e.hi)>> BY DEF Written, Digits
<1>3. /\ \A p \in {e.lo, e.hi} : Digits(p) # ":" /\ Digits(p) # "="
      /\ s \in Text
      /\ \A c : Contains(s, c) <=> c = Digits(e.lo) \/ c = "-" \/ c = Digits(e.hi)
      /\ ParseRange(s) = {r \in {<<e.lo, e.hi>>} : Within(r[1], r[2])}
      /\ Written(e) = s
  BY <1>1, <1>2, DigitsProperties, RangeParsed
<1> HIDE DEF s
<1>4. Contains(s, "-") /\ ~Contains(s, ":") /\ ~Contains(s, "=") BY <1>3
<1>5. MappingsOf(s) = RangeAlone(s) BY <1>4 DEF MappingsOf
<1>6. RangeAlone(s) = {Spread(r, Local) : r \in ParseRange(s)} BY DEF RangeAlone
<1>7. Sound(e) <=> Within(e.lo, e.hi) BY <1>1 DEF Sound, Within
<1>8. Spread(<<e.lo, e.hi>>, Local) = Meant(e)
  BY <1>1 DEF Spread, Meant, Local
<1>9. s # <<>> BY <1>4 DEF Contains
<1>10. CASE Sound(e)
  <2>1. ParseRange(s) = {<<e.lo, e.hi>>} BY <1>3, <1>7, <1>10
  <2>2. RangeAlone(s) = {Spread(<<e.lo, e.hi>>, Local)} BY <1>6, <2>1
  <2>3. QED BY <1>3, <1>5, <1>8, <1>9, <1>10, <2>2
<1>11. CASE ~Sound(e)
  <2>1. ParseRange(s) = {} BY <1>3, <1>7, <1>11
  <2>2. QED BY <1>3, <1>5, <1>6, <1>9, <1>11, <2>1
<1>12. QED BY <1>10, <1>11

\* "port=target": what stands before the sign has no dash, whatever the host has.
LEMMA PortToTargetAsMeant ==
  ASSUME NEW e, Sensible(e), e.port # NoPort, e.lo = e.hi
  PROVE  /\ Written(e) # <<>>
         /\ MappingsOf(Written(e)) = IF Sound(e) THEN {Meant(e)} ELSE {}
PROOF
<1> DEFINE a == <<Digits(e.lo)>>
           t == TargetOf(e)
           s == a \o (<<"=">> \o t)
           M == [listen |-> e.lo, target |-> [host |-> Host(e), port |-> e.port]]
<1>1. /\ e.lo \in Numbers /\ e.lo \in Nat
      /\ e.port \in Numbers /\ e.port \in Nat
      /\ t \in Text
      /\ NormalizeTarget(t) = {[host |-> Host(e), port |-> q] : q \in Port(e.port)}
  BY SensibleParts, DigitsProperties, TargetParsed
<1>2. /\ a \in Text /\ ~Contains(a, "=") /\ ~Contains(a, "-")
      /\ ParsePort(a) = Port(e.lo)
  BY <1>1, DigitsProperties, Single, InSingle, BarePort
<1>3. Written(e) = s
  <2> DEFINE d == <<Digits(e.port)>>
             h == IF e.host = <<>> THEN <<>> ELSE e.host \o <<":">>
  <2>1. Written(e) = a \o <<"=">> \o h \o d BY DEF Written, Digits
  <2>2. <<"=">> \in Text /\ d \in Text /\ h \in Text
    <3>1. e.host \in Text BY SensibleParts
    <3>2. e.host \o <<":">> \in Text BY <3>1, Single, Separators, Joined
    <3>3. <<>> \in Text BY EmptySeq DEF Text
    <3>4. QED BY <1>1, <3>2, <3>3, DigitsProperties, Single, Separators
  <2>3. t = h \o d BY DEF TargetOf
  <2> HIDE DEF a, d, h, t
  <2> DEFINE q == <<"=">>
  <2>4. q \in Text BY <2>2
  <2> HIDE DEF q
  <2>5. a \o q \in Text /\ h \o d \in Text BY <1>2, <2>2, <2>4, Joined
  <2>6. ((a \o q) \o h) \o d = (a \o q) \o (h \o d) BY <2>2, <2>5, Regroup
  <2>7. (a \o q) \o (h \o d) = a \o (q \o (h \o d))
    BY <1>2, <2>4, <2>5, Regroup
  <2>8. QED BY <2>1, <2>3, <2>6, <2>7 DEF q
<1> HIDE DEF a, t
<1>4. Contains(s, "=") /\ Before(s, "=") = a /\ After(s, "=") = t
  BY <1>1, <1>2, Cut, Separators
<1>5. s # <<>> BY <1>4 DEF Contains
<1> HIDE DEF s
<1>6. MappingsOf(s) = PortToTarget(s) BY <1>2, <1>4 DEF MappingsOf
<1>7. PortToTarget(s) =
        {<<[listen |-> pt[1], target |-> pt[2]]>> :
           pt \in Port(e.lo) \X {[host |-> Host(e), port |-> q] : q \in Port(e.port)}}
  BY <1>1, <1>2, <1>4 DEF PortToTarget
<1>8. /\ Sound(e) => Port(e.lo) = {e.lo} /\ Port(e.port) = {e.port}
      /\ ~Sound(e) => Port(e.lo) = {} \/ Port(e.port) = {}
  <2>1. Sound(e) <=> 1 <= e.lo /\ e.lo <= MaxPort /\ e.port \in 1..MaxPort
    BY <1>1 DEF Sound
  <2>2. Sound(e) <=> e.lo \in 1..MaxPort /\ e.port \in 1..MaxPort
    <3>1. MaxPort \in Int BY DEF MaxPort
    <3>2. e.lo \in 1..MaxPort <=> 1 <= e.lo /\ e.lo <= MaxPort BY <1>1, <3>1
    <3>3. QED BY <2>1, <3>2
  <2>3. /\ Port(e.lo) = IF e.lo \in 1..MaxPort THEN {e.lo} ELSE {}
        /\ Port(e.port) = IF e.port \in 1..MaxPort THEN {e.port} ELSE {}
    BY <1>1, PortCases
  <2>4. QED BY <2>2, <2>3
<1>9. Meant(e) = <<M>>
  <2>1. e.hi - e.lo + 1 = 1 /\ e.lo + 1 - 1 = e.lo BY <1>1
  <2>2. Meant(e) = [i \in 1..1 |-> M] BY <1>1, <2>1 DEF Meant, Host
  <2> HIDE DEF M
  <2>3. QED BY <2>2
<1>10. CASE Sound(e)
  <2>1. Port(e.lo) = {e.lo} /\ Port(e.port) = {e.port} BY <1>8, <1>10
  <2> DEFINE T == [host |-> Host(e), port |-> e.port]
             X == Port(e.lo) \X {[host |-> Host(e), port |-> q] : q \in Port(e.port)}
  <2>4. {[host |-> Host(e), port |-> q] : q \in Port(e.port)} = {T} BY <2>1
  <2> HIDE DEF T
  <2>5. X = {<<e.lo, T>>} BY <2>1, <2>4
  <2> HIDE DEF X
  <2>6. PortToTarget(s) = {<<[listen |-> pt[1], target |-> pt[2]]>> : pt \in X}
    BY <1>7 DEF X
  <2>7. PortToTarget(s) = {<<[listen |-> e.lo, target |-> T]>>} BY <2>5, <2>6
  <2>2. PortToTarget(s) = {<<M>>} BY <2>7 DEF T
  <2>3. QED BY <1>3, <1>5, <1>6, <1>9, <1>10, <2>2
<1>11. CASE ~Sound(e)
  <2>1. PortToTarget(s) = {} BY <1>7, <1>8, <1>11
  <2>2. QED BY <1>3, <1>5, <1>6, <1>11, <2>1
<1>12. QED BY <1>10, <1>11

\* "lo-hi:target": the colon after the range is the first, although the target
\* may have more of them, and dashes.
LEMMA RangeToTargetAsMeant ==
  ASSUME NEW e, Sensible(e), e.port # NoPort, e.lo # e.hi
  PROVE  /\ Written(e) # <<>>
         /\ MappingsOf(Written(e)) = IF Sound(e) THEN {Meant(e)} ELSE {}
PROOF
<1> DEFINE a == RangeOf(e.lo, e.hi)
           t == TargetOf(e)
           s == a \o (<<":">> \o t)
           T(q) == [host |-> Host(e), port |-> q]
<1>1. /\ e.lo \in Numbers /\ e.lo \in Nat /\ e.hi \in Numbers /\ e.hi \in Nat
      /\ e.port \in Numbers /\ e.port \in Nat
      /\ t \in Text /\ ~Contains(t, "=")
      /\ NormalizeTarget(t) = {T(q) : q \in Port(e.port)}
  BY SensibleParts, DigitsProperties, TargetParsed
<1>2. /\ a \in Text
      /\ \A c : Contains(a, c) <=> c = Digits(e.lo) \/ c = "-" \/ c = Digits(e.hi)
      /\ ParseRange(a) = {r \in {<<e.lo, e.hi>>} : Within(r[1], r[2])}
      /\ <<Digits(e.lo), "-", Digits(e.hi)>> = a
  BY <1>1, RangeParsed
<1>3. /\ Contains(a, "-") /\ ~Contains(a, "=") /\ ~Contains(a, ":")
  BY <1>1, <1>2, DigitsProperties
<1>4. Written(e) = s
  <2> DEFINE d == <<Digits(e.port)>>
             h == IF e.host = <<>> THEN <<>> ELSE e.host \o <<":">>
  <2>1. Written(e) = <<Digits(e.lo), "-", Digits(e.hi)>> \o <<":">> \o h \o d
    BY DEF Written, Digits
  <2>2. <<":">> \in Text /\ d \in Text /\ h \in Text
    <3>1. e.host \in Text BY SensibleParts
    <3>2. e.host \o <<":">> \in Text BY <3>1, Single, Separators, Joined
    <3>3. <<>> \in Text BY EmptySeq DEF Text
    <3>4. QED BY <1>1, <3>2, <3>3, DigitsProperties, Single, Separators
  <2>3. t = h \o d BY DEF TargetOf
  <2> HIDE DEF a, d, h, t
  <2> DEFINE q == <<":">>
  <2>4. q \in Text BY <2>2
  <2> HIDE DEF q
  <2>5. a \o q \in Text /\ h \o d \in Text BY <1>2, <2>2, <2>4, Joined
  <2>6. ((a \o q) \o h) \o d = (a \o q) \o (h \o d) BY <2>2, <2>5, Regroup
  <2>7. (a \o q) \o (h \o d) = a \o (q \o (h \o d))
    BY <1>2, <2>4, <2>5, Regroup
  <2>8. QED BY <1>2, <2>1, <2>3, <2>6, <2>7 DEF q
<1> HIDE DEF a, t
<1>5. Contains(s, ":") /\ Before(s, ":") = a /\ After(s, ":") = t
  BY <1>1, <1>2, <1>3, Cut, Separators
<1>6. Contains(s, "-") /\ ~Contains(s, "=")
  <2> DEFINE q == <<":">>
  <2>1. q \in Text /\ ~Contains(q, "=") BY Single, InSingle, Separators
  <2> HIDE DEF q
  <2>2. q \o t \in Text /\ ~Contains(q \o t, "=")
    BY <1>1, <2>1, Joined, InJoined
  <2>3. Contains(a \o (q \o t), "-") /\ ~Contains(a \o (q \o t), "=")
    BY <1>2, <1>3, <2>2, InJoined
  <2>4. QED BY <2>3 DEF q
<1>7. s # <<>> BY <1>6 DEF Contains
<1> HIDE DEF s
<1>8. MappingsOf(s) = RangeToTarget(s) BY <1>5, <1>6 DEF MappingsOf
<1>9. RangeToTarget(s) =
        {[i \in 1 .. rt[1][2] - rt[1][1] + 1 |->
            [listen |-> rt[1][1] + i - 1, target |-> rt[2]]] :
         rt \in ParseRange(a) \X {T(q) : q \in Port(e.port)}}
  BY <1>1, <1>5 DEF RangeToTarget, Spread, RangeTarget
<1>10. /\ Sound(e) => Within(e.lo, e.hi) /\ Port(e.port) = {e.port}
       /\ ~Sound(e) => ~Within(e.lo, e.hi) \/ Port(e.port) = {}
  <2>1. Sound(e) <=> Within(e.lo, e.hi) /\ e.port \in 1..MaxPort
    <3>1. Within(e.lo, e.hi) <=> 1 <= e.lo /\ e.hi <= MaxPort /\ e.lo <= e.hi
      BY DEF Within
    <3>2. QED BY <3>1 DEF Sound
  <2>2. Port(e.port) = IF e.port \in 1..MaxPort THEN {e.port} ELSE {}
    BY <1>1, PortCases
  <2>3. QED BY <2>1, <2>2
<1>11. Meant(e) = [i \in 1 .. e.hi - e.lo + 1 |->
                     [listen |-> e.lo + i - 1, target |-> T(e.port)]]
  BY <1>1 DEF Meant, Host
<1>12. CASE Sound(e)
  <2>1. Port(e.port) = {e.port} /\ ParseRange(a) = {<<e.lo, e.hi>>}
    BY <1>2, <1>10, <1>12
  <2> DEFINE X == ParseRange(a) \X {T(q) : q \in Port(e.port)}
             U == T(e.port)
  <2>4. {T(q) : q \in Port(e.port)} = {U} BY <2>1
  <2> HIDE DEF U
  <2>5. X = {<<<<e.lo, e.hi>>, U>>} BY <2>1, <2>4
  <2> HIDE DEF X
  <2>6. RangeToTarget(s) =
          {[i \in 1 .. rt[1][2] - rt[1][1] + 1 |->
              [listen |-> rt[1][1] + i - 1, target |-> rt[2]]] : rt \in X}
    BY <1>9 DEF X
  <2>7. RangeToTarget(s) =
          {[i \in 1 .. e.hi - e.lo + 1 |->
              [listen |-> e.lo + i - 1, target |-> U]]}
    BY <2>5, <2>6
  <2>2. RangeToTarget(s) = {Meant(e)} BY <1>11, <2>7 DEF U
  <2>3. QED BY <1>4, <1>7, <1>8, <1>12, <2>2
<1>13. CASE ~Sound(e)
  <2>1. ParseRange(a) = {} \/ Port(e.port) = {} BY <1>2, <1>10, <1>13
  <2>2. RangeToTarget(s) = {} BY <1>9, <2>1
  <2>3. QED BY <1>4, <1>7, <1>8, <1>13, <2>2
<1>14. QED BY <1>12, <1>13

\* An entry in any of its forms.
LEMMA EntryAsMeant ==
  ASSUME NEW e, Sensible(e)
  PROVE  /\ Written(e) # <<>>
         /\ MappingsOf(Written(e)) = IF Sound(e) THEN {Meant(e)} ELSE {}
PROOF
  BY PortAloneAsMeant, RangeAloneAsMeant, PortToTargetAsMeant, RangeToTargetAsMeant

\* All entries.
LEMMA AllAsMeant ==
  ASSUME NEW es, es \in Seq(ToSet(es)), \A i \in DOMAIN es : Sensible(es[i])
  PROVE  ParseMappings([i \in DOMAIN es |-> Written(es[i])]) =
           IF es # <<>> /\ \A i \in DOMAIN es : Sound(es[i])
           THEN {FlattenSeq([i \in DOMAIN es |-> Meant(es[i])])} ELSE {}
PROOF
<1> DEFINE D == DOMAIN es
           items == [i \in D |-> Written(es[i])]
           all == [i \in DOMAIN items |->
                     IF items[i] = <<>> THEN {<<>>} ELSE MappingsOf(items[i])]
           F == [i \in DOMAIN all |-> CHOOSE m \in all[i] : TRUE]
           G == [i \in D |-> Meant(es[i])]
<1>1. ParseMappings(items) =
        IF (\A i \in DOMAIN all : items[i] = <<>>) \/ (\E i \in DOMAIN all : all[i] = {})
        THEN {} ELSE {FlattenSeq(F)}
  BY DEF ParseMappings
<1>2. DOMAIN items = D /\ DOMAIN all = D OBVIOUS
<1>3. \A i \in D : items[i] # <<>> BY EntryAsMeant
<1>4. \A i \in D : all[i] = IF Sound(es[i]) THEN {Meant(es[i])} ELSE {}
  BY EntryAsMeant
<1>5. es = <<>> <=> D = {}
  <2>1. D = 1..Len(es) /\ Len(es) \in Nat BY LenProperties
  <2>2. es = <<>> <=> Len(es) = 0 BY EmptySeq
  <2> DEFINE n == Len(es)
  <2>3. n \in Nat /\ D = 1..n /\ (es = <<>> <=> n = 0) BY <2>1, <2>2
  <2> HIDE DEF D, n
  <2>4. n = 0 => D = {} BY <2>3
  <2>5. n # 0 => 1 \in D BY <2>3
  <2>6. QED BY <2>3, <2>4, <2>5
<1> HIDE DEF items, all
<1>6. (\A i \in D : Sound(es[i])) => F = G
  <2>1. SUFFICES ASSUME \A i \in D : Sound(es[i]) PROVE F = G OBVIOUS
  <2>2. \A i \in D : all[i] = {Meant(es[i])} BY <1>4, <2>1
  <2>3. \A i \in D : (CHOOSE m \in all[i] : TRUE) = Meant(es[i]) BY <2>2
  <2>4. QED BY <1>2, <2>3
<1> HIDE DEF F, G, D
<1>7. (\E i \in D : all[i] = {}) <=> ~\A i \in D : Sound(es[i])
  BY <1>4
<1>8. QED BY <1>1, <1>2, <1>3, <1>5, <1>6, <1>7 DEF D, items, G

-----------------------------------------------------------------------------
(* The theorems. *)

\* Every step keeps the invariant.
LEMMA StepKeeps == IInv /\ [Next]_vars => IInv'
PROOF
<1> SUFFICES ASSUME IInv, [Next]_vars PROVE IInv'
  OBVIOUS
<1>1. CASE Boot \/ (\E s \in Sources : Send(s)) \/ Receive \/ ReceiveFails \/ AcquireFails
  BY <1>1, BootMovesCover, BootKeeps DEF IInv
<1>2. CASE WriteFrame
  BY <1>2, WriteKeeps
<1>3. CASE \E b \in Backends : Acquire(b)
  BY <1>3, AcquireKeeps
<1>4. CASE \E b \in Backends : Association(b)
  <2>1. PICK b \in Backends : Association(b)
    BY <1>4
  <2>2. QED
    BY <2>1, ReaderRepliesKeeps, ReaderEndsKeeps, ReaderDeletesKeeps, RelayKeeps DEF Association
<1>5. CASE UNCHANGED vars
  BY <1>5 DEF vars, bootVars, backendVars, IInv, TypeOK, Owned, Phase, Carried
<1>6. QED BY <1>1, <1>2, <1>3, <1>4, <1>5 DEF Next, Serve

\* Every reachable state is well typed, for every configuration.
THEOREM TypeCorrect == Spec => []TypeOK
PROOF
<1>1. Init => IInv
  BY InitIInv
<1>2. IInv /\ [Next]_vars => IInv'
  BY StepKeeps
<1>3. IInv => TypeOK
  BY DEF IInv
<1>4. QED BY <1>1, <1>2, <1>3, PTL DEF Spec

\* No backend is leaked and none is used for two sources, however the loop, the
\* goroutines that remove entries by their key and the far ends interleave.
THEOREM BackendsSafe == Spec => []BackendsAccounted
PROOF
<1>1. Init => IInv
  BY InitIInv
<1>2. IInv /\ [Next]_vars => IInv'
  BY StepKeeps
<1>3. IInv => BackendsAccounted
  BY IInvAccounts
<1>4. QED BY <1>1, <1>2, <1>3, PTL DEF Spec

\* The configuration stays, and a server that has returned does not come back.
LEMMA BootStays ==
  [Next]_vars => /\ UNCHANGED <<setup, mappings>>
                 /\ boot.pc = "returned" => boot' = boot
PROOF
<1>1. SUFFICES ASSUME [Next]_vars
               PROVE  /\ UNCHANGED <<setup, mappings>>
                      /\ boot.pc = "returned" => boot' = boot
  OBVIOUS
<1>2. CASE Boot
  BY <1>2 DEF Boot, AcceptControl, Listen, ListenDone, WaitEnds, Cancel, bootVars
<1>3. CASE Serve
  BY <1>3 DEF Serve, Receive, ReceiveFails, AcquireFails, WriteFrame, Acquire, bootVars
<1>4. CASE \E s \in Sources : Send(s)
  BY <1>4 DEF Send, bootVars
<1>5. CASE \E b \in Backends : Association(b)
  BY <1>5
  DEF Association, ReaderReplies, ReaderEnds, ReaderDeletes, RelayForward,
      RelayEnds, bootVars
<1>6. CASE UNCHANGED vars BY <1>6 DEF vars, bootVars
<1>7. QED BY <1>1, <1>2, <1>3, <1>4, <1>5, <1>6 DEF Next

\* ParseMappings gives the listeners that the entries mean, for every host, every
\* range of ports and any number of entries, and Run returns if one is wrong.
THEOREM ParsedAsMeant == Spec => []MappingsAsMeant
PROOF
<1>1. Init => MappingsAsMeant
  <2>1. SUFFICES ASSUME Init PROVE MappingsAsMeant OBVIOUS
  <2> DEFINE es == setup.entries
             sound == es # <<>> /\ \A i \in DOMAIN es : Sound(es[i])
             flat == FlattenSeq([i \in DOMAIN es |-> Meant(es[i])])
  <2>2. es \in Seq(ToSet(es)) /\ \A i \in DOMAIN es : Sensible(es[i])
    BY <2>1, SetupsAssumption DEF Init
  <2>3. Parsed = IF sound THEN {flat} ELSE {}
    BY <2>2, AllAsMeant DEF Parsed
  <2>4. /\ mappings \in IF Parsed = {} THEN {<<>>} ELSE Parsed
        /\ boot.pc = IF Parsed = {} THEN "returned" ELSE "listen"
    BY <2>1 DEF Init
  <2>5. MappingsAsMeant <=> IF sound THEN mappings = flat
                            ELSE mappings = <<>> /\ boot.pc = "returned"
    BY DEF MappingsAsMeant
  <2> HIDE DEF sound, flat
  <2>6. QED BY <2>3, <2>4, <2>5
<1>2. MappingsAsMeant /\ [Next]_vars => MappingsAsMeant'
  BY BootStays DEF MappingsAsMeant
<1>3. QED BY <1>1, <1>2, PTL DEF Spec

=============================================================================
