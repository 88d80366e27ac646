------------------------------ MODULE RelayProofs -------------------------------
(***************************************************************************)
(* Theorems about Relay for every set of tunnel kinds, any capacity of the *)
(* tunnel and any amount of data.                                          *)
(***************************************************************************)
EXTENDS Relay, TLAPS

-----------------------------------------------------------------------------
(* The inductive invariant. *)

\* The chunk a copy has read and not written yet.
Held(e, c) == IF copy[e][c] = "write" THEN 1 ELSE 0

\* What is left of what a party sent: with the other party, on its way, or unread.
Flow(e) ==
  got[Other(e)] + Held(Other(e), "in") + tun[e] + Held(e, "out") + rx[e]

Bounded == \A e \in Ends : Flow(e) <= sent[e]

\* Nothing takes data away but what NothingCutOff makes an exception of.
Sure == ~lost /\ ~kind.loss /\ ~expired

\* Then nothing has gone, as long as the receiver is there.
Conserved ==
  \A e \in Ends :
    closed[Other(e)] \/ party[Other(e)] = "gone" \/ sent[e] = Flow(e)

\* Why a copy may be over: its party left and all was read, or the other end closed
\* without all of it; its party does not take the data, or all was delivered.
Left(e) == party[e] # "open" /\ rx[e] = 0

Stuck(e) == closed[Other(e)] /\ got[Other(e)] < sent[e]

Refused(e) == party[e] = "gone" /\ got[e] < sent[Other(e)]

Delivered(e) == closed[Other(e)] /\ tun[Other(e)] = 0

Over(e, c) == copy[e][c] = "over"

OutOver(e) == Over(e, "out") /\ ~Over(e, "in") => Left(e) \/ Stuck(e)

InOver(e) ==
  Over(e, "in") =>
    \/ Refused(e) \/ Delivered(e)
    \/ e \in kind.deadline /\ Over(e, "out") /\ (Left(e) \/ Stuck(e))

\* Why a closed end may have been given less: it closed first, and then its party
\* has left; or the other did, and then lacks data itself, or had no more to give.
Settled(e) ==
  LET o == Other(e) IN
  \/ party[e] = "gone"
  \/ party[e] = "shut" /\ e \in kind.deadline
  \/ closed[o] /\ got[e] = sent[o]
  \/ closed[o] /\ party[o] # "open" /\ got[o] < sent[e]

CloseOver == \A e \in Ends : closed[e] => Over(e, "in") /\ Over(e, "out")

Explained == \A e \in Ends : OutOver(e) /\ InOver(e) /\ (closed[e] => Settled(e))

IInv == TypeOK /\ CloseOver /\ Bounded /\ (Sure => Conserved /\ Explained)

-----------------------------------------------------------------------------
(* Lemmas about the state. *)

\* There are two ends, and two copies at each.
LEMMA TwoEnds ==
  /\ "server" \in Ends /\ "client" \in Ends
  /\ \A e \in Ends : Other(e) \in Ends /\ Other(e) # e /\ Other(Other(e)) = e
  /\ \A e \in Ends, x \in Ends : x # e => x = Other(e)
  /\ "in" \in Copies /\ "out" \in Copies
  /\ \A c \in Copies : c = "in" \/ c = "out"
PROOF
  BY DEF Ends, Other, Copies

\* What the state consists of.
LEMMA Types ==
  ASSUME TypeOK
  PROVE  /\ kind \in Kind /\ MaxChunks \in [Ends -> Nat] /\ TunCap \in Nat \ {0}
         /\ party \in [Ends -> {"open", "shut", "gone"}] /\ room \in [Ends -> BOOLEAN]
         /\ sent \in [Ends -> Nat] /\ \A e \in Ends : sent[e] <= MaxChunks[e]
         /\ tun \in [Ends -> Nat] /\ \A e \in Ends : tun[e] <= TunCap
         /\ rx \in [Ends -> Nat] /\ got \in [Ends -> Nat]
         /\ copy \in [Ends -> [Copies -> {"read", "write", "over"}]]
         /\ closed \in [Ends -> BOOLEAN]
         /\ lost \in BOOLEAN /\ stalled \in BOOLEAN /\ expired \in BOOLEAN
PROOF
  BY RelayAssumption DEF TypeOK

\* And the next state.
LEMMA TypesNext ==
  ASSUME TypeOK'
  PROVE  /\ party' \in [Ends -> {"open", "shut", "gone"}]
         /\ sent' \in [Ends -> Nat] /\ tun' \in [Ends -> Nat]
         /\ rx' \in [Ends -> Nat] /\ got' \in [Ends -> Nat]
         /\ copy' \in [Ends -> [Copies -> {"read", "write", "over"}]]
PROOF
  BY DEF TypeOK

\* A copy holds at most one chunk.
LEMMA HeldNat ==
  \A e \in Ends, c \in Copies : Held(e, c) \in Nat
PROOF
  BY DEF Held

\* A step of a copy changes where that copy is.
LEMMA GoesTo ==
  ASSUME TypeOK, NEW e \in Ends, NEW c \in Copies, NEW to \in {"read", "write", "over"},
         Goes(e, c, to)
  PROVE  /\ copy' \in [Ends -> [Copies -> {"read", "write", "over"}]]
         /\ copy'[e][c] = to
         /\ \A x \in Ends, d \in Copies : x # e \/ d # c => copy'[x][d] = copy[x][d]
PROOF
<1>1. copy' = [copy EXCEPT ![e] = [copy[e] EXCEPT ![c] = to]]
  BY DEF Goes
<1>2. copy[e] \in [Copies -> {"read", "write", "over"}]
  BY Types
<1>3. copy'[e] = [copy[e] EXCEPT ![c] = to]
  BY <1>1, Types
<1>4. \A x \in Ends : x # e => copy'[x] = copy[x]
  BY <1>1, Types
<1>5. [copy[e] EXCEPT ![c] = to] \in [Copies -> {"read", "write", "over"}]
  BY <1>2
<1>6. QED BY <1>1, <1>2, <1>3, <1>4, <1>5, Types

-----------------------------------------------------------------------------
(* Lemmas about the steps. *)

\* What no step takes back.
Onward ==
  /\ kind' = kind
  /\ \A e \in Ends :
       /\ \A c \in Copies : Over(e, c) => Over(e, c)'
       /\ closed[e] => closed'[e]
       /\ party[e] = "gone" => party'[e] = "gone"
       /\ party[e] = "shut" => party'[e] \in {"shut", "gone"}
       /\ Over(e, "in") => got'[e] = got[e]
       /\ sent'[e] >= sent[e]
       /\ closed[e] => sent'[e] = sent[e]
       /\ party[e] # "open" => rx'[e] <= rx[e]
       /\ Over(e, "out") => tun'[e] <= tun[e]

\* What a step does to the data of a party: none appears that it did not send, and
\* none disappears but by loss, or on the way to an end that is closed or whose party
\* has gone.
Carried ==
  \A e \in Ends :
    /\ Flow(e)' + sent[e] <= Flow(e) + sent'[e]
    /\ \/ ~Sure' \/ closed[Other(e)] \/ party[Other(e)] = "gone"
       \/ Flow(e)' + sent[e] = Flow(e) + sent'[e]

\* Every step of the bridge, of a party and of the network is one of these.
Step(e) == Party(e) \/ ChunkLost(e) \/ Bridge(e) \/ TunnelLost \/ TunnelStalls \/ Expires

\* A step that moves no chunk leaves the flow alone.
LEMMA StillCarried ==
  ASSUME TypeOK, TypeOK', UNCHANGED <<sent, rx, tun, got, copy>>
  PROVE  Carried
PROOF
<1>1. \A e \in Ends : Flow(e)' = Flow(e) /\ Flow(e) \in Nat /\ sent'[e] = sent[e]
  <2>1. \A e \in Ends, c \in Copies : Held(e, c)' = Held(e, c)
    BY DEF Held
  <2>2. QED BY <2>1, HeldNat, Types, TwoEnds DEF Flow
<1>2. \A e \in Ends : sent[e] \in Nat
  BY Types
<1>3. QED BY <1>1, <1>2 DEF Carried

\* Every step keeps the types, goes onward and carries data.
LEMMA StepTypes ==
  ASSUME TypeOK, CloseOver, NEW e \in Ends, Step(e)
  PROVE  TypeOK'
PROOF
<1> USE Types, TwoEnds
<1>1. CASE Party(e)
  <2>1. /\ UNCHANGED <<kind, tun, got, copy, closed, lost, stalled, expired>>
        /\ party' \in [Ends -> {"open", "shut", "gone"}] /\ room' \in [Ends -> BOOLEAN]
    BY <1>1 DEF Party, Sends, Leaves, Reads
  <2>2. /\ sent' \in [Ends -> Nat] /\ rx' \in [Ends -> Nat]
        /\ \A x \in Ends : sent'[x] <= MaxChunks[x]
    <3>1. CASE Sends(e)
      <4>1. /\ sent' = [sent EXCEPT ![e] = sent[e] + 1] /\ sent[e] < MaxChunks[e]
            /\ rx' = [rx EXCEPT ![e] = rx[e] + 1]
        BY <3>1 DEF Sends
      <4>2. QED BY <4>1
    <3>2. CASE Leaves(e) \/ Reads(e)
      BY <3>2 DEF Leaves, Reads
    <3>3. QED BY <1>1, <3>1, <3>2 DEF Party
  <2>3. QED BY <2>1, <2>2 DEF TypeOK
<1>2. CASE ChunkLost(e)
  <2>1. /\ tun' = [tun EXCEPT ![e] = tun[e] - 1] /\ tun[e] > 0
        /\ UNCHANGED <<kind, party, room, sent, rx, got, copy, closed, lost, stalled, expired>>
    BY <1>2 DEF ChunkLost
  <2>2. tun' \in [Ends -> Nat] /\ \A x \in Ends : tun'[x] <= TunCap
    BY <2>1
  <2>3. QED BY <2>1, <2>2 DEF TypeOK
<1>3. CASE TunnelLost \/ TunnelStalls \/ Expires
  <2>1. /\ UNCHANGED <<kind, party, room, sent, rx, got, copy, closed>>
        /\ lost' \in BOOLEAN /\ stalled' \in BOOLEAN /\ expired' \in BOOLEAN
        /\ tun' = tun \/ tun' = [x \in Ends |-> 0]
    BY <1>3 DEF TunnelLost, TunnelStalls, Expires
  <2>2. tun' \in [Ends -> Nat] /\ \A x \in Ends : tun'[x] <= TunCap
    BY <2>1
  <2>3. QED BY <2>1, <2>2 DEF TypeOK
<1>4. CASE Bridge(e)
  <2>1. UNCHANGED <<kind, party, sent, lost, stalled, expired>>
    BY <1>4 DEF Bridge, OutReads, OutWrites, OutEnds, InReads, InWrites, InEnds, Close
  <2>2. /\ room' \in [Ends -> BOOLEAN] /\ closed' \in [Ends -> BOOLEAN]
        /\ rx' \in [Ends -> Nat] /\ got' \in [Ends -> Nat]
    <3>1. CASE OutReads(e)
      <4>1. /\ rx' = [rx EXCEPT ![e] = rx[e] - 1] /\ rx[e] > 0
            /\ UNCHANGED <<room, closed, got>>
        BY <3>1 DEF OutReads
      <4>2. QED BY <4>1
    <3>2. CASE InWrites(e)
      <4>1. /\ UNCHANGED <<rx, closed>>
            /\ room' = room \/ room' = [room EXCEPT ![e] = FALSE]
            /\ got' = got \/ got' = [got EXCEPT ![e] = got[e] + 1]
        BY <3>2 DEF InWrites
      <4>2. room' \in [Ends -> BOOLEAN]
        <5>1. room \in [Ends -> BOOLEAN]
          OBVIOUS
        <5>2. CASE room' = [room EXCEPT ![e] = FALSE]
          BY <5>1, <5>2, Zenon
        <5>3. QED BY <4>1, <5>1, <5>2
      <4>3. got' \in [Ends -> Nat]
        BY <4>1
      <4>4. QED BY <4>1, <4>2, <4>3
    <3>3. CASE OutWrites(e) \/ OutEnds(e) \/ InReads(e) \/ InEnds(e) \/ Close(e)
      <4>1. /\ UNCHANGED <<room, rx, got>>
            /\ closed' = closed \/ closed' = [closed EXCEPT ![e] = TRUE]
        BY <3>3 DEF OutWrites, OutEnds, InReads, InEnds, Close
      <4>2. closed' \in [Ends -> BOOLEAN]
        BY <4>1
      <4>3. QED BY <4>1, <4>2
    <3>4. QED BY <1>4, <3>1, <3>2, <3>3 DEF Bridge
  <2>3. tun' \in [Ends -> Nat] /\ \A x \in Ends : tun'[x] <= TunCap
    <3>1. \/ tun' = tun
          \/ tun[e] < TunCap /\ tun' = [tun EXCEPT ![e] = tun[e] + 1]
          \/ tun[Other(e)] > 0 /\ tun' = [tun EXCEPT ![Other(e)] = tun[Other(e)] - 1]
      BY <1>4 DEF Bridge, OutReads, OutWrites, OutEnds, InReads, InWrites, InEnds, Close
    <3>2. CASE tun[e] < TunCap /\ tun' = [tun EXCEPT ![e] = tun[e] + 1]
      BY <3>2
    <3>3. CASE /\ tun[Other(e)] > 0
               /\ tun' = [tun EXCEPT ![Other(e)] = tun[Other(e)] - 1]
      BY <3>3
    <3>4. QED BY <3>1, <3>2, <3>3
  <2>4. copy' \in [Ends -> [Copies -> {"read", "write", "over"}]]
    <3>1. \/ copy' = copy
          \/ \E c \in Copies, to \in {"read", "write", "over"} : Goes(e, c, to)
      BY <1>4 DEF Bridge, OutReads, OutWrites, OutEnds, InReads, InWrites, InEnds, Close
    <3>2. QED BY <3>1, GoesTo
  <2>5. QED BY <2>1, <2>2, <2>3, <2>4 DEF TypeOK
<1>5. QED BY <1>1, <1>2, <1>3, <1>4 DEF Step


LEMMA StepOnward ==
  ASSUME TypeOK, TypeOK', CloseOver, NEW e \in Ends, Step(e)
  PROVE  Onward
PROOF
<1> USE Types, TwoEnds
<1>1. kind' = kind
  BY DEF Step, Party, Sends, Leaves, Reads, ChunkLost, TunnelLost, TunnelStalls,
         Expires, Bridge, OutReads, OutWrites, OutEnds, InReads, InWrites, InEnds, Close
<1>2. CASE Party(e)
  <2>1. UNCHANGED <<tun, got, copy, closed>>
    BY <1>2 DEF Party, Sends, Leaves, Reads
  <2>2. CASE Sends(e)
    <3>1. /\ sent' = [sent EXCEPT ![e] = sent[e] + 1] /\ rx' = [rx EXCEPT ![e] = rx[e] + 1]
          /\ party[e] = "open" /\ ~closed[e] /\ party' = party
      BY <2>2 DEF Sends
    <3>2. \A x \in Ends : sent'[x] >= sent[x] /\ (x # e => sent'[x] = sent[x] /\ rx'[x] = rx[x])
      BY <3>1
    <3>3. QED BY <1>1, <2>1, <3>1, <3>2 DEF Onward, Over
  <2>3. CASE Leaves(e) \/ Reads(e)
    <3>1. /\ sent' = sent /\ rx' = rx
          /\ \/ party' = party
             \/ party[e] = "open" /\ party' = [party EXCEPT ![e] = "shut"]
             \/ party' = [party EXCEPT ![e] = "gone"]
      BY <2>3 DEF Leaves, Reads
    <3>2. \A x \in Ends : /\ party[x] = "gone" => party'[x] = "gone"
                          /\ party[x] = "shut" => party'[x] \in {"shut", "gone"}
      BY <3>1
    <3>3. QED BY <1>1, <2>1, <3>1, <3>2 DEF Onward, Over
  <2>4. QED BY <1>2, <2>2, <2>3 DEF Party
<1>3. CASE ChunkLost(e) \/ TunnelLost \/ TunnelStalls \/ Expires
  <2>1. /\ UNCHANGED <<party, sent, rx, got, copy, closed>>
        /\ \/ tun' = tun \/ tun' = [x \in Ends |-> 0]
           \/ tun' = [tun EXCEPT ![e] = tun[e] - 1]
    BY <1>3 DEF ChunkLost, TunnelLost, TunnelStalls, Expires
  <2>2. \A x \in Ends : tun'[x] <= tun[x]
    BY <2>1
  <2>3. QED BY <1>1, <2>1, <2>2 DEF Onward, Over
<1>4. CASE Bridge(e)
  <2>1. UNCHANGED <<party, sent>>
    BY <1>4 DEF Bridge, OutReads, OutWrites, OutEnds, InReads, InWrites, InEnds, Close
  <2>2. ASSUME NEW x \in Ends PROVE closed[x] => closed'[x]
    <3>1. closed' = closed \/ closed' = [closed EXCEPT ![e] = TRUE]
      BY <1>4 DEF Bridge, OutReads, OutWrites, OutEnds, InReads, InWrites, InEnds, Close
    <3>2. QED BY <3>1
  <2>3. ASSUME NEW x \in Ends PROVE rx'[x] <= rx[x]
    <3>1. rx' = rx \/ rx' = [rx EXCEPT ![e] = rx[e] - 1]
      BY <1>4 DEF Bridge, OutReads, OutWrites, OutEnds, InReads, InWrites, InEnds, Close
    <3>2. QED BY <3>1
  <2>4. ASSUME NEW x \in Ends, Over(x, "in") PROVE got'[x] = got[x]
    <3>1. \/ got' = got
          \/ copy[e]["in"] = "write" /\ got' = [got EXCEPT ![e] = got[e] + 1]
      BY <1>4 DEF Bridge, OutReads, OutWrites, OutEnds, InReads, InWrites, InEnds, Close
    <3>2. QED BY <2>4, <3>1 DEF Over
  <2>5. ASSUME NEW x \in Ends, Over(x, "out") PROVE tun'[x] <= tun[x]
    <3>1. \/ tun' = tun
          \/ copy[e]["out"] = "write" /\ tun' = [tun EXCEPT ![e] = tun[e] + 1]
          \/ tun' = [tun EXCEPT ![Other(e)] = tun[Other(e)] - 1]
      BY <1>4 DEF Bridge, OutReads, OutWrites, OutEnds, InReads, InWrites, InEnds, Close
    <3>2. QED BY <2>5, <3>1 DEF Over
  <2>6. ASSUME NEW x \in Ends, NEW c \in Copies, Over(x, c) PROVE Over(x, c)'
    <3>1. \/ copy' = copy
          \/ \E d \in Copies, to \in {"read", "write", "over"} :
               Goes(e, d, to) /\ copy[e][d] # "over"
      BY <1>4 DEF Bridge, OutReads, OutWrites, OutEnds, InReads, InWrites, InEnds, Close
    <3>2. ASSUME NEW d \in Copies, NEW to \in {"read", "write", "over"},
                 Goes(e, d, to), copy[e][d] # "over"
          PROVE  Over(x, c)'
      <4>1. x # e \/ c # d
        BY <2>6, <3>2 DEF Over
      <4>2. copy'[x][c] = copy[x][c]
        BY <3>2, <4>1, GoesTo
      <4>3. QED BY <2>6, <4>2 DEF Over
    <3>3. QED BY <2>6, <3>1, <3>2 DEF Over
  <2>7. QED BY <1>1, <2>1, <2>2, <2>3, <2>4, <2>5, <2>6 DEF Onward
<1>5. QED BY <1>2, <1>3, <1>4 DEF Step


LEMMA StepCarried ==
  ASSUME TypeOK, TypeOK', CloseOver, NEW e \in Ends, Step(e)
  PROVE  Carried
PROOF
<1> DEFINE o == Other(e)
<1>t. /\ o \in Ends /\ o # e /\ Other(o) = e /\ \A x \in Ends : x = e \/ x = o
      /\ "in" \in Copies /\ "out" \in Copies
  BY TwoEnds
<1>n. \A x \in Ends : /\ got[x] \in Nat /\ rx[x] \in Nat /\ tun[x] \in Nat /\ sent[x] \in Nat
                      /\ Held(x, "in") \in Nat /\ Held(x, "out") \in Nat
                      /\ Held(x, "in")' \in Nat /\ Held(x, "out")' \in Nat
  BY Types, <1>t DEF Held
<1>f. /\ Flow(e) = got[o] + Held(o, "in") + tun[e] + Held(e, "out") + rx[e]
      /\ Flow(o) = got[e] + Held(e, "in") + tun[o] + Held(o, "out") + rx[o]
      /\ Flow(e)' = got'[o] + Held(o, "in")' + tun'[e] + Held(e, "out")' + rx'[e]
      /\ Flow(o)' = got'[e] + Held(e, "in")' + tun'[o] + Held(o, "out")' + rx'[o]
  BY <1>t DEF Flow
\* What is to be shown, of the two directions apart.
<1>g. SUFFICES
        /\ Flow(e)' + sent[e] <= Flow(e) + sent'[e]
        /\ Flow(o)' + sent[o] <= Flow(o) + sent'[o]
        /\ \/ ~Sure' \/ closed[o] \/ party[o] = "gone"
           \/ Flow(e)' + sent[e] = Flow(e) + sent'[e]
        /\ \/ ~Sure' \/ closed[e] \/ party[e] = "gone"
           \/ Flow(o)' + sent[o] = Flow(o) + sent'[o]
  BY <1>t DEF Carried
\* A step of a copy of this end changes what that copy holds, and no other.
<1>h. ASSUME NEW c \in Copies, NEW to \in {"read", "write", "over"}, Goes(e, c, to)
      PROVE  /\ Held(e, c)' = IF to = "write" THEN 1 ELSE 0
             /\ \A x \in Ends, d \in Copies : x # e \/ d # c => Held(x, d)' = Held(x, d)
  BY <1>h, GoesTo DEF Held
<1>1. CASE Sends(e)
  <2>1. /\ sent' = [sent EXCEPT ![e] = sent[e] + 1] /\ rx' = [rx EXCEPT ![e] = rx[e] + 1]
        /\ UNCHANGED <<tun, got, copy>>
    BY <1>1 DEF Sends
  <2>2. /\ sent'[e] = sent[e] + 1 /\ rx'[e] = rx[e] + 1
        /\ sent'[o] = sent[o] /\ rx'[o] = rx[o]
    BY <2>1, <1>t, Types
  <2>3. \A x \in Ends, c \in Copies : Held(x, c)' = Held(x, c)
    BY <2>1 DEF Held
  <2> HIDE DEF o
  <2>4. QED BY <1>t, <1>n, <1>f, <2>1, <2>2, <2>3
<1>2. CASE ChunkLost(e) \/ TunnelLost
  <2>1. /\ UNCHANGED <<sent, rx, got, copy, kind>>
        /\ ~Sure'
        /\ \/ tun' = [tun EXCEPT ![e] = tun[e] - 1] /\ tun[e] > 0
           \/ tun' = [x \in Ends |-> 0]
    BY <1>2 DEF ChunkLost, TunnelLost, Sure
  <2>2. tun'[e] <= tun[e] /\ tun'[o] <= tun[o] /\ tun'[e] \in Nat /\ tun'[o] \in Nat
    BY <2>1, <1>t, Types
  <2>3. \A x \in Ends, c \in Copies : Held(x, c)' = Held(x, c)
    BY <2>1 DEF Held
  <2> HIDE DEF o
  <2>4. QED BY <1>t, <1>n, <1>f, <2>1, <2>2, <2>3
<1>3. CASE Leaves(e) \/ Reads(e) \/ TunnelStalls \/ Expires \/ Close(e)
  <2>1. UNCHANGED <<sent, rx, tun, got, copy>>
    BY <1>3 DEF Leaves, Reads, TunnelStalls, Expires, Close
  <2>2. QED BY <2>1, StillCarried, <1>t DEF Carried
<1>4. CASE OutReads(e)
  <2>1. /\ rx' = [rx EXCEPT ![e] = rx[e] - 1] /\ rx[e] > 0 /\ Goes(e, "out", "write")
        /\ copy[e]["out"] = "read" /\ UNCHANGED <<sent, tun, got>>
    BY <1>4 DEF OutReads
  <2>2. rx'[e] + 1 = rx[e] /\ rx'[e] \in Nat /\ rx'[o] = rx[o]
    BY <2>1, <1>t, Types
  <2>3. /\ Held(e, "out") = 0 /\ Held(e, "out")' = 1
        /\ Held(e, "in")' = Held(e, "in")
        /\ Held(o, "in")' = Held(o, "in") /\ Held(o, "out")' = Held(o, "out")
    BY <2>1, <1>h, <1>t DEF Held
  <2> HIDE DEF o
  <2>4. QED BY <1>t, <1>n, <1>f, <2>1, <2>2, <2>3
<1>5. CASE OutWrites(e) \/ OutEnds(e)
  <2>1. /\ UNCHANGED <<sent, rx, got>>
        /\ \/ /\ ~lost /\ tun' = [tun EXCEPT ![e] = tun[e] + 1] /\ copy[e]["out"] = "write"
           \/ /\ tun' = tun
              /\ copy[e]["out"] = "write" => ~Sure' \/ closed[o]
        /\ \E to \in {"read", "over"} : Goes(e, "out", to)
    BY <1>5 DEF OutWrites, OutEnds, Sure, Unwritable
  <2>2. tun'[o] = tun[o] /\ (tun'[e] = tun[e] + 1 \/ tun'[e] = tun[e])
    BY <2>1, <1>t, Types
  <2>3. /\ Held(e, "out")' = 0
        /\ Held(e, "in")' = Held(e, "in")
        /\ Held(o, "in")' = Held(o, "in") /\ Held(o, "out")' = Held(o, "out")
    BY <2>1, <1>h, <1>t
  <2>4. Held(e, "out") = IF copy[e]["out"] = "write" THEN 1 ELSE 0
    BY DEF Held
  <2>5. \/ tun'[e] = tun[e] + 1 /\ Held(e, "out") = 1
        \/ tun'[e] = tun[e] /\ Held(e, "out") = 0
        \/ tun'[e] = tun[e] /\ Held(e, "out") = 1 /\ (~Sure' \/ closed[o])
    BY <2>1, <2>4, <1>t, Types
  <2> HIDE DEF o
  <2>6. QED BY <1>t, <1>n, <1>f, <2>1, <2>2, <2>3, <2>5
<1>6. CASE InReads(e)
  <2>1. /\ tun' = [tun EXCEPT ![o] = tun[o] - 1] /\ tun[o] > 0 /\ Goes(e, "in", "write")
        /\ copy[e]["in"] = "read" /\ UNCHANGED <<sent, rx, got>>
    BY <1>6 DEF InReads
  <2>2. tun'[o] + 1 = tun[o] /\ tun'[o] \in Nat /\ tun'[e] = tun[e]
    BY <2>1, <1>t, Types
  <2>3. /\ Held(e, "in") = 0 /\ Held(e, "in")' = 1
        /\ Held(e, "out")' = Held(e, "out")
        /\ Held(o, "in")' = Held(o, "in") /\ Held(o, "out")' = Held(o, "out")
    BY <2>1, <1>h, <1>t DEF Held
  <2> HIDE DEF o
  <2>4. QED BY <1>t, <1>n, <1>f, <2>1, <2>2, <2>3
<1>7. CASE InWrites(e) \/ InEnds(e)
  <2>1. /\ UNCHANGED <<sent, rx, tun>>
        /\ \/ got' = [got EXCEPT ![e] = got[e] + 1] /\ copy[e]["in"] = "write"
           \/ got' = got /\ (copy[e]["in"] = "write" => party[e] = "gone")
        /\ \E to \in {"read", "over"} : Goes(e, "in", to)
    BY <1>7 DEF InWrites, InEnds
  <2>2. got'[o] = got[o] /\ (got'[e] = got[e] + 1 \/ got'[e] = got[e])
    BY <2>1, <1>t, Types
  <2>3. /\ Held(e, "in")' = 0
        /\ Held(e, "out")' = Held(e, "out")
        /\ Held(o, "in")' = Held(o, "in") /\ Held(o, "out")' = Held(o, "out")
    BY <2>1, <1>h, <1>t
  <2>4. Held(e, "in") = IF copy[e]["in"] = "write" THEN 1 ELSE 0
    BY DEF Held
  <2>5. \/ got'[e] = got[e] + 1 /\ Held(e, "in") = 1
        \/ got'[e] = got[e] /\ Held(e, "in") = 0
        \/ got'[e] = got[e] /\ Held(e, "in") = 1 /\ party[e] = "gone"
    BY <2>1, <2>4, <1>t, Types
  <2> HIDE DEF o
  <2>6. QED BY <1>t, <1>n, <1>f, <2>1, <2>2, <2>3, <2>5
<1>8. QED
  BY <1>1, <1>2, <1>3, <1>4, <1>5, <1>6, <1>7 DEF Step, Party, Bridge


-----------------------------------------------------------------------------
(* Why copies are over, and ends closed. *)

\* A reason stays one.
LEMMA ReasonsStay ==
  ASSUME TypeOK, TypeOK', CloseOver, Onward, NEW e \in Ends
  PROVE  /\ Left(e) => Left(e)'
         /\ Stuck(e) => Stuck(e)'
         /\ Over(e, "in") /\ Refused(e) => Refused(e)'
         /\ Delivered(e) => Delivered(e)'
         /\ closed[e] /\ Settled(e) => Settled(e)'
PROOF
<1> DEFINE o == Other(e)
<1>1. o \in Ends /\ "in" \in Copies /\ "out" \in Copies
  BY TwoEnds
<1>2. ASSUME NEW x \in Ends
      PROVE  /\ party[x] \in {"open", "shut", "gone"}
             /\ party[x] = "gone" => party'[x] = "gone"
             /\ party[x] = "shut" => party'[x] \in {"shut", "gone"}
             /\ Over(x, "in") => got'[x] = got[x]
             /\ sent'[x] >= sent[x] /\ (closed[x] => sent'[x] = sent[x])
             /\ party[x] # "open" => rx'[x] <= rx[x]
             /\ closed[x] => closed'[x] /\ got'[x] = got[x] /\ tun'[x] <= tun[x]
             /\ got[x] \in Nat /\ sent[x] \in Nat /\ sent'[x] \in Nat
             /\ rx[x] \in Nat /\ rx'[x] \in Nat /\ tun[x] \in Nat /\ tun'[x] \in Nat
  BY <1>1, Types, TypesNext DEF Onward, CloseOver
<1>3. kind' = kind
  BY DEF Onward
<1> HIDE DEF o
<1>4. Left(e) => Left(e)'
  BY <1>2 DEF Left
<1>5. Stuck(e) => Stuck(e)'
  BY <1>1, <1>2 DEF Stuck, o
<1>6. Over(e, "in") /\ Refused(e) => Refused(e)'
  BY <1>1, <1>2 DEF Refused, o
<1>7. Delivered(e) => Delivered(e)'
  BY <1>1, <1>2 DEF Delivered, o
<1>8. closed[e] /\ Settled(e) => Settled(e)'
  BY <1>1, <1>2, <1>3 DEF Settled, o
<1>9. QED BY <1>4, <1>5, <1>6, <1>7, <1>8

\* The end that closes meets one that has not, or whose party has left.
LEMMA CloseSettled ==
  ASSUME IInv, Sure, NEW e \in Ends, Close(e)
  PROVE  Settled(e)
PROOF
<1> DEFINE o == Other(e)
<1>1. /\ o \in Ends /\ Other(o) = e /\ "in" \in Copies /\ "out" \in Copies
  BY TwoEnds
<1>2. ~closed[e] /\ Over(e, "in") /\ Over(e, "out")
  BY <1>1 DEF Close, Over
<1>3. /\ TypeOK /\ Conserved /\ InOver(e) /\ InOver(o)
      /\ closed[o] => Over(o, "in") /\ Over(o, "out")
  BY <1>1 DEF IInv, Explained, CloseOver
<1>4. \A x \in Ends : /\ got[x] \in Nat /\ sent[x] \in Nat /\ rx[x] \in Nat /\ tun[x] \in Nat
                      /\ party[x] \in {"open", "shut", "gone"}
  BY <1>3, Types
\* The other end closed first, as its party had left or refused what came.
<1>5. closed[o] => Refused(o) \/ Left(o)
  BY <1>1, <1>2, <1>3 DEF InOver, Delivered, Stuck
<1>6. CASE Refused(e) \/ (e \in kind.deadline /\ Left(e))
  BY <1>4, <1>6 DEF Refused, Left, Settled
<1>7. CASE Stuck(e)
  BY <1>1, <1>5, <1>7 DEF Stuck, Refused, Left, Settled
<1>8. CASE Delivered(e)
  <2>1. closed[o] /\ tun[o] = 0 /\ Over(o, "out")
    BY <1>3, <1>8 DEF Delivered
  <2>2. CASE Refused(o)
    BY <1>1, <2>1, <2>2 DEF Refused, Settled
  <2>3. CASE Left(o)
    <3>1. Held(e, "in") = 0 /\ Held(o, "out") = 0 /\ rx[o] = 0
      BY <1>2, <2>1, <2>3 DEF Held, Over, Left
    <3>2. Flow(o) = got[e]
      BY <1>1, <1>4, <2>1, <3>1 DEF Flow
    <3>3. party[e] = "gone" \/ sent[o] = got[e]
      BY <1>1, <1>2, <1>3, <3>2 DEF Conserved
    <3>4. QED BY <2>1, <3>3 DEF Settled
  <2>4. QED BY <1>5, <2>1, <2>2, <2>3
<1>9. QED BY <1>2, <1>3, <1>6, <1>7, <1>8 DEF InOver

\* A copy ends, and an end closes, for one of the reasons.
LEMMA StepExplained ==
  ASSUME IInv, Sure, TypeOK', Onward, NEW e \in Ends, Step(e)
  PROVE  Explained'
PROOF
<1>t. /\ "in" \in Copies /\ "out" \in Copies /\ \A x \in Ends : Other(x) \in Ends
      /\ TypeOK /\ CloseOver
  BY TwoEnds DEF IInv
<1>1. \A x \in Ends : /\ OutOver(x) /\ InOver(x)
                      /\ closed[x] => Settled(x) /\ Over(x, "in") /\ Over(x, "out")
                      /\ Over(x, "in") => Over(x, "in")'
                      /\ Over(x, "out") => Over(x, "out")'
  BY <1>t DEF IInv, Explained, CloseOver, Onward
<1>2. /\ kind' = kind
      /\ \A x \in Ends :
           /\ Left(x) => Left(x)'
           /\ Stuck(x) => Stuck(x)'
           /\ Over(x, "in") /\ Refused(x) => Refused(x)'
           /\ Delivered(x) => Delivered(x)'
           /\ closed[x] /\ Settled(x) => Settled(x)'
  BY <1>t, ReasonsStay DEF Onward
\* What was over has its reason still.
<1>3. ASSUME NEW x \in Ends, Over(x, "out") PROVE OutOver(x)'
  BY <1>1, <1>2, <1>3 DEF OutOver
<1>4. ASSUME NEW x \in Ends, Over(x, "in") PROVE InOver(x)'
  BY <1>1, <1>2, <1>4 DEF InOver
<1>5. CASE OutEnds(e)
  <2>1. Goes(e, "out", "over") /\ UNCHANGED <<party, rx, sent, got, closed>>
    BY <1>5 DEF OutEnds
  <2>2. \A x \in Ends : /\ Over(x, "in")' <=> Over(x, "in")
                        /\ x # e => (Over(x, "out")' <=> Over(x, "out"))
    BY <2>1, <1>t, GoesTo DEF Over
  <2>3. ~Over(e, "in") => Left(e) \/ Stuck(e)
    <3>1. Woken(e, "out") => Over(e, "in")
      BY TwoEnds DEF Woken, Over
    <3>2. CASE copy[e]["out"] = "write" /\ Unwritable(e)
      <4>1. closed[Other(e)]
        BY <3>2 DEF Unwritable, Sure
      <4>2. Held(e, "out") = 1 /\ Flow(e) <= sent[e]
        BY <3>2 DEF Held, IInv, Bounded
      <4>3. got[Other(e)] < sent[e]
        BY <4>2, <1>t, HeldNat, Types DEF Flow
      <4>4. QED BY <4>1, <4>3 DEF Stuck
    <3>3. QED BY <1>5, <3>1, <3>2 DEF OutEnds, Left
  <2>4. ASSUME NEW x \in Ends PROVE OutOver(x)'
    BY <1>2, <1>3, <2>2, <2>3 DEF OutOver
  <2>5. ASSUME NEW x \in Ends PROVE InOver(x)'
    BY <1>4, <2>2 DEF InOver
  <2>6. \A x \in Ends : closed'[x] => Settled(x)'
    BY <1>1, <1>2, <2>1
  <2>7. QED BY <2>4, <2>5, <2>6 DEF Explained
<1>6. CASE InEnds(e)
  <2>1. Goes(e, "in", "over") /\ UNCHANGED <<party, tun, sent, got, closed>>
    BY <1>6 DEF InEnds
  <2>2. \A x \in Ends : /\ Over(x, "out")' <=> Over(x, "out")
                        /\ x # e => (Over(x, "in")' <=> Over(x, "in"))
    BY <2>1, <1>t, GoesTo DEF Over
  <2>3. ~Over(e, "in")
    BY <1>6 DEF InEnds, Over
  <2>4. \/ Refused(e) /\ Refused(e)'
        \/ Delivered(e)
        \/ e \in kind.deadline /\ Over(e, "out") /\ (Left(e) \/ Stuck(e))
    <3>1. CASE copy[e]["in"] = "write" /\ party[e] = "gone"
      <4>1. Held(e, "in") = 1 /\ Flow(Other(e)) <= sent[Other(e)]
        BY <3>1, <1>t DEF Held, IInv, Bounded
      <4>2. got[e] < sent[Other(e)]
        BY <4>1, <1>t, HeldNat, Types, TwoEnds DEF Flow
      <4>3. QED BY <2>1, <3>1, <4>2 DEF Refused
    <3>2. CASE Woken(e, "in")
      <4>1. e \in kind.deadline /\ Over(e, "out")
        BY <3>2, TwoEnds DEF Woken, Over
      <4>2. QED BY <1>1, <2>3, <4>1 DEF OutOver
    <3>3. CASE AtEnd(e)
      BY <3>3 DEF AtEnd, Drained, Delivered, Sure
    <3>4. QED BY <1>6, <3>1, <3>2, <3>3 DEF InEnds, Sure
  <2>5. InOver(e)'
    BY <1>2, <2>2, <2>4 DEF InOver
  <2>6. ASSUME NEW x \in Ends PROVE InOver(x)'
    BY <1>4, <2>2, <2>5 DEF InOver
  <2>7. ASSUME NEW x \in Ends PROVE OutOver(x)'
    BY <1>3, <2>2 DEF OutOver
  <2>8. \A x \in Ends : closed'[x] => Settled(x)'
    BY <1>1, <1>2, <2>1
  <2>9. QED BY <2>6, <2>7, <2>8 DEF Explained
<1>7. CASE ~OutEnds(e) /\ ~InEnds(e)
  <2>1. \A x \in Ends, c \in Copies : Over(x, c)' => Over(x, c)
    <3>1. \/ copy' = copy
          \/ \E c \in Copies, to \in {"read", "write"} : Goes(e, c, to)
      BY <1>7, <1>t DEF Step, Party, Sends, Leaves, Reads, ChunkLost, TunnelLost,
         TunnelStalls, Expires, Bridge, OutReads, OutWrites, InReads, InWrites, Close
    <3>2. ASSUME NEW c \in Copies, NEW to \in {"read", "write"}, Goes(e, c, to),
                 NEW x \in Ends, NEW d \in Copies, Over(x, d)'
          PROVE  Over(x, d)
      <4>1. copy'[e][c] = to
        BY <3>2, <1>t, GoesTo
      <4>2. x # e \/ d # c
        BY <3>2, <4>1 DEF Over
      <4>3. copy'[x][d] = copy[x][d]
        BY <3>2, <4>2, <1>t, GoesTo
      <4>4. QED BY <3>2, <4>3 DEF Over
    <3>3. QED BY <3>1, <3>2 DEF Over
  <2>2. ASSUME NEW x \in Ends PROVE OutOver(x)' /\ InOver(x)'
    BY <1>3, <1>4, <2>1, <1>t DEF OutOver, InOver
  <2>3. ASSUME NEW x \in Ends, closed'[x] PROVE Settled(x)'
    <3>1. CASE closed[x]
      BY <1>1, <1>2, <3>1
    <3>2. CASE ~closed[x]
      <4>1. x = e /\ Close(e)
        BY <1>7, <2>3, <3>2, <1>t, Types DEF Step, Party, Sends, Leaves, Reads, ChunkLost,
           TunnelLost, TunnelStalls, Expires, Bridge, OutReads, OutWrites, InReads,
           InWrites, Close
      <4>2. Settled(e)
        BY <4>1, CloseSettled
      <4>3. /\ UNCHANGED <<kind, party, sent, got>>
            /\ \A y \in Ends : closed[y] => closed'[y]
        BY <4>1 DEF Close, Onward
      <4>4. QED BY <4>1, <4>2, <4>3, <1>t DEF Settled
    <3>3. QED BY <3>1, <3>2
  <2>4. QED BY <2>2, <2>3 DEF Explained
<1>8. QED BY <1>5, <1>6, <1>7

-----------------------------------------------------------------------------
(* The theorems. *)

\* A relay starts with nothing on its way.
LEMMA InitIInv == Init => IInv
PROOF
<1> SUFFICES ASSUME Init PROVE IInv
  OBVIOUS
<1> USE RelayAssumption, TwoEnds
<1>1. TypeOK
  <2>1. {sent, rx, tun, got} \subseteq [Ends -> Nat]
    BY DEF Init
  <2>2. copy \in [Ends -> [Copies -> {"read", "write", "over"}]]
    BY DEF Init
  <2>3. \A e \in Ends : sent[e] <= MaxChunks[e] /\ tun[e] <= TunCap
    BY DEF Init
  <2>4. QED BY <2>1, <2>2, <2>3 DEF Init, TypeOK
<1>2. CloseOver
  BY DEF Init, CloseOver
<1>3. \A e \in Ends : Flow(e) = 0 /\ sent[e] = 0
  <2>1. \A e \in Ends, c \in Copies : Held(e, c) = 0
    BY DEF Init, Held
  <2>2. QED BY <2>1 DEF Init, Flow
<1>4. Bounded /\ Conserved
  BY <1>3 DEF Bounded, Conserved
<1>5. Explained
  BY DEF Init, Explained, OutOver, InOver, Over
<1>6. QED BY <1>1, <1>2, <1>4, <1>5 DEF IInv

\* Every step keeps the invariant.
LEMMA StepKeeps == IInv /\ [Next]_vars => IInv'
PROOF
<1> SUFFICES ASSUME IInv, [Next]_vars PROVE IInv'
  OBVIOUS
<1>1. CASE UNCHANGED vars
  <2>1. TypeOK' /\ CloseOver'
    BY <1>1 DEF IInv, vars, TypeOK, CloseOver, Over
  <2>2. (Bounded => Bounded') /\ (Conserved => Conserved') /\ (Sure' => Sure)
    BY <1>1 DEF vars, Bounded, Conserved, Flow, Held, Sure
  <2>3. Explained => Explained'
    BY <1>1 DEF vars, Explained, OutOver, InOver, Settled, Left, Stuck, Refused,
                Delivered, Over
  <2>4. QED BY <2>1, <2>2, <2>3 DEF IInv
<1>2. ASSUME NEW e \in Ends, Step(e) PROVE IInv'
  <2>1. TypeOK' /\ Onward /\ Carried
    BY <1>2, StepTypes, StepOnward, StepCarried DEF IInv
  <2>2. Sure' => Sure
    BY <1>2 DEF Sure, Step, Party, Sends, Leaves, Reads, ChunkLost, TunnelLost,
         TunnelStalls, Expires, Bridge, OutReads, OutWrites, OutEnds, InReads, InWrites,
         InEnds, Close
  <2>3. CloseOver'
    <3>1. \A x \in Ends : closed'[x] => closed[x] \/ (x = e /\ Close(e))
      BY <1>2, Types DEF IInv, Step, Party, Sends, Leaves, Reads, ChunkLost, TunnelLost,
         TunnelStalls, Expires, Bridge, OutReads, OutWrites, OutEnds, InReads, InWrites,
         InEnds, Close
    <3>2. Close(e) => Over(e, "in") /\ Over(e, "out")
      BY TwoEnds DEF Close, Over
    <3>3. QED BY <2>1, <3>1, <3>2, TwoEnds DEF IInv, CloseOver, Onward
  <2>4. \A x \in Ends : /\ Flow(x) \in Nat /\ Flow(x)' \in Nat
                        /\ sent[x] \in Nat /\ sent'[x] \in Nat
    <3>1. \A x \in Ends, c \in Copies : Held(x, c) \in Nat /\ Held(x, c)' \in Nat
      BY DEF Held
    <3>2. QED BY <2>1, <3>1, Types, TypesNext, TwoEnds DEF IInv, Flow
  <2>5. Bounded'
    BY <2>1, <2>4 DEF IInv, Bounded, Carried
  <2>6. Sure' => Conserved'
    BY <2>1, <2>2, <2>4, TwoEnds DEF IInv, Conserved, Carried, Onward
  <2>7. Sure' => Explained'
    BY <1>2, <2>1, <2>2, StepExplained
  <2>8. QED BY <2>1, <2>3, <2>5, <2>6, <2>7 DEF IInv
<1>3. QED
  BY <1>1, <1>2, TwoEnds DEF Next, Step

\* The reasons an end has for closing are the exceptions of the property.
LEMMA IInvNothingCutOff == IInv => NothingCutOff
PROOF
<1> SUFFICES ASSUME IInv, NEW e \in Ends, closed[e], got[e] < sent[Other(e)]
             PROVE  \/ lost \/ kind.loss \/ expired
                    \/ party[e] = "gone"
                    \/ party[e] = "shut" /\ e \in kind.deadline
                    \/ party[Other(e)] # "open" /\ got[Other(e)] < sent[e]
  BY DEF NothingCutOff
<1>1. Sure => Settled(e)
  BY DEF IInv, Explained
<1>2. got[e] \in Nat /\ sent[Other(e)] \in Nat
  BY Types, TwoEnds DEF IInv
<1>3. QED BY <1>1, <1>2 DEF Sure, Settled

\* Every reachable state of a relay is well typed.
THEOREM TypeCorrect == Spec => []TypeOK
PROOF
<1>1. Init => IInv
  BY InitIInv
<1>2. IInv /\ [Next]_vars => IInv'
  BY StepKeeps
<1>3. IInv => TypeOK
  BY DEF IInv
<1>4. QED BY <1>1, <1>2, <1>3, PTL DEF Spec

\* A party whose bridge has closed was given all that the other sent, but for the
\* exceptions stated, whatever kind the tunnel is of: no write that waits, and no
\* deadline that meets one, takes more.
THEOREM NothingLost == Spec => []NothingCutOff
PROOF
<1>1. Init => IInv
  BY InitIInv
<1>2. IInv /\ [Next]_vars => IInv'
  BY StepKeeps
<1>3. IInv => NothingCutOff
  BY IInvNothingCutOff
<1>4. QED BY <1>1, <1>2, <1>3, PTL DEF Spec

=============================================================================
