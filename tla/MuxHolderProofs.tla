---------------------------- MODULE MuxHolderProofs ----------------------------
(***************************************************************************)
(* Proofs about MuxHolder: the index and the list stay well formed, the    *)
(* list holds the sessions it should, and nextSession goes round.          *)
(***************************************************************************)
EXTENDS MuxHolder, SequenceTheorems, SetInduction

-----------------------------------------------------------------------------
(* What Remove keeps. *)

\* out after the first n elements of q.
Step(q, V, out, n) ==
  IF n = 0 THEN <<>>
  ELSE IF q[n] \in V THEN Append(out[n - 1], q[n]) ELSE out[n - 1]

\* The loop of Filter defines a function.
LEMMA FilterLoop ==
  ASSUME NEW q, NEW V
  PROVE  \A n \in Nat : \E out : out = [i \in 0..n |-> Step(q, V, out, i)]
PROOF
<1> DEFINE T == {n \in Nat : \E out : out = [i \in 0..n |-> Step(q, V, out, i)]}
<1>1. 0 \in T
  <2> DEFINE out == [i \in 0..0 |-> <<>>]
  <2>1. out = [i \in 0..0 |-> Step(q, V, out, i)] BY DEF Step
  <2>2. QED BY <2>1
<1>2. ASSUME NEW n \in Nat, n \in T PROVE n + 1 \in T
  <2>1. PICK f : f = [i \in 0..n |-> Step(q, V, f, i)] BY <1>2
  <2> DEFINE g == [i \in 0..(n + 1) |-> IF i <= n THEN f[i] ELSE Step(q, V, f, i)]
  <2>2. \A i \in 0..n : g[i] = f[i] /\ f[i] = Step(q, V, f, i) BY <2>1
  <2>3. ASSUME NEW i \in 0..(n + 1) PROVE g[i] = Step(q, V, g, i)
    <3>1. g[i] = Step(q, V, f, i)
      <4>1. CASE i \in 0..n BY <2>2, <4>1
      <4>2. CASE i = n + 1 BY <4>2
      <4>3. QED BY <4>1, <4>2
    <3>2. i = 0 \/ (i - 1 \in 0..n /\ g[i - 1] = f[i - 1]) BY <2>2
    <3>3. QED BY <3>1, <3>2 DEF Step
  <2>4. g = [i \in 0..(n + 1) |-> g[i]] OBVIOUS
  <2> HIDE DEF g
  <2>5. g = [i \in 0..(n + 1) |-> Step(q, V, g, i)] BY <2>3, <2>4
  <2>6. QED BY <2>5
<1>3. Nat \subseteq T
  <2> HIDE DEF T
  <2>1. QED BY <1>1, <1>2, SetInduction
<1>4. QED BY <1>3

\* Filter takes the elements of V, in particular once if they are there once.
LEMMA FilterProperties ==
  ASSUME NEW S, NEW q \in Seq(S), NEW V,
         \A i, j \in 1..Len(q) : q[i] = q[j] => i = j
  PROVE  /\ Filter(q, V) \in Seq(S)
         /\ \A i, j \in 1..Len(Filter(q, V)) :
              Filter(q, V)[i] = Filter(q, V)[j] => i = j
         /\ \A x : (\E i \in 1..Len(Filter(q, V)) : x = Filter(q, V)[i])
                     <=> x \in V /\ \E i \in 1..Len(q) : x = q[i]
PROOF
<1>1. Len(q) \in Nat BY LenProperties
<1> DEFINE out == CHOOSE f : f = [i \in 0..Len(q) |-> Step(q, V, f, i)]
<1>2. Filter(q, V) = out[Len(q)] BY DEF Filter, Step
<1>3. out = [i \in 0..Len(q) |-> Step(q, V, out, i)] BY <1>1, FilterLoop
<1> HIDE DEF out
<1> DEFINE Good(t, n) ==
             /\ t \in Seq(S)
             /\ \A i, j \in 1..Len(t) : t[i] = t[j] => i = j
             /\ \A x : (\E i \in 1..Len(t) : x = t[i])
                         <=> x \in V /\ \E i \in 1..n : x = q[i]
           T == {n \in Nat : n <= Len(q) => Good(out[n], n)}
<1>4. 0 \in T
  <2>1. out[0] = <<>> BY <1>1, <1>3 DEF Step
  <2>2. Good(<<>>, 0) BY EmptySeq
  <2> HIDE DEF Good
  <2>3. QED BY <2>1, <2>2
<1>5. ASSUME NEW n \in Nat, n \in T PROVE n + 1 \in T
  <2> SUFFICES ASSUME n + 1 <= Len(q) PROVE Good(out[n + 1], n + 1) OBVIOUS
  <2>1. n + 1 \in 0..Len(q) /\ n + 1 # 0 /\ (n + 1) - 1 = n /\ n + 1 \in 1..Len(q)
    BY <1>1
  <2> DEFINE t == out[n]
             x == q[n + 1]
  <2>2. x \in S BY <2>1, ElementOfSeq
  <2>3. out[n + 1] = IF x \in V THEN Append(t, x) ELSE t BY <1>3, <2>1 DEF Step
  <2>4. Good(t, n) BY <1>1, <1>5
  <2>5. ~\E i \in 1..n : x = q[i] BY <1>1, <2>1
  <2>6. \A y : (\E i \in 1..(n + 1) : y = q[i])
                 <=> (\E i \in 1..n : y = q[i]) \/ y = x
    BY <2>1
  <2> HIDE DEF t, x
  <2>7. CASE x \in V
    <3> DEFINE u == Append(t, x)
    <3>1. /\ t \in Seq(S) /\ Len(t) \in Nat /\ u \in Seq(S) /\ Len(u) = Len(t) + 1
          /\ u[Len(t) + 1] = x
          /\ \A i \in 1..Len(t) : u[i] = t[i]
          /\ \A i \in 1..Len(u) : i \in 1..Len(t) \/ i = Len(t) + 1
      BY <2>2, <2>4, AppendProperties, LenProperties
    <3> HIDE DEF u
    <3>2. \A i \in 1..Len(t) : t[i] # x BY <2>4, <2>5
    <3>3. ASSUME NEW i \in 1..Len(u), NEW j \in 1..Len(u), u[i] = u[j] PROVE i = j
      <4>1. CASE i \in 1..Len(t) /\ j \in 1..Len(t) BY <2>4, <3>1, <3>3, <4>1
      <4>2. CASE i = Len(t) + 1 \/ j = Len(t) + 1 BY <3>1, <3>2, <3>3, <4>2
      <4>3. QED BY <3>1, <4>1, <4>2
    <3>4. ASSUME NEW y
          PROVE  (\E i \in 1..Len(u) : y = u[i])
                   <=> y \in V /\ \E i \in 1..(n + 1) : y = q[i]
      <4>1. (\E i \in 1..Len(u) : y = u[i])
              <=> (\E i \in 1..Len(t) : y = t[i]) \/ y = x
        <5>1. 1..Len(t) \subseteq 1..Len(u) /\ Len(t) + 1 \in 1..Len(u) BY <3>1
        <5>2. QED BY <3>1, <5>1
      <4>2. (\E i \in 1..Len(t) : y = t[i]) <=> y \in V /\ \E i \in 1..n : y = q[i]
        BY <2>4
      <4>3. QED BY <2>6, <2>7, <4>1, <4>2
    <3>5. Good(u, n + 1) BY <3>1, <3>3, <3>4
    <3> HIDE DEF Good
    <3>6. QED BY <2>3, <2>7, <3>5 DEF u
  <2>8. CASE x \notin V
    <3>1. Good(t, n + 1) BY <2>4, <2>6, <2>8
    <3>2. QED BY <2>3, <2>8, <3>1
  <2>9. QED BY <2>7, <2>8
<1>6. Len(q) \in T
  <2> HIDE DEF T
  <2>1. QED BY <1>1, <1>4, <1>5, SetInduction
<1>7. QED BY <1>1, <1>2, <1>6

-----------------------------------------------------------------------------
(***************************************************************************)
(* The inductive invariant.                                                *)
(***************************************************************************)

\* The list has a session once, and only those whose watcher has still to run; it
\* has every open one that was listed, for what a request removes has closed, or
\* its client has.
ListInv ==
  /\ \A i, j \in 1..Len(sessions) : sessions[i] = sessions[j] => i = j
  /\ \A c \in Listed : srv[c] = "listed"
  /\ \A c \in Conns : srv[c] = "listed" /\ ~closed[c] /\ cl[c] => c \in Listed

\* How many places of the list nextSession looks at before place p.
Ahead(p) == IF p > next THEN p - 1 - next ELSE p - 1 - next + Len(sessions)

\* An open session is passed over at most once for each place it is not ahead of.
TurnInv ==
  \A p \in 1..Len(sessions) :
    ~closed[sessions[p]] => turns[sessions[p]] + Ahead(p) < Len(sessions)

IInv == TypeOK /\ ListInv /\ TurnInv

\* Places of the list.
LEMMA ListTypes ==
  ASSUME TypeOK
  PROVE  /\ Len(sessions) \in Nat /\ DOMAIN sessions = 1..Len(sessions)
         /\ \A p \in 1..Len(sessions) : sessions[p] \in Conns /\ sessions[p] \in Listed
         /\ \A c \in Listed : c \in Conns /\ \E p \in 1..Len(sessions) : c = sessions[p]
PROOF
<1>1. Len(sessions) \in Nat /\ DOMAIN sessions = 1..Len(sessions)
  BY LenProperties DEF TypeOK
<1>2. \A p \in 1..Len(sessions) : sessions[p] \in Conns BY ElementOfSeq DEF TypeOK
<1>3. QED BY <1>1, <1>2 DEF Listed

\* The place nextSession looks at, and the index after it.
LEMMA Places ==
  ASSUME TypeOK, NEW i \in next .. next + Len(sessions) - 1
  PROVE  LET p == IF i < Len(sessions) THEN i + 1 ELSE i - Len(sessions) + 1 IN
         /\ p \in 1..Len(sessions) /\ At(i) = sessions[p]
         /\ AfterChosen(i) = IF p = Len(sessions) THEN 0 ELSE p
         /\ i = next + Ahead(p)
PROOF
<1> DEFINE L == Len(sessions)
           p == IF i < L THEN i + 1 ELSE i - L + 1
<1>1. /\ L \in Nat /\ next \in Nat /\ (next > 0 => next < L)
  BY ListTypes DEF TypeOK
<1> HIDE DEF L
<1>2. L \in Nat \ {0} /\ i \in Nat /\ i < L + next /\ next < L
  BY <1>1 DEF L
<1>3. i % L = p - 1 /\ p \in 1..L
  <2>1. CASE i < L
    <3>1. i \in 0..(L - 1) BY <1>2, <2>1
    <3>2. i % L = i BY <1>2, <3>1
    <3>3. QED BY <1>2, <2>1, <3>2
  <2>2. CASE ~(i < L)
    <3>1. i \in L..(2 * L - 1) BY <1>1, <1>2, <2>2
    <3>2. i % L = i - L BY <1>2, <3>1
    <3>3. QED BY <1>1, <1>2, <2>2, <3>2
  <2>3. QED BY <2>1, <2>2
<1>4. (i + 1) % L = IF p = L THEN 0 ELSE p
  <2>1. CASE i + 1 < L
    <3>1. i + 1 \in 0..(L - 1) BY <1>2, <2>1
    <3>2. (i + 1) % L = i + 1 BY <1>2, <3>1
    <3>3. QED BY <1>2, <2>1, <3>2
  <2>2. CASE ~(i + 1 < L)
    <3>1. i + 1 \in L..(2 * L - 1) BY <1>1, <1>2, <2>2
    <3>2. (i + 1) % L = (i + 1) - L BY <1>2, <3>1
    <3>3. QED BY <1>1, <1>2, <2>2, <3>2
  <2>3. QED BY <2>1, <2>2
<1>5. i = next + Ahead(p)
  <2>1. i \in next .. next + L - 1 BY DEF L
  <2>2. QED BY <1>1, <1>2, <2>1 DEF Ahead, L
<1>6. QED BY <1>3, <1>4, <1>5 DEF At, AfterChosen, L

\* Remove leaves a list in order, of those that survive.
LEMMA RemoveKeeps ==
  ASSUME TypeOK, ListInv, NEW s, Remove(s)
  PROVE  /\ sessions' \in Seq(Conns) /\ next' \in Nat
         /\ next' > 0 => next' < Len(sessions')
         /\ turns' \in [Conns -> Nat]
         /\ \A i, j \in 1..Len(sessions') : sessions'[i] = sessions'[j] => i = j
         /\ Listed' = {c \in Listed : c # s /\ ~closed[c]}
         /\ \/ UNCHANGED <<sessions, next, turns>>
            \/ turns' = [c \in Conns |-> 0]
PROOF
<1> DEFINE V == {c \in Listed : Survives(c, s)}
<1>1. /\ sessions' = Filter(sessions, V)
      /\ next' = IndexAfter(Len(sessions'))
      /\ turns' = IF sessions' = sessions THEN turns ELSE [c \in Conns |-> 0]
  BY DEF Remove
<1>2. /\ next \in Nat /\ turns \in [Conns -> Nat]
      /\ next > 0 => next < Len(sessions)
  BY DEF TypeOK
<1>3. V = {c \in Listed : c # s /\ ~closed[c]} BY DEF Survives
<1> HIDE DEF V
<1>4. /\ sessions' \in Seq(Conns)
      /\ \A i, j \in 1..Len(sessions') : sessions'[i] = sessions'[j] => i = j
      /\ \A x : (\E i \in 1..Len(sessions') : x = sessions'[i])
                  <=> x \in V /\ \E i \in 1..Len(sessions) : x = sessions[i]
  <2> DEFINE kept == Filter(sessions, V)
  <2>1. /\ sessions \in Seq(Conns)
        /\ \A i, j \in 1..Len(sessions) : sessions[i] = sessions[j] => i = j
    BY DEF TypeOK, ListInv
  <2>2. /\ kept \in Seq(Conns)
        /\ \A i, j \in 1..Len(kept) : kept[i] = kept[j] => i = j
        /\ \A x : (\E i \in 1..Len(kept) : x = kept[i])
                    <=> x \in V /\ \E i \in 1..Len(sessions) : x = sessions[i]
    BY <2>1, FilterProperties
  <2>3. kept = sessions' BY <1>1
  <2> HIDE DEF kept
  <2>4. QED BY <2>2, <2>3
<1>5. Len(sessions') \in Nat /\ DOMAIN sessions' = 1..Len(sessions')
  BY <1>4, LenProperties
<1>6. \A x : x \in Listed <=> \E i \in 1..Len(sessions) : x = sessions[i]
  BY ListTypes
<1>7. \A x : x \in Listed' <=> \E i \in 1..Len(sessions') : x = sessions'[i]
  BY <1>5 DEF Listed
<1>8. Listed' = V BY <1>3, <1>4, <1>6, <1>7
<1>9. next' \in Nat /\ (next' > 0 => next' < Len(sessions'))
  BY <1>1, <1>2, <1>5 DEF IndexAfter
<1>10. sessions' = sessions => next' = next
  BY <1>1, <1>2, <1>5 DEF IndexAfter
<1>11. turns' \in [Conns -> Nat] BY <1>1, <1>2
<1>12. QED BY <1>1, <1>3, <1>4, <1>8, <1>9, <1>10, <1>11

\* A list whose counts are all zero.
LEMMA NoTurns ==
  ASSUME sessions' \in Seq(Conns), next' \in Nat, next' > 0 => next' < Len(sessions'),
         turns' = [c \in Conns |-> 0]
  PROVE  TurnInv'
PROOF
<1> SUFFICES ASSUME NEW p \in 1..Len(sessions')
             PROVE  turns'[sessions'[p]] + Ahead(p)' < Len(sessions')
  BY DEF TurnInv
<1>1. Len(sessions') \in Nat /\ sessions'[p] \in Conns BY LenProperties, ElementOfSeq
<1>2. turns'[sessions'[p]] = 0 BY <1>1
<1> DEFINE L == Len(sessions')
           n == next'
           a == IF p > n THEN p - 1 - n ELSE p - 1 - n + L
<1>3. a = Ahead(p)' BY DEF Ahead
<1>4. L \in Nat /\ n \in Nat /\ (n > 0 => n < L) /\ p \in 1..L BY <1>1
<1> HIDE DEF L, n
<1>5. a \in Int /\ a < L
  <2>1. CASE p > n BY <1>4, <2>1
  <2>2. CASE ~(p > n) BY <1>4, <2>2
  <2>3. QED BY <2>1, <2>2
<1> HIDE DEF a
<1>6. 0 + a < L BY <1>5
<1>7. QED BY <1>2, <1>3, <1>6 DEF L

-----------------------------------------------------------------------------
(* Steps, by what they do to the list. *)

\* The list and the counts stay, sessions only close, and none becomes listed.
LEMMA ListSame ==
  ASSUME IInv, UNCHANGED holderVars,
         \A c \in Conns : srv[c] = "listed" => srv'[c] = "listed",
         \A c \in Conns : srv[c] = "listed" /\ closed[c] => closed'[c],
         \A c \in Conns : srv'[c] = "listed" /\ ~closed'[c] /\ cl'[c] =>
                            srv[c] = "listed" /\ ~closed[c] /\ cl[c]
  PROVE  ListInv' /\ TurnInv'
PROOF
<1>1. sessions' = sessions /\ next' = next /\ turns' = turns /\ Listed' = Listed
  BY DEF holderVars, Listed
<1>2. ListInv'
  <2>1. \A c \in Listed : c \in Conns BY ListTypes DEF IInv
  <2>2. QED BY <1>1, <2>1 DEF IInv, ListInv
<1>3. TurnInv'
  <2> SUFFICES ASSUME NEW p \in 1..Len(sessions), ~closed'[sessions[p]]
               PROVE  turns[sessions[p]] + Ahead(p) < Len(sessions)
    BY <1>1 DEF TurnInv, Ahead
  <2>1. sessions[p] \in Conns /\ sessions[p] \in Listed BY ListTypes DEF IInv
  <2>2. ~closed[sessions[p]] BY <2>1 DEF IInv, ListInv
  <2>3. QED BY <2>2 DEF IInv, TurnInv
<1>4. QED BY <1>2, <1>3

\* nextSession: those that are passed over come one place nearer at least.
LEMMA ListChosen ==
  ASSUME IInv, NEW i \in next .. next + Len(sessions) - 1, Choose(i),
         UNCHANGED <<srv, closed, cl>>
  PROVE  /\ At(i) \in Conns /\ sessions' = sessions
         /\ next' \in Nat /\ (next' > 0 => next' < Len(sessions))
         /\ turns' \in [Conns -> Nat]
         /\ ListInv' /\ TurnInv'
PROOF
<1> DEFINE L == Len(sessions)
           p == IF i < L THEN i + 1 ELSE i - L + 1
<1>1. /\ L \in Nat /\ next \in Nat /\ (next > 0 => next < L)
      /\ turns \in [Conns -> Nat]
  BY ListTypes DEF IInv, TypeOK
<1>2. /\ p \in 1..L /\ At(i) = sessions[p] /\ i = next + Ahead(p)
      /\ AfterChosen(i) = IF p = L THEN 0 ELSE p
  BY Places DEF IInv
<1>3. /\ next' = AfterChosen(i) /\ sessions' = sessions /\ Listed' = Listed
      /\ \A j \in next .. i - 1 : closed[At(j)]
      /\ turns' = [c \in Conns |-> IF c = At(i) THEN 0
                                   ELSE IF c \in Listed /\ ~closed[c] THEN turns[c] + 1
                                   ELSE turns[c]]
  BY DEF Choose, Listed
<1> HIDE DEF p, L
<1>4. next' \in Nat /\ (next' > 0 => next' < L) BY <1>1, <1>2, <1>3
<1>5. At(i) \in Conns BY <1>2, ListTypes DEF IInv, L
<1>6. turns' \in [Conns -> Nat] BY <1>1, <1>3
<1>7. ListInv' BY <1>3 DEF IInv, ListInv
<1>8. ASSUME NEW k \in 1..L, ~closed[sessions[k]]
      PROVE  turns'[sessions[k]] + Ahead(k)' < L
  <2>1. sessions[k] \in Conns /\ sessions[k] \in Listed BY ListTypes DEF IInv, L
  <2>2. CASE k = p
    <3>1. turns'[sessions[k]] = 0 BY <1>2, <1>3, <2>1, <2>2
    <3>2. Ahead(k)' = L - 1 BY <1>1, <1>2, <1>3, <2>2 DEF Ahead, L
    <3>3. QED BY <1>1, <3>1, <3>2
  <2>3. CASE k # p
    <3>1. sessions[k] # At(i) BY <1>2, <2>3 DEF IInv, ListInv, L
    <3>2. turns'[sessions[k]] = turns[sessions[k]] + 1 BY <1>3, <1>8, <2>1, <3>1
    <3>3. turns[sessions[k]] + Ahead(k) < L /\ turns[sessions[k]] \in Nat
      BY <1>1, <1>8, <2>1 DEF IInv, TurnInv, L
    <3>4. /\ Ahead(k) \in 0..(L - 1) /\ Ahead(k) # Ahead(p)
          /\ k = IF next + Ahead(k) < L THEN next + Ahead(k) + 1
                 ELSE next + Ahead(k) - L + 1
      BY <1>1, <1>2, <2>3 DEF Ahead, L
    <3>5. At(next + Ahead(k)) = sessions[k]
      <4> DEFINE j == next + Ahead(k)
      <4>1. j \in next .. next + L - 1 BY <1>1, <3>4
      <4>2. k = IF j < L THEN j + 1 ELSE j - L + 1 BY <1>1, <3>4
      <4> HIDE DEF j
      <4>3. At(j) = sessions[IF j < L THEN j + 1 ELSE j - L + 1]
        BY <4>1, Places DEF IInv, L
      <4>4. At(j) = sessions[k] BY <4>2, <4>3
      <4>5. QED BY <4>4 DEF j
    <3>6. ~(Ahead(k) < Ahead(p))
      <4>1. SUFFICES ASSUME Ahead(k) < Ahead(p) PROVE FALSE OBVIOUS
      <4>2. next + Ahead(k) \in next .. i - 1 BY <1>1, <1>2, <3>4, <4>1 DEF Ahead
      <4>3. QED BY <1>3, <1>8, <3>5, <4>2
    <3>7. Ahead(k)' <= Ahead(k) - 1
      <4>1. next' = IF p = L THEN 0 ELSE p BY <1>2, <1>3
      <4>2. Ahead(k)' = IF k > next' THEN k - 1 - next' ELSE k - 1 - next' + L
        BY <1>3 DEF Ahead, L
      <4>3. Ahead(k) = IF k > next THEN k - 1 - next ELSE k - 1 - next + L
        BY DEF Ahead, L
      <4>4. Ahead(p) = IF p > next THEN p - 1 - next ELSE p - 1 - next + L
        BY DEF Ahead, L
      <4>5. QED BY <1>1, <1>2, <2>3, <3>4, <3>6, <4>1, <4>2, <4>3, <4>4
    <3>8. Ahead(k)' \in Int
      <4> DEFINE n == next'
                 a == IF k > n THEN k - 1 - n ELSE k - 1 - n + L
      <4>1. n \in Nat BY <1>4
      <4>2. a = Ahead(k)' BY <1>3 DEF Ahead, L
      <4> HIDE DEF n
      <4>3. a \in Int BY <1>1, <4>1
      <4> HIDE DEF a
      <4>4. QED BY <4>2, <4>3
    <3>9. QED
      <4> DEFINE t == turns[sessions[k]]
                 a == Ahead(k)
                 b == Ahead(k)'
      <4>1. /\ t \in Nat /\ t + a < L /\ a \in 0..(L - 1)
            /\ b \in Int /\ b <= a - 1 /\ turns'[sessions[k]] = t + 1
        BY <3>2, <3>3, <3>4, <3>7, <3>8
      <4> HIDE DEF t, a, b
      <4>2. (t + 1) + b < L BY <1>1, <4>1
      <4>3. QED BY <4>1, <4>2 DEF b
  <2>4. QED BY <2>2, <2>3
<1>9. TurnInv' BY <1>3, <1>8 DEF TurnInv, L
<1>10. QED BY <1>3, <1>4, <1>5, <1>6, <1>7, <1>9 DEF L

\* Add: the new session stands last, and all that are ahead of it still are.
LEMMA ListAdded ==
  ASSUME IInv, NEW c \in Conns, srv[c] = "made", Add(c),
         srv' = [srv EXCEPT ![c] = "listed"], UNCHANGED <<closed, cl>>
  PROVE  /\ sessions' \in Seq(Conns) /\ next' \in Nat
         /\ next' > 0 => next' < Len(sessions')
         /\ turns' \in [Conns -> Nat]
         /\ ListInv' /\ TurnInv'
PROOF
<1> DEFINE L == Len(sessions)
<1>1. /\ sessions \in Seq(Conns) /\ L \in Nat /\ next \in Nat /\ (next > 0 => next < L)
      /\ turns \in [Conns -> Nat] /\ srv \in [Conns -> SrvState]
  BY ListTypes DEF IInv, TypeOK
<1>2. /\ sessions' = Append(sessions, c) /\ next' = next
      /\ turns' = [turns EXCEPT ![c] = 0]
  BY DEF Add
<1>3. /\ sessions' \in Seq(Conns) /\ Len(sessions') = L + 1
      /\ sessions'[L + 1] = c
      /\ \A p \in 1..L : sessions'[p] = sessions[p]
  BY <1>1, <1>2, AppendProperties
<1> HIDE DEF L
<1>4. \A p \in 1..L : sessions[p] \in Conns /\ sessions[p] \in Listed
  BY ListTypes DEF IInv, L
<1>5. c \notin Listed BY DEF IInv, ListInv
<1>6. \A p \in 1..(L + 1) : p \in 1..L \/ p = L + 1 BY <1>1
<1>7. Listed' = Listed \cup {c}
  <2>1. Listed' = {sessions'[p] : p \in 1..(L + 1)}
    <3>1. DOMAIN sessions' = 1..(L + 1) BY <1>3, LenProperties
    <3>2. QED BY <3>1 DEF Listed
  <2>2. Listed = {sessions[p] : p \in 1..L} BY ListTypes DEF IInv, Listed, L
  <2>3. 1..L \subseteq 1..(L + 1) /\ L + 1 \in 1..(L + 1) BY <1>1
  <2>4. QED BY <1>3, <1>6, <2>1, <2>2, <2>3
<1>8. ListInv'
  <2>1. ASSUME NEW p \in 1..(L + 1), NEW k \in 1..(L + 1), sessions'[p] = sessions'[k]
        PROVE  p = k
    <3>1. CASE p \in 1..L /\ k \in 1..L
      BY <1>3, <2>1, <3>1 DEF IInv, ListInv, L
    <3>2. CASE ~(p \in 1..L /\ k \in 1..L)
      BY <1>3, <1>4, <1>5, <1>6, <2>1, <3>2
    <3>3. QED BY <3>1, <3>2
  <2>2. \A d \in Listed' : srv'[d] = "listed" BY <1>1, <1>7 DEF IInv, ListInv
  <2>3. \A d \in Conns : srv'[d] = "listed" /\ ~closed'[d] /\ cl'[d] => d \in Listed'
    BY <1>1, <1>7 DEF IInv, ListInv
  <2>4. QED BY <1>3, <2>1, <2>2, <2>3 DEF ListInv
<1>9. ASSUME NEW p \in 1..(L + 1), ~closed'[sessions'[p]]
      PROVE  turns'[sessions'[p]] + Ahead(p)' < L + 1
  <2> DEFINE a == IF p > next THEN p - 1 - next ELSE p - 1 - next + (L + 1)
  <2>1. a = Ahead(p)' BY <1>2, <1>3 DEF Ahead
  <2>2. CASE p \in 1..L
    <3>1. /\ sessions'[p] = sessions[p] /\ sessions[p] \in Conns
          /\ turns'[sessions'[p]] = turns[sessions[p]]
      BY <1>1, <1>2, <1>3, <1>4, <1>5, <2>2
    <3> DEFINE b == IF p > next THEN p - 1 - next ELSE p - 1 - next + L
               t == turns[sessions[p]]
    <3>2. b = Ahead(p) BY DEF Ahead, L
    <3>3. t \in Nat /\ t + b < L
      BY <1>1, <1>9, <2>2, <3>1, <3>2 DEF IInv, TurnInv, L
    <3> HIDE DEF t
    <3>4. t + a < L + 1
      <4>1. CASE p > next BY <1>1, <3>3, <4>1
      <4>2. CASE ~(p > next) BY <1>1, <3>3, <4>2
      <4>3. QED BY <4>1, <4>2
    <3> HIDE DEF a, b
    <3>5. QED BY <2>1, <3>1, <3>4 DEF t
  <2>3. CASE p = L + 1
    <3>1. turns'[sessions'[p]] = 0 BY <1>1, <1>2, <1>3, <2>3
    <3>2. a \in Int /\ 0 + a < L + 1 BY <1>1, <2>3
    <3> HIDE DEF a
    <3>3. QED BY <2>1, <3>1, <3>2
  <2>4. QED BY <1>6, <2>2, <2>3
<1>10. TurnInv' BY <1>3, <1>9 DEF TurnInv
<1>11. /\ next' \in Nat /\ (next' > 0 => next' < Len(sessions'))
       /\ turns' \in [Conns -> Nat]
  BY <1>1, <1>2, <1>3
<1>12. QED BY <1>3, <1>8, <1>10, <1>11

\* Remove of a session that is closed, whose client is gone or that is no longer to
\* be listed: the open sessions that are left are those that should be there.
LEMMA ListRemoved ==
  ASSUME IInv, NEW s, Remove(s), UNCHANGED <<closed, cl>>,
         \A c \in Conns \ {s} : srv'[c] = srv[c],
         s \in Conns => srv'[s] # "listed" \/ closed[s] \/ ~cl[s]
  PROVE  /\ sessions' \in Seq(Conns) /\ next' \in Nat
         /\ next' > 0 => next' < Len(sessions')
         /\ turns' \in [Conns -> Nat]
         /\ ListInv' /\ TurnInv'
PROOF
<1>1. /\ sessions' \in Seq(Conns) /\ next' \in Nat
      /\ next' > 0 => next' < Len(sessions')
      /\ turns' \in [Conns -> Nat]
      /\ \A i, j \in 1..Len(sessions') : sessions'[i] = sessions'[j] => i = j
      /\ Listed' = {c \in Listed : c # s /\ ~closed[c]}
      /\ \/ UNCHANGED <<sessions, next, turns>>
         \/ turns' = [c \in Conns |-> 0]
  BY RemoveKeeps DEF IInv
<1>2. \A c \in Listed : c \in Conns BY ListTypes DEF IInv
<1>3. ListInv' BY <1>1, <1>2 DEF IInv, ListInv
<1>4. ASSUME UNCHANGED <<sessions, next, turns>> PROVE TurnInv'
  BY <1>4 DEF IInv, TurnInv, Ahead
<1>5. ASSUME turns' = [c \in Conns |-> 0] PROVE TurnInv' BY <1>1, <1>5, NoTurns
<1>6. TurnInv' BY <1>1, <1>4, <1>5
<1>7. QED BY <1>1, <1>3, <1>6

-----------------------------------------------------------------------------
(* Every step. *)

ListOK ==
  /\ sessions \in Seq(Conns) /\ next \in Nat /\ (next > 0 => next < Len(sessions))
  /\ turns \in [Conns -> Nat]
  /\ ListInv /\ TurnInv

RestOK ==
  /\ srv \in [Conns -> SrvState]
  /\ closed \in [Conns -> BOOLEAN]
  /\ full \subseteq Conns
  /\ req \in [Requests -> ReqState]
  /\ running \in BOOLEAN
  /\ loop \in [Loops -> LoopState]
  /\ cl \in [Conns -> BOOLEAN]
  /\ faults \in 0..MaxFaults

\* The steps of the handler and the goroutines of a session.
LEMMA SessionKeeps ==
  ASSUME IInv, NEW c \in Conns, Session(c)
  PROVE  ListOK' /\ RestOK'
PROOF
<1> USE DEF vars, serverVars, clientVars, holderVars
<1>1. ListOK /\ RestOK BY DEF IInv, TypeOK, ListOK, RestOK
<1>2. CASE Authenticate(c)
  <2>1. ListInv' /\ TurnInv' BY <1>1, <1>2, ListSame DEF Authenticate, RestOK, SrvState
  <2>2. QED BY <1>1, <1>2, <2>1 DEF Authenticate, ListOK, RestOK, SrvState
<1>3. CASE ListSession(c)
  <2>1. ListOK' BY <1>3, ListAdded DEF ListSession, ListOK
  <2>2. QED BY <1>1, <1>3, <2>1 DEF ListSession, RestOK, SrvState
<1>4. CASE ReadLoopEnds(c)
  <2>1. ListInv' /\ TurnInv' BY <1>1, <1>4, ListSame DEF ReadLoopEnds, RestOK
  <2>2. QED BY <1>1, <1>4, <2>1 DEF ReadLoopEnds, ListOK, RestOK
<1>5. CASE WatcherRemoves(c)
  <2>1. ListOK'
    BY <1>1, <1>5, ListRemoved DEF WatcherRemoves, ListOK, RestOK
  <2>2. QED BY <1>1, <1>5, <2>1 DEF WatcherRemoves, RestOK, SrvState
<1>6. QED BY <1>2, <1>3, <1>4, <1>5 DEF Session

\* One turn of the loop of OpenStream.
LEMMA PickKeeps ==
  ASSUME IInv, NEW r \in Requests, PickSession(r)
  PROVE  ListOK' /\ RestOK'
PROOF
<1> USE DEF vars, serverVars, clientVars, holderVars
<1>1. ListOK /\ RestOK BY DEF IInv, TypeOK, ListOK, RestOK
<1>2. ASSUME NEW i \in next .. next + Len(sessions) - 1, Choose(i),
             req' = [req EXCEPT ![r] = [pc |-> "open", sess |-> At(i)]],
             UNCHANGED <<srv, closed, full, clientVars, faults>>
      PROVE  ListOK' /\ RestOK'
  <2>1. /\ At(i) \in Conns /\ sessions' = sessions
        /\ next' \in Nat /\ (next' > 0 => next' < Len(sessions))
        /\ turns' \in [Conns -> Nat]
        /\ ListInv' /\ TurnInv'
    BY <1>2, ListChosen
  <2>2. QED BY <1>1, <1>2, <2>1 DEF ListOK, RestOK, ReqState
<1>3. ASSUME Goes(r, "pause"), UNCHANGED holderVars,
             UNCHANGED <<srv, closed, full, clientVars, faults>>
      PROVE  ListOK' /\ RestOK'
  <2>1. ListInv' /\ TurnInv' BY <1>3, ListSame
  <2>2. req' \in [Requests -> ReqState] BY <1>1, <1>3 DEF Goes, RestOK, ReqState
  <2>3. QED BY <1>1, <1>3, <2>1, <2>2 DEF ListOK, RestOK
<1>4. QED BY <1>2, <1>3 DEF PickSession

\* The steps of a request.
LEMMA RequestKeeps ==
  ASSUME IInv, NEW r \in Requests, Request(r)
  PROVE  ListOK' /\ RestOK'
PROOF
<1> USE DEF vars, serverVars, clientVars, holderVars
<1>1. ListOK /\ RestOK BY DEF IInv, TypeOK, ListOK, RestOK
<1>2. CASE RequestArrives(r) \/ TryAgain(r)
  BY <1>2, PickKeeps DEF RequestArrives, TryAgain
<1>3. CASE OpenStream(r)
  <2> DEFINE s == req[r].sess
  <2>1. ASSUME Goes(r, "target"), UNCHANGED holderVars,
               UNCHANGED <<srv, closed, full, clientVars, faults>>
        PROVE  ListOK' /\ RestOK'
    <3>1. ListInv' /\ TurnInv' BY <2>1, ListSame
    <3>2. req' \in [Requests -> ReqState] BY <1>1, <2>1 DEF Goes, RestOK, ReqState
    <3>3. QED BY <1>1, <2>1, <3>1, <3>2 DEF ListOK, RestOK
  <2>2. ASSUME WriteFails(s), Remove(s),
               req' = [req EXCEPT ![r] = [pc |-> "pause", sess |-> NoConn]],
               UNCHANGED <<srv, closed, full, clientVars, faults>>
        PROVE  ListOK' /\ RestOK'
    <3> HIDE DEF s
    <3>1. ListOK' BY <1>1, <2>2, ListRemoved DEF WriteFails, ListOK
    <3>2. req' \in [Requests -> ReqState] BY <1>1, <2>2 DEF RestOK, ReqState
    <3>3. QED BY <1>1, <2>2, <3>1, <3>2 DEF RestOK
  <2>3. QED BY <1>3, <2>1, <2>2 DEF OpenStream
<1>4. CASE RequestTimeout(r) \/ SendTarget(r)
  <2>1. ListInv' /\ TurnInv' BY <1>4, ListSame DEF RequestTimeout, SendTarget
  <2>2. req' \in [Requests -> ReqState]
    BY <1>1, <1>4 DEF RequestTimeout, SendTarget, Ends, IdleReq, RestOK, ReqState
  <2>3. QED BY <1>1, <1>4, <2>1, <2>2 DEF RequestTimeout, SendTarget, ListOK, RestOK
<1>5. QED BY <1>2, <1>3, <1>4 DEF Request

\* The steps of a session loop of the client.
LEMMA LoopKeeps ==
  ASSUME IInv, NEW w \in Loops, Loop(w)
  PROVE  ListOK' /\ RestOK'
PROOF
<1> USE DEF vars, serverVars, clientVars, holderVars
<1>1. ListOK /\ RestOK BY DEF IInv, TypeOK, ListOK, RestOK
<1>2. ASSUME NEW c \in Conns, Dial(w, c) PROVE ListOK' /\ RestOK'
  <2>1. srv[c] = "none" /\ Hello(w) \in {"auth", "refuse"}
    BY <1>2 DEF Dial, Reusable, Hello
  <2>2. ListInv' /\ TurnInv' BY <1>1, <1>2, <2>1, ListSame DEF Dial, RestOK
  <2>3. loop' \in [Loops -> LoopState] BY <1>1, <1>2 DEF Dial, RestOK, LoopState
  <2>4. QED BY <1>1, <1>2, <2>1, <2>2, <2>3 DEF Dial, ListOK, RestOK, SrvState
<1>3. CASE SessionLost(w)
  <2>1. cl' \in [Conns -> BOOLEAN] /\ \A c \in Conns : cl'[c] => cl[c]
    BY <1>1, <1>3 DEF SessionLost, RestOK
  <2>2. ListInv' /\ TurnInv' BY <1>3, <2>1, ListSame DEF SessionLost
  <2>3. loop' \in [Loops -> LoopState]
    BY <1>1, <1>3 DEF SessionLost, AfterSession, AtDial, RestOK, LoopState
  <2>4. QED BY <1>1, <1>3, <2>1, <2>2, <2>3 DEF SessionLost, ListOK, RestOK
<1>4. CASE LoopReturns(w)
  <2>1. cl' \in [Conns -> BOOLEAN] /\ \A c \in Conns : cl'[c] => cl[c]
    BY <1>1, <1>4 DEF LoopReturns, RestOK
  <2>2. ListInv' /\ TurnInv' BY <1>4, <2>1, ListSame DEF LoopReturns
  <2>3. loop' \in [Loops -> LoopState]
    BY <1>1, <1>4 DEF LoopReturns, RestOK, LoopState
  <2>4. QED BY <1>1, <1>4, <2>1, <2>2, <2>3 DEF LoopReturns, ListOK, RestOK
<1>5. QED BY <1>2, <1>3, <1>4 DEF Loop

\* Connections that fill, drain and break, crashes, restarts and cancellation.
LEMMA FaultKeeps ==
  ASSUME IInv,
         \/ \E c \in Conns : ConnFills(c) \/ ConnDrains(c) \/ ConnBreaks(c)
         \/ ServerRestart \/ Cancel \/ ClientRestart
  PROVE  ListOK' /\ RestOK'
PROOF
<1> USE DEF vars, serverVars, clientVars, holderVars
<1>1. ListOK /\ RestOK BY DEF IInv, TypeOK, ListOK, RestOK
<1>2. ASSUME Fault \/ UNCHANGED faults PROVE faults' \in 0..MaxFaults
  BY <1>1, <1>2, HolderAssumption DEF Fault, RestOK
<1>3. ASSUME NEW c \in Conns, ConnBreaks(c) PROVE ListOK' /\ RestOK'
  <2>1. cl' \in [Conns -> BOOLEAN] /\ \A d \in Conns : cl'[d] => cl[d]
    BY <1>1, <1>3 DEF ConnBreaks, RestOK
  <2>2. ListInv' /\ TurnInv' BY <1>3, <2>1, ListSame DEF ConnBreaks
  <2>3. QED BY <1>1, <1>2, <1>3, <2>1, <2>2 DEF ConnBreaks, ListOK, RestOK
<1>4. CASE ServerRestart
  <2>1. sessions' = <<>> /\ Len(sessions') = 0 /\ sessions' \in Seq(Conns)
    BY <1>4, EmptySeq DEF ServerRestart
  <2>2. Listed' = {} BY <2>1, EmptySeq DEF Listed
  <2>3. next' = 0 /\ turns' = [c \in Conns |-> 0] /\ srv' = [c \in Conns |-> "none"]
    BY <1>4 DEF ServerRestart
  <2>4. TurnInv' BY <2>1, <2>3, NoTurns
  <2>5. ListInv' BY <2>1, <2>2, <2>3 DEF ListInv
  <2>6. ListOK' BY <2>1, <2>3, <2>4, <2>5 DEF ListOK
  <2>7. req' \in [Requests -> ReqState] BY <1>4 DEF ServerRestart, IdleReq, ReqState
  <2>8. QED BY <1>1, <1>2, <1>4, <2>3, <2>6, <2>7
    DEF ServerRestart, RestOK, SrvState
<1>5. CASE Cancel
  <2>1. ListInv' /\ TurnInv' BY <1>5, ListSame DEF Cancel
  <2>2. QED BY <1>1, <1>2, <1>5, <2>1 DEF Cancel, ListOK, RestOK
<1>6. CASE ClientRestart
  <2>1. ListInv' /\ TurnInv' BY <1>6, ListSame DEF ClientRestart
  <2>2. Fault \/ UNCHANGED faults BY <1>6 DEF ClientRestart
  <2>3. loop' \in [Loops -> LoopState] BY <1>6 DEF ClientRestart, AtDial, LoopState
  <2>4. QED BY <1>1, <1>2, <1>6, <2>1, <2>2, <2>3 DEF ClientRestart, ListOK, RestOK
<1>7. ASSUME NEW c \in Conns, ConnFills(c) \/ ConnDrains(c) PROVE ListOK' /\ RestOK'
  <2>1. ListInv' /\ TurnInv' BY <1>7, ListSame DEF ConnFills, ConnDrains
  <2>2. QED BY <1>1, <1>7, <2>1 DEF ConnFills, ConnDrains, ListOK, RestOK
<1>8. QED BY <1>3, <1>4, <1>5, <1>6, <1>7

LEMMA Initially == Init => IInv
PROOF
<1> SUFFICES ASSUME Init PROVE IInv OBVIOUS
<1>1. sessions = <<>> /\ Len(sessions) = 0 /\ sessions \in Seq(Conns)
  BY EmptySeq DEF Init
<1>2. Listed = {} BY <1>1, EmptySeq DEF Listed
<1>3. req \in [Requests -> ReqState] /\ loop \in [Loops -> LoopState]
  BY DEF Init, IdleReq, AtDial, ReqState, LoopState
<1>4. TypeOK BY <1>1, <1>3, HolderAssumption DEF Init, TypeOK, SrvState
<1>5. ListInv /\ TurnInv BY <1>1, <1>2 DEF Init, ListInv, TurnInv
<1>6. QED BY <1>4, <1>5 DEF IInv

LEMMA Inductive == IInv /\ [Next]_vars => IInv'
PROOF
<1> SUFFICES ASSUME IInv, [Next]_vars PROVE IInv' OBVIOUS
<1>1. CASE Next
  <2>1. ListOK' /\ RestOK'
    BY <1>1, SessionKeeps, RequestKeeps, LoopKeeps, FaultKeeps DEF Next
  <2>2. QED BY <2>1 DEF ListOK, RestOK, IInv, TypeOK
<1>2. CASE UNCHANGED vars
  BY <1>2 DEF vars, serverVars, clientVars, holderVars, IInv, TypeOK, ListInv, TurnInv,
              Listed, Ahead
<1>3. QED BY <1>1, <1>2

\* The invariant of simpleMuxHolder and of the loops around it.
LEMMA Invariant == Spec => []IInv
PROOF
<1>1. QED BY Initially, Inductive, PTL DEF Spec

-----------------------------------------------------------------------------
(* The properties. *)

\* The list and its index stay well formed: nextSession starts from a place of the
\* list whatever Remove has taken out of it.
THEOREM TypeCorrect == Spec => []TypeOK
PROOF
<1>1. IInv => TypeOK BY DEF IInv
<1>2. QED BY <1>1, Invariant, PTL

\* An open session that was listed is in the list once, however watchers and failed
\* requests remove what is around it, and the list has no other than those whose
\* watcher has still to run.
THEOREM ListComplete == Spec => []NoneForgotten
PROOF
<1>1. IInv => NoneForgotten
  <2> SUFFICES ASSUME IInv, NEW c \in Conns
               PROVE  LET places == {i \in DOMAIN sessions : sessions[i] = c} IN
                      /\ srv[c] = "listed" /\ ServerOpen(c) /\ cl[c] =>
                           Cardinality(places) = 1
                      /\ c \in Listed => srv[c] = "listed" /\ Cardinality(places) = 1
    BY DEF NoneForgotten
  <2> DEFINE places == {i \in DOMAIN sessions : sessions[i] = c}
  <2>1. c \in Listed => Cardinality(places) = 1
    <3> SUFFICES ASSUME c \in Listed PROVE Cardinality(places) = 1 OBVIOUS
    <3>1. PICK p \in 1..Len(sessions) : c = sessions[p] BY ListTypes DEF IInv
    <3>2. places = {p} BY <3>1, ListTypes DEF IInv, ListInv
    <3>3. QED BY <3>2, FS_Singleton
  <2>2. srv[c] = "listed" /\ ServerOpen(c) /\ cl[c] => c \in Listed
    BY DEF IInv, ListInv, ServerOpen
  <2>3. c \in Listed => srv[c] = "listed" BY DEF IInv, ListInv
  <2> HIDE DEF places
  <2>4. QED BY <2>1, <2>2, <2>3 DEF places
<1>2. QED BY <1>1, Invariant, PTL

\* Between two removals nextSession passes an open session over at most once for
\* each other one in the list.
THEOREM TurnsTaken == Spec => []RoundRobin
PROOF
<1>1. IInv => RoundRobin
  <2> SUFFICES ASSUME IInv, NEW c \in Listed, ~closed[c]
               PROVE  turns[c] < Len(sessions)
    BY DEF RoundRobin
  <2>1. /\ Len(sessions) \in Nat /\ next \in Nat /\ (next > 0 => next < Len(sessions))
        /\ c \in Conns /\ turns[c] \in Nat
    BY ListTypes DEF IInv, TypeOK
  <2>2. PICK p \in 1..Len(sessions) : c = sessions[p] BY ListTypes DEF IInv
  <2>3. turns[c] + Ahead(p) < Len(sessions) BY <2>2 DEF IInv, TurnInv
  <2>4. Ahead(p) \in Nat BY <2>1, <2>2 DEF Ahead
  <2>5. QED BY <2>1, <2>3, <2>4
<1>2. QED BY <1>1, Invariant, PTL

=============================================================================
