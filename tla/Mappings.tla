-------------------------------- MODULE Mappings --------------------------------
(***************************************************************************)
(* ParseMappings of src/internal/tunnel/mapping.go: from the entries of    *)
(* [ports].mapping to the pairs of a port to listen on and a target.       *)
(*                                                                         *)
(* An entry is a sequence of tokens, the separators "-", "=" and ":" and   *)
(* what stands between them; white space is left out.  A parser returns a  *)
(* set: empty for an error, else with the result as its only element.      *)
(***************************************************************************)
EXTENDS Integers, Sequences, SequencesExt

CONSTANT Value  \* the numbers that tokens denote: tokens -> Nat

ASSUME ValueAssumption ==
  /\ DOMAIN Value \subseteq STRING \ {"-", "=", ":"}
  /\ \A t \in DOMAIN Value : Value[t] \in Nat

MaxPort == 65535

LocalHost == <<"127.0.0.1">>

Local(p) == [host |-> LocalHost, port |-> p]

FirstOf(s, c) == SelectInSeq(s, LAMBDA t : t = c)

LastOf(s, c) == SelectLastInSeq(s, LAMBDA t : t = c)

\* The two parts of SplitN(s, c, 2), for an s that contains c.
Before(s, c) == SubSeq(s, 1, FirstOf(s, c) - 1)

After(s, c) == SubSeq(s, FirstOf(s, c) + 1, Len(s))

Atoi(s) == IF Len(s) = 1 /\ s[1] \in DOMAIN Value THEN {Value[s[1]]} ELSE {}

\* Mutant: the bound on the last port is off by one.
WithinLess(lo, hi) == 1 <= lo /\ hi < MaxPort /\ lo <= hi

Within(lo, hi) == 1 <= lo /\ hi <= MaxPort /\ lo <= hi

ParseRange(s) ==
  {r \in Atoi(Before(s, "-")) \X Atoi(After(s, "-")) : Within(r[1], r[2])}

\* parsePortMaybeWithHost: what stands after the last colon.
ParsePort(s) ==
  {p \in Atoi(SubSeq(s, LastOf(s, ":") + 1, Len(s))) : 1 <= p /\ p <= MaxPort}

\* normalizeTarget: the host is whatever stands before the last colon.
NormalizeTarget(s) ==
  {[host |-> IF Contains(s, ":") THEN SubSeq(s, 1, LastOf(s, ":") - 1) ELSE LocalHost,
    port |-> p] : p \in ParsePort(s)}

\* Every port of the range r, with its target.
Spread(r, target(_)) ==
  [i \in 1 .. r[2] - r[1] + 1 |->
     LET p == r[1] + i - 1 IN [listen |-> p, target |-> target(p)]]

\* Mutant: a range with a target takes its own ports.
OwnPort(p, t) == Local(p)

RangeTarget(p, t) == t

\* "lo-hi:target"
RangeToTarget(raw) ==
  {Spread(rt[1], LAMBDA p : RangeTarget(p, rt[2])) : rt \in
     ParseRange(Before(raw, ":")) \X NormalizeTarget(After(raw, ":"))}

\* "lo-hi=target", which keeps the port of its target only.
RangeToPort(raw) ==
  {Spread(rp[1], LAMBDA p : Local(rp[2])) : rp \in
     ParseRange(Before(raw, "=")) \X ParsePort(After(raw, "="))}

\* "port=target"
PortToTarget(raw) ==
  {<<[listen |-> pt[1], target |-> pt[2]]>> : pt \in
     ParsePort(Before(raw, "=")) \X NormalizeTarget(After(raw, "="))}

\* "lo-hi"
RangeAlone(raw) == {Spread(r, Local) : r \in ParseRange(raw)}

\* "port"
PortAlone(raw) == {<<[listen |-> p, target |-> Local(p)]>> : p \in ParsePort(raw)}

\* One entry.
MappingsOf(raw) ==
  CASE Contains(raw, ":") /\ Contains(raw, "-") /\ ~Contains(raw, "=") ->
         RangeToTarget(raw)
    [] Contains(raw, "=") /\ Contains(Before(raw, "="), "-") -> RangeToPort(raw)
    [] Contains(raw, "=") /\ ~Contains(Before(raw, "="), "-") -> PortToTarget(raw)
    [] Contains(raw, "-") /\ ~Contains(raw, ":") /\ ~Contains(raw, "=") ->
         RangeAlone(raw)
    [] OTHER -> PortAlone(raw)

\* All entries in their order; an empty one adds nothing, a bad one fails them all.
ParseMappings(items) ==
  LET all == [i \in DOMAIN items |->
                IF items[i] = <<>> THEN {<<>>} ELSE MappingsOf(items[i])]
  IN  IF (\A i \in DOMAIN all : items[i] = <<>>) \/ (\E i \in DOMAIN all : all[i] = {})
      THEN {}
      ELSE {FlattenSeq([i \in DOMAIN all |-> CHOOSE m \in all[i] : TRUE])}

-----------------------------------------------------------------------------
(* What the author of an entry means: ports lo..hi, each to the given host  *)
(* and port or, for NoPort, to itself on this machine.                      *)

NoPort == -1

Meant(e) ==
  [i \in 1 .. e.hi - e.lo + 1 |->
     LET p == e.lo + i - 1 IN
     [listen |-> p,
      target |-> [host |-> IF e.host = <<>> THEN LocalHost ELSE e.host,
                  port |-> IF e.port = NoPort THEN p ELSE e.port]]]

Sound(e) ==
  /\ 1 <= e.lo /\ e.lo <= e.hi /\ e.hi <= MaxPort
  /\ e.port = NoPort \/ e.port \in 1..MaxPort

\* What can be meant and written: numbers that have digits, and a host only with
\* a port and without "=".
Sensible(e) ==
  LET Numbers == {Value[t] : t \in DOMAIN Value} IN
  /\ e.lo \in Numbers /\ e.hi \in Numbers
  /\ e.port \in Numbers \cup {NoPort}
  /\ e.host \in Seq(STRING) /\ ~Contains(e.host, "=")
  /\ e.port = NoPort => e.host = <<>>

\* The forms an entry is written in: a range has its target after a colon.
Written(e) ==
  LET Digits(p) == CHOOSE t \in DOMAIN Value : Value[t] = p
      single == e.lo = e.hi
      ports == IF single THEN <<Digits(e.lo)>> ELSE <<Digits(e.lo), "-", Digits(e.hi)>>
      host == IF e.host = <<>> THEN <<>> ELSE e.host \o <<":">>
  IN  IF e.port = NoPort THEN ports
      ELSE ports \o <<IF single THEN "=" ELSE ":">> \o host \o <<Digits(e.port)>>

=============================================================================
