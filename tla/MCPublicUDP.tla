------------------------------ MODULE MCPublicUDP -------------------------------
(* Small instances of PublicUDP for TLC. *)
EXTENDS PublicUDP

MCValue ==
  [t \in {"0", "1", "2", "3", "65534", "65535", "65536"} |->
     CASE t = "0" -> 0 [] t = "1" -> 1 [] t = "2" -> 2 [] t = "3" -> 3
       [] t = "65534" -> 65534 [] t = "65535" -> 65535 [] t = "65536" -> 65536]

Bounds == {<<0, 1>>, <<1, 1>>, <<1, 3>>, <<2, 1>>, <<2, 2>>,
           <<65534, 65535>>, <<65535, 65535>>, <<65535, 65536>>}

Hosts == {<<>>, <<"10.0.0.1">>, <<"my", "-", "host">>}

Entries ==
  {[lo |-> r[1], hi |-> r[2], host |-> h, port |-> p] :
     r \in Bounds, h \in Hosts, p \in {0, 3, 65536}}
  \cup {[lo |-> r[1], hi |-> r[2], host |-> <<>>, port |-> NoPort] : r \in Bounds}

Plain(lo, hi) == [lo |-> lo, hi |-> hi, host |-> <<>>, port |-> NoPort]

\* Every entry alone and before another; accept_udp with two mappings.
MCSetups ==
  {[entries |-> es, udp |-> FALSE] :
     es \in {<<>>} \cup {<<e>> : e \in Entries} \cup {<<e, Plain(2, 2)>> : e \in Entries}}
  \cup {[entries |-> <<Plain(1, 1), Plain(2, 2)>>, udp |-> TRUE]}

=============================================================================
