-------------------------------- MODULE MCRelay ---------------------------------
(* The kinds of tunnel connections of the transports, for TLC. *)
EXTENDS Relay

\* The workers of the original TCP protocol.
Original ==
  [deadline |-> Ends, eof |-> TRUE, loss |-> FALSE, expires |-> FALSE]

\* Pooled workers over TCP, TLS, WebSocket, HTTP CONNECT, slipstream.
Worker == [Original EXCEPT !.expires = TRUE]

\* Streams of a mux session, gRPC: SetReadDeadline does nothing.
Muxed == [Original EXCEPT !.deadline = {}]

\* Workers over KCP: nothing says "closed".
Kcp == [Worker EXCEPT !.eof = FALSE]

\* udpControlConn at the server, a socket at the client.
Datagram == [Kcp EXCEPT !.deadline = {"client"}, !.loss = TRUE]

\* The target sends a chunk more than the tunnel holds, the user one.
MCMaxChunks == [e \in Ends |-> IF e = "client" THEN 2 ELSE 1]

MCKinds == {Original, Worker, Muxed, Kcp, Datagram}

=============================================================================
