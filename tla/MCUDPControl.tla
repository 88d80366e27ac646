----------------------------- MODULE MCUDPControl -----------------------------
(* Constants of UDPControl for TLC. *)
EXTENDS UDPControl, TLC

CONSTANTS a1, a2

\* The second address only needs to be in the way of the first.
MCMaxPackets == a1 :> 3 @@ a2 :> 1

=============================================================================
