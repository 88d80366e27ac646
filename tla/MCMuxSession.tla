---------------------------- MODULE MCMuxSession ----------------------------
(* Small instances of MuxSession for TLC. *)
EXTENDS MuxSession

\* One stream long enough to overflow its readCh and go on, one that is short.
LongAndShort == <<3, 1>>

\* One stream with one chunk in each direction.
OneChunk == <<1>>

=============================================================================
