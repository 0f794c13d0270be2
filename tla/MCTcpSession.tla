---------------------------- MODULE MCTcpSession -----------------------------
(* TcpSession with a send queue of one message that may grow to two, so    *)
(* that it grows and overflows within the messages of a run.               *)
EXTENDS TcpSession
=============================================================================
