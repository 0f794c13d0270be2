---------------------------- MODULE MCSynRequest -----------------------------
(* Threads calling on one session, and a peer that answers late or twice.  *)
EXTENDS SynRequest, TLC
=============================================================================
