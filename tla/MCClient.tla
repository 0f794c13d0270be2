------------------------------ MODULE MCClient -------------------------------
(* A client that its owner connects and closes a few times.                *)
EXTENDS Client
=============================================================================
