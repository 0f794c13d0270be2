------------------------------ MODULE MCMqClient ------------------------------
(* One exchange with one key is configured, the other is asked for later.  *)
EXTENDS MqClient, TLC

CONSTANTS e1, e2, k1, k2

MCConfig == e1 :> {k1}
=============================================================================
