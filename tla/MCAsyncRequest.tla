--------------------------- MODULE MCAsyncRequest ----------------------------
(* AsyncRequest with two requests, one thread that makes synchronous       *)
(* requests on the same session, and a peer that may answer late, twice or *)
(* with another request's id.                                              *)
EXTENDS AsyncRequest, TLC
=============================================================================
