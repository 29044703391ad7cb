--------------------------- MODULE MCHelperServer ---------------------------
(* HelperServer with any peer: one id used again and again, null ids and     *)
(* notifications, so that ids collide while a request is in flight.          *)
EXTENDS HelperServer, TLC
CONSTANT I1
=============================================================================
