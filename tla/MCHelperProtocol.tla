-------------------------- MODULE MCHelperProtocol --------------------------
(* HelperProtocol with initialize and a few calls, each cancelled at any     *)
(* moment, over pipes of one line.                                           *)
EXTENDS HelperProtocol, TLC
=============================================================================
