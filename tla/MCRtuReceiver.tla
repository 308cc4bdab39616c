--------------------------- MODULE MCRtuReceiver ----------------------------
(***************************************************************************)
(* Instances of RtuReceiver for TLC: 256 becomes a small Cap, and the      *)
(* timing keeps the order of the real one, RxTimeout < T35 < Gap.          *)
(***************************************************************************)
EXTENDS RtuReceiver
=============================================================================
