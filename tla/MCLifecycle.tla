----------------------------- MODULE MCLifecycle ----------------------------
(***************************************************************************)
(* Instances of Lifecycle for TLC.                                         *)
(***************************************************************************)
EXTENDS Lifecycle, TLC

\* Two pins of one function select register, one of the next, and one too large.
PinSet == {8, 9, 12, 54}
=============================================================================
