---------------------------- MODULE MCSensorCache ---------------------------
(***************************************************************************)
(* Instance of SensorCache for TLC: a PM sensor, with two registers.       *)
(***************************************************************************)
EXTENDS SensorCache, TLC

CONSTANT pm

TwoRegisters == (pm :> 2)
Clock == [alone |-> 3, shared |-> 2]
=============================================================================
