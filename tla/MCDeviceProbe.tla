---------------------------- MODULE MCDeviceProbe ---------------------------
(***************************************************************************)
(* Instances of DeviceProbe for TLC: sensors of two registers from a       *)
(* device tree, and devices registered by pcd_device_setup.c.              *)
(***************************************************************************)
EXTENDS DeviceProbe, TLC

CONSTANTS t1, t2, l1, l2

Ids == (t1 :> -1) @@ (t2 :> -1) @@ (l1 :> 0) @@ (l2 :> 1)
TwoRegisters == [d \in Devices |-> 2]

Symmetry == Permutations({t1, t2})
=============================================================================
