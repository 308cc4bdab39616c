----------------------------- MODULE MCCharFile ----------------------------
(***************************************************************************)
(* An instance of CharFile for TLC: two processes that share one file, of  *)
(* which the first also has one of its own; two devices, of which one can  *)
(* only be read and one only be written.                                   *)
(***************************************************************************)
EXTENDS CharFile, TLC

CONSTANTS p1, p2, mine, shared

UsersOfFiles == (mine :> {p1}) @@ (shared :> {p1, p2})
Permissions == (0 :> "RD_ONLY") @@ (1 :> "WR_ONLY")
=============================================================================
