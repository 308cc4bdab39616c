--------------------------- MODULE MCModbusMaster ---------------------------
(***************************************************************************)
(* Instances of ModbusMaster for TLC.                                      *)
(***************************************************************************)
EXTENDS ModbusMaster, TLC

\* Callers are interchangeable, and so are slave addresses.
Symmetry == Permutations(Callers) \cup Permutations(Slaves)
=============================================================================
