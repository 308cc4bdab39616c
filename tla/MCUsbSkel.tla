------------------------------ MODULE MCUsbSkel -----------------------------
(***************************************************************************)
(* Instances of UsbSkel for TLC.                                           *)
(***************************************************************************)
EXTENDS UsbSkel, TLC

=============================================================================
