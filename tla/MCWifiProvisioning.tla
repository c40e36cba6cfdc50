-------------------------- MODULE MCWifiProvisioning -------------------------
(***************************************************************************)
(* WifiProvisioning for TLC.                                               *)
(***************************************************************************)
EXTENDS WifiProvisioning
=============================================================================
