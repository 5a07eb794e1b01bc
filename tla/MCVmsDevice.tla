---------------------------- MODULE MCVmsDevice -----------------------------
(* Model-checking instance of VmsDevice.                                     *)
EXTENDS VmsDevice
=============================================================================
