-------------------------- MODULE MCDeviceBinding --------------------------
(* DeviceBinding on small instances, for TLC.                              *)
EXTENDS DeviceBinding
=============================================================================
