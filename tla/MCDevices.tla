------------------------------ MODULE MCDevices ------------------------------
(***************************************************************************)
(* Small instances of Devices for TLC.                                     *)
(***************************************************************************)
EXTENDS Devices
=============================================================================
