------------------------------ MODULE MCOutage ------------------------------
(***************************************************************************)
(* A small instance of Outage for TLC.                                     *)
(***************************************************************************)
EXTENDS Outage, TLC

CONSTANTS kubelet, balancer, healthcheck

SomeProbers == {kubelet, balancer, healthcheck}
WhatTheyAsk ==
  kubelet :> {"ready"} @@ balancer :> {"ready"} @@ healthcheck :> {"startup", "live"}
=============================================================================
