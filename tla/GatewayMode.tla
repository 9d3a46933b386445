---------------------------- MODULE GatewayMode ----------------------------
(***************************************************************************)
(* What the two models of the gateway mode share: the agent's registry of  *)
(* sub-devices and the bridge's block that mosquitto made of it.  How they *)
(* come to change is in SubDeviceRegistry, what they do to a message in    *)
(* GatewayTraffic.                                                         *)
(***************************************************************************)
EXTENDS RoledRouting

VARIABLES
    devices,  \* SubDeviceRegistry.devices, in the agent's memory
    loaded    \* the gateway block the running mosquitto has read

Block == [unroled : SUBSET (Names \X Tokens), roled : SUBSET Tokens]
=============================================================================
