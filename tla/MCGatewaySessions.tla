------------------------- MODULE MCGatewaySessions --------------------------
(* GatewaySessionsProps on two connections that may ask for the same one  *)
(* of two devices.                                                          *)
EXTENDS GatewaySessionsProps, TLC
CONSTANTS k1, k2, b1, b2
=============================================================================
