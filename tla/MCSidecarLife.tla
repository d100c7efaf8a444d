---------------------------- MODULE MCSidecarLife -----------------------------
(***************************************************************************)
(* SidecarLife for TLC: a gateway and the one that follows it.             *)
(***************************************************************************)
EXTENDS SidecarLife

CONSTANTS g1, g2

MCGateways == {g1, g2}
===============================================================================
