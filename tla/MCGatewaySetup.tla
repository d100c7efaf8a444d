--------------------------- MODULE MCGatewaySetup ---------------------------
(***************************************************************************)
(* GatewaySetup for TLC: a new bot, one with a key and one whose key file  *)
(* is damaged; wizards that fail, are interrupted or killed anywhere.      *)
(***************************************************************************)
EXTENDS GatewaySetup, TLC

CONSTANTS a, b, c

Symmetry == Permutations(Identities)
===============================================================================
