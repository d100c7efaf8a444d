---------------------------- MODULE MCMissedCatchup ---------------------------
(***************************************************************************)
(* MissedCatchup for TLC: a peer with two DMs and an answer between them,  *)
(* which outgrow a history window of two, and a peer who never wrote.      *)
(***************************************************************************)
EXTENDS MissedCatchup

CONSTANTS alice, bob

MCPeers == {alice, bob}

MCDMs == {[chat |-> alice, at |-> 0, id |-> 1, mine |-> FALSE],
          [chat |-> alice, at |-> 1, id |-> 2, mine |-> TRUE],
          [chat |-> alice, at |-> 1, id |-> 3, mine |-> FALSE]}
===============================================================================
