---------------------------- MODULE MCReactions ----------------------------
(***************************************************************************)
(* Reactions for TLC: two emojis, a turn and a tool that post, a peer.     *)
(***************************************************************************)
EXTENDS Reactions, TLC

CONSTANTS eyes, ok, chatTurn, toolCall

Symmetry == Permutations({eyes, ok}) \union Permutations({chatTurn, toolCall})
===============================================================================
