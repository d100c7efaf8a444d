------------------------------ MODULE MCEventHub ------------------------------
(***************************************************************************)
(* EventHub for TLC: one publisher, two connections, a ring of two, so     *)
(* that a publisher and up to two replays hand over at once and the third  *)
(* item evicts the first.                                                  *)
(***************************************************************************)
EXTENDS EventHub

CONSTANT bot

MCPublishers == {bot}
MCChats == {"a", "b"}

\* Two DMs of one chat, stamped in the opposite order of their ids, and an
\* event that carries no meta.
MCItems ==
    {[id |-> 1, kind |-> "dm", chat |-> "a", at |-> 1, target |-> 0],
     [id |-> 2, kind |-> "dm", chat |-> "a", at |-> 0, target |-> 0],
     [id |-> 3, kind |-> "other", chat |-> "b", at |-> 0, target |-> 0]}
===============================================================================
