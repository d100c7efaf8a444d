------------------------------ MODULE MCDelivery ------------------------------
(***************************************************************************)
(* Delivery for TLC: one publisher, a ring of two, two connections, of     *)
(* which the second stays up.                                              *)
(***************************************************************************)
EXTENDS Delivery

CONSTANT bot

MCPublishers == {bot}
MCChats == {"a", "b"}

\* A DM, a later message of its chat, the deletion of the DM.
LiveItems ==
    {[id |-> 1, kind |-> "dm", chat |-> "a", at |-> 0, target |-> 0],
     [id |-> 2, kind |-> "group", chat |-> "a", at |-> 0, target |-> 0],
     [id |-> 3, kind |-> "delete", chat |-> "a", at |-> 0, target |-> 1]}

\* A forwarded slash command besides: more message ids than the adapter's cache
\* holds.
MCItems == LiveItems \union
    {[id |-> 4, kind |-> "slash", chat |-> "a", at |-> 1, target |-> 0]}
===============================================================================
