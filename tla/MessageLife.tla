----------------------------- MODULE MessageLife ------------------------------
(***************************************************************************)
(* What the plugin promises about one message, whatever streams break and  *)
(* whatever is replayed: it meets at most one fate, and never a second.    *)
(* Deletion before the message is handled is a fate too, which an adapter  *)
(* that replaces another does not know of.                                 *)
(***************************************************************************)
EXTENDS Sequences

CONSTANTS Messages, Fates

VARIABLE fate   \* the fates each message met, in order

LifeInit == fate \in [Messages -> {<<>>}]

Settle(m, f) ==
    /\ fate[m] = <<>>
    /\ fate' = [fate EXCEPT ![m] = <<f>>]

\* A new adapter takes over: it has not seen any deletion.
Forgotten(m) == fate[m] = <<"forgotten">>

TakeOver ==
    fate' = [m \in Messages |-> IF Forgotten(m) THEN <<>> ELSE fate[m]]

LifeNext == TakeOver \/ \E m \in Messages, f \in Fates : Settle(m, f)

LifeSpec == LifeInit /\ [][LifeNext]_fate
===============================================================================
