----------------------------- MODULE MCReplayPlan -----------------------------
(***************************************************************************)
(* Replay for TLC: DMs of one chat of three ages, an old and a new message *)
(* of a group, and an item without a timestamp, at two clock readings.     *)
(***************************************************************************)
EXTENDS Replay

Msg(k, c, a) == [id |-> 1, kind |-> k, chat |-> c, at |-> a, target |-> 0]

MCItems == {Msg("dm", "a", t) : t \in 0..2} \union
           {Msg("group", "b", 0), Msg("group", "b", 2), Msg("other", "a", 0)}

MCClocks == {1, 2}
===============================================================================
