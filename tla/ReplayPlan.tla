------------------------------ MODULE ReplayPlan ------------------------------
(***************************************************************************)
(* What the sidecar decides to replay to a client that reconnects to       *)
(* GET /events: plan_replay in bridge/src/events.rs.                       *)
(*                                                                         *)
(* An item is what the hub publishes.  Its payload is abstracted to the    *)
(* fields the plan and the adapter look at:                                *)
(*   id      the SSE id, 0 for an item that carries none (ready)           *)
(*   kind    "dm" and "group" messages carry an ItemMeta; a forwarded      *)
(*           slash command, a delete and every other item carry none       *)
(*   chat    the chat the item belongs to                                  *)
(*   at      the sender's timestamp (at_ms)                                *)
(*   target  the message id a delete names, 0 otherwise                    *)
(*                                                                         *)
(* The plan is given twice.  PlanReplay follows the code: filter, drain,   *)
(* flag.  PlanPositions and Superseded say position by position what the   *)
(* three passes leave; EventHub is built from those two, and Replay states *)
(* that the two agree.                                                     *)
(***************************************************************************)
EXTENDS Integers, Sequences, FiniteSets

Kinds == {"dm", "group", "slash", "delete", "other", "ready"}

\* The item carries an ItemMeta (SseItem::with_meta).
HasMeta(i) == i.kind \in {"dm", "group"}

\* ItemMeta::track_seen: only a DM moves the missed-DM cursor.
TrackSeen(i) == i.kind = "dm"

\* First pass of the plan: a message past the horizon is stale.  A horizon of
\* 0 is no limit; an item stamped in the future is never stale.
Fresh(i, horizon, now) ==
    ~HasMeta(i) \/ horizon = 0 \/ now - i.at <= horizon

-------------------------------------------------------------------------------

\* Mutant of PlanPositions: positions counted from 0.
PlanPositionsFromZero(backlog, budget, horizon, now) ==
    {k - 1 : k \in {j \in DOMAIN backlog : Fresh(backlog[j], horizon, now)}}

\* The plan position by position.  A position of the backlog is replayed when
\* its item is fresh and fewer than `budget' fresh items follow it.
PlanPositions(backlog, budget, horizon, now) ==
    {k \in DOMAIN backlog :
        /\ Fresh(backlog[k], horizon, now)
        /\ Cardinality({j \in DOMAIN backlog :
                           j > k /\ Fresh(backlog[j], horizon, now)}) < budget}

\* Among the replayed positions `kept', a message is superseded by a later
\* message of the same chat.
Superseded(backlog, kept, k) ==
    /\ HasMeta(backlog[k])
    /\ \E j \in kept : /\ j > k
                       /\ HasMeta(backlog[j])
                       /\ backlog[j].chat = backlog[k].chat

\* One entry of a client queue: an item with the flags mark_replayed adds.
Live(i) == [item |-> i, replayed |-> FALSE, superseded |-> FALSE]

Replayed(i, sup) == [item |-> i, replayed |-> TRUE, superseded |-> sup]

-------------------------------------------------------------------------------

\* The fresh items, in their order.
FreshOnes(backlog, horizon, now) ==
    LET kept[n \in 0..Len(backlog)] ==
            IF n = 0 THEN <<>>
            ELSE IF Fresh(backlog[n], horizon, now)
                 THEN Append(kept[n - 1], backlog[n]) ELSE kept[n - 1]
    IN kept[Len(backlog)]

\* Mutant of Drain: the drain takes the newest items out.
DrainNewest(fresh, budget) ==
    SubSeq(fresh, 1, IF Len(fresh) > budget THEN budget ELSE Len(fresh))

\* The budget goes to the newest items: the others are drained from the front.
Drain(fresh, budget) ==
    SubSeq(fresh, (IF Len(fresh) > budget THEN Len(fresh) - budget ELSE 0) + 1,
           Len(fresh))

\* Mutant of Newest: an entry that is there is not replaced, so the first wins.
NewestForward(kept) ==
    {k \in DOMAIN kept : \A j \in DOMAIN kept :
        j < k /\ HasMeta(kept[j]) => kept[j].chat # kept[k].chat}

\* newest_per_chat: the positions are entered by chat from the front, so the last
\* message of each chat stays.
Newest(kept) ==
    {k \in DOMAIN kept : \A j \in DOMAIN kept :
        j > k /\ HasMeta(kept[j]) => kept[j].chat # kept[k].chat}

\* Mutant of PlanReplay: the budget is drained before stale messages are
\* skipped, so that they cost live ones their place.
PlanReplayDrainFirst(backlog, budget, horizon, now) ==
    LET kept == FreshOnes(Drain(backlog, budget), horizon, now)
    IN [k \in DOMAIN kept |->
          Replayed(kept[k], HasMeta(kept[k]) /\ k \notin Newest(kept))]

\* The plan as the code computes it: skip what is stale, drain what is over
\* budget, flag what is superseded.
PlanReplay(backlog, budget, horizon, now) ==
    LET kept == Drain(FreshOnes(backlog, horizon, now), budget)
    IN IF budget = 0 THEN <<>>
       ELSE [k \in DOMAIN kept |->
               Replayed(kept[k], HasMeta(kept[k]) /\ k \notin Newest(kept))]
===============================================================================
