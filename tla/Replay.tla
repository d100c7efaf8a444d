-------------------------------- MODULE Replay --------------------------------
(***************************************************************************)
(* One replay: the plan the code computes for a backlog (ReplayPlan)       *)
(* against what it is meant to be, for every backlog of up to MaxLen       *)
(* items, every budget and every reading of the clock.                     *)
(***************************************************************************)
EXTENDS ReplayPlan, SequencesExt

CONSTANTS Items,    \* the items of a backlog: records, see ReplayPlan
          Clocks,   \* what now_ms may be
          MaxLen,   \* bound on the backlog, and on the budget
          Horizon   \* VECTOR_SSE_REPLAY_MAX_AGE_SECS, in clock ticks

ASSUME ReplayAssumption == MaxLen \in Nat

VARIABLES backlog, budget, now, plan

vars == <<backlog, budget, now, plan>>

Init == /\ backlog \in SeqOf(Items, MaxLen)
        /\ budget \in 0..MaxLen
        /\ now \in Clocks
        /\ plan = <<>>

PlanOnce == /\ plan = <<>>
            /\ plan' = PlanReplay(backlog, budget, Horizon, now)
            /\ UNCHANGED <<backlog, budget, now>>

Spec == Init /\ [][PlanOnce]_vars

-------------------------------------------------------------------------------
(***************************************************************************)
(* Properties                                                              *)
(***************************************************************************)

\* The plan of the code is the position-by-position plan: the replayed items in
\* backlog order, each with its superseded flag.
PlanMatchesPositions ==
    [][LET kept == PlanPositions(backlog, budget, Horizon, now)
       IN plan' = [n \in 1..Cardinality(kept) |->
                     LET k == CHOOSE p \in kept :
                                Cardinality({q \in kept : q < p}) = n - 1
                     IN Replayed(backlog[k], Superseded(backlog, kept, k))]
      ]_vars

\* A reconnect costs one turn per chat: of the replayed messages of a chat
\* exactly one, the last, is not superseded (the doc comment of
\* EventHub::connect).
OneTurnPerChat ==
    \A k \in DOMAIN plan :
        HasMeta(plan[k].item) =>
            LET same == {j \in DOMAIN plan :
                            /\ HasMeta(plan[j].item)
                            /\ plan[j].item.chat = plan[k].item.chat}
            IN {j \in same : ~plan[j].superseded}
                  = {CHOOSE m \in same : \A j \in same : j <= m}

\* Skipping stale messages never costs a live one its place: a fresh item of the
\* backlog is left out only when the budget is spent on newer ones, and an item
\* without a timestamp is never flagged.
BudgetGoesToTheNewest ==
    plan # <<>> =>
        LET fresh == {k \in DOMAIN backlog : Fresh(backlog[k], Horizon, now)}
        IN /\ \E k \in fresh : /\ \A j \in fresh : j <= k
                               /\ Last(plan).item = backlog[k]
           /\ Len(plan) < budget => Len(plan) = Cardinality(fresh)
           /\ \A k \in DOMAIN plan : plan[k].superseded => HasMeta(plan[k].item)
===============================================================================
