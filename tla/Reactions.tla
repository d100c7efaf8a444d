----------------------------- MODULE Reactions -----------------------------
(***************************************************************************)
(* Reactions on one message of the bot in a DM.  The bot's own (the 👀 of   *)
(* a turn, its ✅ or ❌, the agent's react and unreact) go through POST      *)
(* /react: the sidecar remembers the id of what it posted, because only    *)
(* the id retracts it.  Reactions of the peer come as snapshots of all the *)
(* reactions of the message; the last one is a turn of the agent, once.    *)
(***************************************************************************)
EXTENDS Naturals, SequencesExt

CONSTANTS
    Emoji,          \* what the bot reacts with
    Requesters,     \* turns and tool calls that may post at the same time
    SeenMax,        \* INBOUND_DEDUP_MAX, reaction ids an adapter keeps
    MaxPosted,      \* bound: reactions the two post
    MaxSnaps,       \* bound: snapshots on their way
    MaxRestarts     \* bound: restarts of the gateway

ASSUME ReactionsAssumption ==
    /\ Emoji \intersect {"peer", "all", "none"} = {}
    /\ SeenMax \in Nat \ {0}
    /\ {MaxPosted, MaxSnaps, MaxRestarts} \subseteq Nat

\* A reaction id: what it is, and when it was posted.
Own == Emoji \X (1..MaxPosted)
Peer == {"peer"} \X (1..MaxPosted)
Reaction == Own \union Peer
NoId == <<"none", 0>>

VARIABLES
    chips,      \* the reactions on the message, in their order: network
    posted,     \* reactions posted by the bot and by the peer
    slot,       \* own_reactions of the sidecar for this message, by emoji
    req,        \* POST /react requests in the sidecar
    snaps,      \* message_update events on their way to the adapter
    seen,       \* _seen_reaction_ids, oldest first
    turned,     \* history: peer's reactions this adapter gave a turn
    repeated,   \* history: one of them had a second turn
    lost,       \* history: own reactions whose id the sidecar has dropped
    restarts

network == <<chips, posted, snaps>>
sidecar == <<slot, req, lost>>
adapter == <<seen, turned, repeated>>
reactionVars == <<network, sidecar, adapter, restarts>>

Idle == [at |-> "idle", emoji |-> "all", ids |-> {}]

Wanted(emoji) == IF emoji = "all" THEN Emoji ELSE {emoji}
Do(w, r) == req' = [req EXCEPT ![w] = r]

ReactionsInit ==
    /\ chips = <<>> /\ posted = [bot |-> 0, peer |-> 0] /\ snaps = <<>>
    /\ slot = [e \in Emoji |-> NoId]
    /\ req = [w \in Requesters |-> Idle]
    /\ lost = {}
    /\ seen = <<>> /\ turned = {} /\ repeated = FALSE
    /\ restarts = 0

\* map_update: a changed message is reported with all its reactions, unless it
\* has none; the event may be lost.
Report(rows) ==
    \/ UNCHANGED snaps
    \/ /\ rows # <<>> /\ Len(snaps) < MaxSnaps
       /\ snaps' = Append(snaps, rows)

-------------------------------------------------------------------------------
(***************************************************************************)
(* Own reactions                                                           *)
(***************************************************************************)

\* A turn or the agent reacts: core.send_reaction, when the relay takes it.
React(w, e) ==
    /\ req[w] = Idle
    /\ posted.bot + posted.peer < MaxPosted
    /\ LET id == <<e, posted.bot + 1>> IN
        /\ posted' = [posted EXCEPT !.bot = @ + 1]
        /\ chips' = Append(chips, id)
        /\ Do(w, [at |-> "sent", emoji |-> e, ids |-> {id}])
    /\ Report(chips')
    /\ UNCHANGED <<slot, lost, adapter, restarts>>

\* remember_own_reaction: an emoji has one id, the latest.
Remember(w) ==
    /\ req[w].at = "sent"
    /\ slot' = [slot EXCEPT ![req[w].emoji] = CHOOSE id \in req[w].ids : TRUE]
    /\ lost' = lost \union ({slot[req[w].emoji]} \intersect Range(chips))
    /\ Do(w, Idle)
    /\ UNCHANGED <<network, adapter, restarts>>

\* Mutant of Take: the ids of the other emojis are not put back.
TakeAll(w, e) ==
    /\ req[w] = Idle
    /\ Do(w, [at |-> "history", emoji |-> e, ids |-> {slot[f] : f \in Wanted(e)} \ {NoId}])
    /\ slot' = [f \in Emoji |-> NoId]
    /\ UNCHANGED <<network, lost, adapter, restarts>>

\* They take one back, or all: take_own_reactions.  The ids are the request's
\* before anything is deleted.
Take(w, e) ==
    /\ req[w] = Idle
    /\ Do(w, [at |-> "history", emoji |-> e, ids |-> {slot[f] : f \in Wanted(e)} \ {NoId}])
    /\ slot' = [f \in Emoji |-> IF f \in Wanted(e) THEN NoId ELSE slot[f]]
    /\ UNCHANGED <<network, lost, adapter, restarts>>

\* The history of the SDK may show more of ours, or not.
History(w) ==
    /\ req[w].at = "history"
    /\ \E echo \in SUBSET {id \in Range(chips) : id[1] \in Wanted(req[w].emoji)} :
        LET ids == req[w].ids \union echo IN
        Do(w, IF ids = {} THEN Idle ELSE [req[w] EXCEPT !.at = "delete", !.ids = ids])
    /\ UNCHANGED <<network, slot, lost, adapter, restarts>>

\* delete_own_reaction, one id after the other; a refused one is not kept.
Delete(w) ==
    /\ req[w].at = "delete"
    /\ \E id \in req[w].ids :
        /\ \/ /\ chips' = RemoveFirst(chips, id)
              /\ IF chips' = chips THEN UNCHANGED snaps ELSE Report(chips')
              /\ lost' = lost \ {id}
           \/ /\ lost' = lost \union ({id} \intersect Range(chips))
              /\ UNCHANGED <<chips, snaps>>
        /\ LET rest == req[w].ids \ {id} IN
           Do(w, IF rest = {} THEN Idle ELSE [req[w] EXCEPT !.ids = rest])
    /\ UNCHANGED <<posted, slot, adapter, restarts>>

\* The adapter's client gives up after ten seconds and the handler is dropped.
TimesOut(w) ==
    /\ req[w] # Idle
    /\ lost' = lost \union (req[w].ids \intersect Range(chips))
    /\ Do(w, Idle)
    /\ UNCHANGED <<network, slot, adapter, restarts>>

-------------------------------------------------------------------------------
(***************************************************************************)
(* The peer's reactions                                                    *)
(***************************************************************************)

PeerReacts ==
    /\ posted.bot + posted.peer < MaxPosted
    /\ posted' = [posted EXCEPT !.peer = @ + 1]
    /\ chips' = Append(chips, <<"peer", posted.peer + 1>>)
    /\ Report(chips')
    /\ UNCHANGED <<sidecar, adapter, restarts>>

PeerRetracts ==
    /\ \E id \in Range(chips) \intersect Peer : chips' = RemoveFirst(chips, id)
    /\ Report(chips')
    /\ UNCHANGED <<posted, sidecar, adapter, restarts>>

\* Mutant of Touch: the older mention of an id stays.
TouchTwice(s, id) == Append(s, id)

\* _remember_reaction_id, before the oldest ids are dropped.
Touch(s, id) == Append(RemoveFirst(s, id), id)

\* Mutant of Newest: one id too few is kept.
NewestLess(s) == IF Len(s) >= SeenMax THEN SubSeq(s, Len(s) - SeenMax + 2, Len(s)) ELSE s

Newest(s) == IF Len(s) > SeenMax THEN SubSeq(s, Len(s) - SeenMax + 1, Len(s)) ELSE s

\* The rows of a snapshot, remembered one after the other.
Remembered(rows) ==
    LET after[k \in 0..Len(rows)] ==
            IF k = 0 THEN seen ELSE Newest(Touch(after[k - 1], rows[k]))
    IN after[Len(rows)]

\* _handle_message_update: every row is marked, the last one may be a turn.  An
\* event that is replayed may be superseded, and after a reconnect it may come again.
HandleUpdate ==
    /\ snaps # <<>>
    /\ \E stale \in BOOLEAN :
       LET rows == Head(snaps)
           last == Last(rows)
           turn == /\ last \notin Range(seen)
                   /\ ~stale
                   /\ last \in Peer
       IN  /\ seen' = Remembered(rows)
           /\ turned' = turned \union (IF turn THEN {last} ELSE {})
           /\ repeated' = (repeated \/ (turn /\ last \in turned))
    /\ snaps' \in {snaps, Tail(snaps)}
    /\ UNCHANGED <<chips, posted, sidecar, restarts>>

\* The gateway restarts: adapter and sidecar begin with nothing in memory.
Restart ==
    /\ restarts < MaxRestarts
    /\ restarts' = restarts + 1
    /\ slot' = [e \in Emoji |-> NoId]
    /\ req' = [w \in Requesters |-> Idle]
    /\ lost' = lost \union (Range(chips) \intersect Own)
    /\ snaps' = <<>>
    /\ seen' = <<>> /\ turned' = {} /\ repeated' = FALSE
    /\ UNCHANGED <<chips, posted>>

-------------------------------------------------------------------------------
Request ==
    \E w \in Requesters :
        \/ \E e \in Emoji : React(w, e)
        \/ \E e \in Emoji \union {"all"} : Take(w, e)
        \/ Remember(w) \/ History(w) \/ Delete(w) \/ TimesOut(w)

ReactionsNext == Request \/ PeerReacts \/ PeerRetracts \/ HandleUpdate \/ Restart

ReactionsSpec == ReactionsInit /\ [][ReactionsNext]_reactionVars

-------------------------------------------------------------------------------
(***************************************************************************)
(* Properties                                                              *)
(***************************************************************************)

ReactionsTypeOK ==
    /\ chips \in Seq(Reaction) /\ IsInjective(chips)
    /\ seen \in Seq(Reaction) /\ IsInjective(seen) /\ Len(seen) <= SeenMax
    /\ slot \in [Emoji -> Own \union {NoId}]
    /\ \A e \in Emoji : slot[e] = NoId \/ slot[e][1] = e
    /\ \A w \in Requesters : req[w].ids \subseteq Own
    /\ restarts \in 0..MaxRestarts

\* The id is in the map or in the hands of a request.
Held(id) ==
    \/ \E e \in Emoji : slot[e] = id
    \/ \E w \in Requesters : id \in req[w].ids

\* "Unreact keeps the reaction rumor id": a reaction of ours that others see can
\* still be taken back, however the reacts and unreacts of turns and tools
\* interleave; the exceptions are those named at lost.
OwnIsRetractable ==
    \A id \in Range(chips) \intersect Own : Held(id) \/ id \in lost

\* A reaction of the peer is a turn once in the life of an adapter, through
\* retractions, replays and snapshots that come twice, as long as there are no
\* more reactions than ids it keeps.
OneTurnPerReaction == posted.bot + posted.peer <= SeenMax => ~repeated
===============================================================================
