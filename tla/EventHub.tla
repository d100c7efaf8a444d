------------------------------- MODULE EventHub -------------------------------
(***************************************************************************)
(* The sidecar's event hub during one life of the sidecar process          *)
(* (bridge/src/events.rs, with note_live of bridge/src/missed.rs).         *)
(*                                                                         *)
(* The hub keeps a replay ring and the sender of the one attached client   *)
(* under a mutex.  Publishing is two critical steps: the item enters the   *)
(* ring and the sender is cloned under the lock; the item is handed to the *)
(* clone after the lock is released.  Attaching a client is the same: the  *)
(* sender is installed and the backlog copied under the lock, the planned  *)
(* backlog is handed over after it.  An accepted DM then moves the         *)
(* missed-DM cursor of its chat, a third step.  Publishers (the bot's      *)
(* event handler, the slash-command handler, spawned invite tasks, the     *)
(* inject endpoint) and connections run concurrently, so all these steps   *)
(* interleave.                                                             *)
(***************************************************************************)
EXTENDS ReplayPlan, SeenMarks

CONSTANTS Items,       \* the items published: records, see ReplayPlan
          Chats,       \* the chats they belong to
          Publishers,  \* concurrent callers of publish
          MaxConn,     \* bound: connections numbered 1..MaxConn, 0 is none
          RingCap,     \* REPLAY_CAPACITY
          ReplayMax,   \* VECTOR_SSE_REPLAY_MAX
          Horizon,     \* VECTOR_SSE_REPLAY_MAX_AGE_SECS
          MaxPublish,  \* bound on the items published
          MaxUnsaved,  \* bound on the DMs whose mark is lost
          MaxNow       \* bound on the clock

Conns == 1..MaxConn
Tasks == Publishers \union Conns

Item == [id : Nat, kind : Kinds, chat : Chats, at : Nat, target : Nat]

\* Mutant of ChanCap: as many as the ring holds.
ChanCapOfRing == RingCap

\* CHANNEL_CAPACITY
ChanCap == 2 * RingCap

\* An item published by handle_bot_event with an SSE id and not "ready"; the
\* hub publishes "ready" itself, once per connection.
ASSUME HubAssumption ==
    /\ MaxConn \in Nat /\ MaxNow \in Nat
    /\ MaxPublish \in Nat /\ MaxUnsaved \in Nat
    /\ RingCap \in Nat \ {0}
    /\ ReplayMax \in 0..RingCap
    /\ Horizon \in Nat
    /\ Publishers \intersect (0..MaxConn) = {}
    /\ Chats # {}
    /\ \A i \in Items : i \in Item

Delivery == [item : Item, replayed : BOOLEAN, superseded : BOOLEAN]

\* ready_item: transient, so it has no SSE id.
ReadyItem == [id |-> 0, kind |-> "ready", chat |-> CHOOSE c \in Chats : TRUE,
              at |-> 0, target |-> 0]

Transient(i) == i.id = 0

VARIABLES
    ring,     \* HubState.replay
    tx,       \* HubState.tx: the connection whose sender is installed
    chan,     \* the mpsc queue of each connection
    open,     \* the connections whose receiver has not been dropped
    stage,    \* how far get_events is with each connection
    hand,     \* what each task has still to hand over, and to which sender
    cursor,   \* missed-seen.json: the mark of each chat
    dropped,  \* EventHub.dropped
    now       \* now_ms

\* History variables: what was published, in ring order, what some client queue
\* accepted, and the accepted DMs that a failed write of missed-seen.json lost.
VARIABLES log, accepted, unsaved

hubVars == <<ring, tx, chan, open, stage, hand, cursor, unsaved, dropped, now,
             log, accepted>>

-------------------------------------------------------------------------------

\* A task hands over the positions `left' of `plan' in order, to the clone of
\* the sender of connection `to'.  `noting' holds the accepted delivery whose
\* cursor has not been moved yet.
NoTask == [to |-> 0, plan |-> <<>>, left |-> {}, noting |-> <<>>]

Idle(t) == hand[t].left = {} /\ hand[t].noting = <<>>

Init ==
    /\ ring = <<>>
    /\ tx = 0
    /\ chan = [c \in Conns |-> <<>>]
    /\ open = {}
    /\ stage = [c \in Conns |-> "new"]
    /\ hand = [t \in Tasks |-> NoTask]
    /\ cursor \in [Chats -> {NoMark}]
    /\ dropped = 0
    /\ now = 0
    /\ log = <<>>
    /\ accepted = {}
    /\ unsaved = {}

\* Mutant of PushRing: a full ring evicts the item just pushed.
PushRingDropsNewest(r, i) == IF Len(r) = RingCap THEN r ELSE Append(r, i)

\* Push into the ring, oldest out.
PushRing(r, i) ==
    LET pushed == Append(r, i)
    IN IF Len(pushed) > RingCap THEN Tail(pushed) ELSE pushed

\* Mutant of Publish: a DM is marked seen before it is handed over, as releases
\* before 0.4.0 did.
PublishMarksFirst(p, i) ==
    /\ Idle(p)
    /\ \A k \in DOMAIN log : log[k] # i
    /\ Len(log) < MaxPublish
    /\ ring' = PushRing(ring, i)
    /\ log' = Append(log, i)
    /\ hand' = [hand EXCEPT ![p] =
                  [to |-> tx, plan |-> <<Live(i)>>,
                   left |-> IF tx = 0 THEN {} ELSE {1},
                   noting |-> IF TrackSeen(i) THEN <<i>> ELSE <<>>]]
    /\ UNCHANGED <<tx, chan, open, stage, cursor, unsaved, dropped, now,
                   accepted>>

\* Mutant of Publish: with no client attached nothing is counted.
PublishUncounted(p, i) ==
    /\ Idle(p)
    /\ \A k \in DOMAIN log : log[k] # i
    /\ Len(log) < MaxPublish
    /\ ring' = PushRing(ring, i)
    /\ log' = Append(log, i)
    /\ hand' = IF tx = 0 THEN hand
               ELSE [hand EXCEPT ![p] = [to |-> tx, plan |-> <<Live(i)>>,
                                         left |-> {1}, noting |-> <<>>]]
    /\ UNCHANGED <<tx, chan, open, stage, cursor, unsaved, dropped, now,
                   accepted>>

\* publish: under the lock the item enters the ring and the sender is cloned.
\* With no client attached the item is counted as dropped at once.  Each event
\* happens once; two events may share an SSE id (two snapshots of one message).
Publish(p, i) ==
    /\ Idle(p)
    /\ \A k \in DOMAIN log : log[k] # i
    /\ Len(log) < MaxPublish
    /\ IF Transient(i)
         THEN UNCHANGED <<ring, log>>
         ELSE /\ ring' = PushRing(ring, i)
              /\ log' = Append(log, i)
    /\ IF tx = 0
         THEN /\ dropped' = IF Transient(i) THEN dropped ELSE dropped + 1
              /\ UNCHANGED hand
         ELSE /\ hand' = [hand EXCEPT ![p] = [to |-> tx, plan |-> <<Live(i)>>,
                                              left |-> {1}, noting |-> <<>>]]
              /\ UNCHANGED dropped
    /\ UNCHANGED <<tx, chan, open, stage, cursor, unsaved, now, accepted>>

\* Mutant of ResumeAfter: the position found is taken for the number of items
\* before it, and the item after it is skipped with it.
ResumeAfterSkipsOne(last) ==
    LET found == {k \in DOMAIN ring : ring[k].id = last}
    IN IF last = 0 THEN {Len(ring)}
       ELSE IF found = {} THEN {0}
       ELSE {k + 1 : k \in found}

\* Where a client resumes, as the one-element set of the ring position after
\* which the backlog begins: at the end without a resume id, after the first
\* item with that id, or before the whole ring when it holds none.
ResumeAfter(last) ==
    LET found == {k \in DOMAIN ring : ring[k].id = last}
    IN IF last = 0 THEN {Len(ring)}
       ELSE IF found = {} THEN {0}
       ELSE {k \in found : \A j \in found : k <= j}

\* The replay of a backlog to connection c: its planned positions, in order.
ReplayTask(c, backlog) ==
    LET kept == PlanPositions(backlog, ReplayMax, Horizon, now)
    IN [to     |-> c,
        plan   |-> [k \in DOMAIN backlog |->
                      Replayed(backlog[k], Superseded(backlog, kept, k))],
        left   |-> kept,
        noting |-> <<>>]

\* connect: the new sender replaces the old one (last writer wins), the backlog
\* is copied under the same lock, and its plan is what this task hands over
\* next.
Connect(c, last) ==
    /\ stage[c] = "new"
    /\ \A b \in Conns : b < c => stage[b] # "new"
    /\ \E after \in ResumeAfter(last) :
         hand' = [hand EXCEPT ![c] =
                    ReplayTask(c, SubSeq(ring, after + 1, Len(ring)))]
    /\ tx' = c
    /\ open' = open \union {c}
    /\ stage' = [stage EXCEPT ![c] = "replaying"]
    /\ UNCHANGED <<ring, chan, cursor, unsaved, dropped, now, log, accepted>>

\* get_events, after connect and an await: publish `ready' to whichever sender
\* is installed by now.  A client that connects before /health is ready is not
\* modelled: the adapter never does.
PublishReady(c) ==
    /\ stage[c] = "replaying"
    /\ Idle(c) /\ c \in open
    /\ stage' = [stage EXCEPT ![c] = "ready"]
    /\ hand' = [hand EXCEPT ![c] =
                  IF tx = 0 THEN NoTask
                  ELSE [to |-> tx, plan |-> <<Live(ReadyItem)>>,
                        left |-> {1}, noting |-> <<>>]]
    /\ UNCHANGED <<ring, tx, chan, open, cursor, unsaved, dropped, now, log,
                   accepted>>

\* hand_off: try_send fails on a closed or a full queue, and a failure of an
\* item with an SSE id is counted.
CanSend(c) == c \in open /\ Len(chan[c]) < ChanCap

Accept(t, k) ==
    LET d == hand[t].plan[k]
    IN /\ CanSend(hand[t].to)
       /\ chan' = [chan EXCEPT ![hand[t].to] = Append(@, d)]
       /\ accepted' = accepted \union {d.item}
       /\ hand' = [hand EXCEPT ![t].left = @ \ {k},
                               ![t].noting = IF TrackSeen(d.item)
                                             THEN <<d.item>> ELSE <<>>]
       /\ UNCHANGED dropped

Refuse(t, k) ==
    /\ ~CanSend(hand[t].to)
    /\ hand' = [hand EXCEPT ![t].left = @ \ {k}]
    /\ dropped' = IF Transient(hand[t].plan[k].item) THEN dropped
                  ELSE dropped + 1
    /\ UNCHANGED <<chan, accepted>>

HandOff(t) ==
    /\ hand[t].noting = <<>>
    /\ \E k \in hand[t].left :
        /\ \A j \in hand[t].left : k <= j
        /\ Accept(t, k) \/ Refuse(t, k)
    /\ UNCHANGED <<ring, tx, open, stage, cursor, unsaved, now, log>>

\* The accepted DMs after the marks cur, but for those another task than t is
\* still to note.
NotCovered(cur, t) ==
    {i \in accepted : /\ TrackSeen(i) /\ Precedes(cur[i.chat], MarkOf(i))
                      /\ \A u \in Tasks \ {t} : hand[u].noting # <<i>>}

\* note_live, after an accepted DM.  Nobody learns that the file could not be read
\* or written.
Note(t) ==
    /\ hand[t].noting # <<>>
    /\ LET i == Head(hand[t].noting)
       IN \/ /\ cursor' = Bump(cursor, i)
             /\ UNCHANGED unsaved
          \/ /\ Cardinality(unsaved) < MaxUnsaved
             /\ cursor' \in FailedBumps(cursor, i)
             /\ unsaved' = unsaved \union NotCovered(cursor', t)
    /\ hand' = [hand EXCEPT ![t].noting = <<>>]
    /\ UNCHANGED <<ring, tx, chan, open, stage, dropped, now, log, accepted>>

\* The response of get_events is out: the client reads the stream.
Streaming(c) == stage[c] = "ready" /\ Idle(c) /\ c \in open

\* ClientStream::poll_next.
Receive(c) ==
    /\ Streaming(c)
    /\ chan[c] # <<>>
    /\ chan' = [chan EXCEPT ![c] = Tail(@)]
    /\ UNCHANGED <<ring, tx, open, stage, hand, cursor, unsaved, dropped, now,
                   log, accepted>>

\* The client goes away: the stream and its receiver are dropped with whatever
\* is queued, at an await of get_events or once the response is out.  The hub
\* notices only when a try_send fails.
ClientGone(c) ==
    /\ c \in open /\ Idle(c)
    /\ open' = open \ {c}
    /\ chan' = [chan EXCEPT ![c] = <<>>]
    /\ UNCHANGED <<ring, tx, stage, hand, cursor, unsaved, dropped, now, log,
                   accepted>>

\* disconnect_all: the ring is kept so that a reconnect can resume.
DisconnectAll ==
    /\ tx # 0
    /\ tx' = 0
    /\ UNCHANGED <<ring, chan, open, stage, hand, cursor, unsaved, dropped, now,
                   log, accepted>>

Tick ==
    /\ now < MaxNow
    /\ now' = now + 1
    /\ UNCHANGED <<ring, tx, chan, open, stage, hand, cursor, unsaved, dropped,
                   log, accepted>>

\* A client resumes from nothing, from an id of an earlier life of the sidecar,
\* or from the id of an item it was handed.
UnknownId == -1
ResumeIds == {0, UnknownId} \union {i.id : i \in accepted}

Next ==
    \/ \E p \in Publishers, i \in Items : Publish(p, i)
    \/ \E c \in Conns :
        \/ \E last \in ResumeIds : Connect(c, last)
        \/ PublishReady(c)
        \/ Receive(c)
        \/ ClientGone(c)
    \/ \E t \in Tasks : HandOff(t) \/ Note(t)
    \/ DisconnectAll
    \/ Tick

Spec == Init /\ [][Next]_hubVars

-------------------------------------------------------------------------------
(***************************************************************************)
(* Properties                                                              *)
(***************************************************************************)

Stages == {"new", "replaying", "ready"}

TypeOK ==
    /\ ring \in Seq(Item)
    /\ tx \in 0..MaxConn
    /\ chan \in [Conns -> Seq(Delivery)]
    /\ open \subseteq Conns
    /\ stage \in [Conns -> Stages]
    /\ hand \in [Tasks -> [to : 0..MaxConn, plan : Seq(Delivery),
                           left : SUBSET Nat, noting : Seq(Item)]]
    /\ \A t \in Tasks : hand[t].left \subseteq DOMAIN hand[t].plan
    /\ cursor \in [Chats -> Mark \union {NoMark}]
    /\ dropped \in Nat
    /\ now \in Nat
    /\ log \in Seq(Item)
    /\ accepted \subseteq Item
    /\ unsaved \subseteq Item

\* The ring is exactly the newest RingCap published items, in the order of the
\* lock, whatever publishers interleave with connections: a resume id that is
\* still retained finds everything that followed it.
RingIsNewest ==
    /\ Len(ring) = IF Len(log) < RingCap THEN Len(log) ELSE RingCap
    /\ \A k \in 1..Len(ring) : ring[k] = log[Len(log) - Len(ring) + k]

\* The items queued for c that are not part of its replay.
LiveIn(c) == {k \in DOMAIN chan[c] : ~chan[c][k].replayed}

\* "A full replay fits without the backlog itself overflowing the queue it is
\* being written into" (comment on CHANNEL_CAPACITY): what is left of a replay has
\* room, also behind live items that overtook it, unless those alone are more than
\* the ring holds.
ReplayFits ==
    \A c \in open :
        stage[c] = "replaying" =>
            \/ Len(chan[c]) + Cardinality(hand[c].left) <= ChanCap
            \/ Cardinality(LiveIn(c)) > RingCap

\* The missed-DM cursor advances only for an item a client queue accepted
\* (module comment of events.rs): a mark names an accepted DM of that chat.
CursorWasAccepted ==
    \A ch \in Chats :
        cursor[ch] # NoMark =>
            \E i \in accepted : /\ TrackSeen(i)
                                /\ i.chat = ch
                                /\ cursor[ch] = MarkOf(i)

\* No accepted DM is forgotten: once no task still has a cursor to move, the
\* mark of a chat is at or past every accepted DM of the chat, also when two
\* publishers and a replay race for the file; unless the file could not be read or
\* written when one of them was noted.
CursorCoversAccepted ==
    (\A t \in Tasks : hand[t].noting = <<>>) =>
        \A i \in accepted \ unsaved : TrackSeen(i) =>
            ~Precedes(cursor[i.chat], MarkOf(i))

\* sse_dropped = 0 on GET /health means no event was missed: every published
\* item was accepted, or a publisher is still about to hand it over.
ZeroDropsMeansAccepted ==
    dropped = 0 =>
        \A k \in DOMAIN log :
            \/ log[k] \in accepted
            \/ \E p \in Publishers : /\ hand[p].left # {}
                                     /\ hand[p].plan[1].item = log[k]

\* README "Undelivered DMs stay unseen in sdk/missed-seen.json": once every task
\* has finished, a published DM that no queue accepted lies after the mark of
\* its chat, so that the next catch-up finds it.
UndeliveredStaysUnseen ==
    (\A t \in Tasks : Idle(t)) =>
        \A k \in DOMAIN log :
            TrackSeen(log[k]) /\ log[k] \notin accepted =>
                Precedes(cursor[log[k].chat], MarkOf(log[k]))
===============================================================================
