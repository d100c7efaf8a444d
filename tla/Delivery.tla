------------------------------- MODULE Delivery -------------------------------
(***************************************************************************)
(* From the sidecar's event hub to the adapter's handlers: EventHub        *)
(* composed with the SSE listener of internal/inbound.py, over streams     *)
(* that break, a sidecar that restarts and handlers that raise.            *)
(*                                                                         *)
(* The listener is one asyncio task.  It reads the stream line by line and *)
(* awaits the handler of each event, so events are handled one at a time;  *)
(* the hub runs in another process and interleaves with every line.        *)
(***************************************************************************)
EXTENDS EventHub, SequencesExt

CONSTANT DedupMax   \* INBOUND_DEDUP_MAX

VARIABLES
    conn,       \* the connection the listener reads, 0 between connections
    wire,       \* lines written to that connection and not yet read
    pendingId,  \* pending_id
    lastId,     \* adapter._sse_last_event_id, 0 for the empty string
    seen        \* adapter._inbound_ids, oldest first

\* History variables.
VARIABLES
    fate,       \* what the handlers did with each message, in order
    done,       \* events whose handler returned
    tried,      \* events whose handler was called
    overflow    \* items refused by the full queue of a live connection

listenerVars == <<conn, wire, pendingId, lastId, seen>>
fateVars == <<fate, done, tried, overflow>>
deliveryVars == <<hubVars, listenerVars, fateVars>>

MessageKinds == {"dm", "group", "slash"}
Messages == {i.id : i \in {j \in Items : j.kind \in MessageKinds}}

\* What becomes of a message: an agent turn, context filed in the session
\* without a turn, rejection by a gate (blocked, unauthorised, no mention, a
\* command), or an exception in the handler.  A message deleted before it is
\* handled is forgotten.
Fates == {"turn", "context", "gated", "failed", "forgotten"}

DeliveryAssumption == DedupMax \in Nat \ {0}
ASSUME DeliveryAssumption

-------------------------------------------------------------------------------

DeliveryInit ==
    /\ Init
    /\ conn = 0 /\ wire = <<>> /\ pendingId = 0 /\ lastId = 0 /\ seen = <<>>
    /\ fate \in [Messages -> {<<>>}]
    /\ done = {} /\ tried = {} /\ overflow = {}

DataLine(d) == [field |-> "data", delivery |-> d]
IdLine(n) == [field |-> "id", id |-> n]

\* into_event: the payload is written first, then the id if there is one.  The
\* listener commits the id it read before the payload, so that its resume point
\* trails the last handled event, which every reconnect replays.
Frame(d) == <<DataLine(d)>> \o
            (IF Transient(d.item) THEN <<>> ELSE <<IdLine(d.item.id)>>)

\* Mutant of ResumeId: the listener never sends Last-Event-ID.
ResumeIdForgotten(last) == 0

\* The Last-Event-ID header.
ResumeId(last) == last

\* The listener opens the next connection, resuming from its last committed id.
Subscribe(c) ==
    /\ conn = 0
    /\ Connect(c, ResumeId(lastId))
    /\ conn' = c
    /\ wire' = <<>>
    /\ pendingId' = 0
    /\ UNCHANGED <<lastId, seen, fateVars>>

\* The response stream sends the next queued item as an SSE frame.  Bound: one
\* frame on the wire at a time; more of them only move items from one queue to
\* another.
SendFrame(c) ==
    /\ conn = c
    /\ wire = <<>>
    /\ Receive(c)
    /\ wire' = Frame(Head(chan[c]))
    /\ UNCHANGED <<conn, pendingId, lastId, seen, fateVars>>

ReadId ==
    /\ conn # 0 /\ wire # <<>>
    /\ Head(wire).field = "id"
    /\ pendingId' = Head(wire).id
    /\ wire' = Tail(wire)
    /\ UNCHANGED <<hubVars, conn, lastId, seen, fateVars>>

\* _is_duplicate, the cache after it: the id moves to the end, the oldest one
\* is evicted.  No id is there twice.
Touch(s, m) ==
    LET moved == Append(RemoveFirst(s, m), m)
    IN IF Len(moved) > DedupMax THEN Tail(moved) ELSE moved

IsDuplicate(m) == \E k \in DOMAIN seen : seen[k] = m

\* The handler of a message the adapter has not seen.
NewMessage(d, ok) ==
    \E f \in Fates \ {"forgotten"} :
        /\ f = "turn" => ~d.superseded
        /\ f = "context" => d.superseded
        /\ ok <=> f # "failed"
        /\ fate' = [fate EXCEPT ![d.item.id] = Append(@, f)]

\* _handle_message_event and _handle_group_message: the id is marked as seen
\* before the message is handled.  A group message first notifies the operator
\* of a new channel, and an exception there comes before the mark.
HandleMessage(d, ok) ==
    \/ /\ d.item.kind = "group" /\ ~ok
       /\ UNCHANGED <<seen, fate>>
    \/ /\ seen' = Touch(seen, d.item.id)
       /\ IF IsDuplicate(d.item.id) THEN ok /\ UNCHANGED fate
                                    ELSE NewMessage(d, ok)

\* Mutant of HandleDelete: the handler forgets to mark the id.
HandleDeleteUnmarked(d) ==
    /\ UNCHANGED seen
    /\ fate' = IF d.item.target \in Messages /\ fate[d.item.target] = <<>>
               THEN [fate EXCEPT ![d.item.target] = <<"forgotten">>] ELSE fate

\* _handle_message_delete: the deleted id is marked as seen.
HandleDelete(d) ==
    /\ seen' = Touch(seen, d.item.target)
    /\ fate' = IF d.item.target \in Messages /\ fate[d.item.target] = <<>>
               THEN [fate EXCEPT ![d.item.target] = <<"forgotten">>] ELSE fate

\* _dispatch_sse_event.
Dispatch(d, ok) ==
    CASE d.item.kind \in MessageKinds -> HandleMessage(d, ok)
      [] d.item.kind = "delete"       -> ok /\ HandleDelete(d)
      [] OTHER                        -> UNCHANGED <<seen, fate>>

\* A data line: the event is dispatched; the id read before it is committed
\* when the handler returns, and forgotten either way.
ReadData ==
    /\ conn # 0 /\ wire # <<>>
    /\ Head(wire).field = "data"
    /\ wire' = Tail(wire)
    /\ LET d == Head(wire).delivery
       IN /\ tried' = tried \union {d.item}
          /\ \E ok \in BOOLEAN :
              /\ Dispatch(d, ok)
              /\ lastId' = IF ok /\ pendingId # 0 THEN pendingId ELSE lastId
              /\ done' = IF ok THEN done \union {d.item} ELSE done
    /\ pendingId' = 0
    /\ UNCHANGED <<hubVars, conn, overflow>>

\* The stream ends for the listener: a network error, no data within
\* SSE_STALE_TIMEOUT, or the end of the response.  Bound: the last connection
\* stays up, so that failures end.
StreamEnds ==
    /\ conn \in 1..(MaxConn - 1)
    /\ conn' = 0
    /\ wire' = <<>>
    /\ pendingId' = 0
    /\ UNCHANGED <<hubVars, lastId, seen, fateVars>>

\* The server's side of a connection goes away, before or after the client's.
ServerSideGone(c) ==
    /\ c < MaxConn
    /\ ClientGone(c)
    /\ UNCHANGED <<listenerVars, fateVars>>

\* The sidecar dies and the adapter connects again to a new one: the hub starts
\* empty, missed-seen.json stays.  The gateway reconnects the same adapter
\* object, or a new one that remembers nothing.  Bound: connection numbers are
\* not reused, and the last one survives.
SidecarRestart ==
    /\ conn # MaxConn
    /\ ring # <<>> \/ tx # 0
    /\ ring' = <<>>
    /\ tx' = 0
    /\ chan' = [c \in Conns |-> <<>>]
    /\ open' = {}
    /\ stage' = [c \in Conns |-> IF stage[c] = "new" THEN "new" ELSE "ready"]
    /\ hand' = [t \in Tasks |-> NoTask]
    /\ dropped' = 0
    /\ conn' = 0
    /\ wire' = <<>>
    /\ pendingId' = 0
    /\ \/ UNCHANGED <<lastId, seen, fate>>
       \/ /\ lastId' = 0 /\ seen' = <<>>
          /\ fate' = [m \in Messages |->
                        IF fate[m] = <<"forgotten">> THEN <<>> ELSE fate[m]]
    /\ UNCHANGED <<cursor, unsaved, now, log, accepted, done, tried, overflow>>

\* A hand-off of the hub, remembering what overflowed.
HandOver(t) ==
    /\ HandOff(t)
    /\ overflow' = IF dropped' # dropped /\ hand[t].to \in open
                   THEN overflow \union {hand[t].plan[k].item :
                                         k \in hand[t].left \ hand'[t].left}
                   ELSE overflow
    /\ UNCHANGED <<listenerVars, fate, done, tried>>

\* The steps of the sidecar's tasks and of the listener.
SystemNext ==
    \/ /\ \/ \E c \in Conns : PublishReady(c)
          \/ \E t \in Tasks : Note(t)
       /\ UNCHANGED <<listenerVars, fateVars>>
    \/ \E t \in Tasks : HandOver(t)
    \/ \E c \in Conns : Subscribe(c) \/ SendFrame(c)
    \/ ReadId
    \/ ReadData

\* What the world does.  disconnect_all is not among it: the sidecar calls it on
\* its way out, and SidecarRestart stands for that too.  The clock stands still:
\* it matters to the replay horizon only, which the runs of EventHub cover.
WorldNext ==
    \/ /\ \E p \in Publishers, i \in Items : Publish(p, i)
       /\ UNCHANGED <<listenerVars, fateVars>>
    \/ \E c \in Conns : ServerSideGone(c)
    \/ StreamEnds
    \/ SidecarRestart

DeliveryNext == SystemNext \/ WorldNext

DeliverySpec == DeliveryInit /\ [][DeliveryNext]_deliveryVars

\* Neither the tokio runtime nor the asyncio loop stops while one of its tasks
\* can run.  That is less than they provide (no single task is starved), and it
\* is enough.  Nothing is assumed of the world.
FairDeliverySpec == DeliverySpec /\ WF_deliveryVars(SystemNext)

-------------------------------------------------------------------------------
(***************************************************************************)
(* Properties                                                              *)
(***************************************************************************)

DeliveryTypeOK ==
    /\ TypeOK
    /\ conn \in 0..MaxConn
    /\ \A k \in DOMAIN wire :
        \/ wire[k].field = "data" /\ wire[k].delivery \in Delivery
        \/ wire[k].field = "id" /\ wire[k].id \in Nat
    /\ pendingId \in Nat
    /\ lastId \in Nat
    /\ seen \in Seq(Nat) /\ Len(seen) <= DedupMax
    /\ fate \in [Messages -> Seq(Fates)]
    /\ done \subseteq tried
    /\ overflow \subseteq Item

\* Every message meets at most one fate: no second turn after a replay, no turn
\* after its deletion, although the sidecar replays events the adapter has
\* handled already and the adapter's cache of ids is bounded.
Life == INSTANCE MessageLife WITH Messages <- Messages, Fates <- Fates, fate <- fate
OneFate == Life!LifeSpec

\* Item i is retained and lies behind the resume point: after the event it
\* names, or anywhere in the ring when the ring no longer holds that event.
Owed(i) ==
    /\ lastId # 0
    /\ \E k \in DOMAIN ring :
        /\ ring[k] = i
        /\ \A j \in DOMAIN ring : ring[j].id = lastId => j < k

\* README "so a dropped stream recovers the gap instead of losing it": an item
\* that lies behind the resume point while the stream is down is eventually
\* handed to its handler, unless the ring evicts it first, the sidecar
\* restarts, the queue of the next connection overflows, or the resume point
\* passes it (an item published while the backlog was being queued overtook it).
GapIsReplayed ==
    \A i \in Items :
        (conn = 0 /\ Owed(i)) ~> (i \in tried \union overflow \/ ~Owed(i))

\* The same as a safety property: when the sidecar and the listener have nothing
\* left to do on a live connection, nothing behind the resume point is untried,
\* except what overflowed the queue: an item refused while the stream stays up
\* is not sent again.
Quiet ==
    /\ conn # 0 /\ Streaming(conn)
    /\ chan[conn] = <<>> /\ wire = <<>>
    /\ \A t \in Tasks : Idle(t)

QuietMeansCaughtUp ==
    Quiet => \A i \in Items : Owed(i) => i \in tried \union overflow
===============================================================================
