------------------------------ MODULE InboundGate ------------------------------
(***************************************************************************)
(* What the adapter does with the messages its listener reads: the         *)
(* handlers of internal/inbound.py with the gates of internal/groups.py    *)
(* and the block list of adapter.py.                                       *)
(*                                                                         *)
(* A message becomes an agent turn, context in the session, a stored file  *)
(* with a breadcrumb, a command, or nothing.  The listener is one          *)
(* coroutine, so handlers do not overlap; but each has awaits, at any of   *)
(* which the stream may break behind it or the adapter be replaced by one  *)
(* with empty caches.  What a break left behind comes back as a batch      *)
(* flagged by the sidecar (ReplayPlan).                                    *)
(***************************************************************************)
EXTENDS ReplayPlan

CONSTANTS Peers, Channels,
          Operator,       \* VECTOR_HOME_CHANNEL
          Allowed,        \* VECTOR_ALLOWED_USERS
          GroupAllowed,   \* those whom the people gate of the channels admits
          Pairing,        \* VECTOR_PAIRING
          DownloadAll,    \* VECTOR_COMMUNITY_DOWNLOAD_ALL
          Events,         \* the messages and deletes the world may send
          Scenarios,      \* bound: the sets of events it may send together
          MaxBacklog,     \* bound on those under way
          MaxStrays,      \* bound on the files stored without an answer
          MaxAdapters     \* bound on the adapter objects

\* What a message says: nothing, something, the name of the bot and no more, a
\* request addressed to the bot (a mention with more, a slash command, a reply to
\* the bot), or a command of the block list.
Says == {"nothing", "chatter", "mention", "request",
         "block", "unblock", "blocked"}

\* `kind', `chat' and `at' are those of ReplayPlan.  A message has at most one
\* attachment, which its id names; `re' is the message it replies to or deletes
\* (a delete comes with the chat of its message), `whom' the peer a block command
\* names (the operator and the bot are refused, which changes nothing).
Event == [id : Nat \ {0}, kind : {"dm", "group", "delete"},
          chat : Peers \union Channels, from : Peers, at : {0}, says : Says,
          file : BOOLEAN, re : Nat, whom : Peers \ {Operator}]

ASSUME GateAssumption ==
    /\ Events \subseteq Event
    /\ \A e, f \in Events : e.id = f.id => e = f
    /\ \A e \in Events : /\ e.kind = "dm" => e.chat = e.from
                         /\ e.kind = "group" => e.chat \in Channels
    /\ \A e, f \in Events : e.kind = "delete" /\ e.re = f.id => e.chat = f.chat
    /\ Operator \in Peers
    /\ Allowed \subseteq GroupAllowed /\ GroupAllowed \subseteq Peers
    /\ Pairing \in BOOLEAN /\ DownloadAll \in BOOLEAN
    /\ Scenarios \subseteq SUBSET Events
    /\ MaxBacklog \in Nat /\ MaxStrays \in Nat /\ MaxAdapters \in Nat

VARIABLES
    muted,      \* the sidecar's block list, kept by the SDK
    stash,      \* files/pending: the group files known by their metadata
    pointer,    \* files/by-event: the group files that were saved
    up,         \* the event stream is up
    waiting,    \* the deliveries on the stream
    gap,        \* the events behind the resume point of a broken stream
    task,       \* the handler under way
    seen,       \* _inbound_ids
    blocked,    \* _blocked_npubs
    loaded,     \* _blocked_loaded
    inbox       \* _pending_inbox

\* History variables.
VARIABLES
    sent,       \* the events sent
    turns,      \* the turns started
    context,    \* the messages filed as context
    files,      \* the files saved
    strays,     \* the files the sidecar stored without the adapter hearing of it
    named,      \* the files a breadcrumb or a context entry names
    unnamed,    \* the files whose breadcrumb failed or whose handler was cut
    told,       \* the peers of whom the operator last read "Blocked"
    full,       \* this adapter has loaded the block list
    queued,     \* the files queued from a peer since its last turn
    gone,       \* the targets of the deletes handled that were forgotten
    adapters    \* how many adapter objects there were

streamVars == <<up, waiting, gap, sent>>
blockVars == <<muted, blocked, loaded, told, full>>
diskVars == <<stash, pointer, files, strays>>
crumbVars == <<named, unnamed, context>>
turnVars == <<turns, inbox, queued>>
gateVars == <<streamVars, blockVars, diskVars, crumbVars, turnVars, task, seen,
              gone, adapters>>

Stages == {"load", "command", "save", "queue", "context", "fetch", "crumb"}

\* A handler at an await: its stage, its delivery, the files it holds, the group
\* files it still has to fetch, and whether it is past the gates.
Task(stage, d, saved, todo, asked) ==
    [stage |-> stage, of |-> d, saved |-> saved, todo |-> todo, asked |-> asked]

NoTask == [stage |-> "idle"]
Idle == task = NoTask

Init ==
    /\ muted = {} /\ stash = {} /\ pointer = {}
    /\ up = TRUE /\ waiting = <<>> /\ gap = <<>>
    /\ task = NoTask /\ seen = {} /\ blocked = {} /\ loaded = FALSE
    /\ inbox = [p \in Peers |-> {}]
    /\ sent = {} /\ turns = {} /\ context = {} /\ files = {} /\ strays = {}
    /\ named = {} /\ unnamed = {} /\ told = {} /\ full = FALSE
    /\ queued = [p \in Peers |-> {}] /\ gone = {} /\ adapters = 1

-------------------------------------------------------------------------------
(***************************************************************************)
(* The ways on from the synchronous part of a handler                      *)
(***************************************************************************)

Drop == task' = NoTask /\ UNCHANGED turnVars

Await(stage, d, saved, todo, asked) ==
    /\ task' = Task(stage, d, saved, todo, asked)
    /\ UNCHANGED turnVars

\* Mutant of InboxAfter: the queued files are read and not popped.
InboxAfterKept(e, saved) == inbox

\* _media_for_event, the queue after it: popped by a turn with a file of its own,
\* which replaces what is queued, and by a turn without one, which takes it.
InboxAfter(e, saved) ==
    IF e.kind = "dm" /\ (saved # {} \/ ~e.file)
      THEN [inbox EXCEPT ![e.from] = {}] ELSE inbox

\* _media_for_event, the files attached.
MediaOf(e, saved) ==
    IF e.kind = "dm" /\ saved = {} /\ ~e.file THEN inbox[e.from] ELSE saved

\* handle_message.
StartTurn(e, saved) ==
    /\ task' = NoTask
    /\ turns' = turns \union {[of |-> e, media |-> MediaOf(e, saved)]}
    /\ inbox' = InboxAfter(e, saved)
    /\ queued' = IF e.kind = "dm" THEN [queued EXCEPT ![e.from] = {}] ELSE queued

\* _is_superseded_replay.
LateAndOld(d) == d.replayed /\ d.superseded

FileOnly(e) == e.file /\ e.says = "nothing"
Authorized(e) == e.from \in Allowed

\* Mutant of FinishDM: a superseded message is filed without its file.
FinishDMTextOnly(d, saved) ==
    LET e == d.item
    IN \/ FileOnly(e) /\ Authorized(e) /\ Await("queue", d, saved, <<>>, TRUE)
       \/ FileOnly(e) /\ ~Authorized(e) /\ StartTurn(e, {})
       \/ ~FileOnly(e) /\ LateAndOld(d) /\ Await("context", d, {}, <<>>, TRUE)
       \/ ~FileOnly(e) /\ ~LateAndOld(d) /\ StartTurn(e, saved)

\* The end of _handle_message_event.  A file without text makes no turn, except
\* a stranger's, who gets a pairing code.
FinishDM(d, saved) ==
    LET e == d.item
    IN \/ FileOnly(e) /\ Authorized(e) /\ Await("queue", d, saved, <<>>, TRUE)
       \/ FileOnly(e) /\ ~Authorized(e) /\ StartTurn(e, {})
       \/ ~FileOnly(e) /\ LateAndOld(d) /\ Await("context", d, saved, <<>>, TRUE)
       \/ ~FileOnly(e) /\ ~LateAndOld(d) /\ StartTurn(e, saved)

\* The end of _handle_group_message: a bare mention of the bot only stores the
\* files.
FinishGroup(d, saved) ==
    LET store == saved # {} /\ d.item.says = "mention"
    IN \/ store /\ Await("crumb", d, saved, <<>>, TRUE)
       \/ ~store /\ LateAndOld(d) /\ Await("context", d, saved, <<>>, TRUE)
       \/ ~store /\ ~LateAndOld(d) /\ StartTurn(d.item, saved)

-------------------------------------------------------------------------------
(***************************************************************************)
(* Direct messages                                                         *)
(***************************************************************************)

\* The gates after the block list, the operator's commands, the download of an
\* authorised sender's file.
Admit(d, list) ==
    LET e == d.item
        in == e.from \notin list /\ (Pairing \/ Authorized(e))
        command == e.from = Operator /\ e.says \in {"block", "unblock", "blocked"}
    IN \/ ~in /\ Drop
       \/ in /\ command /\ Await("command", d, {}, <<>>, FALSE)
       \/ in /\ ~command /\ e.file /\ Authorized(e)
             /\ Await("save", d, {}, <<>>, TRUE)
       \/ in /\ ~command /\ ~(e.file /\ Authorized(e)) /\ FinishDM(d, {})

\* The next delivery, which the adapter has not seen and which is not empty.
Unseen(d) == d.item.id \notin seen /\ (d.item.file \/ d.item.says # "nothing")

Take(kind) ==
    /\ Idle /\ up /\ waiting # <<>>
    /\ Head(waiting).item.kind = kind
    /\ waiting' = Tail(waiting)
    /\ UNCHANGED <<up, gap, sent, blockVars, crumbVars, pointer, files,
                   strays, adapters>>

\* _handle_message_event up to its first await.
ReceiveDM ==
    /\ Take("dm")
    /\ LET d == Head(waiting)
       IN /\ seen' = seen \union {d.item.id}
          /\ \/ ~Unseen(d) /\ Drop
             \/ Unseen(d) /\ ~loaded /\ Await("load", d, {}, <<>>, FALSE)
             \/ Unseen(d) /\ loaded /\ Admit(d, blocked)
    /\ UNCHANGED <<stash, gone>>

\* _refresh_blocked within _is_blocked.  When the request fails the message goes
\* on with the list as it is.
LoadBlocked ==
    /\ task.stage = "load"
    /\ \/ /\ blocked' = muted /\ loaded' = TRUE /\ full' = TRUE
          /\ Admit(task.of, muted)
       \/ Admit(task.of, blocked) /\ UNCHANGED <<blocked, loaded, full>>
    /\ UNCHANGED <<muted, told, streamVars, diskVars, crumbVars, seen, gone,
                   adapters>>

\* Mutant of Cache: block_user leaves the cache to the next /blocked.
CacheStale(list, says, whom) == list

\* block_user, the cache after it.
Cache(list, says, whom) ==
    IF says = "block" THEN list \union {whom} ELSE list \ {whom}

\* /block and /unblock.  The request is served and answered, or served and its
\* answer lost, or not served; the operator reads which as far as the adapter
\* knows.  The sidecar's own list changes as the command says.
BlockUser ==
    /\ task.stage = "command" /\ task.of.item.says \in {"block", "unblock"}
    /\ LET says == task.of.item.says
           whom == task.of.item.whom
           List(l) == IF says = "block" THEN l \union {whom} ELSE l \ {whom}
       IN \/ /\ muted' = List(muted)
             /\ blocked' = Cache(blocked, says, whom) /\ loaded' = TRUE
             /\ told' = List(told)
          \/ /\ muted' \in {muted, List(muted)}
             /\ told' = told \ (IF says = "unblock" THEN {whom} ELSE {})
             /\ UNCHANGED <<blocked, loaded>>
    /\ Drop
    /\ UNCHANGED <<full, streamVars, diskVars, crumbVars, seen, gone, adapters>>

\* /blocked: list_blocked replaces the cache, or leaves it when the sidecar does
\* not answer.
ListBlocked ==
    /\ task.stage = "command" /\ task.of.item.says = "blocked"
    /\ \/ blocked' = muted /\ loaded' = TRUE /\ full' = TRUE
       \/ UNCHANGED <<blocked, loaded, full>>
    /\ Drop
    /\ UNCHANGED <<muted, told, streamVars, diskVars, crumbVars, seen, gone,
                   adapters>>

\* These files may be stored although no answer says so.
MayStray(ids) ==
    strays' \in {strays} \union
               {s \in {strays \union ids} : Cardinality(s) <= MaxStrays}

\* _download_attachment: saved, or failed.  The sidecar writes the file before it
\* answers, so that one whose answer is lost, late or an error may be stored, in
\* whole or in part; the adapter takes it for failed.
Download(id, saved) ==
    \/ saved = {id} /\ files' = files \union saved /\ UNCHANGED strays
    \/ saved = {} /\ MayStray({id}) /\ UNCHANGED files

\* _save_inbound_attachments for a DM.
SaveDM ==
    /\ task.stage = "save"
    /\ LET id == task.of.item.id
       IN \E saved \in {{}, {id}} : /\ Download(id, saved)
                                   /\ FinishDM(task.of, saved)
    /\ UNCHANGED <<stash, pointer, streamVars, blockVars, crumbVars, seen, gone,
                   adapters>>

\* A breadcrumb or a context entry names the files a handler holds, or fails.
Breadcrumb ==
    \/ named' = named \union task.saved /\ UNCHANGED unnamed
    \/ unnamed' = unnamed \union task.saved /\ UNCHANGED named

\* Mutant of Enqueue: each file replaces the last.
EnqueueLast(p, saved) == saved

\* _queue_pending_inbox.
Enqueue(p, saved) == inbox[p] \union saved

\* A DM with a file only: acknowledged, breadcrumb, queued for the next text.
QueueFile ==
    /\ task.stage = "queue"
    /\ LET p == task.of.item.from
       IN /\ inbox' = [inbox EXCEPT ![p] = Enqueue(p, task.saved)]
          /\ queued' = [queued EXCEPT ![p] = @ \union task.saved]
    /\ Breadcrumb
    /\ task' = NoTask
    /\ UNCHANGED <<turns, context, streamVars, blockVars, diskVars, seen, gone,
                   adapters>>

\* _file_superseded_replay.
FileContext ==
    /\ task.stage = "context"
    /\ Breadcrumb
    /\ context' = context \union {task.of.item}
    /\ Drop
    /\ UNCHANGED <<streamVars, blockVars, diskVars, seen, gone, adapters>>

-------------------------------------------------------------------------------
(***************************************************************************)
(* Channel messages                                                        *)
(***************************************************************************)

\* The mention gate and the people gate of _handle_group_message, then the files
\* the message brings or replies to.
GroupGate(d) ==
    LET e == d.item
        in == e.says \in {"mention", "request"} /\ e.from \in GroupAllowed
        todo == (IF e.re = 0 THEN <<>> ELSE <<e.re>>)
                \o (IF e.file THEN <<e.id>> ELSE <<>>)
    IN \/ ~in /\ Drop
       \/ in /\ todo = <<>> /\ FinishGroup(d, {})
       \/ in /\ todo # <<>> /\ Await("fetch", d, {}, todo, TRUE)

\* _stash_group_file_pending: a write that fails is swallowed, and may leave the
\* old metadata unreadable.
Stash(x) == stash' \in {stash \union {x}, stash, stash \ {x}}

\* _handle_group_message up to its first await: a file is stashed by its
\* metadata, and fetched at once if the operator wants all files.
ReceiveGroup ==
    /\ Take("group")
    /\ LET d == Head(waiting)
           e == d.item
       IN /\ seen' = seen \union {e.id}
          /\ IF Unseen(d) /\ e.file THEN Stash(<<e.chat, e.id>>)
                                  ELSE UNCHANGED stash
          /\ \/ ~Unseen(d) /\ Drop
             \/ /\ Unseen(d) /\ e.file /\ DownloadAll
                /\ Await("fetch", d, {}, <<e.id>>, FALSE)
             \/ Unseen(d) /\ ~(e.file /\ DownloadAll) /\ GroupGate(d)
    /\ UNCHANGED gone

\* What follows the last fetch of a handler, with the files it found.
AfterFetch(d, saved, todo, asked) ==
    \/ todo # <<>> /\ Await("fetch", d, saved, todo, asked)
    \/ todo = <<>> /\ asked /\ FinishGroup(d, saved)
    \/ /\ todo = <<>> /\ ~asked
       /\ \/ saved # {} /\ Await("crumb", d, saved, <<>>, FALSE)
          \/ saved = {} /\ GroupGate(d)

\* _write_group_file_pointer.
PointerAfter(id, saved) == pointer \union saved

\* _ingest_group_file_event: a saved file is found by its pointer; one that is
\* only stashed is downloaded.  A pointer that cannot be written is not missed.
Fetch ==
    /\ task.stage = "fetch"
    /\ LET id == Head(task.todo)
           stashed == <<task.of.item.chat, id>> \in stash
       IN \/ /\ id \in pointer
             /\ AfterFetch(task.of, task.saved \union {id}, Tail(task.todo),
                           task.asked)
             /\ UNCHANGED <<pointer, files, strays>>
          \/ /\ id \notin pointer /\ stashed
             /\ \E saved \in {{}, {id}} :
                   /\ Download(id, saved)
                   /\ pointer' \in {pointer, PointerAfter(id, saved)}
                   /\ AfterFetch(task.of, task.saved \union saved,
                                 Tail(task.todo), task.asked)
          \/ /\ id \notin pointer /\ ~stashed
             /\ AfterFetch(task.of, task.saved, Tail(task.todo), task.asked)
             /\ UNCHANGED <<pointer, files, strays>>
    /\ UNCHANGED <<stash, streamVars, blockVars, crumbVars, seen, gone, adapters>>

\* The breadcrumb of files stored without a turn.  On arrival, the gates follow.
StoreCrumb ==
    /\ task.stage = "crumb"
    /\ Breadcrumb
    /\ \/ task.asked /\ Drop
       \/ ~task.asked /\ GroupGate(task.of)
    /\ UNCHANGED <<context, streamVars, blockVars, diskVars, seen, gone, adapters>>

\* Mutant of StashAfter: only the pointer is removed.
StashAfterKept(e) == stash

StashAfter(e) == stash \ {<<e.chat, e.re>>}

\* _handle_message_delete.  An error of either unlink is swallowed, and that file
\* stays.
ReceiveDelete ==
    /\ Idle /\ up /\ waiting # <<>>
    /\ Head(waiting).item.kind = "delete"
    /\ waiting' = Tail(waiting)
    /\ LET e == Head(waiting).item
       IN /\ seen' = seen \union {e.re}
          /\ \/ /\ pointer' = pointer \ {e.re} /\ stash' = StashAfter(e)
                /\ gone' = gone \union {e.re}
             \/ /\ pointer' \in {pointer, pointer \ {e.re}}
                /\ stash' \in {stash, StashAfter(e)}
                /\ UNCHANGED gone
    /\ UNCHANGED <<up, gap, sent, blockVars, crumbVars, turnVars, files, strays,
                   task, adapters>>

-------------------------------------------------------------------------------
(***************************************************************************)
(* The stream and the adapter                                              *)
(***************************************************************************)

\* An event is sent, after those it refers to: a delete that overtakes its
\* message is the matter of Delivery.
Send(e) ==
    /\ e \in Events \ sent
    /\ \E s \in Scenarios : sent \union {e} \subseteq s
    /\ Len(waiting) + Len(gap) < MaxBacklog
    /\ e.re \in {0} \union {f.id : f \in sent}
    /\ sent' = sent \union {e}
    /\ IF up THEN waiting' = Append(waiting, Live(e)) /\ UNCHANGED gap
             ELSE gap' = Append(gap, e) /\ UNCHANGED waiting
    /\ UNCHANGED <<up, blockVars, diskVars, crumbVars, turnVars, task, seen, gone,
                   adapters>>

\* The stream breaks behind the handler.  What it carried will be replayed: it is
\* behind the resume point, as what was handled is before it.
Break ==
    /\ up
    /\ up' = FALSE
    /\ gap' = [k \in DOMAIN waiting |-> waiting[k].item]
    /\ waiting' = <<>>
    /\ UNCHANGED <<sent, blockVars, diskVars, crumbVars, turnVars, task, seen, gone,
                   adapters>>

\* The listener reconnects, and the sidecar replays the gap, or nothing when the
\* adapter is too young to have a resume point.  The horizon and the budget of a
\* replay, which only shorten the batch, are covered by EventHub.
Reconnect ==
    /\ ~up /\ Idle
    /\ up' = TRUE
    /\ waiting' \in {<<>>, [k \in DOMAIN gap |->
                             Replayed(gap[k], Superseded(gap, DOMAIN gap, k))]}
    /\ gap' = <<>>
    /\ UNCHANGED <<sent, blockVars, diskVars, crumbVars, turnVars, task, seen, gone,
                   adapters>>

\* The file a handler is waiting for.
Downloading ==
    IF task.stage = "save" THEN {task.of.item.id}
    ELSE IF task.stage = "fetch"
      THEN {id \in {Head(task.todo)} \ pointer :
              <<task.of.item.chat, id>> \in stash}
      ELSE {}

\* The gateway replaces the adapter: the handler is cancelled at its await (what
\* it is downloading may be stored all the same), the caches are empty, and the
\* new listener has no resume point, so nothing is replayed to it.
ReplaceAdapter ==
    /\ adapters < MaxAdapters
    /\ adapters' = adapters + 1
    /\ unnamed' = IF Idle THEN unnamed ELSE unnamed \union task.saved
    /\ MayStray(Downloading)
    /\ task' = NoTask
    /\ up' = TRUE /\ waiting' = <<>> /\ gap' = <<>>
    /\ seen' = {} /\ blocked' = {} /\ loaded' = FALSE /\ full' = FALSE
    /\ inbox' = [p \in Peers |-> {}] /\ queued' = [p \in Peers |-> {}]
    /\ UNCHANGED <<muted, told, sent, stash, pointer, files, named, context, turns,
                   gone>>

HandlerNext ==
    \/ ReceiveDM \/ LoadBlocked \/ BlockUser \/ ListBlocked
    \/ SaveDM \/ QueueFile \/ FileContext
    \/ ReceiveGroup \/ Fetch \/ StoreCrumb
    \/ ReceiveDelete

Next ==
    \/ HandlerNext
    \/ \E e \in Events : Send(e)
    \/ Break \/ Reconnect \/ ReplaceAdapter

Spec == Init /\ [][Next]_gateVars

-------------------------------------------------------------------------------
(***************************************************************************)
(* Properties                                                              *)
(***************************************************************************)

Ids == {e.id : e \in Events}
Deliveries == [item : Events, replayed : BOOLEAN, superseded : BOOLEAN]

TypeOK ==
    /\ muted \subseteq Peers /\ blocked \subseteq Peers /\ told \subseteq Peers
    /\ loaded \in BOOLEAN /\ full \in BOOLEAN /\ (full => loaded)
    /\ stash \subseteq Channels \X Ids
    /\ pointer \subseteq files /\ files \subseteq Ids /\ strays \subseteq Ids
    /\ up \in BOOLEAN
    /\ \A k \in DOMAIN waiting : waiting[k] \in Deliveries
    /\ \A k \in DOMAIN gap : gap[k] \in Events
    /\ \/ Idle
       \/ /\ task.stage \in Stages /\ task.of \in Deliveries
          /\ task.saved \subseteq files
          /\ \A k \in DOMAIN task.todo : task.todo[k] \in Ids
          /\ task.asked \in BOOLEAN
    /\ seen \subseteq Ids /\ gone \subseteq Ids
    /\ inbox \in [Peers -> SUBSET files] /\ queued \in [Peers -> SUBSET files]
    /\ \A t \in turns : t.of \in Events /\ t.media \subseteq files
    /\ context \subseteq Events /\ sent \subseteq Events
    /\ named \subseteq files /\ unnamed \subseteq files
    /\ adapters \in 1..MaxAdapters

Started(t) == t \in turns' \ turns

\* README "/block: Their DMs are dropped (no pairing, no turn)": once the
\* operator has read "Blocked", no DM of that peer starts a turn, over adapters
\* replaced, lists reloaded and peers unblocked and blocked again.  An adapter
\* that has never had the list from the sidecar lets a peer through that was
\* blocked before it: the load failed, or a block command came first, after
\* which the cache counts as loaded with that one peer in it.  Only direct
\* messages are gated: what a blocked peer writes in a channel, or reacts with,
\* passes this list by and may start a turn.
MutedStaysOut ==
    [][\A t \in turns' : Started(t) /\ t.of.kind = "dm" /\ t.of.from \in told
                         => ~full']_gateVars

\* "Paths for later reference": no file is stored without the agent knowing of
\* it.  What is saved is attached to a turn, named by a breadcrumb or a context
\* entry, or held by the handler under way; except where writing the breadcrumb
\* failed or the handler was cancelled, and except for what was stored with the
\* answer lost, which the adapter takes for a failed download.
SavedIsKnown ==
    files \union strays \subseteq
        named \union unnamed \union (UNION {t.media : t \in turns})
        \union (IF Idle THEN {} ELSE task.saved) \union (strays \ files)

\* CHANGELOG "Sequential file-only Vector DMs accumulate in _pending_inbox until
\* the next text from that peer": a turn for a text without a file of its own has
\* all the files queued since the last turn.  (A text with a file discards what
\* is queued; a new adapter forgets it.)
QueuedFilesReachNextText ==
    [][\A t \in turns' : Started(t) /\ t.of.kind = "dm" /\ ~t.of.file
                         => queued[t.of.from] \subseteq t.media]_gateVars

\* A file of a DM is attached to one turn only.
AttachedOnce ==
    \A t, u \in turns : /\ t # u
                        /\ t.of.kind = "dm" /\ u.of.kind = "dm"
                        => t.media \intersect u.media = {}

\* README, inbound deletes, "The adapter forgets [...] pending-file pointers for
\* that id": no turn in a channel has a file whose message was deleted before,
\* whether it was downloaded by then or only stashed; but for a delete one of whose
\* unlinks failed, which is swallowed.  (A file queued from a DM stays queued.)
DeletedFileStaysOut ==
    [][\A t \in turns' : Started(t) /\ t.of.kind = "group"
                         => t.media \intersect gone = {}]_gateVars

\* The comment on _is_superseded_replay, "The newest message per chat is never
\* superseded, so every chat still gets exactly one turn": when a batch has been
\* handled, a chat with superseded messages has had a turn.
EveryChatGetsATurn ==
    Idle /\ up /\ waiting = <<>> =>
        \A e \in context : \E t \in turns : t.of.chat = e.chat
===============================================================================
