---------------------------- MODULE Communities ----------------------------
(***************************************************************************)
(* The bot in communities: its own home room, created once; invites that   *)
(* are accepted by policy, or parked until the operator joins or declines; *)
(* and what the operator is told: a hello, and the channel ids of every    *)
(* community, once.  Several coroutines of the adapter announce channels:  *)
(* the tail of connect, the SSE listener, and whoever looks up a name.     *)
(* Each reads the set of announced channels, awaits its DM, then marks.    *)
(* An adapter, and the sidecar it spawned, may be replaced at any await.   *)
(***************************************************************************)
EXTENDS Naturals, FiniteSets

CONSTANTS
    Owned,          \* communities the sidecar may create
    Foreign,        \* communities others invite the bot to
    Channels,
    ChannelsOf,     \* the channels of a community
    MaxLives        \* bound: adapters, one after the other

Community == Owned \union Foreign

ASSUME CommunityAssumption ==
    /\ Owned \intersect Foreign = {}
    /\ ChannelsOf \in [Community -> SUBSET Channels]
    /\ MaxLives \in Nat

VARIABLES
    members,    \* communities the bot belongs to: network
    parked,     \* invites nobody has answered: the sidecar's
    saved,      \* home-community.json, "none" when missing, "cut" when unreadable
    creating,   \* the POST /communities under way in the sidecar
    marked,     \* notified-channels.json, {} when missing or unreadable
    notified,   \* _notified_channel_ids of the adapter
    welcomed,   \* does welcome-sent.json name this bot and this operator?
    told,       \* channels the operator was told of
    task,       \* the coroutines
    lives,
    kept,       \* history: channels whose mark was written, until a cut write
    settled,    \* history: kept when the adapter started
    byHand,     \* history: channels marked by /join before the notice
    lapses      \* history: homes created and not saved, or whose file was cut

rooms == <<members, parked>>
files == <<saved, welcomed>>
marks == <<marked, notified, kept>>
history == <<settled, byHand, lapses>>
communityVars == <<rooms, creating, files, marks, told, task, lives, history>>

\* Two at a time: once the tail has ended, another coroutine takes its place.
Workers == {"tail", "listener"}

Idle == [at |-> "idle", rows |-> {}, todo |-> {}, then |-> "idle"]
NoRequest == [at |-> "none", home |-> "none"]

CommunitiesInit ==
    /\ members = {} /\ parked = {}
    /\ saved = "none" /\ marked = {} /\ welcomed = FALSE
    /\ creating = NoRequest
    /\ notified = {}
    /\ told = {}
    /\ task = [w \in Workers |-> Idle]
    /\ lives = 0
    /\ kept = {} /\ settled = {} /\ byHand = {} /\ lapses = 0

At(w, at) == task[w].at = at
Do(w, t) == task' = [task EXCEPT ![w] = t]
Lapse == lapses' = lapses + (IF creating.at = "created" THEN 1 ELSE 0)

\* What a coroutine does once the communities in todo are to be announced and
\* known is the set of announced channels: the first with a channel not in it
\* is sent, and when there is none the coroutine goes on.
Announce(w, todo, known, then) ==
    LET open == {c \in todo : ~ (ChannelsOf[c] \subseteq known)} IN
    IF open = {}
    THEN Do(w, [Idle EXCEPT !.at = then])
    ELSE \E c \in open :
            Do(w, [at |-> "send", rows |-> ChannelsOf[c] \ known,
                   todo |-> todo \ {c}, then |-> then])

\* Mutant of Mark: only the new channels are written.
MarkRowsOnly(rows) ==
    /\ notified' = notified \union rows
    /\ \/ marked' = rows /\ kept' = kept \union notified'
       \/ UNCHANGED <<marked, kept>>
       \/ marked' = {} /\ kept' = {}

\* _mark_channels_notified: the whole set is written, an OSError is ignored.
\* The write truncates the file first.
Mark(rows) ==
    /\ notified' = notified \union rows
    /\ \/ marked' = notified' /\ kept' = kept \union notified'
       \/ UNCHANGED <<marked, kept>>
       \/ marked' = {} /\ kept' = {}

-------------------------------------------------------------------------------
(***************************************************************************)
(* The adapter                                                             *)
(***************************************************************************)

\* The gateway connects with a new adapter: the sidecar is ready, the listener
\* runs.  What the old ones were doing is cut off.
Connect ==
    /\ lives < MaxLives
    /\ lives' = lives + 1
    /\ notified' = marked /\ settled' = kept
    /\ task' = [[w \in Workers |-> Idle] EXCEPT
            !["tail"].at = IF welcomed THEN "home" ELSE "hello"]
    /\ Lapse
    /\ creating' = NoRequest
    /\ UNCHANGED <<rooms, files, marked, kept, told, byHand>>

\* _maybe_send_operator_welcome: the marker is written when the DM was answered.
Hello ==
    /\ At("tail", "hello")
    /\ welcomed' \in BOOLEAN
    /\ Do("tail", [Idle EXCEPT !.at = "home"])
    /\ UNCHANGED <<rooms, creating, saved, marks, told, lives, history>>

\* Mutant of AskForHome: the sidecar creates without a look at its file.
AskForHomeAlways ==
    /\ At("tail", "home")
    /\ \/ /\ creating' = [at |-> "create", home |-> "none"]
          /\ Do("tail", [Idle EXCEPT !.at = "created"])
       \/ Do("tail", [Idle EXCEPT !.at = "list"]) /\ UNCHANGED creating
    /\ UNCHANGED <<rooms, files, marks, told, lives, history>>

\* _ensure_home_community, or a configuration without one.
AskForHome ==
    /\ At("tail", "home")
    /\ \/ /\ creating' = IF saved \in Owned
                         THEN [at |-> "done", home |-> saved]
                         ELSE [at |-> "create", home |-> "none"]
          /\ Do("tail", [Idle EXCEPT !.at = "created"])
       \/ Do("tail", [Idle EXCEPT !.at = "list"]) /\ UNCHANGED creating
    /\ UNCHANGED <<rooms, files, marks, told, lives, history>>

HomeAnswered ==
    /\ At("tail", "created")
    /\ \/ /\ creating.at = "done"
          /\ Announce("tail", {creating.home}, notified, "list")
       \/ creating.at = "failed" /\ Do("tail", [Idle EXCEPT !.at = "list"])
    /\ creating' = NoRequest
    /\ UNCHANGED <<rooms, files, marks, told, lives, history>>

\* The client times out; the sidecar drops the handler at the await it is in.
HomeTimesOut ==
    /\ At("tail", "created")
    /\ Lapse
    /\ creating' = NoRequest
    /\ Do("tail", [Idle EXCEPT !.at = "list"])
    /\ UNCHANGED <<rooms, files, marks, told, lives, settled, byHand>>

\* _sync_joined_channels: GET /communities, or its failure, then one notice per
\* community.
Sync(w) ==
    /\ At(w, "list")
    /\ \E listed \in {members, {}} : Announce(w, listed, notified, "idle")
    /\ UNCHANGED <<rooms, creating, files, marks, told, lives, history>>

\* The label of a room asks for the list, as does a joined event that names no
\* channel.
Lookup(w) ==
    /\ lives > 0
    /\ At(w, "idle")
    /\ Do(w, [Idle EXCEPT !.at = "list"])
    /\ UNCHANGED <<rooms, creating, files, marks, told, lives, history>>

\* A joined or keyed event, or a message, of a community the bot is in names all
\* its channels, or one.
HearOf(c) ==
    /\ lives > 0
    /\ At("listener", "idle") /\ c \in members
    /\ \E rows \in {ChannelsOf[c]} \union {{ch} : ch \in ChannelsOf[c]} :
        /\ ~ (rows \subseteq notified)
        /\ Do("listener", [Idle EXCEPT !.at = "send", !.rows = rows \ notified])
    /\ UNCHANGED <<rooms, creating, files, marks, told, lives, history>>

\* The DM of _notify_joined_channels was answered: its channels are marked.
Noticed(w) ==
    /\ At(w, "send")
    /\ told' = told \union task[w].rows
    /\ Mark(task[w].rows)
    /\ Announce(w, task[w].todo, notified', task[w].then)
    /\ UNCHANGED <<rooms, creating, files, lives, history>>

\* Mutant of NoticeFails: what was tried is marked.
NoticeFailsMarked(w) ==
    /\ At(w, "send")
    /\ told' \in {told, told \union task[w].rows}
    /\ Mark(task[w].rows)
    /\ Announce(w, task[w].todo, notified', task[w].then)
    /\ UNCHANGED <<rooms, creating, files, lives, history>>

\* It failed, or its answer was lost.
NoticeFails(w) ==
    /\ At(w, "send")
    /\ told' \in {told, told \union task[w].rows}
    /\ Announce(w, task[w].todo, notified, task[w].then)
    /\ UNCHANGED <<rooms, creating, files, marks, lives, history>>

-------------------------------------------------------------------------------
(***************************************************************************)
(* /join and /decline of the operator, in the listener                     *)
(***************************************************************************)

Command(c) ==
    /\ lives > 0
    /\ At("listener", "idle")
    /\ \E at \in {"accept", "decline"} :
        Do("listener", [Idle EXCEPT !.at = at, !.todo = {c}])
    /\ UNCHANGED <<rooms, creating, files, marks, told, lives, history>>

Ordered(c) == c \in task["listener"].todo

\* The sidecar accepts: the channels it names are marked before the notice.
Joined(c) ==
    /\ At("listener", "accept") /\ Ordered(c)
    /\ c \in parked
    /\ parked' = parked \ {c}
    /\ members' = members \union {c}
    /\ \E rows \in {ChannelsOf[c], {}} :
        /\ IF rows = {} THEN UNCHANGED marks ELSE Mark(rows)
        /\ Do("listener", [Idle EXCEPT !.at = "join", !.rows = rows])
        /\ byHand' = byHand \union rows
    /\ UNCHANGED <<creating, files, told, lives, settled, lapses>>

JoinReplied ==
    /\ At("listener", "join")
    /\ told' \in {told, told \union task["listener"].rows}
    /\ Do("listener", Idle)
    /\ UNCHANGED <<rooms, creating, files, marks, lives, history>>

Declined(c) ==
    /\ At("listener", "decline") /\ Ordered(c)
    /\ c \in parked
    /\ parked' = parked \ {c}
    /\ Do("listener", Idle)
    /\ UNCHANGED <<members, creating, files, marks, told, lives, history>>

\* The request fails, there is no such invite, or the answer of a request that
\* was served is lost; the operator reads that it could not be done.
CommandFails(c) ==
    /\ At("listener", "accept") \/ At("listener", "decline")
    /\ Ordered(c)
    /\ \/ UNCHANGED rooms
       \/ /\ c \in parked
          /\ parked' = parked \ {c}
          /\ members' = IF At("listener", "accept") THEN members \union {c} ELSE members
    /\ Do("listener", Idle)
    /\ UNCHANGED <<creating, files, marks, told, lives, history>>

-------------------------------------------------------------------------------
(***************************************************************************)
(* The sidecar and the network                                             *)
(***************************************************************************)

\* create_community_v2: the community exists before the call returns.
Create ==
    /\ creating.at = "create"
    /\ \/ \E c \in Owned \ members :
            /\ members' = members \union {c}
            /\ creating' = [at |-> "created", home |-> c]
       \/ creating' = [creating EXCEPT !.at = "failed"] /\ UNCHANGED members
    /\ UNCHANGED <<parked, files, marks, told, task, lives, history>>

\* save_home_community; it truncates the file first.
SaveHome ==
    /\ creating.at = "created"
    /\ \/ /\ saved' = creating.home
          /\ creating' = [creating EXCEPT !.at = "done"]
          /\ UNCHANGED lapses
       \/ /\ saved' \in {saved, "cut"}
          /\ creating' = [creating EXCEPT !.at = "failed"]
          /\ Lapse
    /\ UNCHANGED <<rooms, marks, welcomed, told, task, lives, settled, byHand>>

\* An invite comes: a trusted inviter's is accepted by the SDK, others park.
Invite(c) ==
    /\ c \notin members \union parked
    /\ \/ members' = members \union {c} /\ UNCHANGED parked
       \/ parked' = parked \union {c} /\ UNCHANGED members
    /\ UNCHANGED <<creating, files, marks, told, task, lives, history>>

-------------------------------------------------------------------------------
Tail == Hello \/ AskForHome \/ HomeAnswered \/ HomeTimesOut

Notices == \E w \in Workers : Sync(w) \/ Lookup(w) \/ Noticed(w) \/ NoticeFails(w)

Invites ==
    \/ JoinReplied
    \/ \E c \in Foreign :
        Invite(c) \/ Command(c) \/ Joined(c) \/ CommandFails(c) \/ Declined(c)

CommunitiesNext ==
    Connect \/ Tail \/ Create \/ SaveHome \/ Notices \/ Invites
        \/ \E c \in Community : HearOf(c)

CommunitiesSpec == CommunitiesInit /\ [][CommunitiesNext]_communityVars

-------------------------------------------------------------------------------
(***************************************************************************)
(* Properties                                                              *)
(***************************************************************************)

CommunitiesTypeOK ==
    /\ members \subseteq Community /\ parked \subseteq Foreign
    /\ saved \in Owned \union {"none", "cut"}
    /\ {marked, notified, kept, settled, told, byHand} \subseteq SUBSET Channels
    /\ welcomed \in BOOLEAN
    /\ lapses \in Nat
    /\ \A w \in Workers :
        task[w].rows \subseteq Channels /\ task[w].todo \subseteq Community
    /\ lives \in 0..MaxLives

\* A channel marked as announced was announced: no failed DM, cut write, race of
\* two coroutines or change of adapters leaves the operator without its id.
\* Excepted is /join, which marks first.
KnownWasTold == (notified \union marked) \ byHand \subseteq told

\* README "Restart does not re-DM the same id": no adapter sets out to announce a
\* channel whose mark was written in the life of an earlier one, unless a cut
\* write has lost the file since.
NoRepeatOnRestart ==
    \A w \in Workers : At(w, "send") => task[w].rows \intersect settled = {}

\* README "restart will not create a second one": every home community beyond the
\* first has a predecessor that was created and never saved.
OneHome == Cardinality(members \intersect Owned) <= 1 + lapses
===============================================================================
