# A TLA+ model of the Vector platform plugin for Hermes

The plugin connects the Hermes agent gateway (Python, one asyncio loop) with the
Vector messenger through a *sidecar*, the Rust program `vector-bridge`, one
process per bot identity. The gateway's adapter spawns the sidecar, sends through
its HTTP API and reads what arrives from its event stream, `GET /events` (SSE).
This directory holds a specification of the parts in which order, failure and
restarts decide whether a message is lost, answered twice or left unanswered.

Paths are relative to the repository.

## 1. The system

| Part | State it keeps | Operations | Where |
|---|---|---|---|
| Event hub | replay ring (256), sender of the one client, its queue (512), drop counter | `connect`, `publish`, `hand_off`, `disconnect_all`, the stream | `bridge/src/events.rs` |
| Replay plan | none | `plan_replay`: horizon, budget, superseded flags | `bridge/src/events.rs` |
| Missed-DM cursor and catch-up | `sdk/missed-seen.json`, one mark per chat | `note_live`, `ack_missed_while_down` | `bridge/src/missed.rs` |
| SSE listener | resume id, id read but not committed, dedup cache | one coroutine: read, dispatch, commit, reconnect | `internal/inbound.py` |
| Inbound gates and turns | block list, known channels, pending inbox, group file pointers | one handler per event type | `internal/inbound.py`, `internal/groups.py` |
| Sidecar lifecycle | process, HTTP client, tasks, lock on the npub, `runtime/vector-sidecar.json` | `connect`, `disconnect`, reap, bridge-exit, health monitor | `adapter.py`, `internal/sidecar.py`, `bridge/src/main.rs` |
| Communities | `notified-channels.json` and its copy in memory, `welcome-sent.json`, `home-community.json`, parked invites | hello, home community, channel sync, notices, `/join`, `/decline` | `adapter.py`, `bridge/src/api.rs` |
| Reactions | own reaction ids by emoji (sidecar), recent reaction ids (adapter) | react, unreact, processing acks, reaction snapshots | `adapter.py`, `internal/inbound.py`, `bridge/src/api.rs` |
| Identity setup | `identity.nsec`, `identity.mnemonic`, their `.bak` files, `VECTOR_NPUB` | the wizard of `hermes gateway setup`, its `vector-bridge --setup` child | `internal/setup.py`, `bridge/src/main.rs` |
| Sidecar install | in-tree build, prebuilt binary and its version stamp | resolve, download, replace, stamp, cargo build, plugin update | `internal/bridge_bin.py`, `internal/paths.py` |
| Outbound sends, media, cron sends | none beyond caches | one request each | `adapter.py`, `bridge/src/api.rs` |
| Configuration, profile, history text | environment, image cache | pure functions, one write per Ready | `internal/yaml_config.py`, `bridge/src/profile.rs`, `internal/groups.py` |

How they interact. SDK events reach `handle_bot_event`, which publishes them.
Publishing pushes the item into the ring and hands it to the queue of the client;
a DM that a queue accepts moves the mark of its chat. The listener reads frames,
awaits the handler of each event and commits the event's id as its resume point.
When the stream breaks it reconnects with that id and the hub replays what
follows it. When the sidecar restarts the ring is empty and the catch-up reacts ❌
to DMs after the marks. The gateway owns the sidecar: it spawns it, watches it in
two tasks and stops it.

What makes each hard, and what makes it correct:

* **Hub**: it works in steps between which the lock is free, with publishers,
  replays and a replaced client interleaved. The ring must stay the newest items
  in order, a replay must fit the queue it is written into, the cursor must stand for
  accepted DMs and cover them all, the drop counter must not hide a loss.
* **Delivery**: streams break at any line, the same event comes twice, handlers
  raise, deletes overtake messages, the dedup cache forgets. A message must meet
  one fate, and what lies behind the resume point must be replayed.
* **Catch-up**: two writers of one file, one of them with a copy it holds across
  many awaits; crashes between any two steps. A DM that was delivered must not be
  marked later, one that was missed must be.
* **Lifecycle**: cancellation at every await, a task that disconnects itself,
  gateways that crash and leave a sidecar behind. No child may be lost, and two
  gateways may not drive one identity.
* **Gates and turns**: each handler awaits several times with a file half filed; the
  block list is a lazy cache of the sidecar's; the newest message of a replayed
  batch answers for the others. A muted peer must stay out, a stored file must become
  known to the agent once, a deleted one must stay away.
* **Communities**: three coroutines read a set, await a DM and write the set; the
  marks, the welcome and the home community are files that a death can cut or skip. A
  channel marked as announced must have been announced; no second home may come
  of a file that was there.
* **Reactions**: only its id takes a reaction back, and the id is in memory; turns
  and tools post, take ids and delete at the same time. The peer's reactions come as
  snapshots, repeated after retractions and replays; one is a turn once.
* **Setup**: two files are moved away, two are written by another process, two are
  put back, and Ctrl+C or a kill may fall between any of these. The bot's key must
  survive, and no key may replace it that the operator did not agree to.
* **Install**: binary and stamp are written one after the other. The stamp must not
  vouch for an older binary, and the gateway must not lose a binary it has.

## 2. The modules

| Module | Models | Composes |
|---|---|---|
| `ReplayPlan` | `plan_replay`, twice: as the passes of the code and position by position | |
| `Replay` | one replay: a backlog, a budget and a clock, and the plan made of them | `ReplayPlan` |
| `SeenMarks` | the marks of `missed-seen.json` and `bump_locked` | |
| `EventHub` | the hub in one life of the sidecar | `ReplayPlan`, `SeenMarks` |
| `MessageLife` | abstract: a message meets one fate at most | |
| `Delivery` | hub, wire and listener over streams, restarts and exceptions | `EventHub`, implements `MessageLife` |
| `InboundGate` | the handlers of DMs, channel messages and deletes, the block list, files and the pending inbox | `ReplayPlan` |
| `MissedCatchup` | the catch-up beside live DMs, over lives of the process | `SeenMarks` |
| `SidecarLife` | gateways, adapters, sidecar processes, lock and runtime record | |
| `Communities` | home community, invites, and what the operator is told | |
| `Reactions` | own reactions of one message, and the peer's as turns | |
| `BridgeInstall` | the binary, its stamp, and how setup gets them | |
| `GatewaySetup` | the setup wizard and its child over the identity files | `BridgeInstall` |
| `Replay_proofs` | the theorems about `Replay` | `Replay` |
| `Delivery_proofs` | the theorems about `EventHub` and about `Delivery` | `Delivery` |
| `InboundGate_proofs` | the theorems about `InboundGate` | `InboundGate` |
| `MissedCatchup_proofs` | the theorems about `MissedCatchup` | `MissedCatchup` |
| `SidecarLife_proofs` | the theorems about `SidecarLife` | `SidecarLife` |
| `Communities_proofs` | the theorems about `Communities` | `Communities` |
| `Reactions_proofs` | the theorems about `Reactions` | `Reactions` |
| `GatewaySetup_proofs` | the theorems about the identity files, and about the install under the wizard | `GatewaySetup` |

`MC*` modules give the constants their values for TLC.

### EventHub

`hub.replay` is `ring`, `hub.tx` is `tx` (a connection number), each
`mpsc` channel is `chan[c]`, and `open` holds the connections whose receiver still
exists. What a task has taken from the hub under the lock and not yet handed over
is `hand[t]`; `noting` in it is the DM accepted but not yet noted. Hence `publish`
is `Publish`, then `HandOff` (`Accept` or `Refuse`), then `Note`; `connect` is
`Connect`, a `HandOff` and a `Note` per replayed item; `get_events` goes on with
`PublishReady`, which publishes to whichever sender is installed by then. A stream
can be dropped only at an await, so `ClientGone` waits for the connection's own
task. `Note` may fail: `save_seen` drops the error of a write, which may leave the
file as it was or truncated, and `load_seen` takes what it cannot read for empty
(`FailedBumps`). `log`, `accepted` and `unsaved`, the accepted DMs whose mark was lost
so, are history variables.

An item has the fields the code looks at. Ids stand for both the SSE id and the
message id of the meta (the code gives them the same value). The clock only
moves forward; `at` is the sender's stamp, any number.

### Delivery

The wire holds the lines of one frame. `ReadId` and `ReadData` are the two line
kinds of the listener, the second with the whole handler in it. What a
handler does is abstracted to its outcome: a turn, context without a turn (for
superseded messages), rejected by a gate, or an exception; the order of the
outcome and of the dedup mark is the code's. `SidecarRestart` empties the hub and
either keeps the adapter object or replaces it by one that remembers nothing: which of
the two happens is the gateway's doing, outside the repository.
`fate` is the variable of `MessageLife`; `OneFate` says that `Delivery` implements
it. A message that was deleted before it came is forgotten by a new adapter, which
the abstract specification allows (`TakeOver`).

The sidecar writes the data line of an event before its id line (axum's `Event`
writes its fields in the order of the calls in `into_event`), and the listener commits
the id it has read when a data line comes. So the resume point trails the last
handled event by one, and that event is replayed on each reconnect; the dedup
cache absorbs it.

### InboundGate

`task` is the handler under way, `task.stage` the await it is at; the synchronous code
between two awaits is one step. So `_handle_message_event` is `ReceiveDM`, then
`LoadBlocked` when the list is not loaded, then a block command (`BlockUser`,
`ListBlocked`) or the download (`SaveDM`), then `QueueFile`, `FileContext` or a turn.
`_handle_group_message` is `ReceiveGroup`, a `Fetch` per file, `StoreCrumb` or
`FileContext` or a turn. The listener runs one handler at a time; `Break` cuts the
stream behind it, and what it had not handled comes back as a batch flagged by
`ReplayPlan`'s `Superseded`. `ReplaceAdapter` cancels the handler and empties the
caches: `seen`, `blocked`, `loaded`, `inbox`. On disk stay `stash` (files known by
metadata) and `pointer` (files saved); in the sidecar stays `muted`. Every download,
breadcrumb and request may fail, a block request also after it was served. So may a
download: the sidecar writes the file before it answers, and what is stored with the
answer lost, or with the handler cancelled meanwhile, is one of the `strays`, apart from
the `files` that the adapter has an answer for. Writing and removing the metadata and
the pointer may fail without notice too (`Stash`, `StashAfter`, `PointerAfter`). What the
operator reads is `told`. A delete comes in the chat of its message
(`GateAssumption`): the bridge takes the chat of a `MessageDelete` from the message
(`events.rs:591-594`, `:669`). The dedup cache has no limit here: that is in
`Delivery`, and so are exceptions and deletes that overtake their message.

### MissedCatchup

`cursor` is the file, `local` the copy of the catch-up, `walking` its loop with an
await at each history load (`LoadHistory`) and each reaction (`React`). DMs are
sent while the process is down or up. Up, an inbound one is published into `ring`;
a client queue accepts it then, in a later replay, or never (`Accepts`), and `NoteLive`
moves the mark. The bot's own messages take places in the history window.
`CrashInSave` is a death inside `fs::write`, which truncates first; the file then reads
as empty. `Lapse` is what that step shares with a live note, a copy or a merge whose
read or write of the file fails without notice: `lapses` counts them, and `unsaved` has
the noted DMs whose mark was lost. `base` is the copy as `Begin` took it. The catch-up is
enabled (`vector.missed_react`) and the peers are the allowlist. A DM may arrive long after
its stamp, never before it: senders' clocks that run ahead are not modelled.

### SidecarLife

`call` is how far a `connect()` is: probe, reap, wait, poll, tail, cleanup. `disc`
and `by` are how far a `disconnect()` is and the task it runs in. The sidecar's
states are starting, serving (bound, not logged in), ready, stopping and dead.
`record` is the runtime record; writing and deleting it may fail, which the code
swallows (`WriteRecord`, `DeleteRecord`), and `unrecorded` has the processes whose record
could not be written.
Outside the repository, and modelled from how it is used: the gateway makes a new
adapter for each attempt to connect and disconnects only one it holds for
connected; the platform lock can be taken again by the process that holds it and is
free when that process dies. The gateways share one identity and one port, and
each profile has its own port (`CHANGELOG.md:28-30`). Reaping on Windows, where the
code does nothing, is left out.

### Communities

`task[w]` is a coroutine of the adapter: where it is, the channels in the notice under
way, the communities still to be looked at, and what comes after them. `"tail"` is
what `connect` does after Ready (hello, home community, channel sync), `"listener"`
the SSE listener. There are two slots: a lookup of a room's name, which syncs the
channels too, takes one that is idle. A coroutine computes the unannounced channels
of a community, awaits the DM (`"send"`), and marks them in `Noticed`; the other may be
at any of its awaits meanwhile. `Mark` writes the whole set, may fail, and may be
cut after it has truncated the file. `/join` marks first and answers later
(`Joined`, `JoinReplied`).

`creating` is the request for a home in the sidecar: `Create` on the network, then
`SaveHome`. The adapter's client may give up at any point (`HomeTimesOut`), which
drops the handler; so does `Connect`, the next adapter with the next sidecar. `lapses`
counts homes that were created and not saved, or whose file was cut. An operator is
configured; the bot is not invited to its own home.

### Reactions

One message. `chips` are the reactions others see on it, `slot` is the sidecar's
`own_reactions` of the message, `req[w]` a `POST /react` in the sidecar:
after `React` the id is in the handler's hands until `Remember`; `Take` moves the
wanted ids out of the map, `History` adds what the SDK happens to know, `Delete`
sends one deletion after the other, any of which may be refused; `TimesOut` drops the
handler. `snaps` are `message_update` events, each with all the reactions of the
message; `HandleUpdate` marks every row and makes the last one a turn when it is not
marked, not ours and the event not superseded. `seen` is the adapter's bounded list.

### BridgeInstall and GatewaySetup

`plugin` is the version of the plugin, `tree`, `prebuilt` and `stamp` the versions of the
in-tree build, of the downloaded binary and in its stamp. `ensure` is how far
`_ensure_bridge_binary` is: resolve, fetch, replace, stamp, or cargo when one of them
failed. `GatewaySetup` extends it with the wizard: `stage` is where it is,
`todo` the files its loop has still to visit; a file name stands for `identity.nsec` or
`identity.mnemonic`, and a file holds an identity, nothing, or no key. `Adopt` is
`_adopt_stale_identity_backup`, which runs before the first question and again before
the check; `BackupOne`, `RunSetup` and `SetupReturned` are the body of the try, and
`FinallyOne` its finally clause, which restores or discards. `baks` is what the
assignment has received: an `OSError` or Ctrl+C inside `_backup_identity` leaves it
empty although `moved` is not. `child` is the `--setup` process; it reads
the key file, makes or imports a key, and writes the two files, each truncated
first. `Interrupt` is Ctrl+C, `Kill` the death of the wizard alone, whose child goes
on; the next wizard starts when that child has ended. Profile, operator and the
other settings of the wizard are answers that may end it.

## 3. What the runs check

| Run | Shows |
|---|---|
| `replay_plan` | every backlog up to 4 items over 2 chats, every budget, 2 clock readings: stale items never cost a live one its place, one turn per chat, and the two forms of the plan agree |
| `hub` | under all interleavings of one publisher, two connections and their replays: the ring is the newest items, a replay fits its queue, marks stand for accepted DMs and cover them, a drop counter of 0 means no loss |
| `delivery` | one fate per message; a connection that has gone quiet has tried all that lies behind its resume point |
| `delivery_live` | what lies behind the resume point of a broken stream is eventually tried |
| `inbound` | with streams that break and adapters that are replaced at any await: a muted peer starts no turn by a direct message, each downloaded file is named to the agent or still in hand, the files queued from a peer are in its next text's turn and in no other, a deleted file is in no later turn |
| `catchup` | only a failed or torn read or write moves a mark back, a noted DM that did not lose its mark so is not marked in a later life, a merge passes only DMs that were marked in this life, whose reaction failed, or that the file had passed already (a peer without a mark excepted), a missed DM is marked |
| `sidecar` | no stray child, a current runtime record unless it could not be written, one driver, a noticed death |
| `setup` | through wizards that fail, are interrupted or killed anywhere: there stays a complete key, no other key comes in silently, the seed stays with its key, the reported npub is on disk; no stamp names another binary, and a binary once there stays |
| `communities` | what is marked was announced; nothing marked in an earlier life is announced again; a second home has an unsaved predecessor |
| `reactions` | an own reaction others see can be taken back unless its id was dropped in one of the known ways; a peer's reaction is one turn |

Two runs end in a counterexample to something the repository says:

| Run | Said | Done |
|---|---|---|
| `hub_unseen` | undelivered DMs "stay unseen" and get a ❌ (`README.md:361`, `:106`) | a later accepted DM of the chat moves the mark past them |
| `inbound_turn` | "every chat still gets exactly one turn" (`groups.py:480-481`), "only the newest per chat" (`README.md:106`) | the newest may be a message that starts no turn; the question before it is filed as context |

The type invariants of the hub, the catch-up, the lifecycle and the reactions are
checked by their runs. `DeliveryTypeOK`, `InboundGate!TypeOK`, `CommunitiesTypeOK` and
`SetupTypeOK` give the types of the other modules for the reader; their runs spend their
time on the properties.

Some properties have exceptions because the code has them; each names its
exceptions in the module. The ones a reader should know:

* `GapIsReplayed`, `QuietMeansCaughtUp`: an item refused by a full queue while
  the stream stays up is not sent again; an item published while a backlog is being
  queued can overtake it, and once its id is committed, a break loses the rest.
* `ReplayFits`: live items that overtake a backlog take room from it. The queue is twice
  the ring, so it takes more of them than the ring holds before a replay is refused.
* `CursorCoversAccepted`, `NotedIsNotReacted`, `MarksNeverRetreat`: a write of
  `missed-seen.json` that fails, a read that fails before it or a crash inside it
  loses marks, at worst all of them, and nothing reports it (`missed.rs:54-65`). A
  delivered DM may then get the ❌, and peers without a mark are seeded anew.
* `MutedStaysOut` is about direct messages: what a blocked peer writes in a channel, or
  reacts with, is not held against the block list. And an adapter that has never had the
  list lets peers through that were blocked before it: the load failed (it fails open),
  or a block command came before the first DM and left a cache of one peer that counts
  as loaded.
* `QueuedFilesReachNextText`: a text with a file of its own discards what is
  queued, and a new adapter has forgotten it.
* `SavedIsKnown`: the breadcrumb failed, the handler was cancelled, or the file was stored
  and the answer to the download lost (`api.rs:847`, `inbound.py:857-866`): the adapter
  takes that for a failed download and tells the agent nothing of the file.
* `DeletedFileStaysOut` is about channels: a file queued from a DM stays queued when its
  message is deleted. A delete one of whose unlinks fails (`inbound.py:496-506` swallows
  that) does not count.
* `MissedIsMarked`: a newer DM noted live, a failed reaction followed by one that
  succeeds, more than `HISTORY_LIMIT` newer messages, or the loss of its peer's mark
  hide a missed DM.
* `DeathIsNoticed`: a death reported before `connect` has returned is not acted
  on; `connect` marks the adapter connected afterwards with no task left to notice.
* `KnownWasTold`: `/join` marks a room's channels before its answer is sent
  (`adapter.py:1209-1217`); when that fails the operator is never told their ids.
* `NoRepeatOnRestart` is about lives: within one, two coroutines that have both
  computed the same channels announce them twice, and a notice whose answer was
  lost is sent again, though `README.md:204` has it once per id. A cut write of the
  file makes the next life announce all again.
* `OneHome`: a home created and not saved, because the sidecar died, the client
  gave up or the write failed in between, gets a successor (`README.md:206`).
* `OwnIsRetractable` excepts what `lost` collects: an emoji posted twice on a message
  (the map has one id), a refused deletion, a dropped handler, a restart. Unreact then
  answers that there is no own reaction, against `CHANGELOG.md:293-294`.
* `OneTurnPerReaction` bounds the reactions by the ids an adapter keeps, and says
  nothing of none: of two reactions in one snapshot only the last is a turn, and a new
  adapter may take an old one for new when a newer one is retracted.
* `NoSilentNewBot`, `IdentityKept`, `SeedKept`: a backup that could not be put back
  (`unrestored`), and a damaged or empty key, which is put back over the key of a setup
  that failed. `ReportedIsOnDisk` waits for a complete wizard after one that was cut
  short.
* `RecordIsCurrent` and `NoStrayChild` look at gateways that run; what a dead
  gateway leaves is reaped by the next. A sidecar whose record could not be written is
  driven all the same (`paths.py:320-321`), and a cron send does not find it.

### Bounds

* `replay_plan`: 4 items suffice for every combination of stale, over budget and
  superseded; the plan looks at chats and positions only.
* `hub`: a ring of 2, so that the third item evicts; one publisher and up to two
  replaying connections, so that up to three tasks hold items at once; three items,
  two of one chat stamped against their order; two DMs that lose their mark
  (`MaxUnsaved`). The theorems of section 5 cover the rest.
* `delivery`: two connections, the second of which stays up (failures end), one
  frame on the wire, three events out of two messages, a delete and a slash command,
  a cache of 2 ids. `DedupMax` may not be smaller than the ring's message ids: with
  1, `OneFate` fails. The code has 1024 against 256. The clock stands still and no
  mark is lost: horizon and marks are the matter of `hub`, and nothing in `delivery`
  reads them.
* `inbound`: three sets of five or six events, one at a time (`Scenarios`): a friend's
  files and texts, block commands against a friend's text and a stranger's file, a
  channel with a file, its delete and replies to it. Two events under way make the
  smallest batch in which one supersedes another; two adapters, one replacement; one
  download stored with its answer lost (`MaxStrays`). The
  settings `Pairing` and `DownloadAll` are on: off, each only removes a branch. The
  theorems of section 5 hold for every setting.
* `catchup`: three lives (noted in one, copied in the next, marked in a third),
  two DMs and an answer between them against a history window of 2, a clock of 2 ticks,
  a second peer who has no messages, one read or write that fails (`MaxLapses`).
* `sidecar`: two gateways one after or beside the other, three processes, a foreign
  listener that may leave.
* `setup`: three wizards (one leaves a backup, one adopts or replaces it, one finds
  what the two left), three interchangeable identities (the old one, an imported one,
  a created one), two versions of the plugin. The start is any install of the first
  version, with no bot, one with or without its mnemonic, or a damaged key.
* `communities`: two adapters, two coroutines, two homes that can be created, a
  foreign community of two channels, so that one of them may be announced alone.
* `reactions`: two emojis, two requests at a time, three reactions of bot and peer
  together, a list of two ids, one snapshot on its way, one restart.

### Fairness

* `FairDeliverySpec`: weak fairness of the sidecar's tasks and the listener as a whole:
  a runtime does not stop while a task of its can run. Nothing is owed by
  publishers, networks or crashes. The last connection stays up by a bound.
* `MissedCatchup!FairSpec`: weak fairness of the process's own steps. Restarts,
  arrivals and the clock are not fair.
* `SidecarLife!FairSpec`: weak fairness of each live gateway's coroutines, none of
  the gateway's calls, the sidecars or crashes.

The three newer modules state no liveness: a wizard waits for its operator, a notice
that fails is tried again only when something asks for the list, and a reaction whose
snapshot is lost is never seen.

Deadlock is not checked: every bound ends a behaviour, and the real system may
idle.

## 4. Mutants

Each checked property is shown to depend on the code: beside the operator it needs,
a module defines a mutated form (a dropped guard, an early mark, an order reversed)
with which the run finds the property violated. `PROJECT.json` lists them.

## 5. What is proved

Every theorem is proved for all values of the constants that satisfy the named
assumption of its module, `HubAssumption` and the like; further hypotheses are named here.

`Replay_proofs` proves, for any items, horizon and clock and backlogs and budgets of any
bound:

| Theorem | States | Along |
|---|---|---|
| `PlanIsByPosition` | `Spec => PlanMatchesPositions` | `PlanByPosition` |
| `ReplayTurns` | `Spec => []OneTurnPerChat` | `FlaggedTurns` |
| `ReplayBudget` | `Spec => []BudgetGoesToTheNewest` | `PlanFlags` |

The invariant, `ReplayInv`, only says what was computed from what; the work is in the
passes. `Picks(g, s, b, P)` says that g numbers the positions P of the backlog b in their
order and s holds the items there. `FreshOnesPicks` shows it of the filter and the fresh
positions, item by item; `DrainPicks` of the drain and the positions with fewer than the
budget behind them, because a numbering without repetition counts what it numbers
(`PicksCount`). With it the n-th item of the plan is at the position that n - 1 others
come before, and its flag carries over. `EventHub` uses the plan by position, so what
is proved of the hub holds of the plan the code computes.

`Delivery_proofs` proves of the hub, for every set of items, chats and publishers
and every bound that satisfies `HubAssumption` (a ring of at least one item, a
replay budget no larger than the ring):

| Theorem | States | Along |
|---|---|---|
| `TypeCorrect` | `Spec => []TypeOK` | one step per action |
| `RingCorrect` | `Spec => []RingIsNewest` | itself |
| `ReplayHasRoom` | `Spec => []ReplayFits` | `RoomInv` |
| `CursorNamesAccepted` | `Spec => []CursorWasAccepted` | `CursorInv` |
| `CursorComplete` | `Spec => []CursorCoversAccepted` | `CursorInv` |
| `ZeroDropsCorrect` | `Spec => []ZeroDropsMeansAccepted` | `DropInv` |

The inductive invariants. `RoomInv` follows a replay into its queue: what is queued as
replayed for a connection was taken from the plan of that connection's own task, so with
what the task has still in hand it is no more than the plan, hence no more than the
ring; a closed queue is empty. The queue holds two rings, so what the replay and at most
a ring of live items take fits. `CursorInv` adds to the two cursor properties what a
task holds between acceptance and note: an accepted DM is covered by the mark of its
chat, is in the hand of some task or lost its mark to a failed write, and what is in
hand was accepted. Without it neither property survives `Note`. `DropInv` says that a
publisher hands over one item, which is the item it published: without it a refused item
could be any.

Of hub and listener together it proves `NothingOwedIsLeft`, for the same items, chats,
publishers and bounds and under every interleaving of hub, stream, listener, breaks and
restarts: `DeliverySpec => []QuietMeansCaughtUp`, along `QuietInv`. It is a theorem
about a replay that skips nothing, so it assumes `Horizon = 0`
(`VECTOR_SSE_REPLAY_MAX_AGE_SECS=0`, no limit of age) and `ReplayMax = RingCap`
(`VECTOR_SSE_REPLAY_MAX` at `REPLAY_CAPACITY`); the run has the same settings. The
defaults (five items, ten minutes) leave older items out of a replay on purpose, and
then the property does not hold.

`QuietInv` gives a live connection a place in the ring at which it took over
(`TookOverAt`). What lies behind that place is in the hands of a task, in the queue, on
the wire, tried, or was refused by a full queue (`Accounted`), and no id that the
resume point has, or can come to have while the connection lives (`MayResumeAt`), lies
before the place. Quiet means that nothing is on its way, so an item behind the resume
point, which is behind the place, was tried or refused. When a publish evicts the
oldest item the place moves one down with the rest; a step that leaves the ring alone
keeps it, as long as nothing with an id is lost and no new id comes
(`MovingOnKeepsPlace`). `HandedOver` and `FrameLines` say that neither a hand-over nor
the framing of an item loses one, `AllIsPlanned` that the plan of a new connection is all
of its backlog. A connection still to come has nothing in its queue (`Unused`), so the
place of a new one is where it resumes.

It also proves the refinement: `Delivery` implements `MessageLife`, each step a step in
the life of one message, of all of them when the adapter is replaced, or none.

`OneFateWhenKept` states `DeliverySpec /\ [][KeepsWhatMayCome]_deliveryVars => OneFate`
under `OneEventPerMessage`.

`OneEventPerMessage`: two message events have different ids, and each has one. The code
takes the SSE id of a message from the message, and the SDK is taken to report it once.
`KeepsWhatMayCome`: an adapter that lives on forgets the id of a message only when no
event with it is in the ring, in a hand, in a queue, on the wire or still to be published.
Something of the kind must be assumed: with a cache of one id `OneFate` is false. The
code's margin, 1024 ids against a ring of 256, is not a proof of it, because deletes
touch ids too, and a publisher may be held up between the lock and the hand-over while
others publish and the listener, by a replay, reads on. In the run, with a cache of two
ids for four items, `KeepsWhatMayCome` does not always hold and `OneFate` does; with three
ids both do.

The inductive invariant is `FateInv`. What is in flight was published (`FlightLogged`), so
an event in flight can be told from one still to come; `NothingNewComes` says that no step
puts back what has left. A message with a fate is remembered or will not come again
(`FatesRemembered`), so the handler that decides a fate meets a message that has none.

`InboundGate_proofs` proves, for every set of peers, channels and events, every
setting and every bound:

| Theorem | States | Along |
|---|---|---|
| `MutedStayOut` | `Spec => MutedStaysOut` | `MuteInv` |
| `SavedAreKnown` | `Spec => []SavedIsKnown` | `KnownInv` |
| `FilesAreAttachedOnce` | `Spec => []AttachedOnce` | `GateInv` |
| `TextTakesQueuedFiles` | `Spec => QueuedFilesReachNextText` | `GateInv` |
| `DeletedFilesStayOut` | `Spec => DeletedFileStaysOut` | `GateInv` |

Each way on from a handler (drop, turn, next await) has a lemma that says what it can
do. `MuteInv` says that whom the operator knows to be blocked is on the sidecar's list,
and on the adapter's once that was loaded, and that the sender of a download under way
is not: the block list is read before the download and the turn comes after it.
`KnownInv` adds to `SavedIsKnown` that a handler holds no file before it has an answer
for one, and that only an authorised sender's file is downloaded: an unauthorised one's
turn carries no file, so a file held there would be lost.

`GateInv` follows an event through the listener. `LineInv`: what waits to be handled, as
a batch or in the gap of a broken stream, holds each event once, and a delete behind
its message. `TaskInv`: the handler is about an event that has left that line, and
a direct message's handler holds its own file at most. `InboxInv`: a file that is queued
or attached belongs to a message that has left the line, is queued for one peer only,
and no longer when a turn has it. `GoneInv`: once a delete is handled, no handler holds
the file and neither the metadata nor the saved files name it. The last of these
needs a delete to name its chat truly, which is the assumption named in section 2. The
parts hold only together: what a handler queues or attaches is new to every queue and
turn because its event had just left the line, and it had been there once.

`SidecarLife_proofs` proves, for any gateways and any number of processes, with
`LifeInv`:

| Theorem | States |
|---|---|
| `LifeTyped` | `Spec => []TypeOK` (with "one listener on the port") |
| `DriverHoldsLock` | `Spec => []OneDriver` |
| `NoChildIsLost` | `Spec => []NoStrayChild` |
| `RecordNamesTheSidecar` | `Spec => []RecordIsCurrent` |

`LifeInv` says that the platform lock is held from the start of a connect to the end of
the disconnect and that an adapter's calls exclude each other (`LockInv`), that a live
process an adapter holds belongs to a connect that spawned it or to a connection
(`ProcInv`), that a running gateway's live child is the one its adapter holds
(`OwnerInv`), that a gateway that does not run holds nothing (`DownIsIdle`), and that
a ready sidecar is on record, unless that could not be written, until its adapter
disconnects (`RecordInv`). The lock is what makes the record inductive: deleting it by
name is safe only for the one who holds the lock.

`MissedCatchup_proofs` proves, for any peers, DMs, histories and clocks, with
`CatchupInv`:

| Theorem | States |
|---|---|
| `CatchupTyped` | `Spec => []TypeOK` |
| `NotedStaysUnmarked` | `Spec => []NotedIsNotReacted` |
| `MarksOnlyAdvance` | `Spec => MarksNeverRetreat` |
| `MergeSkipsNothing` | `Spec => MergePassesOnlyMarked` |

`MarkOrder` has the marks strictly and weakly ordered, which is what the code's
comparison of (time, id) gives; `BumpGrows` and `MergeGrows` say that neither writer moves
a mark back, and `FailedMergesType` and `LapseTypes` what they leave when a read or write
fails. `NotedInv`: the mark of the chat of a noted DM that is not `unsaved`, in the file
and in the copy of a later life, is not behind it. `WorkInv`: what the
catch-up is about to mark lies after the mark of its copy, so it is not a noted
one. `WalkInv`: of a walked peer each DM is missed, done with, behind the file's
mark, behind the mark the copy began with, or too new and after the copy's mark; that
is what the merge passes.

`Reactions_proofs` proves, for any emojis and any number of requests, reactions and
snapshots:

| Theorem | States | Along |
|---|---|---|
| `OwnStaysRetractable` | `ReactionsSpec => []OwnIsRetractable` | `OwnInv` |
| `EachReactionOneTurn` | `ReactionsSpec => []OneTurnPerReaction` | `TurnInv` |
| `ReactionsTypes` | `ReactionsSpec => []ReactionsTypeOK` | `TurnInv` |

`OwnInv` adds that the reactions on the message are distinct and numbered by their order
(so that a new one is in no request), and that an idle request holds no id. `TurnInv`
adds of the adapter's list that it has no repetition, keeps to its bound and, while
there were no more reactions than it keeps, holds each that was a turn of this adapter
(`TurnsInv`); and that the number of a reaction tells which it is, also in snapshots and
in the list (`Numbered`), so that they can be counted. The rows of a snapshot are
remembered one after the other (`RememberedFollows`), and as the list has room for all
of them (`RoomForKnown`) none is forgotten.

`GatewaySetup_proofs` proves, for every set of identities and any number of wizards and
versions, of the identity files and of the install under them:

| Theorem | States | Along |
|---|---|---|
| `AKeyIsKept` | `SetupSpec => IdentityKept` | `IdentityInv` |
| `NoBotIsReplacedSilently` | `SetupSpec => NoSilentNewBot` | `IdentityInv` |
| `TheSeedIsKept` | `SetupSpec => SeedKept` | `IdentityInv` |
| `ReportedKeyIsOnDisk` | `SetupSpec => []ReportedIsOnDisk` | `ReportedInv` |
| `StampTrue` | `SetupSpec => []StampIsBinary` | `InstallInv` |
| `RunnableKept` | `SetupSpec => RunnableStays` | `RunnableStep` |

`IdentityInv` relates where the wizard and its child are to the four files: the child
runs only while its wizard waits or after the wizard was killed (`StageInv`), when a
wizard past adoption finds no key there is no backup to lose either (`SettledInv`), a
child that writes without the operator's consent found no key in the backup either
(`ChildInv`), and a wizard that reports success has the key in place (`ResultInv`).
`ReportedInv` says, for each stage, where the npub of the `.env` is on its way
from file to backup and back. `FileSteps` reduces the 23 actions to the five that touch
a file.

`SetupIsInstall` reduces each step of the wizard, of its child, of Ctrl+C and of a
kill to a step of the install or a stutter. `InstallInv` adds to `StampIsBinary` that
between the two writes the binary is the plugin's, and that no stamp is ahead of the
plugin: without the first `WriteStamp` could vouch for any binary, without the second
an update could make an old stamp current.

`Communities_proofs` proves, for any communities, channels and number of adapters,
under the assumption that no community is both created here and foreign:

| Theorem | States | Along |
|---|---|---|
| `MarkedWasTold` | `CommunitiesSpec => []KnownWasTold` | itself |
| `RestartsAreSilent` | `CommunitiesSpec => []NoRepeatOnRestart` | `RepeatInv` |
| `HomeIsOne` | `CommunitiesSpec => []OneHome` | `HomeInv` |

`RepeatInv` adds that the set in memory covers the file, the file all that was written
to it, and the memory what earlier lives wrote: a coroutine then never computes one
of those channels. `HomeInv` counts: a home is on file, just created, or a lapse; a
request is under way only while the tail waits for it, and creates only while
no home is on file.

Recursive definitions are functions over the numbers up to a length (`FreshOnes`,
`Remembered`), and what they compute is proved with `UpTo`: a set that has 0 and, with a
number, the next one has all of them, because the numbers are well founded.

Only model-checked: liveness (`GapIsReplayed`, `MissedIsMarked`, `DeathIsNoticed`),
since fairness and ENABLED are beyond the prover. The runs `hub_unseen` and
`inbound_turn` end in counterexamples. Every other property of section 3 is a theorem.

## 6. What is not modelled, and what the models show besides

Not modelled, with the reason in `PROJECT.json`: sends and media (one request each
and no state but caches), the text of group history, the profile and the slash
manifest, configuration parsing, the comparison of tokens. Within modelled parts:
a plugin pinned back to an older tag, the orphaned child of a killed wizard
beside the next wizard, an old sidecar that drains beside a new one on the same
marks, invites of the bot to its own home.

Behaviour that the models contain, that differs from what the repository says or a
reader would expect, and that no run is spent on:

* A handler that failed is passed by the resume id as soon as the next one succeeds,
  although "a failure leaves it uncommitted so the sidecar replays it"
  (`inbound.py:139-142`).
* A DM delivered live between Ready and the walk of the catch-up gets the ❌ too,
  although the module says "react ❌, do not dispatch them to Hermes" (`missed.rs:1-2`).
* The runtime record is "deleted on disconnect" (`CHANGELOG.md:363-364`), except when
  the disconnect runs in the health task, which its own cancellation cuts before
  that.
* A mnemonic can end up beside the nsec of another key: the child reports an existing
  key and writes nothing, and an import of an nsec leaves a mnemonic of an earlier,
  failed setup in place; `README.md:70` speaks of the two as one identity.
* A backup that moved only one of the files when an `OSError` or Ctrl+C came is not
  put back by the finally clause (`setup.py:691`), but by the adoption of the next
  wizard.
* After an interrupt between the two restores, a replacement that the operator agrees to
  loses the seed of the old key. After a restore that failed, the next wizard may find
  no key and make a new bot without a question.
* Setup takes an in-tree build for current whatever version it was built from
  (`README.md:363`).
* The ack of a turn that a reaction started goes to the id of the reaction, which is
  no message.

## 7. Running it

In this directory, `tlc -config MCEventHub.cfg MCEventHub` and the like for each
configuration; `tlapm Replay_proofs.tla` and the like for the proofs.

## 8. Plan

1. Done: the modules of section 2 and the theorems of section 5.
2. A bound on what may come, from the sizes of ring and queues and with publishers that
   are not held up, under which `KeepsWhatMayCome` follows for histories of any length.
3. `MissedCatchup` with an old sidecar that still drains beside a new one.
