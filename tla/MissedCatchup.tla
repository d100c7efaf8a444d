----------------------------- MODULE MissedCatchup -----------------------------
(***************************************************************************)
(* The ❌ catch-up of DMs that arrived while the sidecar was down           *)
(* (bridge/src/missed.rs), over several lives of the sidecar process.      *)
(*                                                                         *)
(* missed-seen.json outlives the process and has two writers in it: the    *)
(* hub, which notes each DM a client queue accepted, and one catch-up task *)
(* per life, which copies the file when it begins, walks the allowlisted   *)
(* chats with an await at every history load and every reaction, and       *)
(* merges its copy back at the end.  Live DMs keep arriving meanwhile, and *)
(* the process may die between any two steps or in the middle of a write.  *)
(* A read or a write of the file that fails is reported to nobody.         *)
(***************************************************************************)
EXTENDS SeenMarks, FiniteSets

CONSTANTS Peers,          \* the allowlisted DM peers; a DM's chat is its peer
          DMs,            \* the DMs of both directions
          HistoryLimit,   \* HISTORY_LIMIT
          MaxLives,       \* bound on the lives of the process
          MaxLapses,      \* bound on the reads and writes of the file that fail
          MaxNow          \* bound on the clock

\* A DM of a chat, stamped by its sender.  The bot's own ones are in the history
\* too.
DM == [chat : Peers, at : Nat, id : Nat \ {0}, mine : BOOLEAN]

ASSUME CatchupAssumption ==
    /\ DMs \subseteq DM
    /\ \A m, n \in DMs : m.id = n.id => m = n
    /\ HistoryLimit \in Nat \ {0}
    /\ MaxLives \in Nat /\ MaxLapses \in Nat /\ MaxNow \in Nat

VARIABLES
    life,      \* how many times the process has started
    phase,     \* "down", or how far the catch-up of this life is
    stored,    \* the DMs in the SDK's message store
    cursor,    \* missed-seen.json
    now,       \* now_ms
    ring,      \* the inbound DMs this life has published and retains
    noting,    \* DMs a client queue accepted, whose mark is not moved yet
    readyAt,   \* ready_at_ms
    local,     \* the catch-up's copy of the file
    todo,      \* peers the catch-up has not reached
    peer,      \* the peer it is at: the empty set or a singleton
    missed     \* that peer's missed DMs still to be reacted to

\* History variables.
VARIABLES
    delivered,   \* DMs a client queue accepted
    notedIn,     \* the life in which a DM was noted, 0 if never
    reacted,     \* the lives in which a DM got its reaction
    failed,      \* DMs a reaction failed on in this life
    walked,      \* the DMs of the histories loaded in this life
    seeded,      \* the peers with no mark when this life's walk reached them
    base,        \* the copy as it was when the catch-up took it
    lapses,      \* how many reads and writes of missed-seen.json have failed
    unsaved      \* the noted DMs whose mark went with one

fileVars == <<lapses, unsaved>>
taskVars == <<ring, noting, readyAt, local, todo, peer, missed>>
historyVars == <<delivered, notedIn, reacted, failed, walked, seeded, base,
                 fileVars>>
catchupVars == <<life, phase, stored, cursor, now, taskVars, historyVars>>

Phases == {"down", "ready", "walking", "merged"}
Up == phase # "down"
NoMarks == [p \in Peers |-> NoMark]

-------------------------------------------------------------------------------

Init ==
    /\ life = 0 /\ phase = "down"
    /\ stored = {} /\ cursor \in [Peers -> {NoMark}] /\ now = 0
    /\ ring = {} /\ noting = {} /\ readyAt = 0 /\ local \in [Peers -> {NoMark}]
    /\ todo = {} /\ peer = {} /\ missed = {}
    /\ delivered = {} /\ notedIn \in [DMs -> {0}] /\ reacted \in [DMs -> {{}}]
    /\ failed = {} /\ walked = {} /\ seeded = {} /\ base \in [Peers -> {NoMark}]
    /\ lapses = 0 /\ unsaved = {}

\* A DM is sent while the process is down; the SDK stores it before Ready.
\* A DM may arrive long after it was stamped, never before.
ArrivesWhileDown(m) ==
    /\ ~Up
    /\ m \in DMs \ stored /\ m.at <= now
    /\ stored' = stored \union {m}
    /\ UNCHANGED <<life, phase, cursor, now, taskVars, historyVars>>

\* A live DM is stored; an inbound one is published.
ArrivesLive(m) ==
    /\ Up
    /\ m \in DMs \ stored /\ m.at <= now
    /\ stored' = stored \union {m}
    /\ ring' = IF m.mine THEN ring ELSE ring \union {m}
    /\ UNCHANGED <<life, phase, cursor, now, noting, readyAt, local, todo, peer,
                   missed, historyVars>>

\* A client queue accepts a DM, when it is published, in a later replay, or
\* never.  It may accept it again, which does not move the mark.
Accepts(m) ==
    /\ m \in ring \ delivered
    /\ noting' = noting \union {m} /\ delivered' = delivered \union {m}
    /\ UNCHANGED <<life, phase, stored, cursor, now, ring, readyAt, local, todo,
                   peer, missed, notedIn, reacted, failed, walked, seeded, base,
                   fileVars>>

\* A read or a write of the file fails, and nobody learns of it: the noted DMs
\* whose mark is not in the file after this step have lost it.
Lapse ==
    /\ lapses < MaxLapses
    /\ lapses' = lapses + 1
    /\ unsaved' = unsaved \union
         {n \in DMs : notedIn'[n] # 0 /\ Precedes(cursor'[n.chat], MarkOf(n))}

\* note_live: load, compare and save under FILE_LOCK.
NoteLive(m) ==
    /\ m \in noting
    /\ noting' = noting \ {m}
    /\ notedIn' = [notedIn EXCEPT ![m] = life]
    /\ \/ cursor' = Bump(cursor, m) /\ UNCHANGED fileVars
       \/ cursor' \in FailedBumps(cursor, m) /\ Lapse
    /\ UNCHANGED <<life, phase, stored, now, ring, readyAt, local, todo, peer,
                   missed, delivered, reacted, failed, walked, seeded, base>>

\* The process starts and reaches Ready; the catch-up task is spawned.
Start ==
    /\ ~Up /\ life < MaxLives
    /\ life' = life + 1
    /\ phase' = "ready"
    /\ UNCHANGED <<stored, cursor, now, taskVars, historyVars>>

\* ack_missed_while_down up to the loop: the clock is read and the file copied.
Begin ==
    /\ phase = "ready"
    /\ phase' = "walking"
    /\ readyAt' = now
    /\ todo' = Peers
    /\ UNCHANGED <<life, stored, cursor, now, ring, noting, peer, missed,
                   delivered, notedIn, reacted, failed, walked, seeded>>
    /\ \/ local' = cursor /\ UNCHANGED fileVars
       \/ local' = Emptied(cursor) /\ Lapse
    /\ base' = local'

\* Mutant of History: the window is taken at the old end of the chat.
HistoryOldest(p) ==
    {m \in stored : /\ m.chat = p
                    /\ Cardinality({n \in stored :
                         n.chat = p /\ Precedes(MarkOf(n), MarkOf(m))})
                         < HistoryLimit}

\* The newest HISTORY_LIMIT messages of a chat.
History(p) ==
    {m \in stored : /\ m.chat = p
                    /\ Cardinality({n \in stored :
                         n.chat = p /\ Precedes(MarkOf(m), MarkOf(n))})
                         < HistoryLimit}

\* missed_inbound.
MissedInbound(msgs, last) ==
    {m \in msgs : ~m.mine /\ m.at < readyAt /\ Precedes(last, MarkOf(m))}

\* newest_inbound, or the clock when there is no inbound message.
Seed(msgs) ==
    LET inbound == {m \in msgs : ~m.mine}
    IN IF inbound = {} THEN {[at |-> readyAt, id |-> 0]}
       ELSE {MarkOf(m) : m \in {x \in inbound :
               \A y \in inbound : ~Precedes(MarkOf(x), MarkOf(y))}}

\* Mutant of LoadHistory: a walked peer's mark moves to its newest message at
\* once, whatever becomes of the reactions.
LoadHistoryAdvancesFirst(p) ==
    /\ phase = "walking" /\ peer = {} /\ p \in todo
    /\ todo' = todo \ {p}
    /\ walked' = walked \union History(p)
    /\ seeded' = IF local[p] = NoMark THEN seeded \union {p} ELSE seeded
    /\ peer' = IF local[p] = NoMark THEN {} ELSE {p}
    /\ missed' = IF local[p] = NoMark THEN {}
                 ELSE MissedInbound(History(p), local[p])
    /\ \E seed \in Seed(History(p)) : local' = [local EXCEPT ![p] = seed]
    /\ UNCHANGED <<life, phase, stored, cursor, now, ring, noting, readyAt,
                   delivered, notedIn, reacted, failed, base, fileVars>>

\* The next peer: its history is loaded.  A peer with no mark is seeded and done
\* with; otherwise its missed DMs are walked.
LoadHistory(p) ==
    /\ phase = "walking" /\ peer = {} /\ p \in todo
    /\ todo' = todo \ {p}
    /\ walked' = walked \union History(p)
    /\ IF local[p] = NoMark
         THEN /\ \E seed \in Seed(History(p)) :
                   local' = [local EXCEPT ![p] = seed]
              /\ seeded' = seeded \union {p}
              /\ UNCHANGED <<peer, missed>>
         ELSE /\ peer' = {p}
              /\ missed' = MissedInbound(History(p), local[p])
              /\ UNCHANGED <<local, seeded>>
    /\ UNCHANGED <<life, phase, stored, cursor, now, ring, noting, readyAt,
                   delivered, notedIn, reacted, failed, base, fileVars>>

\* The oldest missed DM is reacted to, in history order; the mark advances to
\* the last one that succeeded, past those that failed before it.
React(m) ==
    /\ m \in missed
    /\ \A n \in missed : ~Precedes(MarkOf(n), MarkOf(m))
    /\ missed' = missed \ {m}
    /\ \/ /\ reacted' = [reacted EXCEPT ![m] = @ \union {life}]
          /\ local' = [local EXCEPT ![m.chat] = MarkOf(m)]
          /\ UNCHANGED failed
       \/ failed' = failed \union {m} /\ UNCHANGED <<reacted, local>>
    /\ UNCHANGED <<life, phase, stored, cursor, now, ring, noting, readyAt,
                   todo, peer, delivered, notedIn, walked, seeded, base,
                   fileVars>>

\* Mutant of NextPeer: the peer is left with DMs still to be reacted to.
NextPeerEarly ==
    /\ peer # {}
    /\ peer' = {}
    /\ UNCHANGED <<life, phase, stored, cursor, now, ring, noting, readyAt,
                   local, todo, missed, historyVars>>

\* The peer is done.
NextPeer ==
    /\ peer # {} /\ missed = {}
    /\ peer' = {}
    /\ UNCHANGED <<life, phase, stored, cursor, now, ring, noting, readyAt,
                   local, todo, missed, historyVars>>

\* Mutant of MergeMarks: the copy replaces the file.
MergeMarksOverwrite(live, copy) == copy

\* The merge of the copy into the file as it is by now, mark by mark.
MergeMarks(live, copy) ==
    [p \in Peers |-> IF Precedes(live[p], copy[p]) THEN copy[p] ELSE live[p]]

AllWalked == phase = "walking" /\ peer = {} /\ todo = {}

\* The other outcomes of the merge: the file is not written, is emptied, or is
\* replaced by the copy.
FailedMerges(live, copy) ==
    {live, Emptied(live), MergeMarks(Emptied(live), copy)}

Merge ==
    /\ AllWalked
    /\ phase' = "merged"
    /\ UNCHANGED <<life, stored, now, taskVars, delivered, notedIn, reacted,
                   failed, walked, seeded, base>>
    /\ \/ cursor' = MergeMarks(cursor, local) /\ UNCHANGED fileVars
       \/ cursor' \in FailedMerges(cursor, local) /\ Lapse

\* The process dies.  Its tasks are gone with it, and what this life's history
\* variables hold with them.
Dies ==
    /\ Up
    /\ phase' = "down"
    /\ ring' = {} /\ noting' = {} /\ readyAt' = 0 /\ local' = NoMarks
    /\ todo' = {} /\ peer' = {} /\ missed' = {}
    /\ failed' = {} /\ walked' = {} /\ seeded' = {} /\ base' = NoMarks
    /\ UNCHANGED <<life, stored, now, delivered, notedIn, reacted>>

Crash == Dies /\ UNCHANGED <<cursor, fileVars>>

\* fs::write truncates the file before it writes.  A process that dies in
\* between leaves a file that does not parse, which load_seen takes for an
\* empty one.
CrashInSave ==
    /\ AllWalked \/ \E m \in noting : Precedes(cursor[m.chat], MarkOf(m))
    /\ Dies
    /\ cursor' = Emptied(cursor)
    /\ Lapse

Tick ==
    /\ now < MaxNow
    /\ now' = now + 1
    /\ UNCHANGED <<life, phase, stored, cursor, taskVars, historyVars>>

\* The steps of the process, once it is up.
ProcessNext ==
    \/ Begin
    \/ \E p \in Peers : LoadHistory(p)
    \/ \E m \in DMs : NoteLive(m) \/ React(m)
    \/ NextPeer
    \/ Merge

Next ==
    \/ ProcessNext
    \/ Start
    \/ \E m \in DMs : ArrivesWhileDown(m) \/ ArrivesLive(m) \/ Accepts(m)
    \/ Crash \/ CrashInSave
    \/ Tick

Spec == Init /\ [][Next]_catchupVars

\* The tokio runtime runs the tasks of a live process.  Neither a restart nor an
\* arrival nor the clock is owed.
FairSpec == Spec /\ WF_catchupVars(ProcessNext)

-------------------------------------------------------------------------------
(***************************************************************************)
(* Properties                                                              *)
(***************************************************************************)

TypeOK ==
    /\ life \in 0..MaxLives
    /\ phase \in Phases
    /\ stored \subseteq DMs
    /\ cursor \in [Peers -> Mark \union {NoMark}]
    /\ now \in 0..MaxNow
    /\ ring \subseteq {m \in stored : ~m.mine}
    /\ noting \subseteq ring \intersect delivered
    /\ readyAt \in 0..now
    /\ local \in [Peers -> Mark \union {NoMark}]
    /\ todo \subseteq Peers
    /\ peer \subseteq Peers /\ \A p, q \in peer : p = q
    /\ \A m \in missed : peer = {m.chat}
    /\ missed \subseteq walked /\ walked \subseteq stored
    /\ delivered \subseteq stored
    /\ notedIn \in [DMs -> 0..MaxLives]
    /\ reacted \in [DMs -> SUBSET (1..life)]
    /\ failed \subseteq walked
    /\ seeded \subseteq Peers
    /\ base \in [Peers -> Mark \union {NoMark}]
    /\ lapses \in 0..MaxLapses
    /\ unsaved \subseteq DMs

\* note_live's promise, "so a later restart will not ❌ it": a DM noted in one
\* life gets no reaction in a later one, although the catch-up of the first life
\* wrote back a copy of the file taken before the DM was noted; unless its mark
\* was lost to a read or write of the file that failed or was cut short.
NotedIsNotReacted ==
    \A m \in DMs \ unsaved :
        notedIn[m] # 0 => \A n \in reacted[m] : n <= notedIn[m]

\* Its two writers never move a mark of the file backwards: only a read or write
\* that fails or is cut short does.
MarksNeverRetreat ==
    [][\A p \in Peers : Precedes(cursor'[p], cursor[p]) => lapses' # lapses
      ]_catchupVars

\* What the catch-up's own merge passes of the DMs it looked at was reacted to in
\* this life; except on a peer it had no mark for, except for reactions that
\* failed before a later one succeeded, and except for what the file had passed
\* when the catch-up copied it.
MergePassesOnlyMarked ==
    [][phase = "walking" /\ phase' = "merged" =>
         \A m \in walked :
            /\ ~m.mine
            /\ Precedes(cursor[m.chat], MarkOf(m))
            /\ ~Precedes(cursor'[m.chat], MarkOf(m))
            => \/ life \in reacted[m]
               \/ m \in failed
               \/ m.chat \in seeded
               \/ ~Precedes(base[m.chat], MarkOf(m))
      ]_catchupVars

\* README "After Ready the sidecar reacts ❌ on allowlisted DMs newer than
\* sdk/missed-seen.json": a DM that is stored at Ready and lies after the mark of
\* its chat eventually gets the reaction, unless it had it in an earlier life,
\* the reaction fails, a newer DM noted live moves the mark past it, HISTORY_LIMIT
\* newer messages hide it, it was stamped in the very tick the catch-up
\* began, its peer is seeded anew because a failed read or write has lost the
\* peer's mark, or the process dies (then the next one owes it the reaction, if
\* its mark is still before it).
Awaiting(m) ==
    /\ phase = "ready"
    /\ m \in stored /\ ~m.mine
    /\ cursor[m.chat] # NoMark
    /\ Precedes(cursor[m.chat], MarkOf(m))

Hidden(m) ==
    Cardinality({n \in stored : /\ n.chat = m.chat
                                /\ Precedes(MarkOf(m), MarkOf(n))})
        >= HistoryLimit

MissedIsMarked ==
    \A m \in DMs :
        Awaiting(m) ~> \/ reacted[m] # {}
                       \/ m \in failed
                       \/ ~Precedes(cursor[m.chat], MarkOf(m))
                       \/ Hidden(m)
                       \/ phase = "merged" /\ m.at >= readyAt
                       \/ lapses # 0 /\ m.chat \in seeded
                       \/ ~Up
===============================================================================
