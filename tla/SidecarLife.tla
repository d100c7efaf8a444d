------------------------------ MODULE SidecarLife ------------------------------
(***************************************************************************)
(* Who starts, watches and stops the sidecar process: connect, disconnect  *)
(* and the bridge-exit path of adapter.py, SidecarSession of               *)
(* internal/sidecar.py, and the process's own life in bridge/src/main.rs.  *)
(*                                                                         *)
(* Gateway processes follow one another (restarts, crashes); each holds    *)
(* one adapter.  connect() and disconnect() are coroutines of one event    *)
(* loop: the SSE and health tasks run while connect() awaits its last      *)
(* steps, and a task that finds the sidecar dead reports it to the         *)
(* gateway, which disconnects the adapter from inside that very task.      *)
(***************************************************************************)
EXTENDS Integers, FiniteSets

CONSTANTS Gateways,   \* gateway processes of one profile, one identity, one port
          MaxPid      \* bound: sidecar processes are numbered 1..MaxPid

Pids == 1..MaxPid

ASSUME LifeAssumption == MaxPid \in Nat /\ 0 \notin Gateways

\* The gateway and its adapter.
VARIABLES
    up,          \* the gateways that run
    gone,        \* the gateways that died
    call,        \* how far a connect() call is
    connected,   \* gateways that hold the adapter for connected
    running,     \* adapter._running
    proc,        \* session.process, 0 for None
    http,        \* session.http_client is open
    fatal,       \* has_fatal_error
    tasks,       \* the background tasks of the adapter that run
    disc,        \* how far a disconnect() call is
    by           \* the task disconnect() runs in

\* The sidecars, and what they share with the world.
VARIABLES
    st,          \* the state of each sidecar process
    owner,       \* the gateway that spawned it, 0 for none yet
    told,        \* SIGTERM was sent or its stdin was closed
    stale,       \* the listeners a reap is waiting for
    lock,        \* holder of the platform lock on the npub, 0 if free
    record,      \* the pid in runtime/vector-sidecar.json, 0 without a file
    foreign      \* another program listens on the port

\* History variable.
VARIABLE unrecorded   \* the sidecars whose runtime record could not be written

callVars == <<call, connected, stale>>
adapterVars == <<running, proc, http, fatal, tasks>>
discVars == <<disc, by>>
processVars == <<st, owner, told>>
recordVars == <<record, unrecorded>>
lifeVars == <<up, gone, callVars, adapterVars, discVars, processVars, lock,
              recordVars, foreign>>

Listening == {p \in Pids : st[p] \in {"serving", "ready"}}
Alive(p) == st[p] \notin {"unborn", "dead"}
PortBusy == Listening # {} \/ foreign
ProcDead(g) == proc[g] # 0 /\ st[proc[g]] = "dead"

-------------------------------------------------------------------------------

Init ==
    /\ up = {} /\ gone = {}
    /\ call \in [Gateways -> {"none"}] /\ connected = {}
    /\ running = {} /\ proc \in [Gateways -> {0}] /\ http = {} /\ fatal = {}
    /\ tasks \in [Gateways -> {{}}]
    /\ disc \in [Gateways -> {"none"}] /\ by \in [Gateways -> {"gateway"}]
    /\ st \in [Pids -> {"unborn"}] /\ owner \in [Pids -> {0}] /\ told = {}
    /\ stale \in [Gateways -> {{}}]
    /\ lock = 0 /\ record = 0 /\ foreign \in BOOLEAN /\ unrecorded = {}

To(g, stage) == call' = [call EXCEPT ![g] = stage]

\* _delete_runtime_record: an error is swallowed, and the file stays.
DeleteRecord == record' \in {0, record} /\ UNCHANGED unrecorded

\* _write_runtime_record: written beside and renamed.  Any error is logged and
\* swallowed, and the file stays as it was.
WriteRecord(p) ==
    \/ record' = p /\ UNCHANGED unrecorded
    \/ unrecorded' = unrecorded \union {p} /\ UNCHANGED record

(***************************************************************************)
(* The sidecar process (main.rs)                                           *)
(***************************************************************************)

Becomes(p, s) ==
    /\ st' = [st EXCEPT ![p] = s]
    /\ UNCHANGED <<up, gone, callVars, adapterVars, discVars, owner, told, lock,
                   recordVars, foreign>>

\* Mutant of Bind: a second listener is let in.
BindShared(p) ==
    /\ st[p] = "starting"
    /\ Becomes(p, "serving")

\* serve: bind, or exit with an error when the port is taken.
Bind(p) ==
    /\ st[p] = "starting"
    /\ Becomes(p, IF PortBusy THEN "dead" ELSE "serving")

\* spawn_vector_bot: the login succeeds and /health turns ready, or it fails;
\* later the listen loop may end.
Login(p) == st[p] = "serving" /\ (Becomes(p, "ready") \/ Becomes(p, "stopping"))
ListenEnds(p) == st[p] = "ready" /\ Becomes(p, "stopping")

\* wait_shutdown: SIGTERM or the end of stdin, which closes with the gateway.
Stops(p) ==
    /\ p \in told \/ owner[p] \in gone
    /\ st[p] \in {"starting", "serving", "ready"}
    /\ Becomes(p, "stopping")

\* The server drains for two seconds at most; or the process dies by itself.
Exits(p) == st[p] = "stopping" /\ Becomes(p, "dead")
Dies(p) == Alive(p) /\ Becomes(p, "dead")

(***************************************************************************)
(* connect()                                                               *)
(***************************************************************************)

\* The gateway connects an adapter it has just made: what a cancelled or a cut
\* call left behind (running tasks, an open client) stays with the old one, which
\* no longer has a sidecar.  The lock is taken from nobody, or again by the
\* process that holds it.
ConnectCalled(g) ==
    /\ g \in up /\ call[g] = "none" /\ disc[g] = "none" /\ g \notin connected
    /\ lock \in {0, g}
    /\ lock' = g
    /\ To(g, "probe")
    /\ running' = running \ {g} /\ http' = http \ {g} /\ fatal' = fatal \ {g}
    /\ tasks' = [tasks EXCEPT ![g] = {}]
    /\ UNCHANGED <<up, gone, connected, stale, proc, discVars, processVars,
                   recordVars, foreign>>

\* No binary, no identity, or a port that is not freed: fatal, and the lock is
\* released.
GivesUp(g) ==
    /\ \/ call[g] = "probe"
       \/ call[g] = "wait" /\ PortBusy
    /\ fatal' = fatal \union {g}
    /\ lock' = 0
    /\ To(g, "none")
    /\ UNCHANGED <<up, gone, connected, stale, running, proc, http, tasks,
                   discVars, processVars, recordVars, foreign>>

\* The port is taken: find which listeners are ours and tell them to stop.
Reap(g) ==
    /\ call[g] = "probe" /\ PortBusy
    /\ stale' = [stale EXCEPT ![g] = Listening]
    /\ told' = told \union Listening
    /\ To(g, IF Listening = {} THEN "wait" ELSE "reap")
    /\ UNCHANGED <<up, gone, connected, adapterVars, discVars, st, owner, lock,
                   recordVars, foreign>>

\* They are dead within two seconds, or killed; the runtime record is deleted.
Reaped(g) ==
    /\ call[g] = "reap"
    /\ st' = [p \in Pids |-> IF p \in stale[g] THEN "dead" ELSE st[p]]
    /\ stale' = [stale EXCEPT ![g] = {}]
    /\ DeleteRecord
    /\ To(g, "wait")
    /\ UNCHANGED <<up, gone, connected, adapterVars, discVars, owner, told, lock,
                   foreign>>

\* The port is free: mint a token, spawn, open the HTTP client.  There is no
\* await between the probe and the spawn.
Spawn(g) ==
    /\ call[g] \in {"probe", "wait"} /\ ~PortBusy
    /\ \E p \in Pids :
        /\ st[p] = "unborn" /\ \A q \in Pids : q < p => st[q] # "unborn"
        /\ st' = [st EXCEPT ![p] = "starting"]
        /\ owner' = [owner EXCEPT ![p] = g]
        /\ proc' = [proc EXCEPT ![g] = p]
    /\ http' = http \union {g}
    /\ To(g, "poll")
    /\ UNCHANGED <<up, gone, connected, stale, running, fatal, tasks, discVars,
                   told, lock, recordVars, foreign>>

SpawnFails(g) ==
    /\ call[g] \in {"probe", "wait"} /\ ~PortBusy
    /\ fatal' = fatal \union {g}
    /\ To(g, "cleanup")
    /\ UNCHANGED <<up, gone, connected, stale, running, proc, http, tasks,
                   discVars, processVars, lock, recordVars, foreign>>

\* /health is ready: publish the runtime record, start the tasks.  What connect
\* still awaits (welcome, home community, channel sync) runs beside them.
PollReady(g) ==
    /\ call[g] = "poll" /\ st[proc[g]] = "ready"
    /\ WriteRecord(proc[g])
    /\ running' = running \union {g}
    /\ tasks' = [tasks EXCEPT ![g] = {"sse", "health"}]
    /\ To(g, "tail")
    /\ UNCHANGED <<up, gone, connected, stale, proc, http, fatal, discVars,
                   processVars, lock, foreign>>

\* The sidecar exited during startup, or was not ready in time.
PollFails(g) ==
    /\ call[g] = "poll"
    /\ fatal' = fatal \union {g}
    /\ To(g, "cleanup")
    /\ UNCHANGED <<up, gone, connected, stale, running, proc, http, tasks,
                   discVars, processVars, lock, recordVars, foreign>>

\* The last await returns: the adapter is marked connected, whatever became of
\* the sidecar meanwhile.
ConnectReturns(g) ==
    /\ call[g] = "tail"
    /\ connected' = connected \union {g}
    /\ To(g, "none")
    /\ UNCHANGED <<up, gone, stale, adapterVars, discVars, processVars, lock,
                   recordVars, foreign>>

\* Mutant of Cancelled: a cancelled connect returns without cleaning up.
CancelledDirty(g) ==
    /\ call[g] \in {"reap", "wait", "poll", "tail"}
    /\ To(g, "none")
    /\ stale' = [stale EXCEPT ![g] = {}]
    /\ UNCHANGED <<up, gone, connected, adapterVars, discVars, processVars, lock,
                   recordVars, foreign>>

\* Mutant of Cancelled: the lock is released first, the clean-up follows.
CancelledUnlocked(g) ==
    /\ call[g] \in {"reap", "wait", "poll", "tail"}
    /\ To(g, IF call[g] \in {"poll", "tail"} THEN "cleanup" ELSE "none")
    /\ stale' = [stale EXCEPT ![g] = {}]
    /\ lock' = 0
    /\ UNCHANGED <<up, gone, connected, adapterVars, discVars, processVars,
                   recordVars, foreign>>

\* The gateway's connect timeout cancels the call at an await.  Before the spawn
\* nothing is cleaned up, and the lock stays with the process.
Cancelled(g) ==
    /\ call[g] \in {"reap", "wait", "poll", "tail"}
    /\ To(g, IF call[g] \in {"poll", "tail"} THEN "cleanup" ELSE "none")
    /\ stale' = [stale EXCEPT ![g] = {}]
    /\ UNCHANGED <<up, gone, connected, adapterVars, discVars, processVars, lock,
                   recordVars, foreign>>

(***************************************************************************)
(* shutdown_transport, from a failed connect() and from disconnect()       *)
(***************************************************************************)

\* stop, first half: stdin is closed and SIGTERM sent; a process that is dead
\* already is not waited for.
Signal(g) ==
    /\ proc[g] \notin told \union {0}
    /\ call[g] = "cleanup" \/ disc[g] = "stopping"
    /\ told' = told \union {proc[g]}
    /\ UNCHANGED <<up, gone, callVars, adapterVars, discVars, st, owner, lock,
                   recordVars, foreign>>

\* stop, second half: within BRIDGE_TERM_WAIT the process exits, or is killed.
Stopped(g) ==
    /\ proc' = [proc EXCEPT ![g] = 0]
    /\ st' = [p \in Pids |-> IF p = proc[g] THEN "dead" ELSE st[p]]

ReadyToStop(g) == proc[g] \in told \union {0} \/ ProcDead(g)

\* _cleanup_failed_connect, shielded from cancellation: the transport is shut
\* down, the record deleted, the lock released.  _running and the tasks are left
\* as they are.
CleanedUp(g) ==
    /\ call[g] = "cleanup" /\ ReadyToStop(g)
    /\ Stopped(g)
    /\ http' = http \ {g}
    /\ DeleteRecord
    /\ lock' = IF lock = g THEN 0 ELSE lock
    /\ To(g, "none")
    /\ UNCHANGED <<up, gone, connected, stale, running, fatal, tasks, discVars,
                   owner, told, foreign>>

\* disconnect, called by the gateway or in one of the adapter's own tasks: the
\* tasks are cancelled.  Cancelling the task it runs in takes effect at the next
\* await of that task.
StartDisconnect(g, task) ==
    /\ running' = running \ {g}
    /\ tasks' = [tasks EXCEPT ![g] = {}]
    /\ disc' = [disc EXCEPT ![g] = "stopping"]
    /\ by' = [by EXCEPT ![g] = task]

\* The gateway disconnects what is connected.
Disconnect(g) ==
    /\ g \in connected /\ disc[g] = "none"
    /\ StartDisconnect(g, "gateway")
    /\ UNCHANGED <<up, gone, callVars, proc, http, fatal, processVars, lock,
                   recordVars, foreign>>

\* Mutant of DisconnectStops: the lock is released before the transport is shut
\* down to its end.
DisconnectStopsUnlocked(g) ==
    /\ disc[g] = "stopping" /\ ReadyToStop(g)
    /\ Stopped(g)
    /\ disc' = [disc EXCEPT ![g] = "closing"]
    /\ lock' = IF lock = g THEN 0 ELSE lock
    /\ UNCHANGED <<up, gone, callVars, running, http, fatal, tasks, by, owner,
                   told, recordVars, foreign>>

\* The process is stopped; the HTTP client is closed next.
DisconnectStops(g) ==
    /\ disc[g] = "stopping" /\ ReadyToStop(g)
    /\ Stopped(g)
    /\ disc' = [disc EXCEPT ![g] = "closing"]
    /\ UNCHANGED <<up, gone, callVars, running, http, fatal, tasks, by, owner,
                   told, lock, recordVars, foreign>>

\* The client is closed, the record deleted, the lock released.
DisconnectEnds(g) ==
    /\ disc[g] = "closing"
    /\ disc' = [disc EXCEPT ![g] = "none"]
    /\ http' = http \ {g}
    /\ DeleteRecord
    /\ lock' = IF lock = g THEN 0 ELSE lock
    /\ connected' = connected \ {g}
    /\ UNCHANGED <<up, gone, call, stale, running, proc, fatal, tasks, by,
                   processVars, foreign>>

\* In the health task the cancellation of that task is still pending when the
\* HTTP client is closed.  If the close suspends (it does when the client has a
\* pooled connection), disconnect ends there.  In the SSE task the pending
\* cancellation is swallowed where the health task is awaited.
DisconnectCut(g) ==
    /\ disc[g] = "closing" /\ by[g] = "health"
    /\ disc' = [disc EXCEPT ![g] = "none"]
    /\ connected' = connected \ {g}
    /\ UNCHANGED <<up, gone, call, stale, adapterVars, by, processVars, lock,
                   recordVars, foreign>>

(***************************************************************************)
(* The sidecar is found dead                                               *)
(***************************************************************************)

\* Mutant of Noticed: a dead sidecar is taken for a live one.
NoticedNever(g) == FALSE

\* What the loops of both tasks and send() look at.
Noticed(g) == ProcDead(g)

\* A loop of one of the tasks, which finds the sidecar dead and goes through
\* _handle_bridge_exit.  The first to notice
\* reports it to the gateway, whose handler calls disconnect on an adapter it
\* holds for connected and ignores any other.  The task ends either way.
TaskLoop(g, task) ==
    /\ task \in tasks[g]
    /\ Noticed(g)
    /\ IF g \notin fatal /\ g \in connected /\ disc[g] = "none"
         THEN StartDisconnect(g, task)
         ELSE /\ tasks' = [tasks EXCEPT ![g] = @ \ {task}]
              /\ UNCHANGED <<running, discVars>>
    /\ fatal' = fatal \union {g}
    /\ UNCHANGED <<up, gone, callVars, proc, http, processVars, lock, recordVars,
                   foreign>>

\* send() notices too, and reports in a task of its own.
SendNotices(g) ==
    /\ g \in connected /\ g \in running /\ g \in http /\ g \notin fatal
    /\ Noticed(g) /\ disc[g] = "none"
    /\ fatal' = fatal \union {g}
    /\ StartDisconnect(g, "gateway")
    /\ UNCHANGED <<up, gone, callVars, proc, http, processVars, lock, recordVars,
                   foreign>>

(***************************************************************************)
(* The world                                                               *)
(***************************************************************************)

GatewayStarts(g) ==
    /\ g \notin up \union gone
    /\ up' = up \union {g}
    /\ UNCHANGED <<gone, callVars, adapterVars, discVars, processVars, lock,
                   recordVars, foreign>>

\* A gateway dies: its lock is free for another process, its files stay.
GatewayDies(g) ==
    /\ g \in up
    /\ up' = up \ {g} /\ gone' = gone \union {g}
    /\ call' = [call EXCEPT ![g] = "none"] /\ connected' = connected \ {g}
    /\ stale' = [stale EXCEPT ![g] = {}]
    /\ running' = running \ {g} /\ proc' = [proc EXCEPT ![g] = 0]
    /\ http' = http \ {g} /\ fatal' = fatal \ {g}
    /\ tasks' = [tasks EXCEPT ![g] = {}]
    /\ disc' = [disc EXCEPT ![g] = "none"] /\ by' = [by EXCEPT ![g] = "gateway"]
    /\ lock' = IF lock = g THEN 0 ELSE lock
    /\ UNCHANGED <<processVars, recordVars, foreign>>

ForeignLeaves ==
    /\ foreign /\ foreign' = FALSE
    /\ UNCHANGED <<up, gone, callVars, adapterVars, discVars, processVars, lock,
                   recordVars>>

AdapterNext(g) ==
    \/ GivesUp(g) \/ Reap(g) \/ Reaped(g) \/ Spawn(g) \/ SpawnFails(g)
    \/ PollReady(g) \/ PollFails(g) \/ ConnectReturns(g)
    \/ Signal(g) \/ CleanedUp(g)
    \/ DisconnectStops(g) \/ DisconnectEnds(g) \/ DisconnectCut(g)
    \/ \E task \in {"sse", "health"} : TaskLoop(g, task)

Next ==
    \/ \E g \in Gateways :
        \/ AdapterNext(g)
        \/ ConnectCalled(g) \/ Cancelled(g) \/ Disconnect(g) \/ SendNotices(g)
        \/ GatewayStarts(g) \/ GatewayDies(g)
    \/ \E p \in Pids : \/ Bind(p) \/ Login(p) \/ ListenEnds(p)
                       \/ Stops(p) \/ Exits(p) \/ Dies(p)
    \/ ForeignLeaves

Spec == Init /\ [][Next]_lifeVars

\* The event loop of a live gateway runs its coroutines; nothing is assumed of
\* the gateway's calls, of the sidecars or of crashes.
FairSpec == Spec /\ \A g \in Gateways : WF_lifeVars(AdapterNext(g))

-------------------------------------------------------------------------------
(***************************************************************************)
(* Properties                                                              *)
(***************************************************************************)

TypeOK ==
    /\ up \subseteq Gateways /\ gone \subseteq Gateways \ up
    /\ call \in [Gateways -> {"none", "probe", "reap", "wait", "poll", "tail",
                              "cleanup"}]
    /\ connected \subseteq up /\ running \subseteq up /\ http \subseteq up
    /\ fatal \subseteq up
    /\ proc \in [Gateways -> 0..MaxPid]
    /\ tasks \in [Gateways -> SUBSET {"sse", "health"}]
    /\ disc \in [Gateways -> {"none", "stopping", "closing"}]
    /\ by \in [Gateways -> {"gateway", "sse", "health"}]
    /\ st \in [Pids -> {"unborn", "starting", "serving", "ready", "stopping",
                        "dead"}]
    /\ owner \in [Pids -> Gateways \union {0}]
    /\ told \subseteq Pids
    /\ stale \in [Gateways -> SUBSET Pids]
    /\ lock \in up \union {0} /\ record \in 0..MaxPid
    /\ unrecorded \subseteq Pids
    /\ Cardinality(Listening) <= 1

\* connect's finally and disconnect never lose a child: a gateway that holds no
\* connection, and is neither making nor ending one, has no live sidecar, after
\* any mixture of timeouts, cancellations, deaths and disconnects.
NoStrayChild ==
    \A g \in up :
        call[g] = "none" /\ disc[g] = "none" /\ g \notin connected
        => \A p \in Pids : owner[p] = g => ~Alive(p)

\* Cron sends trust the runtime record when its pid is alive: such a record names
\* the sidecar the adapter of its gateway talks to, and a connected gateway with
\* a ready sidecar is always on record, although reaps, failed connects and
\* disconnects of other gateways delete the file: except where writing it failed,
\* which connect does not notice.  The first half holds as well for a record that
\* could not be deleted.
RecordIsCurrent ==
    /\ record # 0 /\ Alive(record) /\ owner[record] \in up
        => proc[owner[record]] = record
    /\ \A g \in connected :
        proc[g] # 0 /\ st[proc[g]] = "ready" /\ disc[g] = "none"
        => record = proc[g] \/ proc[g] \in unrecorded

\* Two gateways of one identity never drive a sidecar each: the lock is held from
\* before the spawn until after the stop.
OneDriver ==
    \A g \in up : proc[g] # 0 /\ Alive(proc[g]) => lock = g

\* While the health task watches and nothing was reported before, a sidecar that
\* dies under a connected adapter is noticed and the adapter is disconnected.  (A
\* death reported before connect has returned is not acted on: connect marks the
\* adapter connected after it.)
DeathIsNoticed ==
    \A g \in Gateways :
        (/\ g \in connected /\ ProcDead(g)
         /\ g \notin fatal /\ "health" \in tasks[g]) ~> g \notin connected
===============================================================================
