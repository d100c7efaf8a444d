-------------------------- MODULE SidecarLife_proofs --------------------------
(***************************************************************************)
(* What TLAPS proves of SidecarLife, for any gateways and any number of    *)
(* sidecar processes: the types and the three safety properties its run    *)
(* checks, all from one inductive invariant.                               *)
(***************************************************************************)
EXTENDS SidecarLife, FiniteSetTheorems, TLAPS

CallStages == {"none", "probe", "reap", "wait", "poll", "tail", "cleanup"}
ProcStates == {"unborn", "starting", "serving", "ready", "stopping", "dead"}

\* TypeOK, with "one listener" said without a cardinality.
TypeInv ==
    /\ up \subseteq Gateways /\ gone \subseteq Gateways \ up
    /\ call \in [Gateways -> CallStages]
    /\ connected \subseteq up /\ running \subseteq up /\ http \subseteq up
    /\ fatal \subseteq up
    /\ proc \in [Gateways -> 0..MaxPid]
    /\ tasks \in [Gateways -> SUBSET {"sse", "health"}]
    /\ disc \in [Gateways -> {"none", "stopping", "closing"}]
    /\ by \in [Gateways -> {"gateway", "sse", "health"}]
    /\ st \in [Pids -> ProcStates]
    /\ owner \in [Pids -> Gateways \union {0}]
    /\ told \subseteq Pids
    /\ stale \in [Gateways -> SUBSET Pids]
    /\ lock \in up \union {0} /\ record \in 0..MaxPid
    /\ unrecorded \subseteq Pids
    /\ foreign \in BOOLEAN

OneListener == \A p, q \in Pids : p \in Listening /\ q \in Listening => p = q

\* A gateway that does not run holds nothing.
DownIsIdle ==
    \A g \in Gateways \ up :
        call[g] = "none" /\ disc[g] = "none" /\ proc[g] = 0 /\ tasks[g] = {}

\* The lock is held from the start of a connect to the end of the disconnect, and
\* the calls of one adapter exclude each other.
LockInv ==
    \A g \in Gateways :
        /\ call[g] # "none" => lock = g /\ g \notin connected
        /\ g \in connected => lock = g
        /\ disc[g] # "none" => g \in connected

\* The process an adapter holds was spawned; it is alive only under a connect
\* that has spawned it, or a connection.
ProcInv ==
    \A g \in Gateways :
        /\ proc[g] # 0 => st[proc[g]] # "unborn"
        /\ call[g] \in {"poll", "tail"} => proc[g] # 0
        /\ disc[g] = "closing" => proc[g] = 0
        /\ proc[g] # 0 /\ Alive(proc[g])
            => call[g] \in {"poll", "tail", "cleanup"} \/ g \in connected

\* A running gateway's live sidecar is the one its adapter holds.
OwnerInv ==
    \A p \in Pids :
        /\ owner[p] # 0 => owner[p] \in up \union gone
        /\ Alive(p) /\ owner[p] \in up => proc[owner[p]] = p

\* Once it was ready, a sidecar does not become ready again; until its adapter
\* disconnects, it is on record, or its record could not be written.
RecordInv ==
    \A g \in Gateways :
        (call[g] = "tail" \/ g \in connected) /\ proc[g] # 0
        => /\ st[proc[g]] \in {"ready", "stopping", "dead"}
           /\ st[proc[g]] = "ready" /\ disc[g] = "none"
              => record = proc[g] \/ proc[g] \in unrecorded

\* The inductive invariant.
LifeInv ==
    /\ TypeInv /\ OneListener /\ DownIsIdle
    /\ LockInv /\ ProcInv /\ OwnerInv /\ RecordInv
-------------------------------------------------------------------------------
(***************************************************************************)
(* The invariant is inductive                                              *)
(***************************************************************************)

\* Nothing runs before the first gateway starts.
LEMMA LifeInvInit == Init => LifeInv
  BY LifeAssumption
     DEF Init, LifeInv, TypeInv, OneListener, DownIsIdle, LockInv, ProcInv,
         OwnerInv, RecordInv, Listening, Alive, CallStages, ProcStates, Pids

\* What an adapter holds is the number of a sidecar.
LEMMA HeldIsPid ==
    ASSUME TypeInv, NEW g \in Gateways, proc[g] # 0
    PROVE  proc[g] \in Pids
  BY LifeAssumption DEF TypeInv, Pids

\* One step per action of connect, disconnect, the tasks and the sidecar.
LEMMA LifeInvNext ==
    ASSUME LifeInv, [Next]_lifeVars
    PROVE  LifeInv'
  <1> USE LifeAssumption
      DEF LifeInv, TypeInv, OneListener, DownIsIdle, LockInv, ProcInv, OwnerInv,
          RecordInv, Listening, Alive, CallStages, ProcStates, Pids, callVars,
          adapterVars, discVars, processVars, recordVars
  <1>1. CASE UNCHANGED lifeVars
    BY <1>1 DEF lifeVars
  <1>2. ASSUME NEW g \in Gateways, ConnectCalled(g)
        PROVE LifeInv'
    <2>1. TypeInv'
      BY <1>2 DEF ConnectCalled, To
    <2>2. /\ OneListener' /\ DownIsIdle' /\ LockInv'
          /\ ProcInv' /\ OwnerInv' /\ RecordInv'
      BY <1>2 DEF ConnectCalled, To
    <2> QED BY <2>1, <2>2
  <1>3. ASSUME NEW g \in Gateways, GivesUp(g) PROVE LifeInv'
    BY <1>3 DEF GivesUp, To
  <1>4. ASSUME NEW g \in Gateways, Reap(g)
        PROVE LifeInv'
    <2>1. TypeInv'
      BY <1>4 DEF Reap, To, PortBusy
    <2>2. /\ OneListener' /\ DownIsIdle' /\ LockInv'
          /\ ProcInv' /\ OwnerInv' /\ RecordInv'
      BY <1>4 DEF Reap, To, PortBusy
    <2> QED BY <2>1, <2>2
  <1>5. ASSUME NEW g \in Gateways, Reaped(g) PROVE LifeInv'
    BY <1>5 DEF Reaped, DeleteRecord, To
  <1>6. ASSUME NEW g \in Gateways, Spawn(g)
        PROVE LifeInv'
    <2>1. TypeInv'
      BY <1>6 DEF Spawn, To, PortBusy
    <2>2. OneListener'
      BY <1>6 DEF Spawn, To, PortBusy
    <2>3. DownIsIdle'
      BY <1>6 DEF Spawn, To, PortBusy
    <2>4. LockInv'
      BY <1>6 DEF Spawn, To, PortBusy
    <2>5. ProcInv'
      BY <1>6 DEF Spawn, To, PortBusy
    <2>6. OwnerInv'
      BY <1>6 DEF Spawn, To, PortBusy
    <2>7. RecordInv'
      BY <1>6 DEF Spawn, To, PortBusy
    <2> QED BY <2>1, <2>2, <2>3, <2>4, <2>5, <2>6, <2>7
  <1>7. ASSUME NEW g \in Gateways, SpawnFails(g) PROVE LifeInv'
    BY <1>7 DEF SpawnFails, To
  <1>8. ASSUME NEW g \in Gateways, PollReady(g)
        PROVE LifeInv'
    <2>1. proc[g] \in Pids
      BY <1>8 DEF PollReady
    <2>2. record' \in 0..MaxPid /\ unrecorded' \subseteq Pids
      <3>1. record \in 0..MaxPid /\ unrecorded \subseteq Pids
        OBVIOUS
      <3>2. \/ record' = proc[g] /\ unrecorded' = unrecorded
            \/ unrecorded' = unrecorded \union {proc[g]} /\ record' = record
        BY <1>8 DEF PollReady, WriteRecord
      <3>3. proc[g] \in 0..MaxPid
        OBVIOUS
      <3> HIDE DEF LifeInv, Pids
      <3> QED BY <2>1, <3>1, <3>2, <3>3
    <2>3. TypeInv'
      BY <2>2, <1>8 DEF PollReady, To
    <2>4. OneListener' /\ DownIsIdle' /\ LockInv' /\ ProcInv' /\ OwnerInv'
      BY <1>8 DEF PollReady, To
    <2>5. RecordInv'
      BY <1>8 DEF PollReady, To, WriteRecord
    <2> QED BY <2>3, <2>4, <2>5
  <1>9. ASSUME NEW g \in Gateways, PollFails(g) PROVE LifeInv'
    BY <1>9 DEF PollFails, To
  <1>10. ASSUME NEW g \in Gateways, ConnectReturns(g) PROVE LifeInv'
    BY <1>10 DEF ConnectReturns, To
  <1>11. ASSUME NEW g \in Gateways, Cancelled(g) PROVE LifeInv'
    BY <1>11 DEF Cancelled, To
  <1>12. ASSUME NEW g \in Gateways, Signal(g)
        PROVE LifeInv'
    <2>1. told' \subseteq Pids
      <3>1. proc[g] \in Pids
        BY <1>12, HeldIsPid DEF Signal
      <3>2. told \subseteq Pids /\ told' = told \union {proc[g]}
        BY <1>12 DEF Signal
      <3> HIDE DEF LifeInv, Pids
      <3> QED BY <3>1, <3>2
    <2>2. TypeInv'
      BY <2>1, <1>12 DEF Signal
    <2>3. /\ OneListener' /\ DownIsIdle' /\ LockInv'
          /\ ProcInv' /\ OwnerInv' /\ RecordInv'
      BY <1>12 DEF Signal
    <2> QED BY <2>2, <2>3
  <1>13. ASSUME NEW g \in Gateways, CleanedUp(g) PROVE LifeInv'
    BY <1>13 DEF CleanedUp, DeleteRecord, To, Stopped, ReadyToStop, ProcDead
  <1>14. ASSUME NEW g \in Gateways, Disconnect(g) PROVE LifeInv'
    BY <1>14 DEF Disconnect, StartDisconnect
  <1>15. ASSUME NEW g \in Gateways, DisconnectStops(g) PROVE LifeInv'
    BY <1>15 DEF DisconnectStops, Stopped, ReadyToStop, ProcDead
  <1>16. ASSUME NEW g \in Gateways, DisconnectEnds(g) PROVE LifeInv'
    BY <1>16 DEF DisconnectEnds, DeleteRecord
  <1>17. ASSUME NEW g \in Gateways, DisconnectCut(g) PROVE LifeInv'
    BY <1>17 DEF DisconnectCut
  <1>18. ASSUME NEW g \in Gateways, NEW task \in {"sse", "health"},
                   TaskLoop(g, task)
        PROVE LifeInv'
    <2>1. CASE g \notin fatal /\ g \in connected /\ disc[g] = "none"
      <3>1. StartDisconnect(g, task)
        BY <1>18, <2>1 DEF TaskLoop
      <3>2. TypeInv'
        BY <1>18, <3>1 DEF TaskLoop, StartDisconnect
      <3>3. /\ OneListener' /\ DownIsIdle' /\ LockInv'
            /\ ProcInv' /\ OwnerInv' /\ RecordInv'
        BY <1>18, <2>1, <3>1 DEF TaskLoop, StartDisconnect
      <3> QED BY <3>2, <3>3
    <2>2. CASE ~(g \notin fatal /\ g \in connected /\ disc[g] = "none")
      <3>1. /\ tasks' = [tasks EXCEPT ![g] = @ \ {task}]
            /\ UNCHANGED <<running, discVars>>
        BY <1>18, <2>2 DEF TaskLoop
      <3> QED BY <1>18, <3>1 DEF TaskLoop, Noticed, ProcDead
    <2> QED BY <2>1, <2>2
  <1>19. ASSUME NEW g \in Gateways, SendNotices(g) PROVE LifeInv'
    BY <1>19 DEF SendNotices, StartDisconnect, Noticed, ProcDead
  <1>20. ASSUME NEW g \in Gateways, GatewayStarts(g) PROVE LifeInv'
    BY <1>20 DEF GatewayStarts
  <1>21. ASSUME NEW g \in Gateways, GatewayDies(g) PROVE LifeInv'
    BY <1>21 DEF GatewayDies
  <1>22. ASSUME NEW p \in Pids, Bind(p)
        PROVE LifeInv'
    <2>1. CASE PortBusy
      BY <1>22, <2>1 DEF Bind, Becomes
    <2>2. CASE ~PortBusy
      <3>1. Listening = {} /\ Becomes(p, "serving")
        BY <1>22, <2>2 DEF Bind, PortBusy
      <3>2. \A q \in Pids : st[q] \notin {"serving", "ready"}
        BY <3>1
      <3>3. \A q \in Pids \ {p} : st'[q] = st[q]
        BY <3>1 DEF Becomes
      <3>4. OneListener'
        BY <3>2, <3>3
      <3>5. /\ TypeInv' /\ DownIsIdle' /\ LockInv'
            /\ ProcInv' /\ OwnerInv' /\ RecordInv'
        BY <1>22, <3>1 DEF Bind, Becomes
      <3> QED BY <3>4, <3>5
    <2> QED BY <2>1, <2>2
  <1>23. ASSUME NEW p \in Pids, Login(p)
        PROVE LifeInv'
    <2>1. CASE Becomes(p, "ready")
      BY <1>23, <2>1 DEF Login, Becomes
    <2>2. CASE Becomes(p, "stopping")
      BY <1>23, <2>2 DEF Login, Becomes
    <2> QED BY <1>23, <2>1, <2>2 DEF Login
  <1>24. ASSUME NEW p \in Pids, ListenEnds(p) PROVE LifeInv'
    BY <1>24 DEF ListenEnds, Becomes
  <1>25. ASSUME NEW p \in Pids, Stops(p) PROVE LifeInv'
    BY <1>25 DEF Stops, Becomes
  <1>26. ASSUME NEW p \in Pids, Exits(p) PROVE LifeInv'
    BY <1>26 DEF Exits, Becomes
  <1>27. ASSUME NEW p \in Pids, Dies(p) PROVE LifeInv'
    BY <1>27 DEF Dies, Becomes
  <1>28. CASE ForeignLeaves
    BY <1>28 DEF ForeignLeaves
  <1> HIDE DEF LifeInv
  <1> QED
    BY <1>1, <1>2, <1>3, <1>4, <1>5, <1>6, <1>7, <1>8, <1>9, <1>10, <1>11,
       <1>12, <1>13, <1>14, <1>15, <1>16, <1>17, <1>18, <1>19, <1>20, <1>21,
       <1>22, <1>23, <1>24, <1>25, <1>26, <1>27, <1>28 DEF Next, AdapterNext

\* Every reachable state satisfies the invariant.
LEMMA LifeInvHolds == Spec => []LifeInv
  BY LifeInvInit, LifeInvNext, PTL DEF Spec

-------------------------------------------------------------------------------
(***************************************************************************)
(* The theorems                                                            *)
(***************************************************************************)

\* Listeners that are all one and the same are at most one.
LEMMA AtMostOneListens == OneListener => Cardinality(Listening) <= 1
  <1> SUFFICES ASSUME OneListener PROVE Cardinality(Listening) <= 1
    OBVIOUS
  <1>1. CASE Listening = {}
    BY <1>1, FS_EmptySet
  <1>2. CASE Listening # {}
    <2>1. PICK p : p \in Listening
      BY <1>2
    <2>2. \A q \in Listening : q = p
      BY <2>1 DEF OneListener, Listening
    <2>3. Listening = {p}
      BY <2>1, <2>2
    <2>4. Cardinality({p}) = 1
      BY FS_Singleton
    <2> QED BY <2>3, <2>4
  <1> QED BY <1>1, <1>2

\* The variables keep their types and one sidecar at most listens on the port:
\* the next one binds only after the one before it is gone.
THEOREM LifeTyped == Spec => []TypeOK
  <1>1. LifeInv => TypeOK
    BY AtMostOneListens DEF LifeInv, TypeInv, TypeOK, CallStages, ProcStates
  <1> QED BY <1>1, LifeInvHolds, PTL

\* The platform lock is held for as long as an adapter has a live sidecar: two
\* gateways of one identity never drive one each.
THEOREM DriverHoldsLock == Spec => []OneDriver
  <1>1. LifeInv => OneDriver
    BY DEF LifeInv, TypeInv, LockInv, ProcInv, OneDriver
  <1> QED BY <1>1, LifeInvHolds, PTL

\* connect and disconnect never lose a child, whatever is cancelled, times out or
\* dies between their steps.
THEOREM NoChildIsLost == Spec => []NoStrayChild
  <1>1. LifeInv => NoStrayChild
    <2> SUFFICES ASSUME LifeInv, NEW g \in up, NEW p \in Pids, Alive(p), 
                        owner[p] = g,
                        call[g] = "none", g \notin connected
                 PROVE  FALSE
      BY DEF NoStrayChild
    <2>1. g \in Gateways /\ proc[g] = p
      BY DEF LifeInv, TypeInv, OwnerInv
    <2>2. proc[g] # 0
      BY <2>1 DEF Pids
    <2> QED BY <2>1, <2>2 DEF LifeInv, ProcInv
  <1> QED BY <1>1, LifeInvHolds, PTL

\* The runtime record, when its pid is alive and its gateway runs, names the
\* sidecar of that gateway; a connected gateway's ready sidecar is on record, but
\* for one whose record could not be written.
THEOREM RecordNamesTheSidecar == Spec => []RecordIsCurrent
  <1>1. LifeInv => RecordIsCurrent
    BY LifeAssumption DEF LifeInv, TypeInv, OwnerInv, RecordInv, RecordIsCurrent, Pids
  <1> QED BY <1>1, LifeInvHolds, PTL
===============================================================================
