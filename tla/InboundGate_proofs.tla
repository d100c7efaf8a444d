--------------------------- MODULE InboundGate_proofs ---------------------------
(***************************************************************************)
(* What TLAPS proves of InboundGate, for any peers, channels, events and   *)
(* bounds: muted peers, files and the agent, and files across turns.  Each *)
(* part has lemmas that say what one of the ways on from a handler can do; *)
(* its inductive invariant goes through the actions with them.             *)
(***************************************************************************)
EXTENDS InboundGate, SequenceTheorems, TLAPS

\* Every turn a step starts is one for message e.
OnlyTurnIs(e) == \A t \in turns' : Started(t) => t.of = e

-------------------------------------------------------------------------------
(***************************************************************************)
(* Muted peers                                                             *)
(***************************************************************************)

\* A direct message ends in a turn of its own, in the queue of files or as
\* context (_handle_message_event).
LEMMA FinishDMGoes ==
    ASSUME NEW d, NEW saved, FinishDM(d, saved)
    PROVE  /\ OnlyTurnIs(d.item)
           /\ task'.stage \in {"idle", "queue", "context"}
  BY DEF FinishDM, OnlyTurnIs, Started, StartTurn, Await, Task, NoTask, turnVars

\* A listed peer gets nothing; what passes the gates is this message still.
LEMMA AdmitGoes ==
    ASSUME NEW d, NEW list, Admit(d, list)
    PROVE  /\ OnlyTurnIs(d.item)
           /\ task'.stage \in {"idle", "queue", "context", "command", "save"}
           /\ task'.stage = "save" => task'.of = d /\ d.item.from \notin list
           /\ d.item.from \in list => turns' = turns
  <1>1. CASE Drop
    BY <1>1 DEF Drop, OnlyTurnIs, Started, NoTask, turnVars
  <1>2. CASE d.item.from \notin list /\ Await("command", d, {}, <<>>, FALSE)
    BY <1>2 DEF Await, Task, OnlyTurnIs, Started, turnVars
  <1>3. CASE d.item.from \notin list /\ Await("save", d, {}, <<>>, TRUE)
    BY <1>3 DEF Await, Task, OnlyTurnIs, Started, turnVars
  <1>4. CASE d.item.from \notin list /\ FinishDM(d, {})
    BY <1>4, FinishDMGoes
  <1> QED BY <1>1, <1>2, <1>3, <1>4 DEF Admit

\* A channel message never enters the stages of a direct one.
LEMMA FinishGroupGoes ==
    ASSUME NEW d, NEW saved, FinishGroup(d, saved)
    PROVE  /\ OnlyTurnIs(d.item)
           /\ task'.stage \in {"idle", "context", "crumb"}
           /\ task'.stage = "crumb" => task'.of = d
  BY DEF FinishGroup, OnlyTurnIs, Started, StartTurn, Await, Task, NoTask, turnVars

LEMMA GroupGateGoes ==
    ASSUME NEW d, GroupGate(d)
    PROVE  /\ OnlyTurnIs(d.item)
           /\ task'.stage \in {"idle", "context", "crumb", "fetch"}
           /\ task'.stage \in {"crumb", "fetch"} => task'.of = d
  <1>1. CASE Drop
    BY <1>1 DEF Drop, OnlyTurnIs, Started, NoTask, turnVars
  <1>2. CASE FinishGroup(d, {})
    BY <1>2, FinishGroupGoes
  <1>3. CASE \E todo : Await("fetch", d, {}, todo, TRUE)
    BY <1>3 DEF Await, Task, OnlyTurnIs, Started, turnVars
  <1> QED BY <1>1, <1>2, <1>3 DEF GroupGate

LEMMA AfterFetchGoes ==
    ASSUME NEW d, NEW saved, NEW todo, NEW asked, AfterFetch(d, saved, todo, asked)
    PROVE  /\ OnlyTurnIs(d.item)
           /\ task'.stage \in {"idle", "context", "crumb", "fetch"}
           /\ task'.stage \in {"crumb", "fetch"} => task'.of = d
  <1>1. CASE Await("fetch", d, saved, todo, asked)
    BY <1>1 DEF Await, Task, OnlyTurnIs, Started, turnVars
  <1>2. CASE FinishGroup(d, saved)
    BY <1>2, FinishGroupGoes
  <1>3. CASE Await("crumb", d, saved, <<>>, FALSE)
    BY <1>3 DEF Await, Task, OnlyTurnIs, Started, turnVars
  <1>4. CASE GroupGate(d)
    BY <1>4, GroupGateGoes
  <1> QED BY <1>1, <1>2, <1>3, <1>4 DEF AfterFetch

\* Whom the operator knows to be blocked is on the sidecar's list, and on the
\* adapter's once it has loaded that; a download under way is not theirs.
MuteInv ==
    /\ told \subseteq muted
    /\ full => told \subseteq blocked
    /\ task.stage = "save" /\ full => task.of.item.from \notin told
    /\ task.stage \in {"fetch", "crumb"} => task.of.item.kind = "group"

\* What MutedStaysOut says of one step.
MutedStep == \A t \in turns' :
    Started(t) /\ t.of.kind = "dm" /\ t.of.from \in told => ~full'

LEMMA MuteInit == Init => MuteInv
  BY DEF Init, MuteInv, NoTask

LEMMA MuteNext ==
    ASSUME MuteInv, [Next]_gateVars
    PROVE  MuteInv' /\ MutedStep
  <1> USE DEF MuteInv
  <1>1. CASE ReceiveDM
    <2> DEFINE d == Head(waiting)
    <2>1. UNCHANGED <<told, muted, blocked, full>>
      BY <1>1 DEF ReceiveDM, Take, blockVars
    <2>2. CASE Drop
      BY <2>1, <2>2 DEF Drop, NoTask, turnVars, MutedStep, Started
    <2>3. CASE Await("load", d, {}, <<>>, FALSE)
      BY <2>1, <2>3 DEF Await, Task, turnVars, MutedStep, Started
    <2>4. CASE Admit(d, blocked)
      BY <2>1, <2>4, AdmitGoes DEF MutedStep, OnlyTurnIs, Started
    <2> QED BY <1>1, <2>2, <2>3, <2>4 DEF ReceiveDM
  <1>2. CASE LoadBlocked
    <2>1. UNCHANGED <<told, muted>>
      BY <1>2 DEF LoadBlocked
    <2>2. CASE blocked' = muted /\ full' = TRUE /\ Admit(task.of, muted)
      BY <2>1, <2>2, AdmitGoes DEF MutedStep, OnlyTurnIs, Started
    <2>3. CASE UNCHANGED <<blocked, full>> /\ Admit(task.of, blocked)
      BY <2>1, <2>3, AdmitGoes DEF MutedStep, OnlyTurnIs, Started
    <2> QED BY <1>2, <2>2, <2>3 DEF LoadBlocked
  <1>3. CASE BlockUser
    BY <1>3 DEF BlockUser, Cache, Drop, NoTask, turnVars, MutedStep, Started
  <1>4. CASE ListBlocked
    BY <1>4 DEF ListBlocked, Drop, NoTask, turnVars, MutedStep, Started
  <1>5. CASE SaveDM
    <2>1. UNCHANGED blockVars /\ task.stage = "save"
      BY <1>5 DEF SaveDM
    <2>2. PICK saved : FinishDM(task.of, saved)
      BY <1>5 DEF SaveDM
    <2> QED BY <2>1, <2>2, FinishDMGoes
            DEF blockVars, MutedStep, OnlyTurnIs, Started
  <1>6. CASE QueueFile
    BY <1>6 DEF QueueFile, NoTask, blockVars, MutedStep, Started
  <1>7. CASE FileContext
    BY <1>7 DEF FileContext, Drop, NoTask, turnVars, blockVars, MutedStep, Started
  <1>8. CASE ReceiveGroup
    <2> DEFINE d == Head(waiting)
    <2>1. UNCHANGED blockVars /\ d.item.kind = "group"
      BY <1>8 DEF ReceiveGroup, Take
    <2>2. CASE Drop
      BY <2>1, <2>2 DEF Drop, NoTask, turnVars, blockVars, MutedStep, Started
    <2>3. CASE Await("fetch", d, {}, <<d.item.id>>, FALSE)
      BY <2>1, <2>3 DEF Await, Task, turnVars, blockVars, MutedStep, Started
    <2>4. CASE GroupGate(d)
      BY <2>1, <2>4, GroupGateGoes DEF blockVars, MutedStep, OnlyTurnIs, Started
    <2> QED BY <1>8, <2>2, <2>3, <2>4 DEF ReceiveGroup
  <1>9. CASE Fetch
    <2>1. UNCHANGED blockVars /\ task.of.item.kind = "group"
      BY <1>9 DEF Fetch
    <2>2. PICK saved, todo, asked : AfterFetch(task.of, saved, todo, asked)
      BY <1>9 DEF Fetch
    <2> QED BY <2>1, <2>2, AfterFetchGoes
            DEF blockVars, MutedStep, OnlyTurnIs, Started
  <1>10. CASE StoreCrumb
    <2>1. UNCHANGED blockVars /\ task.of.item.kind = "group"
      BY <1>10 DEF StoreCrumb
    <2>2. CASE Drop
      BY <2>1, <2>2 DEF Drop, NoTask, turnVars, blockVars, MutedStep, Started
    <2>3. CASE GroupGate(task.of)
      BY <2>1, <2>3, GroupGateGoes DEF blockVars, MutedStep, OnlyTurnIs, Started
    <2> QED BY <1>10, <2>2, <2>3 DEF StoreCrumb
  <1>11. CASE ReceiveDelete
    BY <1>11 DEF ReceiveDelete, turnVars, blockVars, MutedStep, Started
  <1>12. CASE (\E e \in Events : Send(e)) \/ Break \/ Reconnect
    BY <1>12 DEF Send, Break, Reconnect, turnVars, blockVars, MutedStep, Started
  <1>13. CASE ReplaceAdapter
    BY <1>13 DEF ReplaceAdapter, NoTask, MutedStep, Started
  <1>14. CASE UNCHANGED gateVars
    BY <1>14 DEF gateVars, turnVars, blockVars, MutedStep, Started
  <1> QED BY <1>1, <1>2, <1>3, <1>4, <1>5, <1>6, <1>7, <1>8, <1>9, <1>10, <1>11,
             <1>12, <1>13, <1>14 DEF Next, HandlerNext

\* A peer the operator has read to be blocked starts no turn at an adapter that
\* has the list, whatever was blocked, unblocked, lost or replaced on the way.
THEOREM MutedStayOut == Spec => MutedStaysOut
  <1>1. MuteInv /\ [Next]_gateVars => MuteInv'
    BY MuteNext
  <1>2. MuteInv /\ [Next]_gateVars => [MutedStep]_gateVars
    BY MuteNext
  <1>3. [MutedStep]_gateVars =>
          [\A t \in turns' : Started(t) /\ t.of.kind = "dm" /\ t.of.from \in told
                             => ~full']_gateVars
    BY DEF MutedStep
  <1> QED BY MuteInit, <1>1, <1>2, <1>3, PTL DEF Spec, MutedStaysOut

-------------------------------------------------------------------------------
(***************************************************************************)
(* Saved files                                                             *)
(***************************************************************************)

Held == IF Idle THEN {} ELSE task.saved
Attached == UNION {t.media : t \in turns}

\* A handler that has saved nothing yet holds nothing, and only an authorised
\* sender's file is being downloaded.
Entered ==
    /\ task.stage \in {"load", "command", "save"} => task.saved = {}
    /\ task.stage = "save" => Authorized(task.of.item)

KnownInv == Entered /\ files \subseteq named \union unnamed \union Attached
                                       \union Held

\* A step that takes these files on, to a turn or to the next await.
TakesOn(saved) ==
    /\ turns \subseteq turns'
    /\ saved \subseteq Attached' \union Held'
    /\ Entered'

LEMMA DropTakesOn == Drop => TakesOn({})
  BY DEF Drop, TakesOn, Entered, NoTask, turnVars

LEMMA AwaitTakesOn ==
    ASSUME NEW stage, NEW d, NEW saved, NEW todo, NEW asked,
           Await(stage, d, saved, todo, asked),
           stage # "idle",
           stage \in {"load", "command", "save"} => saved = {},
           stage = "save" => Authorized(d.item)
    PROVE  TakesOn(saved)
  <1>1. task'.saved = saved /\ task'.stage = stage /\ task'.of = d
    BY DEF Await, Task
  <1>2. Held' = saved
    BY <1>1 DEF Held, Idle, NoTask
  <1> QED BY <1>1, <1>2 DEF TakesOn, Entered, Await, turnVars, Authorized

\* A turn has the files that were saved for it.
LEMMA StartTurnTakesOn ==
    ASSUME NEW e, NEW saved, StartTurn(e, saved)
    PROVE  TakesOn(saved)
  <1> DEFINE t == [of |-> e, media |-> MediaOf(e, saved)]
  <1>1. turns' = turns \union {t} /\ task' = NoTask
    BY DEF StartTurn
  <1>2. saved = {} \/ MediaOf(e, saved) = saved
    BY DEF MediaOf
  <1>3. saved # {} => t \in turns' /\ t.media = saved
    BY <1>1, <1>2
  <1>4. saved \subseteq Attached'
    BY <1>3 DEF Attached
  <1> QED BY <1>1, <1>4 DEF TakesOn, Entered, NoTask

LEMMA FinishDMTakesOn ==
    ASSUME NEW d, NEW saved, FinishDM(d, saved),
           saved = {} \/ Authorized(d.item)
    PROVE  TakesOn(saved)
  <1>1. CASE Await("queue", d, saved, <<>>, TRUE)
    BY <1>1, AwaitTakesOn
  <1>2. CASE saved = {} /\ StartTurn(d.item, {})
    BY <1>2, StartTurnTakesOn
  <1>3. CASE Await("context", d, saved, <<>>, TRUE)
    BY <1>3, AwaitTakesOn
  <1>4. CASE StartTurn(d.item, saved)
    BY <1>4, StartTurnTakesOn
  <1> QED BY <1>1, <1>2, <1>3, <1>4 DEF FinishDM

LEMMA AdmitTakesOn ==
    ASSUME NEW d, NEW list, Admit(d, list)
    PROVE  TakesOn({})
  <1>1. CASE Drop
    BY <1>1, DropTakesOn
  <1>2. CASE Await("command", d, {}, <<>>, FALSE)
    BY <1>2, AwaitTakesOn
  <1>3. CASE Authorized(d.item) /\ Await("save", d, {}, <<>>, TRUE)
    BY <1>3, AwaitTakesOn
  <1>4. CASE FinishDM(d, {})
    BY <1>4, FinishDMTakesOn
  <1> QED BY <1>1, <1>2, <1>3, <1>4 DEF Admit

LEMMA FinishGroupTakesOn ==
    ASSUME NEW d, NEW saved, FinishGroup(d, saved)
    PROVE  TakesOn(saved)
  <1>1. CASE Await("crumb", d, saved, <<>>, TRUE)
    BY <1>1, AwaitTakesOn
  <1>2. CASE Await("context", d, saved, <<>>, TRUE)
    BY <1>2, AwaitTakesOn
  <1>3. CASE StartTurn(d.item, saved)
    BY <1>3, StartTurnTakesOn
  <1> QED BY <1>1, <1>2, <1>3 DEF FinishGroup

LEMMA GroupGateTakesOn ==
    ASSUME NEW d, GroupGate(d)
    PROVE  TakesOn({})
  <1>1. CASE Drop
    BY <1>1, DropTakesOn
  <1>2. CASE FinishGroup(d, {})
    BY <1>2, FinishGroupTakesOn
  <1>3. CASE \E todo : Await("fetch", d, {}, todo, TRUE)
    BY <1>3, AwaitTakesOn
  <1> QED BY <1>1, <1>2, <1>3 DEF GroupGate

LEMMA AfterFetchTakesOn ==
    ASSUME NEW d, NEW saved, NEW todo, NEW asked, AfterFetch(d, saved, todo, asked)
    PROVE  TakesOn(saved)
  <1>1. CASE Await("fetch", d, saved, todo, asked)
    BY <1>1, AwaitTakesOn
  <1>2. CASE FinishGroup(d, saved)
    BY <1>2, FinishGroupTakesOn
  <1>3. CASE Await("crumb", d, saved, <<>>, FALSE)
    BY <1>3, AwaitTakesOn
  <1>4. CASE saved = {} /\ GroupGate(d)
    BY <1>4, GroupGateTakesOn
  <1> QED BY <1>1, <1>2, <1>3, <1>4 DEF AfterFetch

\* A step keeps the invariant if it takes on what it saves and what it holds
\* without naming it.
LEMMA TakesOnSuffices ==
    ASSUME KnownInv, NEW saved, TakesOn(saved),
           files' \subseteq files \union saved,
           named \union unnamed \union Held
             \subseteq named' \union unnamed' \union saved
    PROVE  KnownInv'
  <1>1. Attached \subseteq Attached'
    BY DEF TakesOn, Attached
  <1> QED BY <1>1 DEF KnownInv, TakesOn

LEMMA KnownInit == Init => KnownInv
  BY DEF Init, KnownInv, Entered, NoTask

LEMMA KnownNext ==
    ASSUME KnownInv, [Next]_gateVars
    PROVE  KnownInv'
  <1>1. CASE ReceiveDM
    <2> DEFINE d == Head(waiting)
    <2>1. Held = {} /\ UNCHANGED <<files, named, unnamed>>
      BY <1>1 DEF ReceiveDM, Take, Held, crumbVars
    <2>2. TakesOn({})
      <3>1. CASE Await("load", d, {}, <<>>, FALSE)
        BY <3>1, AwaitTakesOn
      <3> QED BY <1>1, <3>1, DropTakesOn, AdmitTakesOn DEF ReceiveDM
    <2> QED BY <2>1, <2>2, TakesOnSuffices
  <1>2. CASE LoadBlocked
    <2>1. Held = {} /\ UNCHANGED <<files, named, unnamed>>
      BY <1>2 DEF LoadBlocked, KnownInv, Entered, Held, diskVars, crumbVars
    <2>2. TakesOn({})
      BY <1>2, AdmitTakesOn DEF LoadBlocked
    <2> QED BY <2>1, <2>2, TakesOnSuffices
  <1>3. CASE BlockUser \/ ListBlocked
    <2>1. Held = {} /\ UNCHANGED <<files, named, unnamed>>
      BY <1>3 DEF BlockUser, ListBlocked, KnownInv, Entered, Held, diskVars,
                  crumbVars
    <2>2. TakesOn({})
      BY <1>3, DropTakesOn DEF BlockUser, ListBlocked
    <2> QED BY <2>1, <2>2, TakesOnSuffices
  <1>4. CASE SaveDM
    <2>1. Held = {} /\ UNCHANGED <<named, unnamed>> /\ Authorized(task.of.item)
      BY <1>4 DEF SaveDM, KnownInv, Entered, Held, crumbVars
    <2>2. PICK saved : /\ Download(task.of.item.id, saved)
                       /\ FinishDM(task.of, saved)
      BY <1>4 DEF SaveDM
    <2>4. files' \subseteq files \union saved
      BY <2>2 DEF Download
    <2>3. TakesOn(saved)
      BY <2>1, <2>2, FinishDMTakesOn
    <2> QED BY <2>1, <2>3, <2>4, TakesOnSuffices
  <1>5. CASE QueueFile \/ FileContext
    <2>1. TakesOn({})
      BY <1>5, DropTakesOn
         DEF QueueFile, FileContext, TakesOn, Entered, NoTask
    <2>2. files' = files /\ Breadcrumb /\ Held = task.saved
      BY <1>5 DEF QueueFile, FileContext, diskVars, Held, Idle, NoTask
    <2> QED BY <2>1, <2>2, TakesOnSuffices DEF Breadcrumb
  <1>6. CASE ReceiveGroup
    <2> DEFINE d == Head(waiting)
    <2>1. Held = {} /\ UNCHANGED <<files, named, unnamed>>
      BY <1>6 DEF ReceiveGroup, Take, Held, crumbVars
    <2>2. TakesOn({})
      <3>1. CASE Await("fetch", d, {}, <<d.item.id>>, FALSE)
        BY <3>1, AwaitTakesOn
      <3> QED BY <1>6, <3>1, DropTakesOn, GroupGateTakesOn DEF ReceiveGroup
    <2> QED BY <2>1, <2>2, TakesOnSuffices
  <1>7. CASE Fetch
    <2>1. Held = task.saved /\ UNCHANGED <<named, unnamed>>
      BY <1>7 DEF Fetch, crumbVars, Held, Idle, NoTask
    <2>2. PICK saved, todo, asked :
            /\ AfterFetch(task.of, task.saved \union saved, todo, asked)
            /\ files' \subseteq files \union saved
      <3> DEFINE id == Head(task.todo)
      <3>1. CASE /\ files' = files
                 /\ \/ AfterFetch(task.of, task.saved \union {id},
                                  Tail(task.todo), task.asked)
                    \/ AfterFetch(task.of, task.saved, Tail(task.todo), task.asked)
        <4>1. task.saved \union {} = task.saved
          OBVIOUS
        <4> QED BY <3>1, <4>1
      <3>2. ASSUME NEW saved, Download(id, saved),
                   AfterFetch(task.of, task.saved \union saved,
                              Tail(task.todo), task.asked)
            PROVE  \E got, todo, asked :
                     /\ AfterFetch(task.of, task.saved \union got, todo, asked)
                     /\ files' \subseteq files \union got
        <4>1. files' \subseteq files \union saved
          BY <3>2 DEF Download
        <4> QED BY <3>2, <4>1
      <3> QED BY <1>7, <3>1, <3>2 DEF Fetch
    <2>3. TakesOn(task.saved \union saved)
      BY <2>2, AfterFetchTakesOn
    <2> QED BY <2>1, <2>2, <2>3, TakesOnSuffices
  <1>8. CASE StoreCrumb
    <2>1. TakesOn({})
      BY <1>8, DropTakesOn, GroupGateTakesOn DEF StoreCrumb
    <2>2. files' = files /\ Breadcrumb /\ Held = task.saved
      BY <1>8 DEF StoreCrumb, diskVars, Held, Idle, NoTask
    <2> QED BY <2>1, <2>2, TakesOnSuffices DEF Breadcrumb
  <1>9. CASE ReceiveDelete \/ (\E e \in Events : Send(e)) \/ Break \/ Reconnect
    BY <1>9 DEF ReceiveDelete, Send, Break, Reconnect, diskVars, crumbVars,
                turnVars, KnownInv, Entered, Authorized, Held, Idle, Attached
  <1>10. CASE ReplaceAdapter
    <2>1. TakesOn({})
      BY <1>10 DEF ReplaceAdapter, TakesOn, Entered, NoTask
    <2>2. files' = files /\ named' = named /\ unnamed' = unnamed \union Held
      BY <1>10 DEF ReplaceAdapter, diskVars, Held
    <2> QED BY <2>1, <2>2, TakesOnSuffices
  <1>11. CASE UNCHANGED gateVars
    BY <1>11 DEF gateVars, diskVars, crumbVars, turnVars, KnownInv, Entered,
                 Authorized, Held, Idle, Attached
  <1> QED BY <1>1, <1>2, <1>3, <1>4, <1>5, <1>6, <1>7, <1>8, <1>9, <1>10, <1>11
          DEF Next, HandlerNext

\* No branch of the two handlers, no cancellation and no replay loses sight of a
\* file the adapter was told of; one it was not told of is only a lost answer's.
THEOREM SavedAreKnown == Spec => []SavedIsKnown
  <1>1. KnownInv => SavedIsKnown
    BY DEF KnownInv, SavedIsKnown, Held, Attached
  <1>2. KnownInv /\ [Next]_gateVars => KnownInv'
    BY KnownNext
  <1> QED BY KnownInit, <1>1, <1>2, PTL DEF Spec
-------------------------------------------------------------------------------
(***************************************************************************)
(* Each message once                                                       *)
(***************************************************************************)

\* The events the adapter has yet to receive, on the stream or behind it.
Line == IF up THEN [k \in DOMAIN waiting |-> waiting[k].item] ELSE gap
InLine(e) == \E k \in DOMAIN Line : Line[k] = e

\* The line holds each event once, and a delete behind its message.
LineInv ==
    /\ sent \subseteq Events
    /\ waiting \in Seq(Deliveries) /\ gap \in Seq(Events)
    /\ \A e \in sent : e.re = 0 \/ \E f \in sent : f.id = e.re
    /\ \A k \in DOMAIN Line : Line[k] \in sent
    /\ \A j, k \in DOMAIN Line : Line[j] = Line[k] => j = k
    /\ \A j, k \in DOMAIN Line :
          Line[k].kind = "delete" /\ Line[k].re = Line[j].id => j < k

\* The message i was received and its handler has ended, or it never will be.
Past(i) ==
    \E e \in sent : e.id = i /\ ~InLine(e) /\ (Idle \/ task.of.item # e)

DMStages == {"load", "command", "save", "queue"}
GroupStages == {"fetch", "crumb"}

\* A handler is about a message that has left the line; that of a direct message
\* holds its file at most.
TaskInv ==
    \/ Idle
    \/ /\ task.of \in Deliveries
       /\ task.of.item \in sent /\ ~InLine(task.of.item)
       /\ task.stage \in DMStages => task.of.item.kind = "dm"
       /\ task.stage \in GroupStages => task.of.item.kind = "group"
       /\ task.stage = "save" => task.of.item.file
       /\ task.of.item.kind = "dm" => task.saved \subseteq {task.of.item.id}

\* A file that waits for a text, or that a turn has, is that of a message that is
\* past; it waits for one peer, and no longer when a turn has it.
InboxInv ==
    /\ inbox \in [Peers -> SUBSET Nat] /\ queued \in [Peers -> SUBSET Nat]
    /\ \A p \in Peers : queued[p] \subseteq inbox[p]
    /\ \A p \in Peers : \A i \in inbox[p] : Past(i)
    /\ \A p, q \in Peers : \A i \in inbox[p] : i \in inbox[q] => p = q
    /\ \A t \in turns : t.of.kind = "dm" =>
          \A i \in t.media : Past(i) /\ \A p \in Peers : i \notin inbox[p]

\* What a delete removed is past, and is held nowhere a channel turn takes it from.
GoneInv ==
    /\ \A i \in gone : i = 0 \/ Past(i)
    /\ \A i \in gone : i \notin pointer
    /\ \A x \in stash : \E f \in sent : x = <<f.chat, f.id>> /\ f.id \notin gone
    /\ ~Idle /\ task.of.item.kind = "group" => task.saved \intersect gone = {}

GateInv == LineInv /\ TaskInv /\ InboxInv /\ AttachedOnce /\ GoneInv

\* A handler step is about the next delivery of the line, or the one it is at.
Moves(d) ==
    \/ /\ Idle /\ up /\ waiting # <<>>
       /\ d = Head(waiting) /\ waiting' = Tail(waiting)
       /\ UNCHANGED <<up, gap, sent>>
    \/ ~Idle /\ d = task.of /\ UNCHANGED streamVars

\* It ends, or goes on with what it holds, and starts one turn for d at most.
GoesOn(d, saved) ==
    /\ \/ task' = NoTask
       \/ /\ task' # NoTask /\ task'.of = d /\ task'.saved \subseteq saved
          /\ task'.stage \in DMStages => d.item.kind = "dm"
          /\ task'.stage \in GroupStages => d.item.kind = "group"
          /\ task'.stage = "save" => d.item.file
    /\ \/ UNCHANGED turnVars
       \/ \E s \in {{}, saved} : StartTurn(d.item, s) /\ task' = NoTask

LEMMA DropGoesOn == ASSUME NEW d, NEW saved, Drop PROVE GoesOn(d, saved)
  BY DEF Drop, GoesOn

LEMMA AwaitGoesOn ==
    ASSUME NEW d, NEW stage, NEW held, NEW saved, NEW todo, NEW asked,
           Await(stage, d, held, todo, asked), held \subseteq saved,
           stage \in Stages,
           stage \in DMStages => d.item.kind = "dm",
           stage \in GroupStages => d.item.kind = "group",
           stage = "save" => d.item.file
    PROVE  GoesOn(d, saved)
  BY DEF Await, Task, GoesOn, NoTask, Stages

LEMMA FinishDMGoesOn ==
    ASSUME NEW d, NEW saved, d.item.kind = "dm", FinishDM(d, saved)
    PROVE  GoesOn(d, saved)
  <1>1. CASE Await("queue", d, saved, <<>>, TRUE)
    BY <1>1, AwaitGoesOn DEF Stages, GroupStages
  <1>2. CASE Await("context", d, saved, <<>>, TRUE)
    BY <1>2, AwaitGoesOn DEF Stages, DMStages, GroupStages
  <1>3. ASSUME NEW s \in {{}, saved}, StartTurn(d.item, s) PROVE GoesOn(d, saved)
    BY <1>3 DEF StartTurn, GoesOn
  <1> QED BY <1>1, <1>2, <1>3 DEF FinishDM

LEMMA AdmitGoesOn ==
    ASSUME NEW d, NEW list, d.item.kind = "dm", Admit(d, list)
    PROVE  GoesOn(d, {})
  <1>1. CASE Drop
    BY <1>1, DropGoesOn
  <1>2. CASE Await("command", d, {}, <<>>, FALSE)
    BY <1>2, AwaitGoesOn DEF Stages, GroupStages
  <1>3. CASE d.item.file /\ Await("save", d, {}, <<>>, TRUE)
    BY <1>3, AwaitGoesOn DEF Stages, GroupStages
  <1>4. CASE FinishDM(d, {})
    BY <1>4, FinishDMGoesOn
  <1> QED BY <1>1, <1>2, <1>3, <1>4 DEF Admit

LEMMA FinishGroupGoesOn ==
    ASSUME NEW d, NEW saved, d.item.kind = "group", FinishGroup(d, saved)
    PROVE  GoesOn(d, saved)
  <1>1. CASE Await("crumb", d, saved, <<>>, TRUE)
    BY <1>1, AwaitGoesOn DEF Stages, DMStages
  <1>2. CASE Await("context", d, saved, <<>>, TRUE)
    BY <1>2, AwaitGoesOn DEF Stages, DMStages, GroupStages
  <1>3. CASE StartTurn(d.item, saved)
    BY <1>3 DEF StartTurn, GoesOn
  <1> QED BY <1>1, <1>2, <1>3 DEF FinishGroup

LEMMA GroupGateGoesOn ==
    ASSUME NEW d, d.item.kind = "group", GroupGate(d)
    PROVE  GoesOn(d, {})
  <1>1. CASE Drop
    BY <1>1, DropGoesOn
  <1>2. CASE FinishGroup(d, {})
    BY <1>2, FinishGroupGoesOn
  <1>3. ASSUME NEW todo, Await("fetch", d, {}, todo, TRUE) PROVE GoesOn(d, {})
    BY <1>3, AwaitGoesOn DEF Stages, DMStages
  <1> QED BY <1>1, <1>2, <1>3 DEF GroupGate

LEMMA AfterFetchGoesOn ==
    ASSUME NEW d, NEW saved, NEW todo, NEW asked, d.item.kind = "group",
           AfterFetch(d, saved, todo, asked)
    PROVE  GoesOn(d, saved)
  <1>1. CASE Await("fetch", d, saved, todo, asked)
    BY <1>1, AwaitGoesOn DEF Stages, DMStages
  <1>2. CASE FinishGroup(d, saved)
    BY <1>2, FinishGroupGoesOn
  <1>3. CASE Await("crumb", d, saved, <<>>, FALSE)
    BY <1>3, AwaitGoesOn DEF Stages, DMStages
  <1>4. CASE saved = {} /\ GroupGate(d)
    BY <1>4, GroupGateGoesOn
  <1> QED BY <1>1, <1>2, <1>3, <1>4 DEF AfterFetch

\* What a handler may hold: the one file of a direct message; of a channel only
\* files that are not deleted.
MayHold(d, saved) ==
    /\ d.item.kind = "dm" => saved = {} \/ (d.item.file /\ saved = {d.item.id})
    /\ d.item.kind = "group" => saved \intersect gone = {}

\* Every handler step that is neither a delete nor the queue of files.
LEMMA HandlersGoOn ==
    ASSUME TaskInv, GoneInv, HandlerNext
    PROVE  \/ ReceiveDelete \/ QueueFile
           \/ \E d, saved : Moves(d) /\ MayHold(d, saved) /\ GoesOn(d, saved)
  <1> USE DEF DMStages, GroupStages
  <1>0. \A d : MayHold(d, {})
    BY DEF MayHold
  <1>1. CASE ReceiveDM
    <2> DEFINE d == Head(waiting)
    <2>1. Moves(d) /\ d.item.kind = "dm"
      BY <1>1 DEF ReceiveDM, Take, Moves
    <2>2. GoesOn(d, {})
      <3>1. CASE Drop
        BY <3>1, DropGoesOn
      <3>2. CASE Await("load", d, {}, <<>>, FALSE)
        BY <2>1, <3>2, AwaitGoesOn DEF Stages
      <3>3. CASE Admit(d, blocked)
        BY <2>1, <3>3, AdmitGoesOn
      <3> QED BY <1>1, <3>1, <3>2, <3>3 DEF ReceiveDM
    <2> QED BY <1>0, <2>1, <2>2
  <1>2. CASE LoadBlocked \/ BlockUser \/ ListBlocked
    <2>1. Moves(task.of) /\ task.of.item.kind = "dm"
      BY <1>2 DEF LoadBlocked, BlockUser, ListBlocked, Moves, Idle, NoTask, TaskInv
    <2>2. GoesOn(task.of, {})
      BY <1>2, <2>1, AdmitGoesOn, DropGoesOn
         DEF LoadBlocked, BlockUser, ListBlocked
    <2> QED BY <1>0, <2>1, <2>2
  <1>3. CASE SaveDM
    <2>1. /\ Moves(task.of)
          /\ task.of.item.kind = "dm" /\ task.of.item.file
      BY <1>3 DEF SaveDM, Moves, Idle, NoTask, TaskInv
    <2>2. PICK saved \in {{}, {task.of.item.id}} : FinishDM(task.of, saved)
      BY <1>3 DEF SaveDM
    <2>3. MayHold(task.of, saved)
      BY <2>1 DEF MayHold
    <2> QED BY <2>1, <2>2, <2>3, FinishDMGoesOn
  <1>4. CASE FileContext
    <2>1. Moves(task.of) /\ GoesOn(task.of, {})
      BY <1>4, DropGoesOn DEF FileContext, Moves, Idle, NoTask
    <2> QED BY <1>0, <2>1
  <1>5. CASE ReceiveGroup
    <2> DEFINE d == Head(waiting)
    <2>1. Moves(d) /\ d.item.kind = "group"
      BY <1>5 DEF ReceiveGroup, Take, Moves
    <2>2. GoesOn(d, {})
      <3>1. CASE Drop
        BY <3>1, DropGoesOn
      <3>2. CASE Await("fetch", d, {}, <<d.item.id>>, FALSE)
        BY <2>1, <3>2, AwaitGoesOn DEF Stages
      <3>3. CASE GroupGate(d)
        BY <2>1, <3>3, GroupGateGoesOn
      <3> QED BY <1>5, <3>1, <3>2, <3>3 DEF ReceiveGroup
    <2> QED BY <1>0, <2>1, <2>2
  <1>6. CASE Fetch
    <2> DEFINE id == Head(task.todo)
    <2>1. Moves(task.of) /\ task.of.item.kind = "group" /\ ~Idle
      BY <1>6 DEF Fetch, Moves, Idle, NoTask, TaskInv
    <2>2. PICK saved \in {{}, {id}} :
             /\ \E todo, asked :
                   AfterFetch(task.of, task.saved \union saved, todo, asked)
             /\ saved # {} => id \in pointer \/ <<task.of.item.chat, id>> \in stash
      <3>1. CASE id \in pointer
        <4>1. AfterFetch(task.of, task.saved \union {id}, Tail(task.todo), task.asked)
          BY <1>6, <3>1 DEF Fetch
        <4> QED BY <3>1, <4>1
      <3>2. CASE id \notin pointer /\ <<task.of.item.chat, id>> \in stash
        <4>1. \E saved \in {{}, {id}} :
                 AfterFetch(task.of, task.saved \union saved, Tail(task.todo), task.asked)
          BY <1>6, <3>2 DEF Fetch
        <4> QED BY <3>2, <4>1
      <3>3. CASE id \notin pointer /\ <<task.of.item.chat, id>> \notin stash
        <4>1. AfterFetch(task.of, task.saved, Tail(task.todo), task.asked)
          BY <1>6, <3>3 DEF Fetch
        <4>2. task.saved \union {} = task.saved
          OBVIOUS
        <4> QED BY <4>1, <4>2
      <3> QED BY <3>1, <3>2, <3>3
    <2>3. saved # {} => id \notin gone
      BY <2>2 DEF GoneInv
    <2>4. MayHold(task.of, task.saved \union saved)
      BY <2>1, <2>3 DEF MayHold, GoneInv
    <2>5. GoesOn(task.of, task.saved \union saved)
      BY <2>1, <2>2, AfterFetchGoesOn
    <2> QED BY <2>1, <2>4, <2>5
  <1>7. CASE StoreCrumb
    <2>1. Moves(task.of) /\ task.of.item.kind = "group"
      BY <1>7 DEF StoreCrumb, Moves, Idle, NoTask, TaskInv
    <2>2. GoesOn(task.of, {})
      BY <1>7, <2>1, DropGoesOn, GroupGateGoesOn DEF StoreCrumb
    <2> QED BY <1>0, <2>1, <2>2
  <1> QED BY <1>1, <1>2, <1>3, <1>4, <1>5, <1>6, <1>7 DEF HandlerNext

-------------------------------------------------------------------------------
(***************************************************************************)
(* The line                                                                *)
(***************************************************************************)

\* A line that is a part of another from some position on is in order as well.
LEMMA LineSuffix ==
    ASSUME LineInv, sent' = sent, NEW n \in Nat,
           waiting' \in Seq(Deliveries), gap' \in Seq(Events),
           \A k \in DOMAIN Line' : k + n \in DOMAIN Line /\ Line'[k] = Line[k + n],
           DOMAIN Line' \subseteq Nat
    PROVE  LineInv' /\ \A e : InLine(e)' => InLine(e)
  <1>1. \A k \in DOMAIN Line' : Line'[k] \in sent'
    BY DEF LineInv
  <1>2. \A j, k \in DOMAIN Line' : Line'[j] = Line'[k] => j = k
    BY DEF LineInv
  <1>3. \A j, k \in DOMAIN Line' :
           Line'[k].kind = "delete" /\ Line'[k].re = Line'[j].id => j < k
    BY DEF LineInv
  <1> QED BY <1>1, <1>2, <1>3 DEF LineInv, InLine

\* The next delivery leaves the line.
LEMMA TakeFromLine ==
    ASSUME LineInv, NEW d, up, waiting # <<>>, d = Head(waiting),
           waiting' = Tail(waiting), UNCHANGED <<up, gap, sent>>
    PROVE  /\ LineInv' /\ \A e : InLine(e)' => InLine(e)
           /\ d \in Deliveries /\ d.item \in sent
           /\ InLine(d.item) /\ ~InLine(d.item)'
           /\ d.item.kind = "delete"
                => \A e : InLine(e)' => e.id # d.item.re
  <1>1. /\ waiting \in Seq(Deliveries) /\ Len(waiting) \in Nat \ {0}
        /\ d = waiting[1] /\ waiting' \in Seq(Deliveries)
        /\ Len(waiting') = Len(waiting) - 1
        /\ \A k \in 1..Len(waiting') : waiting'[k] = waiting[k + 1]
    BY DEF LineInv
  <1>2. DOMAIN Line = 1..Len(waiting) /\ DOMAIN Line' = 1..Len(waiting')
    BY <1>1 DEF Line
  <1>3. Line[1] = d.item /\ 1 \in DOMAIN Line
    BY <1>1, <1>2 DEF Line
  <1>4. \A k \in DOMAIN Line' : k + 1 \in DOMAIN Line /\ Line'[k] = Line[k + 1]
    BY <1>1, <1>2 DEF Line
  <1>5. LineInv' /\ \A e : InLine(e)' => InLine(e)
    <2>1. gap' \in Seq(Events) /\ DOMAIN Line' \subseteq Nat
      BY <1>2 DEF LineInv
    <2> QED BY <1>1, <1>4, <2>1, LineSuffix
  <1>6. \A k \in DOMAIN Line' : k + 1 # 1 /\ ~(k + 1 < 1)
    BY <1>1, <1>2
  <1>7. ~InLine(d.item)'
    BY <1>3, <1>4, <1>6 DEF LineInv, InLine
  <1>8. d.item.kind = "delete" => \A e : InLine(e)' => e.id # d.item.re
    BY <1>3, <1>4, <1>6 DEF LineInv, InLine
  <1>9. d \in Deliveries /\ d.item \in sent /\ InLine(d.item)
    BY <1>1, <1>3 DEF LineInv, InLine
  <1> QED BY <1>5, <1>7, <1>8, <1>9

\* A handler step leaves the order of the line; its message is not in it.
LEMMA LineMoves ==
    ASSUME LineInv, TaskInv, NEW d, Moves(d)
    PROVE  /\ LineInv' /\ sent' = sent /\ \A e : InLine(e)' => InLine(e)
           /\ d \in Deliveries /\ d.item \in sent /\ ~InLine(d.item)'
           /\ ~Past(d.item.id)
  <1>0. \A e \in sent : e.id = d.item.id /\ d.item \in sent => e = d.item
    BY GateAssumption DEF LineInv
  <1>1. CASE Idle
    <2>1. /\ up /\ waiting # <<>> /\ d = Head(waiting)
          /\ waiting' = Tail(waiting) /\ UNCHANGED <<up, gap, sent>>
      BY <1>1 DEF Moves
    <2>2. /\ LineInv' /\ \A e : InLine(e)' => InLine(e)
          /\ d \in Deliveries /\ d.item \in sent
          /\ InLine(d.item) /\ ~InLine(d.item)'
      BY <2>1, TakeFromLine
    <2>3. ~Past(d.item.id)
      BY <1>0, <2>2 DEF Past
    <2> QED BY <1>1, <2>1, <2>2, <2>3
  <1>2. CASE ~Idle
    <2>1. d = task.of /\ UNCHANGED streamVars
      BY <1>2 DEF Moves
    <2>2. Line' = Line
      BY <2>1 DEF Line, streamVars
    <2>3. LineInv' /\ sent' = sent /\ \A e : InLine(e)' <=> InLine(e)
      BY <2>1, <2>2 DEF LineInv, InLine, streamVars
    <2>4. d \in Deliveries /\ d.item \in sent /\ ~InLine(d.item)
      BY <1>2, <2>1 DEF TaskInv
    <2>5. ~Past(d.item.id)
      BY <1>0, <1>2, <2>1, <2>4 DEF Past
    <2> QED BY <1>2, <2>1, <2>3, <2>4, <2>5
  <1> QED BY <1>1, <1>2

\* Sending, breaking, reconnecting and replacing keep the line in order, and bring
\* nothing sent before into it.
LEMMA LineOthers ==
    ASSUME LineInv,
           (\E e \in Events : Send(e)) \/ Break \/ Reconnect \/ ReplaceAdapter
    PROVE  /\ LineInv' /\ sent \subseteq sent'
           /\ \A e \in sent : InLine(e)' => InLine(e)
  <1>1. ASSUME NEW e \in Events, Send(e)
        PROVE  /\ LineInv' /\ sent \subseteq sent'
               /\ \A f \in sent : InLine(f)' => InLine(f)
    <2> DEFINE n == Len(Line)
    <2>1. /\ sent' = sent \union {e} /\ e \notin sent /\ sent \subseteq Events
          /\ e.re = 0 \/ \E f \in sent : f.id = e.re
          /\ up' = up
      BY <1>1 DEF Send, LineInv
    <2>2. waiting' \in Seq(Deliveries) /\ gap' \in Seq(Events)
      <3>1. /\ waiting' = waiting \/ waiting' = Append(waiting, Live(e))
            /\ gap' = gap \/ gap' = Append(gap, e)
        BY <1>1 DEF Send
      <3>2. Live(e) \in Deliveries
        BY DEF Live, Deliveries
      <3>3. /\ Append(waiting, Live(e)) \in Seq(Deliveries)
            /\ Append(gap, e) \in Seq(Events)
        BY <3>2, AppendProperties DEF LineInv
      <3> QED BY <3>1, <3>3 DEF LineInv
    <2>3. /\ n \in Nat /\ DOMAIN Line = 1..n /\ DOMAIN Line' = 1..(n + 1)
          /\ \A k \in 1..n : Line'[k] = Line[k]
          /\ Line'[n + 1] = e
      <3>1. CASE up
        <4>1. waiting' = Append(waiting, Live(e)) /\ Len(waiting) \in Nat
          BY <1>1, <3>1 DEF Send, LineInv
        <4>2. DOMAIN Line = 1..Len(waiting) /\ n = Len(waiting)
          BY <3>1, <4>1 DEF Line, LineInv
        <4> QED BY <2>1, <3>1, <4>1, <4>2 DEF Line, Live, LineInv
      <3>2. CASE ~up
        <4>1. gap' = Append(gap, e) /\ Line = gap /\ Line' = gap'
          BY <1>1, <2>1, <3>2 DEF Send, Line
        <4> QED BY <4>1 DEF LineInv
      <3> QED BY <3>1, <3>2
    <2>4. \A k \in 1..n : Line[k] \in sent /\ Line[k] # e
      BY <2>1, <2>3 DEF LineInv
    <2>5. \A k \in DOMAIN Line' : Line'[k] \in sent'
      BY <2>1, <2>3, <2>4
    <2>6. \A j, k \in DOMAIN Line' : Line'[j] = Line'[k] => j = k
      <3>1. \A j, k \in 1..n : Line[j] = Line[k] => j = k
        BY <2>3 DEF LineInv
      <3>2. \A k \in DOMAIN Line' : k \in 1..n \/ k = n + 1
        BY <2>3
      <3> QED BY <2>3, <2>4, <3>1, <3>2
    <2>7. \A j, k \in DOMAIN Line' :
             Line'[k].kind = "delete" /\ Line'[k].re = Line'[j].id => j < k
      <3>1. \A j, k \in 1..n :
               Line[k].kind = "delete" /\ Line[k].re = Line[j].id => j < k
        BY <2>3 DEF LineInv
      <3>2. \A f \in sent : f.id # e.id /\ f.re # e.id
        BY <2>1, GateAssumption DEF LineInv, Event
      <3>3. e.re # e.id
        BY <2>1, <3>2, GateAssumption DEF Event
      <3>4. \A k \in DOMAIN Line' : k \in 1..n \/ k = n + 1
        BY <2>3
      <3>5. ASSUME NEW j \in DOMAIN Line', NEW k \in DOMAIN Line',
                   Line'[k].kind = "delete", Line'[k].re = Line'[j].id
            PROVE  j < k
        <4>1. CASE k = n + 1
          <5>1. j # n + 1
            BY <2>3, <3>3, <3>5, <4>1
          <5> QED BY <2>3, <3>4, <4>1, <5>1
        <4>2. CASE k \in 1..n /\ j = n + 1
          BY <2>3, <2>4, <3>2, <3>5, <4>2
        <4>3. CASE k \in 1..n /\ j \in 1..n
          BY <2>3, <3>1, <3>5, <4>3
        <4> QED BY <3>4, <4>1, <4>2, <4>3
      <3> QED BY <3>5
    <2>8. \A f \in sent' : f.re = 0 \/ \E g \in sent' : g.id = f.re
      BY <2>1 DEF LineInv
    <2>9. \A f \in sent : InLine(f)' => InLine(f)
      <3>1. \A k \in DOMAIN Line' : k \in 1..n \/ k = n + 1
        BY <2>3
      <3> QED BY <2>1, <2>3, <3>1 DEF InLine
    <2>10. LineInv'
      <3>1. sent' \subseteq Events
        BY <2>1
      <3> QED BY <2>2, <2>5, <2>6, <2>7, <2>8, <3>1 DEF LineInv
    <2> QED BY <2>1, <2>9, <2>10
  <1>2. ASSUME sent' = sent, waiting' \in Seq(Deliveries), gap' \in Seq(Events),
               Line' = Line \/ Line' = <<>>
        PROVE  LineInv' /\ \A e : InLine(e)' => InLine(e)
    <2>1. CASE Line' = Line
      BY <1>2, <2>1 DEF LineInv, InLine
    <2>2. CASE Line' = <<>>
      <3>1. DOMAIN Line' = {}
        BY <2>2
      <3> QED BY <1>2, <3>1 DEF LineInv, InLine
    <2> QED BY <1>2, <2>1, <2>2
  <1>3. CASE Break
    <2>1. /\ sent' = sent /\ waiting' = <<>> /\ up /\ ~up'
          /\ gap' = [k \in DOMAIN waiting |-> waiting[k].item]
      BY <1>3 DEF Break
    <2>2. Line' = Line
      BY <2>1 DEF Line
    <2>3. gap' \in Seq(Events)
      <3>1. \A k \in 1..Len(waiting) : waiting[k].item \in Events
        <4>1. \A k \in 1..Len(waiting) : waiting[k] \in Deliveries
          BY DEF LineInv
        <4> QED BY <4>1 DEF Deliveries
      <3>2. /\ DOMAIN waiting = 1..Len(waiting) /\ Len(waiting) \in Nat
        BY DEF LineInv
      <3> QED BY <2>1, <3>1, <3>2, IsASeq
    <2> QED BY <1>2, <2>1, <2>2, <2>3
  <1>4. CASE Reconnect
    <2> DEFINE batch == [k \in DOMAIN gap |->
                           Replayed(gap[k], Superseded(gap, DOMAIN gap, k))]
    <2>1. /\ sent' = sent /\ gap' = <<>> /\ ~up /\ up' = TRUE
          /\ waiting' \in {<<>>, batch}
      BY <1>4 DEF Reconnect
    <2>2. batch \in Seq(Deliveries)
      <3>1. DOMAIN gap = 1..Len(gap) /\ Len(gap) \in Nat
        BY DEF LineInv
      <3>2. \A k \in 1..Len(gap) :
               Replayed(gap[k], Superseded(gap, DOMAIN gap, k)) \in Deliveries
        <4>1. \A k \in 1..Len(gap) : gap[k] \in Events
          BY DEF LineInv
        <4> QED BY <4>1 DEF Replayed, Superseded, Deliveries
      <3> QED BY <3>1, <3>2, IsASeq
    <2>3. Line' = Line \/ Line' = <<>>
      <3>1. CASE waiting' = <<>>
        BY <2>1, <3>1 DEF Line
      <3>2. CASE waiting' = batch
        <4>1. /\ Line' = [k \in DOMAIN gap |-> batch[k].item] /\ Line = gap
          BY <2>1, <3>2 DEF Line
        <4>2. \A k \in DOMAIN gap : batch[k].item = gap[k]
          BY DEF Replayed
        <4>3. gap = [k \in DOMAIN gap |-> gap[k]]
          BY DEF LineInv
        <4> QED BY <4>1, <4>2, <4>3
      <3> HIDE DEF batch
      <3> QED BY <2>1, <3>1, <3>2
    <2>4. waiting' \in Seq(Deliveries) /\ gap' \in Seq(Events)
      <3> HIDE DEF batch
      <3> QED BY <2>1, <2>2, EmptySeq
    <2> QED BY <1>2, <2>1, <2>3, <2>4
  <1>5. CASE ReplaceAdapter
    <2>1. /\ sent' = sent /\ waiting' = <<>> /\ gap' = <<>> /\ up' = TRUE
          /\ Line' = <<>>
      BY <1>5 DEF ReplaceAdapter, Line
    <2> QED BY <1>2, <2>1
  <1> QED BY <1>1, <1>3, <1>4, <1>5

\* What any step does to the line and to the message a handler is about.
LEMMA StepOfLine ==
    ASSUME LineInv, TaskInv, GoneInv, [Next]_gateVars
    PROVE  /\ LineInv' /\ sent \subseteq sent'
           /\ \A e \in sent : InLine(e)' => InLine(e)
           /\ \/ task' = NoTask \/ task' = task
              \/ \E d, saved : Moves(d) /\ MayHold(d, saved) /\ GoesOn(d, saved)
  <1>1. CASE ReceiveDelete
    <2>1. /\ up /\ waiting # <<>> /\ waiting' = Tail(waiting)
          /\ UNCHANGED <<up, gap, sent, task>>
      BY <1>1 DEF ReceiveDelete
    <2> QED BY <2>1, TakeFromLine
  <1>2. CASE QueueFile \/ UNCHANGED gateVars
    <2>1. UNCHANGED streamVars /\ (task' = NoTask \/ task' = task)
      BY <1>2 DEF QueueFile, gateVars
    <2>2. Line' = Line
      BY <2>1 DEF Line, streamVars
    <2> QED BY <2>1, <2>2 DEF LineInv, InLine, streamVars
  <1>3. CASE \E d, saved : Moves(d) /\ MayHold(d, saved) /\ GoesOn(d, saved)
    BY <1>3, LineMoves
  <1>4. CASE (\E e \in Events : Send(e)) \/ Break \/ Reconnect \/ ReplaceAdapter
    <2>1. task' = NoTask \/ task' = task
      BY <1>4 DEF Send, Break, Reconnect, ReplaceAdapter
    <2> QED BY <1>4, <2>1, LineOthers
  <1> QED BY <1>1, <1>2, <1>3, <1>4, HandlersGoOn DEF Next

\* What is past stays past: the line does not bring a message a second time.
LEMMA PastStays ==
    ASSUME LineInv, TaskInv, GoneInv, [Next]_gateVars, NEW i, Past(i)
    PROVE  Past(i)'
  <1>1. PICK e \in sent : e.id = i /\ ~InLine(e) /\ (Idle \/ task.of.item # e)
    BY DEF Past
  <1>2. e \in sent' /\ ~InLine(e)'
    BY <1>1, StepOfLine
  <1>3. CASE task' = NoTask \/ task' = task
    BY <1>1, <1>2, <1>3 DEF Past, Idle
  <1>4. ASSUME NEW d, NEW saved, Moves(d), GoesOn(d, saved)
        PROVE  Past(i)'
    <2>1. e # d.item
      BY <1>1, <1>4, LineMoves DEF Past
    <2>2. Idle' \/ task'.of.item # e
      BY <1>4, <2>1 DEF GoesOn, Idle
    <2> QED BY <1>1, <1>2, <2>2 DEF Past
  <1> QED BY <1>3, <1>4, StepOfLine

\* The message of a handler that ends is past.
LEMMA DoneIsPast ==
    ASSUME LineInv, TaskInv, NEW d, Moves(d), task' = NoTask
    PROVE  Past(d.item.id)' /\ d.item.id \in Nat \ {0}
  <1>1. d.item \in sent' /\ ~InLine(d.item)' /\ d.item \in Events
    BY LineMoves DEF LineInv
  <1> QED BY <1>1, GateAssumption DEF Past, Idle, Event

LEMMA TaskNext ==
    ASSUME LineInv, TaskInv, GoneInv, [Next]_gateVars
    PROVE  TaskInv'
  <1>1. CASE task' = NoTask
    BY <1>1 DEF TaskInv, Idle
  <1>2. CASE task' = task
    BY <1>2, StepOfLine DEF TaskInv, Idle
  <1>3. ASSUME NEW d, NEW saved, Moves(d), MayHold(d, saved), GoesOn(d, saved),
               task' # NoTask
        PROVE  TaskInv'
    <2>1. /\ task'.of = d /\ task'.saved \subseteq saved
          /\ task'.stage \in DMStages => d.item.kind = "dm"
          /\ task'.stage \in GroupStages => d.item.kind = "group"
          /\ task'.stage = "save" => d.item.file
      BY <1>3 DEF GoesOn
    <2>2. d \in Deliveries /\ d.item \in sent' /\ ~InLine(d.item)'
      BY <1>3, LineMoves
    <2>3. d.item.kind = "dm" => task'.saved \subseteq {d.item.id}
      BY <1>3, <2>1 DEF MayHold
    <2> QED BY <2>1, <2>2, <2>3 DEF TaskInv
  <1> QED BY <1>1, <1>2, <1>3, StepOfLine

-------------------------------------------------------------------------------
(***************************************************************************)
(* The files of direct messages                                            *)
(***************************************************************************)

\* What any step does to the turns and the queued files.
LEMMA StepOfTurns ==
    ASSUME TaskInv, GoneInv, [Next]_gateVars
    PROVE  \/ UNCHANGED turnVars
           \/ QueueFile
           \/ ReplaceAdapter
           \/ \E d, saved : /\ Moves(d) /\ MayHold(d, saved)
                            /\ StartTurn(d.item, saved)
  <1>1. CASE ReceiveDelete \/ (\E e \in Events : Send(e)) \/ Break \/ Reconnect
    BY <1>1 DEF ReceiveDelete, Send, Break, Reconnect
  <1>2. CASE UNCHANGED gateVars
    BY <1>2 DEF gateVars
  <1>3. ASSUME NEW d, NEW saved, Moves(d), MayHold(d, saved), GoesOn(d, saved)
        PROVE  \/ UNCHANGED turnVars
               \/ \E s : Moves(d) /\ MayHold(d, s) /\ StartTurn(d.item, s)
    BY <1>3 DEF GoesOn, MayHold
  <1> QED BY <1>1, <1>2, <1>3, HandlersGoOn DEF Next

\* The files a turn for a direct message attaches are those of this message or all
\* that were queued, and leave the queue.
LEMMA TurnTakesFiles ==
    ASSUME LineInv, TaskInv, InboxInv, NEW d, NEW saved,
           Moves(d), MayHold(d, saved), StartTurn(d.item, saved),
           d.item.kind = "dm"
    PROVE  LET m == MediaOf(d.item, saved)
               p == d.item.from
           IN  /\ p \in Peers
               /\ \/ m = {} /\ d.item.file
                  \/ m = {d.item.id} /\ d.item.file
                  \/ m = inbox[p] /\ ~d.item.file
               /\ \/ inbox' = [inbox EXCEPT ![p] = {}]
                  \/ inbox' = inbox /\ m = {}
               /\ queued' = [queued EXCEPT ![p] = {}]
  <1>1. d.item.from \in Peers
    <2>1. d.item \in Events
      BY LineMoves DEF LineInv
    <2> QED BY <2>1, GateAssumption DEF Event
  <1>2. saved = {} \/ (d.item.file /\ saved = {d.item.id})
    BY DEF MayHold
  <1> QED BY <1>1, <1>2 DEF StartTurn, MediaOf, InboxAfter

LEMMA InboxNext ==
    ASSUME LineInv, TaskInv, InboxInv, GoneInv, [Next]_gateVars
    PROVE  InboxInv'
  <1>1. \A i : Past(i) => Past(i)'
    BY PastStays
  <1>2. CASE UNCHANGED turnVars
    BY <1>1, <1>2 DEF turnVars, InboxInv
  <1>3. CASE ReplaceAdapter
    <2>1. /\ turns' = turns
          /\ inbox' = [p \in Peers |-> {}] /\ queued' = [p \in Peers |-> {}]
      BY <1>3 DEF ReplaceAdapter
    <2> QED BY <1>1, <2>1 DEF InboxInv
  <1>4. CASE QueueFile
    <2>0. PICK p, id : p = task.of.item.from /\ id = task.of.item.id
      OBVIOUS
    <2>1. /\ inbox' = [inbox EXCEPT ![p] = inbox[p] \union task.saved]
          /\ queued' = [queued EXCEPT ![p] = queued[p] \union task.saved]
          /\ turns' = turns /\ task' = NoTask
          /\ UNCHANGED streamVars /\ task.stage = "queue"
      BY <1>4, <2>0 DEF QueueFile, Enqueue
    <2>2. ~Idle /\ Moves(task.of)
      BY <2>1 DEF Idle, NoTask, Moves
    <2>3. Past(id)' /\ id \in Nat /\ ~Past(id)
      BY <2>0, <2>1, <2>2, DoneIsPast, LineMoves
    <2>4. p \in Peers /\ task.saved \subseteq {id}
      <3>1. task.of.item \in Events /\ task.of.item.kind = "dm"
        BY <2>1, <2>2 DEF TaskInv, LineInv, DMStages
      <3> QED BY <2>0, <2>2, <3>1, GateAssumption DEF Event, TaskInv
    <2>5. /\ \A q \in Peers : id \notin inbox[q]
          /\ \A t \in turns : t.of.kind = "dm" => id \notin t.media
      BY <2>3 DEF InboxInv
    <2>6. \A q \in Peers : \A i \in inbox'[q] : i \in inbox[q] \/ (q = p /\ i = id)
      BY <2>1, <2>4 DEF InboxInv
    <2>7. /\ inbox' \in [Peers -> SUBSET Nat] /\ queued' \in [Peers -> SUBSET Nat]
          /\ \A q \in Peers : queued'[q] \subseteq inbox'[q]
      BY <2>1, <2>3, <2>4 DEF InboxInv
    <2>8. \A q \in Peers : \A i \in inbox'[q] : Past(i)'
      BY <1>1, <2>3, <2>6 DEF InboxInv
    <2>9. \A q, r \in Peers : \A i \in inbox'[q] : i \in inbox'[r] => q = r
      BY <2>5, <2>6 DEF InboxInv
    <2>10. \A t \in turns' : t.of.kind = "dm" =>
              \A i \in t.media : Past(i)' /\ \A q \in Peers : i \notin inbox'[q]
      BY <1>1, <2>1, <2>5, <2>6 DEF InboxInv
    <2> QED BY <2>7, <2>8, <2>9, <2>10 DEF InboxInv
  <1>5. ASSUME NEW d, NEW saved, Moves(d), MayHold(d, saved),
               StartTurn(d.item, saved)
        PROVE  InboxInv'
    <2> DEFINE m == MediaOf(d.item, saved)
    <2>1. turns' = turns \union {[of |-> d.item, media |-> m]} /\ task' = NoTask
      BY <1>5 DEF StartTurn
    <2>2. CASE d.item.kind # "dm"
      <3>1. UNCHANGED <<inbox, queued>>
        BY <1>5, <2>2 DEF StartTurn, InboxAfter
      <3>2. \A t \in turns' : t.of.kind = "dm" => t \in turns
        BY <2>1, <2>2
      <3> QED BY <1>1, <3>1, <3>2 DEF InboxInv
    <2>3. CASE d.item.kind = "dm"
      <3> DEFINE p == d.item.from
      <3>1. /\ p \in Peers
            /\ m = {} \/ m = {d.item.id} \/ m = inbox[p]
            /\ \/ inbox' = [inbox EXCEPT ![p] = {}]
               \/ inbox' = inbox /\ m = {}
            /\ queued' = [queued EXCEPT ![p] = {}]
        BY <1>5, <2>3, TurnTakesFiles
      <3>2. Past(d.item.id)' /\ ~Past(d.item.id)
        BY <1>5, <2>1, DoneIsPast, LineMoves
      <3>3. \A i \in m : Past(i)'
        BY <1>1, <3>1, <3>2 DEF InboxInv
      <3>4. /\ inbox' \in [Peers -> SUBSET Nat]
            /\ queued' \in [Peers -> SUBSET Nat]
            /\ \A q \in Peers : /\ inbox'[q] \subseteq inbox[q]
                                /\ queued'[q] \subseteq inbox'[q]
        BY <3>1 DEF InboxInv
      <3>5. \A i \in m : \A q \in Peers : i \notin inbox'[q]
        <4>1. CASE m = {}
          BY <4>1
        <4>2. CASE m = {d.item.id}
          BY <3>2, <3>4, <4>2 DEF InboxInv
        <4>3. CASE m = inbox[p] /\ inbox' = [inbox EXCEPT ![p] = {}]
          BY <3>1, <4>3 DEF InboxInv
        <4> QED BY <3>1, <4>1, <4>2, <4>3
      <3>6. \A t \in turns' : t \in turns \/ t.media = m
        BY <2>1
      <3> HIDE DEF m
      <3> QED BY <1>1, <3>3, <3>4, <3>5, <3>6 DEF InboxInv
    <2> QED BY <2>2, <2>3
  <1> QED BY <1>2, <1>3, <1>4, <1>5, StepOfTurns

LEMMA AttachedNext ==
    ASSUME LineInv, TaskInv, InboxInv, GoneInv, AttachedOnce, [Next]_gateVars
    PROVE  AttachedOnce'
  <1>1. CASE turns' = turns
    BY <1>1 DEF AttachedOnce
  <1>2. ASSUME NEW d, NEW saved, Moves(d), MayHold(d, saved),
               StartTurn(d.item, saved)
        PROVE  AttachedOnce'
    <2> DEFINE m == MediaOf(d.item, saved)
               u == [of |-> d.item, media |-> m]
    <2>1. turns' = turns \union {u} /\ u.media = m /\ u.of = d.item
      BY <1>2 DEF StartTurn
    <2>2. CASE d.item.kind # "dm"
      BY <2>1, <2>2 DEF AttachedOnce
    <2>3. ASSUME d.item.kind = "dm", NEW t \in turns, t.of.kind = "dm"
          PROVE  t.media \intersect m = {}
      <3>1. /\ d.item.from \in Peers
            /\ m = {} \/ m = {d.item.id} \/ m = inbox[d.item.from]
        BY <1>2, <2>3, TurnTakesFiles
      <3>2. d.item.id \notin t.media
        BY <1>2, <2>3, LineMoves DEF InboxInv
      <3>3. inbox[d.item.from] \intersect t.media = {}
        BY <2>3, <3>1 DEF InboxInv
      <3> QED BY <3>1, <3>2, <3>3
    <2> HIDE DEF m, u
    <2> QED BY <2>1, <2>2, <2>3 DEF AttachedOnce
  <1>3. UNCHANGED turnVars \/ QueueFile \/ ReplaceAdapter => turns' = turns
    BY DEF turnVars, QueueFile, ReplaceAdapter
  <1> QED BY <1>1, <1>2, <1>3, StepOfTurns

-------------------------------------------------------------------------------
(***************************************************************************)
(* Deleted files                                                           *)
(***************************************************************************)

\* Only what is not deleted is stashed or gets a pointer.
LEMMA StepOfDisk ==
    ASSUME LineInv, TaskInv, GoneInv, [Next]_gateVars
    PROVE  \/ ReceiveDelete
           \/ /\ gone' = gone
              /\ \A i \in gone : i \notin pointer'
              /\ \A x \in stash' :
                    \E f \in sent : x = <<f.chat, f.id>> /\ f.id \notin gone
  <1>1. CASE ReceiveGroup
    <2> DEFINE e == Head(waiting).item
    <2>1. /\ gone' = gone /\ pointer' = pointer
          /\ Moves(Head(waiting))
      BY <1>1 DEF ReceiveGroup, Take, Moves
    <2>4. \A x \in stash' : x \in stash \/ x = <<e.chat, e.id>>
      BY <1>1 DEF ReceiveGroup, Stash
    <2>2. e \in sent /\ ~Past(e.id) /\ e.id # 0
      <3>1. e \in sent /\ ~Past(e.id) /\ e \in Events
        BY <2>1, LineMoves DEF LineInv
      <3> QED BY <3>1, GateAssumption DEF Event
    <2>3. e.id \notin gone
      BY <2>2 DEF GoneInv
    <2> QED BY <2>1, <2>2, <2>3, <2>4 DEF GoneInv
  <1>2. CASE Fetch
    <2> DEFINE id == Head(task.todo)
    <2>1. /\ gone' = gone /\ stash' = stash
          /\ \/ pointer' = pointer
             \/ /\ <<task.of.item.chat, id>> \in stash
                /\ pointer' \subseteq pointer \union {id}
      BY <1>2 DEF Fetch, PointerAfter
    <2>2. <<task.of.item.chat, id>> \in stash => id \notin gone
      BY DEF GoneInv
    <2> QED BY <2>1, <2>2 DEF GoneInv
  <1>3. CASE UNCHANGED <<gone, pointer, stash>>
    BY <1>3 DEF GoneInv
  <1> QED
    BY <1>1, <1>2, <1>3
       DEF Next, HandlerNext, gateVars, diskVars, ReceiveDM, Take, LoadBlocked,
           BlockUser, ListBlocked, SaveDM, QueueFile, FileContext, StoreCrumb,
           Send, Break, Reconnect, ReplaceAdapter

LEMMA GoneNext ==
    ASSUME LineInv, TaskInv, GoneInv, [Next]_gateVars
    PROVE  GoneInv'
  <1>1. \A i : Past(i) => Past(i)'
    BY PastStays
  <1>2. CASE ReceiveDelete
    <2>0. PICK d, e : d = Head(waiting) /\ e = d.item
      OBVIOUS
    <2>1. /\ Idle /\ up /\ waiting # <<>> /\ waiting' = Tail(waiting)
          /\ UNCHANGED <<up, gap, sent, task>> /\ e.kind = "delete"
      BY <1>2, <2>0 DEF ReceiveDelete
    <2>6. \/ /\ gone' = gone \union {e.re} /\ pointer' = pointer \ {e.re}
             /\ stash' = stash \ {<<e.chat, e.re>>}
          \/ gone' = gone /\ pointer' \subseteq pointer /\ stash' \subseteq stash
      BY <1>2, <2>0 DEF ReceiveDelete, StashAfter
    <2>2. /\ e \in sent /\ e \in Events
          /\ \A f : InLine(f)' => f.id # e.re
      BY <2>0, <2>1, TakeFromLine DEF LineInv
    <2>3. e.re = 0 \/ Past(e.re)'
      <3>1. e.re = 0 \/ \E f \in sent : f.id = e.re
        BY <2>2 DEF LineInv
      <3> QED BY <2>1, <2>2, <3>1 DEF Past, Idle
    <2>4. \A f \in sent : f.id = e.re => f.chat = e.chat
      BY <2>1, <2>2, GateAssumption DEF LineInv
    <2>5. \A x \in stash' :
             \E f \in sent' : x = <<f.chat, f.id>> /\ f.id \notin gone'
      <3> SUFFICES ASSUME NEW x \in stash'
                   PROVE  \E f \in sent' : x = <<f.chat, f.id>> /\ f.id \notin gone'
        OBVIOUS
      <3>1. PICK f \in sent : x = <<f.chat, f.id>> /\ f.id \notin gone
        BY <2>6 DEF GoneInv
      <3>2. CASE gone' = gone
        BY <2>1, <3>1, <3>2
      <3>3. CASE gone' = gone \union {e.re} /\ stash' = stash \ {<<e.chat, e.re>>}
        <4>1. f.id # e.re
          BY <2>4, <3>1, <3>3
        <4> QED BY <2>1, <3>1, <3>3, <4>1
      <3> QED BY <2>6, <3>2, <3>3
    <2> QED BY <1>1, <2>1, <2>3, <2>5, <2>6 DEF GoneInv, Idle
  <1>3. CASE /\ gone' = gone
             /\ \A i \in gone : i \notin pointer'
             /\ \A x \in stash' :
                   \E f \in sent : x = <<f.chat, f.id>> /\ f.id \notin gone
    <2>1. sent \subseteq sent'
      BY StepOfLine
    <2>2. ~Idle' /\ task'.of.item.kind = "group" => task'.saved \intersect gone = {}
      <3>1. CASE task' = NoTask \/ task' = task
        BY <3>1 DEF GoneInv, Idle
      <3>2. ASSUME NEW d, NEW saved, MayHold(d, saved), GoesOn(d, saved)
            PROVE  ~Idle' /\ task'.of.item.kind = "group"
                     => task'.saved \intersect gone = {}
        BY <3>2 DEF GoesOn, MayHold, Idle
      <3> QED BY <3>1, <3>2, StepOfLine
    <2> QED BY <1>1, <1>3, <2>1, <2>2 DEF GoneInv
  <1> QED BY <1>2, <1>3, StepOfDisk

-------------------------------------------------------------------------------
LEMMA GateInit == Init => GateInv
  <1> SUFFICES ASSUME Init PROVE GateInv
    OBVIOUS
  <1>1. Line = <<>> /\ DOMAIN Line = {}
    BY DEF Init, Line
  <1>2. LineInv
    BY <1>1, EmptySeq DEF Init, LineInv
  <1>3. TaskInv /\ InboxInv /\ AttachedOnce /\ GoneInv
    BY DEF Init, TaskInv, Idle, InboxInv, AttachedOnce, GoneInv
  <1> QED BY <1>2, <1>3 DEF GateInv

LEMMA GateAlways == Spec => []GateInv
  <1>1. GateInv /\ [Next]_gateVars => GateInv'
    BY StepOfLine, TaskNext, InboxNext, AttachedNext, GoneNext DEF GateInv
  <1> QED BY GateInit, <1>1, PTL DEF Spec

\* No file of a direct message is attached to two turns, whether it came with its
\* text or waited for one, over replays and new adapters.
THEOREM FilesAreAttachedOnce == Spec => []AttachedOnce
  BY GateAlways, PTL DEF GateInv

\* A text without a file of its own has every file that was queued before it.
THEOREM TextTakesQueuedFiles == Spec => QueuedFilesReachNextText
  <1>1. ASSUME GateInv, [Next]_gateVars
        PROVE  \A t \in turns' : Started(t) /\ t.of.kind = "dm" /\ ~t.of.file
                                 => queued[t.of.from] \subseteq t.media
    <2> USE DEF GateInv
    <2>1. CASE turns' = turns
      BY <2>1 DEF Started
    <2>2. ASSUME NEW d, NEW saved, Moves(d), MayHold(d, saved),
                 StartTurn(d.item, saved)
          PROVE  \A t \in turns' : Started(t) /\ t.of.kind = "dm" /\ ~t.of.file
                                   => queued[t.of.from] \subseteq t.media
      <3>1. \A t \in turns' : Started(t) => /\ t.of = d.item
                                            /\ t.media = MediaOf(d.item, saved)
        BY <2>2 DEF StartTurn, Started
      <3>2. d.item.kind = "dm" /\ ~d.item.file
              => queued[d.item.from] \subseteq MediaOf(d.item, saved)
        BY <1>1, <2>2, TurnTakesFiles DEF InboxInv
      <3> QED BY <3>1, <3>2
    <2>3. UNCHANGED turnVars \/ QueueFile \/ ReplaceAdapter => turns' = turns
      BY DEF turnVars, QueueFile, ReplaceAdapter
    <2> QED BY <1>1, <2>1, <2>2, <2>3, StepOfTurns
  <1> QED BY <1>1, GateAlways, PTL DEF Spec, QueuedFilesReachNextText

\* No channel turn has a file whose delete was handled without an error, whether
\* the file was on disk or only known by its metadata.
THEOREM DeletedFilesStayOut == Spec => DeletedFileStaysOut
  <1>1. ASSUME GateInv, [Next]_gateVars
        PROVE  \A t \in turns' : Started(t) /\ t.of.kind = "group"
                                 => t.media \intersect gone = {}
    <2> USE DEF GateInv
    <2>1. CASE turns' = turns
      BY <2>1 DEF Started
    <2>2. ASSUME NEW d, NEW saved, MayHold(d, saved), StartTurn(d.item, saved)
          PROVE  \A t \in turns' : Started(t) /\ t.of.kind = "group"
                                   => t.media \intersect gone = {}
      BY <2>2 DEF StartTurn, Started, MediaOf, MayHold
    <2>3. UNCHANGED turnVars \/ QueueFile \/ ReplaceAdapter => turns' = turns
      BY DEF turnVars, QueueFile, ReplaceAdapter
    <2> QED BY <1>1, <2>1, <2>2, <2>3, StepOfTurns
  <1> QED BY <1>1, GateAlways, PTL DEF Spec, DeletedFileStaysOut

===============================================================================
