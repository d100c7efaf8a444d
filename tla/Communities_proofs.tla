-------------------------- MODULE Communities_proofs --------------------------
(***************************************************************************)
(* What TLAPS proves of Communities, for any communities, channels and     *)
(* number of adapters: the three properties its run checks.                *)
(***************************************************************************)
EXTENDS Communities, FiniteSetTheorems, TLAPS

\* Whatever is announced next, it is announced by w and holds nothing known.
LEMMA AnnounceGoes ==
    ASSUME DOMAIN task = Workers,
           NEW w \in Workers, NEW todo, NEW known, NEW then,
           Announce(w, todo, known, then)
    PROVE  /\ DOMAIN task' = Workers
           /\ \A v \in Workers \ {w} : task'[v] = task[v]
           /\ task'[w].rows \intersect known = {}
  BY DEF Announce, Do, Idle

\* The steps of an adapter that is there, as one disjunction for the proofs.
Step ==
    \/ Tail \/ Create \/ SaveHome \/ Notices \/ Invites
    \/ \E c \in Community : HearOf(c)

LEMMA NextIsStep == CommunitiesNext <=> Connect \/ Step
  BY DEF CommunitiesNext, Step

-------------------------------------------------------------------------------
(***************************************************************************)
(* What is marked was announced                                            *)
(***************************************************************************)

\* The set in memory, the file and what the operator was told only change
\* together: by a notice that was answered, by a notice whose answer was lost
\* (which is told and not marked), by /join and by a new adapter.
LEMMA KnownWasToldStep ==
    ASSUME KnownWasTold, [CommunitiesNext]_communityVars
    PROVE  KnownWasTold'
  <1> USE DEF KnownWasTold
  <1>1. CASE UNCHANGED communityVars
    BY <1>1 DEF communityVars, marks, history
  <1>2. CASE Connect
    BY <1>2 DEF Connect
  <1>3. CASE Tail
    BY <1>3 DEF Tail, Hello, AskForHome, HomeAnswered, HomeTimesOut, marks, history
  <1>4. CASE Create \/ SaveHome
    BY <1>4 DEF Create, SaveHome, marks, history
  <1>5. CASE Notices
    <2>1. ASSUME NEW w \in Workers, Sync(w) \/ Lookup(w) PROVE KnownWasTold'
      BY <2>1 DEF Sync, Lookup, marks, history
    <2>2. ASSUME NEW w \in Workers, Noticed(w) PROVE KnownWasTold'
      BY <2>2 DEF Noticed, Mark, history
    <2>3. ASSUME NEW w \in Workers, NoticeFails(w) PROVE KnownWasTold'
      BY <2>3 DEF NoticeFails, marks, history
    <2> QED BY <1>5, <2>1, <2>2, <2>3 DEF Notices
  <1>6. CASE Invites
    <2>1. CASE JoinReplied
      BY <2>1 DEF JoinReplied, marks, history
    <2>2. ASSUME NEW c \in Foreign, Invite(c) \/ Command(c) \/ CommandFails(c) \/ Declined(c)
          PROVE  KnownWasTold'
      BY <2>2 DEF Invite, Command, CommandFails, Declined, marks, history
    <2>3. ASSUME NEW c \in Foreign, Joined(c) PROVE KnownWasTold'
      BY <2>3 DEF Joined, Mark, marks
    <2> QED BY <1>6, <2>1, <2>2, <2>3 DEF Invites
  <1>7. CASE \E c \in Community : HearOf(c)
    BY <1>7 DEF HearOf, marks, history
  <1> QED
    BY <1>1, <1>2, <1>3, <1>4, <1>5, <1>6, <1>7, NextIsStep DEF Step

\* No channel is taken for announced that the operator was not told of, except
\* by /join, which marks before it answers (_notify_joined_channels).
THEOREM MarkedWasTold == CommunitiesSpec => []KnownWasTold
<1>1. CommunitiesInit => KnownWasTold
  BY DEF CommunitiesInit, KnownWasTold
<1> QED
  BY <1>1, KnownWasToldStep, PTL DEF CommunitiesSpec

-------------------------------------------------------------------------------
(***************************************************************************)
(* A restart repeats nothing that was written                              *)
(***************************************************************************)

\* The set in memory covers the file, the file what was ever written to it, and
\* what earlier lives wrote is known to this one.
RepeatInv ==
    /\ DOMAIN task = Workers
    /\ settled \subseteq notified
    /\ kept \subseteq marked
    /\ marked \subseteq notified
    /\ NoRepeatOnRestart

LEMMA MarkGoes ==
    ASSUME NEW rows, Mark(rows), kept \subseteq marked, marked \subseteq notified
    PROVE  /\ notified' = notified \union rows
           /\ kept' \subseteq marked'
           /\ marked' \subseteq notified'
  BY DEF Mark

LEMMA RepeatInvInit == CommunitiesInit => RepeatInv
  BY DEF CommunitiesInit, RepeatInv, NoRepeatOnRestart, At, Idle

LEMMA RepeatInvStep ==
    ASSUME RepeatInv, [CommunitiesNext]_communityVars
    PROVE  RepeatInv'
  <1> USE DEF RepeatInv, NoRepeatOnRestart, At
  <1>1. CASE UNCHANGED communityVars
    BY <1>1 DEF communityVars, marks, history
  <1>2. CASE Connect
    BY <1>2 DEF Connect, Idle, Workers
  <1>3. CASE Tail
    <2>1. CASE Hello \/ AskForHome \/ HomeTimesOut
      BY <2>1 DEF Hello, AskForHome, HomeTimesOut, Do, Idle, Workers, marks, history
    <2>2. CASE HomeAnswered
      <3>1. CASE Announce("tail", {creating.home}, notified, "list")
        BY <2>2, <3>1, AnnounceGoes DEF HomeAnswered, Workers, marks, history
      <3>2. CASE Do("tail", [Idle EXCEPT !.at = "list"])
        BY <2>2, <3>2 DEF HomeAnswered, Do, Idle, Workers, marks, history
      <3> QED BY <2>2, <3>1, <3>2 DEF HomeAnswered
    <2> QED BY <1>3, <2>1, <2>2 DEF Tail
  <1>4. CASE Create \/ SaveHome
    BY <1>4 DEF Create, SaveHome, marks, history
  <1>5. CASE Notices
    <2>1. ASSUME NEW w \in Workers, Sync(w) PROVE RepeatInv'
      BY <2>1, AnnounceGoes DEF Sync, marks, history
    <2>2. ASSUME NEW w \in Workers, Lookup(w) PROVE RepeatInv'
      BY <2>2 DEF Lookup, Do, Idle, marks, history
    <2>3. ASSUME NEW w \in Workers, Noticed(w) PROVE RepeatInv'
      <3>1. /\ notified' = notified \union task[w].rows
            /\ kept' \subseteq marked' /\ marked' \subseteq notified'
        BY <2>3, MarkGoes DEF Noticed
      <3>2. /\ DOMAIN task' = Workers
            /\ \A v \in Workers \ {w} : task'[v] = task[v]
            /\ task'[w].rows \intersect notified' = {}
        BY <2>3, AnnounceGoes DEF Noticed
      <3> QED BY <2>3, <3>1, <3>2 DEF Noticed, history
    <2>4. ASSUME NEW w \in Workers, NoticeFails(w) PROVE RepeatInv'
      BY <2>4, AnnounceGoes DEF NoticeFails, marks, history
    <2> QED BY <1>5, <2>1, <2>2, <2>3, <2>4 DEF Notices
  <1>6. CASE Invites
    <2>1. CASE JoinReplied
      BY <2>1 DEF JoinReplied, Do, Idle, marks, history
    <2>2. ASSUME NEW c \in Foreign, Invite(c) \/ Command(c) \/ CommandFails(c) \/ Declined(c)
          PROVE  RepeatInv'
      <3>1. UNCHANGED <<marked, notified, kept, settled>>
        BY <2>2 DEF Invite, Command, CommandFails, Declined, marks, history
      <3>2. \/ task' = task
            \/ \E t : t.at # "send" /\ task' = [task EXCEPT !["listener"] = t]
        <4>1. CASE Invite(c)
          BY <4>1 DEF Invite
        <4>2. CASE Command(c)
          BY <4>2 DEF Command, Do, Idle
        <4>3. CASE CommandFails(c) \/ Declined(c)
          BY <4>3 DEF CommandFails, Declined, Do, Idle
        <4> QED BY <2>2, <4>1, <4>2, <4>3
      <3> QED BY <3>1, <3>2
    <2>3. ASSUME NEW c \in Foreign, Joined(c) PROVE RepeatInv'
      <3>1. settled' = settled
        BY <2>3 DEF Joined
      <3>2. kept' \subseteq marked' /\ marked' \subseteq notified' /\ notified \subseteq notified'
        BY <2>3, MarkGoes DEF Joined, marks
      <3>3. \E t : t.at = "join" /\ task' = [task EXCEPT !["listener"] = t]
        BY <2>3 DEF Joined, Do, Idle
      <3> QED BY <3>1, <3>2, <3>3
    <2> QED BY <1>6, <2>1, <2>2, <2>3 DEF Invites
  <1>7. CASE \E c \in Community : HearOf(c)
    BY <1>7 DEF HearOf, Do, Idle, marks, history
  <1> QED
    BY <1>1, <1>2, <1>3, <1>4, <1>5, <1>6, <1>7, NextIsStep DEF Step

\* A restart does not announce again what an earlier life has written down, over
\* failed writes and two coroutines that announce at once (README, "Restart does not
\* re-DM the same id"); only a write that was cut makes it forget.
THEOREM RestartsAreSilent == CommunitiesSpec => []NoRepeatOnRestart
<1>1. RepeatInv => NoRepeatOnRestart
  BY DEF RepeatInv
<1> QED
  BY <1>1, RepeatInvInit, RepeatInvStep, PTL DEF CommunitiesSpec

-------------------------------------------------------------------------------
(***************************************************************************)
(* One home community                                                      *)
(***************************************************************************)

Homes == members \intersect Owned
One(b) == IF b THEN 1 ELSE 0

\* A home is on file, just created, or counted as lapsed; it is created only while
\* none is on file, and only by the tail, which waits for it.
HomeInv ==
    /\ DOMAIN task = Workers
    /\ lapses \in Nat
    /\ creating \in [at : {"none", "create", "created", "done", "failed"},
                     home : Owned \union {"none"}]
    /\ creating.at = "created" => creating.home \in Owned
    /\ IsFiniteSet(Homes)
    /\ Cardinality(Homes) <= lapses + One(saved \in Owned) + One(creating.at = "created")
    /\ creating.at \in {"create", "created"} => saved \notin Owned
    /\ creating.at # "none" => task["tail"].at = "created"

LEMMA HomeInvInit == CommunitiesInit => HomeInv
<1> SUFFICES ASSUME CommunitiesInit PROVE HomeInv
  OBVIOUS
<1>1. Homes = {}
  BY DEF CommunitiesInit, Homes
<1>2. IsFiniteSet(Homes) /\ Cardinality(Homes) = 0
  BY <1>1, FS_EmptySet
<1> QED
  BY <1>2 DEF CommunitiesInit, HomeInv, NoRequest, One, Idle, Workers

\* A step that leaves homes, file and request alone, and the tail where it waits.
LEMMA HomeInvFrame ==
    ASSUME HomeInv, Homes' = Homes, UNCHANGED <<saved, creating, lapses>>,
           DOMAIN task' = Workers,
           task["tail"].at = "created" => task'["tail"] = task["tail"]
    PROVE  HomeInv'
  BY DEF HomeInv, One

\* The request is dropped: what it created and did not save is a lapse.
LEMMA HomeInvDropped ==
    ASSUME HomeInv, Homes' = Homes, saved' = saved, Lapse,
           creating' = NoRequest, DOMAIN task' = Workers
    PROVE  HomeInv'
  BY DEF HomeInv, One, Lapse, NoRequest

LEMMA HomeInvStep ==
    ASSUME HomeInv, [CommunitiesNext]_communityVars
    PROVE  HomeInv'
  <1>0. DOMAIN task = Workers /\ "tail" \in Workers /\ "listener" \in Workers
    BY DEF HomeInv, Workers
  <1>1. CASE UNCHANGED communityVars
    BY <1>1 DEF communityVars, rooms, files, history, HomeInv, Homes
  <1>2. CASE Connect
    BY <1>2, HomeInvDropped DEF Connect, rooms, files, Homes
  <1>3. CASE Tail
    <2>1. CASE Hello
      BY <1>0, <2>1, HomeInvFrame DEF Hello, At, Do, rooms, history, Homes
    <2>2. CASE AskForHome
      <3>1. creating.at = "none" /\ Homes' = Homes
        BY <2>2 DEF AskForHome, HomeInv, At, rooms, Homes
      <3> QED BY <1>0, <2>2, <3>1 DEF AskForHome, HomeInv, Do, Idle, One, files, history
    <2>3. CASE HomeAnswered
      <3>1. DOMAIN task' = Workers
        BY <1>0, <2>3, AnnounceGoes DEF HomeAnswered, Do
      <3>2. Homes' = Homes /\ creating.at # "created"
        BY <2>3 DEF HomeAnswered, rooms, Homes
      <3> QED BY <2>3, <3>1, <3>2 DEF HomeAnswered, HomeInv, NoRequest, One, files, history
    <2>4. CASE HomeTimesOut
      BY <1>0, <2>4, HomeInvDropped DEF HomeTimesOut, Do, rooms, files, Homes
    <2> QED BY <1>3, <2>1, <2>2, <2>3, <2>4 DEF Tail
  <1>4. CASE Create
    <2>1. CASE \E c \in Owned \ members :
                  /\ members' = members \union {c}
                  /\ creating' = [at |-> "created", home |-> c]
      <3>1. PICK c \in Owned \ members :
                  /\ members' = members \union {c}
                  /\ creating' = [at |-> "created", home |-> c]
        BY <2>1
      <3>2. Homes' = Homes \union {c} /\ c \notin Homes
        BY <3>1 DEF Homes
      <3>3. IsFiniteSet(Homes') /\ Cardinality(Homes') = Cardinality(Homes) + 1
        BY <3>2, FS_AddElement DEF HomeInv
      <3>4. Cardinality(Homes) \in Nat
        BY FS_CardinalityType DEF HomeInv
      <3> QED BY <1>4, <3>1, <3>3, <3>4 DEF Create, HomeInv, One, files, history
    <2>2. CASE creating' = [creating EXCEPT !.at = "failed"] /\ UNCHANGED members
      <3>1. Homes' = Homes
        BY <2>2 DEF Homes
      <3> QED BY <1>4, <2>2, <3>1 DEF Create, HomeInv, One, files, history
    <2> QED BY <1>4, <2>1, <2>2 DEF Create
  <1>5. CASE SaveHome
    <2>1. Homes' = Homes
      BY <1>5 DEF SaveHome, rooms, Homes
    <2>2. Cardinality(Homes) \in Nat
      BY FS_CardinalityType DEF HomeInv
    <2> QED BY <1>5, <2>1, <2>2 DEF SaveHome, HomeInv, One, Lapse
  <1>6. CASE Notices
    <2>1. ASSUME NEW w \in Workers, Sync(w) \/ Noticed(w) \/ NoticeFails(w) PROVE HomeInv'
      <3>1. /\ task[w].at # "created" /\ DOMAIN task' = Workers
            /\ \A v \in Workers \ {w} : task'[v] = task[v]
        BY <1>0, <2>1, AnnounceGoes DEF Sync, Noticed, NoticeFails, At
      <3>2. Homes' = Homes /\ UNCHANGED <<saved, creating, lapses>>
        BY <2>1 DEF Sync, Noticed, NoticeFails, rooms, files, history, Homes
      <3> QED BY <1>0, <3>1, <3>2, HomeInvFrame
    <2>2. ASSUME NEW w \in Workers, Lookup(w) PROVE HomeInv'
      BY <1>0, <2>2, HomeInvFrame DEF Lookup, At, Do, rooms, files, history, Homes
    <2> QED BY <1>6, <2>1, <2>2 DEF Notices
  <1>7. CASE Invites
    <2>1. CASE JoinReplied
      BY <1>0, <2>1, HomeInvFrame DEF JoinReplied, Do, rooms, files, history, Homes
    <2>2. ASSUME NEW c \in Foreign,
                 Invite(c) \/ Command(c) \/ Joined(c) \/ CommandFails(c) \/ Declined(c)
          PROVE  HomeInv'
      <3>1. c \notin Owned
        BY CommunityAssumption
      <3>2. Homes' = Homes
        BY <2>2, <3>1 DEF Invite, Command, Joined, CommandFails, Declined, rooms, Homes
      <3>3. UNCHANGED <<saved, creating, lapses>>
        BY <2>2 DEF Invite, Command, Joined, CommandFails, Declined, files, history
      <3>4. DOMAIN task' = Workers /\ task'["tail"] = task["tail"]
        BY <1>0, <2>2 DEF Invite, Command, Joined, CommandFails, Declined, Do
      <3> QED BY <3>2, <3>3, <3>4, HomeInvFrame
    <2> QED BY <1>7, <2>1, <2>2 DEF Invites
  <1>8. CASE \E c \in Community : HearOf(c)
    BY <1>0, <1>8, HomeInvFrame DEF HearOf, Do, rooms, files, history, Homes
  <1> QED
    BY <1>1, <1>2, <1>3, <1>4, <1>5, <1>6, <1>7, <1>8, NextIsStep DEF Step

\* There is at most one home community that was ever saved whole: each further one
\* replaces one that was created and lost before it was on file (README, "restart
\* will not create a second one").
THEOREM HomeIsOne == CommunitiesSpec => []OneHome
<1>1. HomeInv => OneHome
  BY FS_CardinalityType DEF HomeInv, OneHome, Homes, One
<1> QED
  BY <1>1, HomeInvInit, HomeInvStep, PTL DEF CommunitiesSpec
===============================================================================
