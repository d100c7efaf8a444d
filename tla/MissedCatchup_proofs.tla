------------------------- MODULE MissedCatchup_proofs -------------------------
(***************************************************************************)
(* What TLAPS proves of MissedCatchup, for any peers, any DMs, any history *)
(* limit and any number of lives of the process: its types, and the three  *)
(* promises about missed-seen.json that hold with two writers of the file, *)
(* reads and writes that fail unnoticed and a process that dies between    *)
(* any two steps.                                                          *)
(***************************************************************************)
EXTENDS MissedCatchup, TLAPS

Marks == Mark \union {NoMark}

-------------------------------------------------------------------------------
(***************************************************************************)
(* The order of the marks                                                  *)
(***************************************************************************)

\* Marks are ordered strictly and weakly: what precedes another mark precedes, or
\* is preceded by, any third one.
LEMMA MarkOrder ==
    /\ \A a \in Marks : ~Precedes(a, a)
    /\ \A a, b, c \in Marks : Precedes(a, b) /\ Precedes(b, c) => Precedes(a, c)
    /\ \A a, b, c \in Marks : Precedes(a, c) => Precedes(a, b) \/ Precedes(b, c)
  BY DEF Marks, Mark, NoMark, Precedes

\* A DM has a mark, it lies after NoMark, and no two DMs have the same one.
LEMMA DMsAreOrdered ==
    /\ \A m \in DMs : /\ m.chat \in Peers /\ m.at \in Nat /\ m.mine \in BOOLEAN
                      /\ MarkOf(m) \in Mark /\ MarkOf(m).at = m.at
                      /\ Precedes(NoMark, MarkOf(m))
    /\ \A m, n \in DMs : m # n => \/ Precedes(MarkOf(m), MarkOf(n))
                                  \/ Precedes(MarkOf(n), MarkOf(m))
  <1>1. \A m \in DMs : m \in DM
    BY CatchupAssumption
  <1>2. \A m \in DMs : /\ m.chat \in Peers /\ m.at \in Nat /\ m.mine \in BOOLEAN
                       /\ m.id \in Nat \ {0}
    BY <1>1 DEF DM
  <1>3. \A m, n \in DMs : m # n => m.id # n.id
    BY CatchupAssumption
  <1> QED BY <1>2, <1>3 DEF Mark, MarkOf, NoMark, Precedes

\* note_live moves the mark of the DM's chat to the DM or leaves it after it; no
\* mark moves back.
LEMMA BumpGrows ==
    ASSUME NEW cur \in [Peers -> Marks], NEW m \in DMs
    PROVE  /\ Bump(cur, m) \in [Peers -> Marks]
           /\ \A p \in Peers : ~Precedes(Bump(cur, m)[p], cur[p])
           /\ ~Precedes(Bump(cur, m)[m.chat], MarkOf(m))
  <1>1. m.chat \in Peers /\ MarkOf(m) \in Marks
    BY DMsAreOrdered DEF Marks
  <1>2. CASE Precedes(cur[m.chat], MarkOf(m))
    <2>1. Bump(cur, m) = [cur EXCEPT ![m.chat] = MarkOf(m)]
      BY <1>2 DEF Bump
    <2> QED BY <1>1, <1>2, <2>1, MarkOrder
  <1>3. CASE ~Precedes(cur[m.chat], MarkOf(m))
    BY <1>1, <1>3, MarkOrder DEF Bump
  <1> QED BY <1>2, <1>3

\* The merge takes each mark from the file or from the copy, and moves none back.
LEMMA MergeGrows ==
    ASSUME NEW live \in [Peers -> Marks], NEW copy \in [Peers -> Marks]
    PROVE  /\ MergeMarks(live, copy) \in [Peers -> Marks]
           /\ \A p \in Peers : ~Precedes(MergeMarks(live, copy)[p], live[p])
           /\ \A p \in Peers : MergeMarks(live, copy)[p] \in {live[p], copy[p]}
  BY MarkOrder DEF MergeMarks

\* A file that was lost has no marks; one mark may be noted in it, or the copy be
\* merged into it.
LEMMA LapseTypes ==
    ASSUME NEW live \in [Peers -> Marks], NEW copy \in [Peers -> Marks],
           NEW m \in DMs
    PROVE  /\ Emptied(live) \in [Peers -> Marks]
           /\ \A p \in Peers : Emptied(live)[p] = NoMark
           /\ FailedBumps(live, m) \subseteq [Peers -> Marks]
  <1>1. /\ Emptied(live) \in [Peers -> Marks]
        /\ \A p \in Peers : Emptied(live)[p] = NoMark
    BY DEF Emptied, Marks
  <1>2. Bump(Emptied(live), m) \in [Peers -> Marks]
    BY <1>1, BumpGrows
  <1> QED BY <1>1, <1>2 DEF FailedBumps

LEMMA FailedMergesType ==
    ASSUME NEW live \in [Peers -> Marks], NEW copy \in [Peers -> Marks],
           NEW new \in FailedMerges(live, copy)
    PROVE  /\ new \in [Peers -> Marks]
           /\ \A p \in Peers : new[p] \in {live[p], NoMark, copy[p]}
  <1>1. /\ Emptied(live) \in [Peers -> Marks]
        /\ \A p \in Peers : Emptied(live)[p] = NoMark
    BY DEF Emptied, Marks
  <1> DEFINE over == MergeMarks(Emptied(live), copy)
  <1>2. over \in [Peers -> Marks] /\ \A p \in Peers : over[p] \in {NoMark, copy[p]}
    BY <1>1, MergeGrows
  <1> HIDE DEF over
  <1>3. new \in {live, Emptied(live), over}
    BY DEF FailedMerges, over
  <1> QED BY <1>1, <1>2, <1>3

\* What a mark has passed stays passed where no mark moves back.
LEMMA PassedStaysPassed ==
    ASSUME NEW old \in [Peers -> Marks], NEW new \in [Peers -> Marks],
           \A p \in Peers : ~Precedes(new[p], old[p]),
           NEW m \in DMs, ~Precedes(old[m.chat], MarkOf(m))
    PROVE  ~Precedes(new[m.chat], MarkOf(m))
  <1>1. m.chat \in Peers /\ MarkOf(m) \in Marks
    BY DMsAreOrdered DEF Marks
  <1>2. old[m.chat] \in Marks /\ new[m.chat] \in Marks
    BY <1>1
  <1> QED BY <1>1, <1>2, MarkOrder

\* A peer without a mark is seeded with a mark.
LEMMA SeedIsMark ==
    ASSUME readyAt \in Nat, NEW p \in Peers, stored \subseteq DMs,
           NEW seed \in Seed(History(p))
    PROVE  seed \in Mark
  <1>1. History(p) \subseteq DMs
    BY DEF History
  <1>2. [at |-> readyAt, id |-> 0] \in Mark
    BY DEF Mark
  <1>3. seed = [at |-> readyAt, id |-> 0] \/ \E m \in DMs : seed = MarkOf(m)
    BY <1>1 DEF Seed
  <1> QED BY <1>2, <1>3, DMsAreOrdered

-------------------------------------------------------------------------------
(***************************************************************************)
(* The inductive invariant                                                 *)
(***************************************************************************)

\* The catch-up works on missed DMs while it walks, oldest first, and they lie
\* between the mark of its copy and the moment it began.
WorkInv ==
    /\ Up => life # 0
    /\ peer # {} => phase = "walking"
    /\ peer \intersect todo = {}
    /\ phase \in {"down", "ready"} => walked = {}
    /\ \A m \in missed : /\ ~m.mine /\ m.at < readyAt
                         /\ Precedes(local[m.chat], MarkOf(m))

\* The mark of a noted DM's chat never falls behind it again, unless it was lost
\* with the file.  A later life does not come to it: the copy it makes has no mark
\* for the chat or is not behind the DM.
NotedInv ==
    \A m \in DMs \ unsaved :
        notedIn[m] # 0
        => /\ notedIn[m] <= life
           /\ ~Precedes(cursor[m.chat], MarkOf(m))
           /\ phase = "walking" /\ notedIn[m] # life
                => /\ m \notin missed
                   /\ m.chat \in todo => \/ local[m.chat] = NoMark
                                         \/ ~Precedes(local[m.chat], MarkOf(m))
           /\ \A n \in reacted[m] : n <= notedIn[m]

\* While the catch-up walks, its copy is as it was taken on a peer it has not
\* reached, and of a walked peer that had a mark each DM is missed, done with,
\* behind the mark that was copied, or too new and after the mark of the copy.
WalkInv ==
    phase = "walking"
    => /\ \A p \in todo : local[p] = base[p]
       /\ \A m \in walked :
            ~m.mine /\ m.chat \notin seeded
            => \/ m \in missed
               \/ life \in reacted[m] \/ m \in failed
               \/ ~Precedes(base[m.chat], MarkOf(m))
               \/ m.at >= readyAt /\ Precedes(local[m.chat], MarkOf(m))

CatchupInv == TypeOK /\ WorkInv /\ NotedInv /\ WalkInv

LEMMA CatchupInvInit == Init => CatchupInv
  <1>1. Init => TypeOK
    <2> SUFFICES ASSUME Init PROVE TypeOK
      OBVIOUS
    <2>1. /\ cursor \in [Peers -> Mark \union {NoMark}]
          /\ local \in [Peers -> Mark \union {NoMark}]
          /\ base \in [Peers -> Mark \union {NoMark}]
      BY DEF Init
    <2>2. notedIn \in [DMs -> 0..MaxLives] /\ reacted \in [DMs -> SUBSET (1..life)]
      BY CatchupAssumption DEF Init
    <2>3. /\ life \in 0..MaxLives /\ now \in 0..MaxNow /\ readyAt \in 0..now
          /\ lapses \in 0..MaxLapses
      BY CatchupAssumption DEF Init
    <2> QED BY <2>1, <2>2, <2>3 DEF Init, TypeOK, Phases
  <1>2. Init => WorkInv /\ NotedInv /\ WalkInv
    BY DEF Init, WorkInv, NotedInv, WalkInv, Up
  <1> QED BY <1>1, <1>2 DEF CatchupInv

\* A lapse forgets no noted DM without a trace.
LEMMA LapseKeepsTrack ==
    ASSUME TypeOK, Lapse
    PROVE  /\ lapses' \in 0..MaxLapses /\ lapses' # lapses
           /\ unsaved \subseteq unsaved' /\ unsaved' \subseteq DMs
           /\ \A m \in DMs \ unsaved' :
                notedIn'[m] # 0 => ~Precedes(cursor'[m.chat], MarkOf(m))
  BY CatchupAssumption DEF TypeOK, Lapse

\* note_live: the mark of one chat moves forward, or the file is lost.
LEMMA NoteLiveKeepsInv ==
    ASSUME CatchupInv, NEW m \in DMs, NoteLive(m)
    PROVE  CatchupInv'
  <1> USE DEF CatchupInv
  <1>1. /\ cursor \in [Peers -> Marks] /\ local \in [Peers -> Marks]
        /\ notedIn' = [notedIn EXCEPT ![m] = life]
        /\ notedIn \in [DMs -> 0..MaxLives] /\ life \in 0..MaxLives
        /\ UNCHANGED <<life, phase, local, todo, missed, reacted>>
    BY DEF TypeOK, Marks, NoteLive
  <1>2. /\ cursor' \in [Peers -> Marks]
        /\ lapses' \in 0..MaxLapses
        /\ unsaved \subseteq unsaved' /\ unsaved' \subseteq DMs
        /\ \A n \in DMs \ unsaved' :
             notedIn'[n] # 0 => ~Precedes(cursor'[n.chat], MarkOf(n))
    <2>1. CASE cursor' = Bump(cursor, m) /\ UNCHANGED fileVars
      <3>1. /\ cursor' \in [Peers -> Marks]
            /\ \A p \in Peers : ~Precedes(cursor'[p], cursor[p])
            /\ ~Precedes(cursor'[m.chat], MarkOf(m))
        BY <1>1, <2>1, BumpGrows
      <3>2. \A n \in DMs : ~Precedes(cursor[n.chat], MarkOf(n))
                           => ~Precedes(cursor'[n.chat], MarkOf(n))
        BY <1>1, <3>1, PassedStaysPassed
      <3>3. \A n \in DMs : n # m => notedIn'[n] = notedIn[n]
        BY <1>1
      <3>4. unsaved' = unsaved /\ lapses' = lapses
        BY <2>1 DEF fileVars
      <3> QED BY <3>1, <3>2, <3>3, <3>4 DEF NotedInv, TypeOK
    <2>2. CASE cursor' \in FailedBumps(cursor, m) /\ Lapse
      <3>1. cursor' \in [Peers -> Marks]
        BY <1>1, <2>2, LapseTypes
      <3> QED BY <2>2, <3>1, LapseKeepsTrack
    <2> QED BY <2>1, <2>2 DEF NoteLive
  <1>3. TypeOK'
    BY <1>1, <1>2 DEF NoteLive, TypeOK, Marks
  <1>4. WorkInv'
    BY DEF NoteLive, WorkInv, Up
  <1>5. NotedInv'
    <2> SUFFICES ASSUME NEW n \in DMs \ unsaved', notedIn'[n] # 0
                 PROVE  /\ notedIn'[n] <= life
                        /\ phase = "walking" /\ notedIn'[n] # life
                             => /\ n \notin missed
                                /\ n.chat \in todo =>
                                     \/ local[n.chat] = NoMark
                                     \/ ~Precedes(local[n.chat], MarkOf(n))
                        /\ \A k \in reacted[n] : k <= notedIn'[n]
      BY <1>1, <1>2 DEF NotedInv
    <2>1. CASE n = m
      <3>1. notedIn'[n] = life /\ reacted[n] \subseteq 1..life
        BY <1>1, <2>1 DEF TypeOK
      <3> QED BY <1>1, <3>1
    <2>2. CASE n # m
      <3>1. notedIn'[n] = notedIn[n] /\ n \in DMs \ unsaved
        BY <1>1, <1>2, <2>2
      <3> QED BY <3>1 DEF NotedInv
    <2> QED BY <2>1, <2>2
  <1>6. WalkInv'
    BY DEF NoteLive, WalkInv
  <1> QED BY <1>3, <1>4, <1>5, <1>6

\* The catch-up begins with a copy of the file, or of nothing, and nothing walked.
LEMMA BeginKeepsInv ==
    ASSUME CatchupInv, Begin
    PROVE  CatchupInv'
  <1> USE DEF CatchupInv
  <1>1. cursor \in [Peers -> Marks] /\ missed = {} /\ walked = {}
    BY DEF Begin, TypeOK, WorkInv, Marks
  <1>2. /\ local' \in [Peers -> Marks] /\ base' = local'
        /\ \A p \in Peers : local'[p] \in {cursor[p], NoMark}
        /\ lapses' \in 0..MaxLapses
        /\ unsaved \subseteq unsaved' /\ unsaved' \subseteq DMs
    <2>1. CASE local' = cursor /\ UNCHANGED fileVars
      BY <1>1, <2>1 DEF Begin, fileVars, TypeOK
    <2>2. CASE local' = Emptied(cursor) /\ Lapse
      <3>1. local' \in [Peers -> Marks] /\ \A p \in Peers : local'[p] = NoMark
        BY <1>1, <2>2 DEF Emptied, Marks
      <3> QED BY <2>2, <3>1, LapseKeepsTrack DEF Begin
    <2> QED BY <2>1, <2>2 DEF Begin
  <1>3. TypeOK'
    <2>1. readyAt' \in 0..now'
      BY CatchupAssumption DEF Begin, TypeOK
    <2> QED BY <1>2, <2>1 DEF Begin, TypeOK, Phases, Marks
  <1>4. WorkInv'
    BY <1>1 DEF Begin, TypeOK, WorkInv, Up
  <1>5. NotedInv'
    <2> SUFFICES ASSUME NEW m \in DMs \ unsaved', notedIn[m] # 0
                 PROVE  \/ local'[m.chat] = NoMark
                        \/ ~Precedes(local'[m.chat], MarkOf(m))
      BY <1>1, <1>2 DEF Begin, NotedInv
    <2>1. ~Precedes(cursor[m.chat], MarkOf(m))
      BY <1>2 DEF NotedInv
    <2>2. m.chat \in Peers
      BY DMsAreOrdered
    <2> QED BY <1>2, <2>1, <2>2
  <1>6. WalkInv'
    BY <1>1, <1>2 DEF Begin, WalkInv
  <1> QED BY <1>3, <1>4, <1>5, <1>6

\* A history is loaded: its peer is seeded, or its missed DMs are found.
LEMMA LoadHistoryKeepsInv ==
    ASSUME CatchupInv, NEW p \in Peers, LoadHistory(p)
    PROVE  CatchupInv'
  <1> USE DEF CatchupInv
  <1>1. History(p) \subseteq stored /\ \A m \in History(p) : m.chat = p
    BY DEF History
  <1>2. /\ missed = {} /\ stored \subseteq DMs /\ readyAt \in Nat
        /\ cursor \in [Peers -> Marks] /\ local \in [Peers -> Marks]
    <2>1. missed = {} /\ stored \subseteq DMs
      BY DEF LoadHistory, TypeOK
    <2>2. readyAt \in Nat
      BY CatchupAssumption DEF TypeOK
    <2> QED BY <2>1, <2>2 DEF TypeOK, Marks
  <1>3. CASE local[p] = NoMark
    <2>1. PICK seed \in Seed(History(p)) : local' = [local EXCEPT ![p] = seed]
      BY <1>3 DEF LoadHistory
    <2>2. seed \in Mark
      BY <1>2, SeedIsMark
    <2>3. seeded' = seeded \union {p} /\ UNCHANGED <<peer, missed>>
      BY <1>3 DEF LoadHistory
    <2>4. TypeOK'
      BY <1>1, <1>2, <2>1, <2>2, <2>3 DEF LoadHistory, TypeOK, fileVars
    <2>5. WorkInv'
      BY <1>2, <2>3 DEF LoadHistory, WorkInv, Up
    <2>6. NotedInv'
      <3>1. \A q \in Peers : q \in todo' => local'[q] = local[q] /\ q \in todo
        BY <1>2, <2>1 DEF LoadHistory
      <3> QED BY <1>2, <2>3, <3>1 DEF LoadHistory, NotedInv, TypeOK, fileVars
    <2>7. WalkInv'
      BY <1>1, <1>2, <2>1, <2>3, DMsAreOrdered DEF LoadHistory, WalkInv, TypeOK
    <2> QED BY <2>4, <2>5, <2>6, <2>7
  <1>4. CASE local[p] # NoMark
    <2>1. /\ peer' = {p} /\ missed' = MissedInbound(History(p), local[p])
          /\ UNCHANGED <<local, seeded>>
      BY <1>4 DEF LoadHistory
    <2>2. \A m \in History(p) :
            m \in missed' <=> /\ ~m.mine /\ m.at < readyAt
                              /\ Precedes(local[p], MarkOf(m))
      BY <2>1 DEF MissedInbound
    <2>3. missed' \subseteq History(p)
      BY <2>1 DEF MissedInbound
    <2>4. TypeOK'
      BY <1>1, <2>1, <2>3 DEF LoadHistory, TypeOK, fileVars
    <2>5. WorkInv'
      BY <1>1, <2>1, <2>2, <2>3 DEF LoadHistory, WorkInv, Up
    <2>6. NotedInv'
      <3> SUFFICES ASSUME NEW m \in DMs \ unsaved, notedIn[m] # 0, notedIn[m] # life
                   PROVE  m \notin missed'
        BY <2>1 DEF LoadHistory, NotedInv, fileVars
      <3>1. CASE m.chat # p
        BY <1>1, <2>3, <3>1
      <3>2. CASE m.chat = p
        <4>1. ~Precedes(local[p], MarkOf(m))
          BY <1>4, <3>2 DEF LoadHistory, NotedInv
        <4> QED BY <2>2, <2>3, <4>1
      <3> QED BY <3>1, <3>2
    <2>7. WalkInv'
      <3>1. \A m \in History(p) :
              ~m.mine => \/ m \in missed'
                         \/ ~Precedes(base[m.chat], MarkOf(m))
                         \/ m.at >= readyAt /\ Precedes(local[m.chat], MarkOf(m))
        <4>1. local[p] = base[p]
          BY DEF LoadHistory, WalkInv
        <4>2. \A m \in History(p) : m.chat = p /\ m.at \in Nat /\ m \in DMs
          BY <1>1, <1>2, DMsAreOrdered
        <4> QED BY <1>2, <2>2, <4>1, <4>2
      <3> QED BY <1>2, <2>1, <3>1 DEF LoadHistory, WalkInv
    <2> QED BY <2>4, <2>5, <2>6, <2>7
  <1> QED BY <1>3, <1>4

\* A reaction: the copy's mark of the chat moves to the oldest missed DM, or
\* stays.
LEMMA ReactKeepsInv ==
    ASSUME CatchupInv, NEW m \in DMs, React(m)
    PROVE  CatchupInv'
  <1> USE DEF CatchupInv
  <1>1. /\ m \in missed /\ missed' = missed \ {m} /\ phase = "walking"
        /\ stored \subseteq DMs /\ missed \subseteq DMs /\ walked \subseteq DMs
        /\ peer = {m.chat} /\ m.chat \in Peers
        /\ cursor \in [Peers -> Marks] /\ local \in [Peers -> Marks]
        /\ reacted \in [DMs -> SUBSET (1..life)] /\ life \in 1..MaxLives
    <2>1. m \in missed /\ peer = {m.chat} /\ phase = "walking"
      BY DEF React, TypeOK, WorkInv
    <2>2. life \in 1..MaxLives
      BY <2>1, CatchupAssumption DEF TypeOK, WorkInv, Up
    <2> QED BY <2>1, <2>2 DEF React, TypeOK, Marks
  <1>2. CASE /\ reacted' = [reacted EXCEPT ![m] = @ \union {life}]
             /\ local' = [local EXCEPT ![m.chat] = MarkOf(m)]
             /\ UNCHANGED failed
    <2>1. /\ local'[m.chat] = MarkOf(m) /\ MarkOf(m) \in Marks
          /\ Precedes(local[m.chat], MarkOf(m)) /\ m.at < readyAt
      BY <1>1, <1>2, DMsAreOrdered DEF WorkInv, Marks
    <2>2. TypeOK'
      <3>1. local' \in [Peers -> Mark \union {NoMark}]
        BY <1>1, <1>2, <2>1 DEF Marks
      <3>2. reacted' \in [DMs -> SUBSET (1..life)]
        BY <1>1, <1>2
      <3> QED BY <1>1, <1>2, <3>1, <3>2 DEF React, TypeOK, fileVars
    <2>3. WorkInv'
      <3>1. \A n \in missed' : Precedes(MarkOf(m), MarkOf(n))
        BY <1>1, DMsAreOrdered DEF React
      <3>2. \A n \in missed : n.chat = m.chat
        BY <1>1 DEF TypeOK
      <3> QED BY <1>1, <2>1, <3>1, <3>2 DEF React, WorkInv, Up
    <2>5. NotedInv'
      <3>1. m \notin unsaved /\ notedIn[m] # 0 => notedIn[m] = life
        BY <1>1 DEF NotedInv
      <3>2. \A q \in todo : local'[q] = local[q]
        BY <1>1, <1>2 DEF WorkInv, TypeOK
      <3> QED BY <1>1, <1>2, <3>1, <3>2 DEF React, NotedInv, TypeOK, fileVars
    <2>6. WalkInv'
      <3>1. \A p \in todo : local'[p] = local[p]
        BY <1>1, <1>2 DEF WorkInv, TypeOK
      <3>2. \A n \in walked :
              n.at >= readyAt /\ Precedes(local[n.chat], MarkOf(n))
              => Precedes(local'[n.chat], MarkOf(n))
        <4> SUFFICES ASSUME NEW n \in walked, n.at >= readyAt,
                            Precedes(local[n.chat], MarkOf(n))
                     PROVE  Precedes(local'[n.chat], MarkOf(n))
          OBVIOUS
        <4>1. CASE n.chat = m.chat
          <5>1. local'[n.chat] = MarkOf(m) /\ m.at < n.at
            BY <1>1, <2>1, <4>1, DMsAreOrdered, CatchupAssumption DEF TypeOK
          <5> QED BY <5>1 DEF Precedes, MarkOf
        <4>2. CASE n.chat # m.chat
          BY <1>1, <1>2, <4>2, DMsAreOrdered
        <4> QED BY <4>1, <4>2
      <3>3. \A n \in walked : n \in missed => n \in missed' \/ life \in reacted'[n]
        BY <1>1, <1>2
      <3>4. \A n \in walked : life \in reacted[n] => life \in reacted'[n]
        BY <1>1, <1>2
      <3> QED BY <1>1, <1>2, <3>1, <3>2, <3>3, <3>4 DEF React, WalkInv
    <2> QED BY <2>2, <2>3, <2>5, <2>6
  <1>3. CASE failed' = failed \union {m} /\ UNCHANGED <<reacted, local>>
    <2>1. TypeOK'
      BY <1>1, <1>3 DEF React, TypeOK, fileVars
    <2>2. WorkInv' /\ NotedInv' /\ WalkInv'
      BY <1>1, <1>3 DEF React, WorkInv, NotedInv, WalkInv, Up, fileVars
    <2> QED BY <2>1, <2>2
  <1> QED BY <1>2, <1>3 DEF React

\* The merge moves no mark of the file back unless the file is lost, and the walk
\* is over.
LEMMA MergeKeepsInv ==
    ASSUME CatchupInv, Merge
    PROVE  CatchupInv'
  <1> USE DEF CatchupInv
  <1>1. cursor \in [Peers -> Marks] /\ local \in [Peers -> Marks]
    BY DEF TypeOK, Marks
  <1>2. /\ cursor' \in [Peers -> Marks]
        /\ lapses' \in 0..MaxLapses
        /\ unsaved \subseteq unsaved' /\ unsaved' \subseteq DMs
        /\ \A n \in DMs \ unsaved' :
             notedIn[n] # 0 => ~Precedes(cursor'[n.chat], MarkOf(n))
    <2>1. CASE cursor' = MergeMarks(cursor, local) /\ UNCHANGED fileVars
      <3>1. /\ cursor' \in [Peers -> Marks]
            /\ \A p \in Peers : ~Precedes(cursor'[p], cursor[p])
        BY <1>1, <2>1, MergeGrows
      <3>2. \A n \in DMs : ~Precedes(cursor[n.chat], MarkOf(n))
                           => ~Precedes(cursor'[n.chat], MarkOf(n))
        BY <1>1, <3>1, PassedStaysPassed
      <3> QED BY <2>1, <3>1, <3>2 DEF fileVars, NotedInv, TypeOK
    <2>2. CASE cursor' \in FailedMerges(cursor, local) /\ Lapse
      <3>1. cursor' \in [Peers -> Marks]
        BY <1>1, <2>2, FailedMergesType
      <3> QED BY <2>2, <3>1, LapseKeepsTrack DEF Merge
    <2> QED BY <2>1, <2>2 DEF Merge
  <1>3. TypeOK'
    BY <1>2 DEF Merge, TypeOK, Phases, taskVars, Marks
  <1>4. WorkInv' /\ WalkInv'
    BY DEF Merge, AllWalked, WorkInv, WalkInv, Up, taskVars
  <1>5. NotedInv'
    BY <1>2 DEF Merge, NotedInv, taskVars
  <1> QED BY <1>3, <1>4, <1>5

\* A death takes the tasks and their variables with it.
LEMMA DiesKeepsInv ==
    ASSUME CatchupInv, Crash \/ CrashInSave
    PROVE  CatchupInv'
  <1> USE DEF CatchupInv
  <1>1. NoMarks \in [Peers -> Mark \union {NoMark}] /\ Dies
    BY DEF NoMarks, Crash, CrashInSave
  <1>2. /\ cursor' \in [Peers -> Mark \union {NoMark}]
        /\ lapses' \in 0..MaxLapses
        /\ unsaved \subseteq unsaved' /\ unsaved' \subseteq DMs
        /\ \A n \in DMs \ unsaved' :
             notedIn[n] # 0 => ~Precedes(cursor'[n.chat], MarkOf(n))
    <2>1. CASE Crash
      BY <2>1 DEF Crash, fileVars, TypeOK, NotedInv
    <2>2. CASE CrashInSave
      <3>1. cursor' \in [Peers -> Mark \union {NoMark}]
        BY <2>2 DEF CrashInSave, Emptied, TypeOK
      <3> QED BY <1>1, <2>2, <3>1, LapseKeepsTrack DEF CrashInSave, Dies
    <2> QED BY <2>1, <2>2
  <1>3. TypeOK'
    BY <1>1, <1>2, CatchupAssumption DEF Dies, TypeOK, Phases
  <1>4. WorkInv' /\ WalkInv'
    BY <1>1 DEF Dies, WorkInv, WalkInv, Up
  <1>5. NotedInv'
    BY <1>1, <1>2 DEF Dies, NotedInv
  <1> QED BY <1>3, <1>4, <1>5

\* One step per action.
LEMMA CatchupInvNext ==
    ASSUME CatchupInv, [Next]_catchupVars
    PROVE  CatchupInv'
  <1> USE CatchupAssumption DEF taskVars, historyVars, fileVars, Up
  <1>1. CASE UNCHANGED catchupVars
    BY <1>1 DEF catchupVars, CatchupInv, TypeOK, WorkInv, NotedInv, WalkInv
  <1>2. CASE Start
    BY <1>2 DEF Start, CatchupInv, TypeOK, WorkInv, NotedInv, WalkInv, Phases
  <1>3. ASSUME NEW m \in DMs, ArrivesWhileDown(m) PROVE CatchupInv'
    BY <1>3 DEF ArrivesWhileDown, CatchupInv, TypeOK, WorkInv, NotedInv, WalkInv
  <1>4. ASSUME NEW m \in DMs, ArrivesLive(m) PROVE CatchupInv'
    BY <1>4 DEF ArrivesLive, CatchupInv, TypeOK, WorkInv, NotedInv, WalkInv
  <1>5. ASSUME NEW m \in DMs, Accepts(m) PROVE CatchupInv'
    BY <1>5 DEF Accepts, CatchupInv, TypeOK, WorkInv, NotedInv, WalkInv
  <1>6. CASE NextPeer
    BY <1>6 DEF NextPeer, CatchupInv, TypeOK, WorkInv, NotedInv, WalkInv
  <1>7. CASE Tick
    BY <1>7 DEF Tick, CatchupInv, TypeOK, WorkInv, NotedInv, WalkInv
  <1> QED
    BY <1>1, <1>2, <1>3, <1>4, <1>5, <1>6, <1>7, NoteLiveKeepsInv, BeginKeepsInv,
       LoadHistoryKeepsInv, ReactKeepsInv, MergeKeepsInv, DiesKeepsInv
       DEF Next, ProcessNext

LEMMA CatchupInvHolds == Spec => []CatchupInv
  BY CatchupInvInit, CatchupInvNext, PTL DEF Spec

-------------------------------------------------------------------------------
(***************************************************************************)
(* The theorems                                                            *)
(***************************************************************************)

\* The variables keep their types; the catch-up reacts to the DMs of one peer at
\* a time, DMs it has loaded.
THEOREM CatchupTyped == Spec => []TypeOK
  BY CatchupInvHolds, PTL DEF CatchupInv

\* note_live's promise: a DM noted in one life gets no reaction in a later one,
\* unless a read or write of missed-seen.json that failed has lost its mark.
THEOREM NotedStaysUnmarked == Spec => []NotedIsNotReacted
  <1>1. CatchupInv => NotedIsNotReacted
    BY DEF CatchupInv, NotedInv, NotedIsNotReacted
  <1> QED BY <1>1, CatchupInvHolds, PTL

\* The two writers of the file move no mark back: only a read or write that fails
\* or is cut short does.
THEOREM MarksOnlyAdvance == Spec => MarksNeverRetreat
  <1>1. ASSUME CatchupInv, [Next]_catchupVars, NEW p \in Peers,
               Precedes(cursor'[p], cursor[p])
        PROVE  lapses' # lapses
    <2>1. cursor \in [Peers -> Marks] /\ local \in [Peers -> Marks] /\ TypeOK
      BY <1>1 DEF CatchupInv, TypeOK, Marks
    <2>2. cursor' # cursor
      BY <1>1, <2>1, MarkOrder
    <2>3. (\E m \in DMs : NoteLive(m)) \/ Merge \/ CrashInSave
      BY <1>1, <2>2 DEF Next, ProcessNext, catchupVars, Begin, LoadHistory, React,
                        NextPeer, Start, ArrivesWhileDown, ArrivesLive, Accepts,
                        Crash, Tick
    <2>4. \/ Lapse
          \/ \E m \in DMs : cursor' = Bump(cursor, m)
          \/ cursor' = MergeMarks(cursor, local)
      BY <2>3 DEF NoteLive, Merge, CrashInSave
    <2> QED BY <1>1, <2>1, <2>4, BumpGrows, MergeGrows, LapseKeepsTrack
  <1>2. CatchupInv /\ [Next]_catchupVars
        => [\A p \in Peers : Precedes(cursor'[p], cursor[p])
                             => lapses' # lapses]_catchupVars
    BY <1>1
  <1> QED BY <1>2, CatchupInvHolds, PTL DEF Spec, MarksNeverRetreat

\* What the merge of a catch-up passes of the DMs it loaded has its reaction, but
\* on a seeded peer, after a failed one, and where the file had passed it before.
THEOREM MergeSkipsNothing == Spec => MergePassesOnlyMarked
  <1> DEFINE Passed(m) == /\ ~m.mine
                          /\ Precedes(cursor[m.chat], MarkOf(m))
                          /\ ~Precedes(cursor'[m.chat], MarkOf(m))
             Done(m) == \/ life \in reacted[m]
                        \/ m \in failed
                        \/ m.chat \in seeded
                        \/ ~Precedes(base[m.chat], MarkOf(m))
  <1>1. ASSUME CatchupInv, Next, phase = "walking", phase' = "merged",
               NEW m \in walked, Passed(m)
        PROVE  Done(m)
    <2>1. Merge
      BY <1>1 DEF Next, ProcessNext, NoteLive, Begin, LoadHistory, React, NextPeer,
                  Start, ArrivesWhileDown, ArrivesLive, Accepts, Crash,
                  CrashInSave, Dies, Tick
    <2>2. /\ m \in DMs /\ m \notin missed
          /\ cursor \in [Peers -> Marks] /\ local \in [Peers -> Marks]
      BY <1>1, <2>1 DEF CatchupInv, TypeOK, Merge, AllWalked, Marks
    <2>3. ~Precedes(local[m.chat], MarkOf(m))
      <3>1. m.chat \in Peers
        BY <2>2, DMsAreOrdered
      <3>2. \/ cursor' = MergeMarks(cursor, local)
            \/ cursor' \in FailedMerges(cursor, local)
        BY <2>1 DEF Merge
      <3>3. cursor'[m.chat] \in {cursor[m.chat], NoMark, local[m.chat]}
        BY <2>2, <3>1, <3>2, MergeGrows, FailedMergesType
      <3> QED BY <1>1, <2>2, <3>3, DMsAreOrdered
    <2> QED BY <1>1, <2>2, <2>3 DEF CatchupInv, WalkInv
  <1>2. CatchupInv /\ [Next]_catchupVars
        => [phase = "walking" /\ phase' = "merged"
            => \A m \in walked : Passed(m) => Done(m)]_catchupVars
    BY <1>1
  <1> QED BY <1>2, CatchupInvHolds, PTL DEF Spec, MergePassesOnlyMarked
===============================================================================
