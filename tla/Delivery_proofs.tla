---------------------------- MODULE Delivery_proofs ----------------------------
(***************************************************************************)
(* What TLAPS proves of EventHub and of Delivery, for any items, any       *)
(* number of publishers and connections and any ring.  Of the hub: its     *)
(* ring, the room of a replay, its counter and missed-seen.json.  Of       *)
(* the listener with it: a connection that has gone quiet has tried, or    *)
(* lost to a full queue, all that lies behind its resume point, which is   *)
(* the promise of a replay that skips nothing (no horizon, a budget of the *)
(* whole ring); and a message meets one fate, as MessageLife has it.       *)
(***************************************************************************)
EXTENDS Delivery, SequenceTheorems, FiniteSetTheorems, TLAPS

USE DEF Conns, Tasks

-------------------------------------------------------------------------------
(***************************************************************************)
(* The operators the hub is built from                                     *)
(***************************************************************************)

\* Append in the form the steps below use.
LEMMA AppendType ==
  \A S : \A s \in Seq(S), e \in S : /\ Append(s, e) \in Seq(S)
                                   /\ Append(s, e) # <<>>
                                   /\ Len(Append(s, e)) = Len(s) + 1
BY AppendProperties

\* The transient item the hub publishes itself is an item.
LEMMA ReadyItemType == ReadyItem \in Item
<1>1. (CHOOSE c \in Chats : TRUE) \in Chats
  BY HubAssumption
<1>2. QED
  BY <1>1 DEF ReadyItem, Item, Kinds

LEMMA ItemsType == Items \subseteq Item
BY HubAssumption

\* The mark of an item is a mark, and marks are linearly ordered; NoMark
\* precedes every one of them.
LEMMA MarkOrder ==
  /\ \A i \in Item : MarkOf(i) \in Mark
  /\ \A m, n \in Mark \union {NoMark} :
        Precedes(m, n) => ~Precedes(n, m)
  /\ \A m, n, o \in Mark \union {NoMark} :
        ~Precedes(n, m) /\ ~Precedes(o, n) => ~Precedes(o, m)
  /\ \A m \in Mark : Precedes(NoMark, m)
BY DEF Mark, NoMark, MarkOf, Item, Precedes

\* Pushing keeps a ring of items within its capacity, and the last element is
\* the one pushed.
LEMMA PushRingType ==
  ASSUME NEW r \in Seq(Item), Len(r) <= RingCap, NEW i \in Item
  PROVE  /\ PushRing(r, i) \in Seq(Item)
         /\ Len(PushRing(r, i)) = IF Len(r) = RingCap THEN RingCap
                                                      ELSE Len(r) + 1
         /\ \A k \in 1..Len(PushRing(r, i)) :
               PushRing(r, i)[k] = IF Len(r) = RingCap THEN Append(r, i)[k + 1]
                                                       ELSE Append(r, i)[k]
<1> DEFINE pushed == Append(r, i)
<1>1. /\ pushed \in Seq(Item)
      /\ Len(pushed) = Len(r) + 1
      /\ pushed # <<>>
  BY AppendProperties
<1>2. /\ Tail(pushed) \in Seq(Item)
      /\ Len(Tail(pushed)) = Len(r)
      /\ \A k \in 1..Len(Tail(pushed)) : Tail(pushed)[k] = pushed[k + 1]
  BY <1>1, HeadTailProperties
<1>3. Len(r) \in Nat /\ RingCap \in Nat
  BY HubAssumption
<1> HIDE DEF pushed
<1>4. CASE Len(r) = RingCap
  BY <1>1, <1>2, <1>3, <1>4 DEF PushRing, pushed
<1>5. CASE Len(r) < RingCap
  BY <1>1, <1>2, <1>3, <1>5 DEF PushRing, pushed
<1>6. QED
  BY <1>3, <1>4, <1>5

\* The plan hands over positions of the backlog only.
LEMMA PlanWithinBacklog ==
  ASSUME NEW b, NEW n, NEW h, NEW t
  PROVE  PlanPositions(b, n, h, t) \subseteq DOMAIN b
BY DEF PlanPositions

\* What a resuming client is sent is a suffix of the ring.
LEMMA BacklogType ==
  ASSUME ring \in Seq(Item), NEW last, NEW after \in ResumeAfter(last)
  PROVE  /\ SubSeq(ring, after + 1, Len(ring)) \in Seq(Item)
         /\ Len(SubSeq(ring, after + 1, Len(ring))) <= Len(ring)
<1>1. after \in 0..Len(ring)
  BY DEF ResumeAfter
<1>2. \A k \in after + 1..Len(ring) : ring[k] \in Item
  BY <1>1, ElementOfSeq
<1>3. QED
  BY <1>1, <1>2, SubSeqProperties

-------------------------------------------------------------------------------
(***************************************************************************)
(* Type correctness                                                        *)
(***************************************************************************)

Hands == [to : 0..MaxConn, plan : Seq(Delivery), left : SUBSET Nat,
          noting : Seq(Item)]

LEMMA DeliveryType ==
  /\ \A i \in Item : Live(i) \in Delivery
  /\ \A i \in Item, b \in BOOLEAN : Replayed(i, b) \in Delivery
BY DEF Live, Replayed, Delivery

\* The one task that hands over one live item.
LEMMA LiveHandType ==
  ASSUME NEW i \in Item, NEW c \in 0..MaxConn
  PROVE  /\ [to |-> c, plan |-> <<Live(i)>>, left |-> {1}, noting |-> <<>>]
                \in Hands
         /\ {1} \subseteq DOMAIN <<Live(i)>>
         /\ NoTask \in Hands
         /\ {} \subseteq DOMAIN NoTask.plan
<1>1. <<Live(i)>> \in Seq(Delivery)
  BY DeliveryType
<1>2. QED
  BY <1>1, HubAssumption DEF Hands, NoTask

\* What a task hands over next is one of its planned deliveries.
LEMMA HandedType ==
  ASSUME NEW t \in Tasks, hand \in [Tasks -> Hands], TypeOK,
         NEW k \in hand[t].left
  PROVE  /\ k \in DOMAIN hand[t].plan
         /\ hand[t].plan[k] \in Delivery
         /\ hand[t].plan[k].item \in Item
<1>1. hand[t].plan \in Seq(Delivery)
  BY DEF Hands
<1>2. k \in DOMAIN hand[t].plan
  BY DEF TypeOK
<1>3. hand[t].plan[k] \in Delivery
  BY <1>1, <1>2, ElementOfSeq
<1>4. QED
  BY <1>2, <1>3 DEF Delivery

\* A replay is a task, whatever the backlog.
LEMMA ReplayTaskType ==
  ASSUME NEW c \in Conns, NEW b \in Seq(Item)
  PROVE  /\ ReplayTask(c, b) \in Hands
         /\ ReplayTask(c, b).left \subseteq DOMAIN ReplayTask(c, b).plan
         /\ ReplayTask(c, b).noting = <<>>
         /\ Len(ReplayTask(c, b).plan) = Len(b)
<1> DEFINE kept == PlanPositions(b, ReplayMax, Horizon, now)
           plan == [k \in DOMAIN b |->
                      Replayed(b[k], Superseded(b, kept, k))]
<1>1. kept \subseteq DOMAIN b
  BY PlanWithinBacklog
<1>2. Len(b) \in Nat /\ DOMAIN b = 1..Len(b)
  OBVIOUS
<1> HIDE DEF kept
<1>3. \A k \in DOMAIN b : plan[k] \in Delivery
  <2> TAKE k \in DOMAIN b
  <2>1. b[k] \in Item
    BY ElementOfSeq
  <2>2. Superseded(b, kept, k) \in BOOLEAN
    BY DEF Superseded
  <2>3. QED
    BY <2>1, <2>2, DeliveryType
<1>4. plan \in Seq(Delivery) /\ Len(plan) = Len(b)
  BY <1>2, <1>3, IsASeq
<1> HIDE DEF plan
<1>5. DOMAIN plan = DOMAIN b
  BY <1>2, <1>4
<1>6. ReplayTask(c, b) = [to |-> c, plan |-> plan, left |-> kept,
                          noting |-> <<>>]
  BY DEF ReplayTask, plan, kept
<1>7. c \in 0..MaxConn /\ kept \in SUBSET Nat
  BY <1>1, <1>2, HubAssumption
<1>8. QED
  BY <1>1, <1>4, <1>5, <1>6, <1>7 DEF Hands

\* Whatever becomes of the write, the marks are marks.
LEMMA FailedBumpsType ==
  ASSUME NEW cur \in [Chats -> Mark \union {NoMark}], NEW i \in Item
  PROVE  /\ Bump(cur, i) \in [Chats -> Mark \union {NoMark}]
         /\ Emptied(cur) \in [Chats -> {NoMark}]
         /\ FailedBumps(cur, i) \subseteq [Chats -> Mark \union {NoMark}]
<1>1. MarkOf(i) \in Mark
  BY MarkOrder
<1>2. \A c \in [Chats -> Mark \union {NoMark}] :
        Bump(c, i) \in [Chats -> Mark \union {NoMark}]
  BY <1>1 DEF Bump
<1>3. Emptied(cur) \in [Chats -> {NoMark}]
  BY DEF Emptied
<1>4. Emptied(cur) \in [Chats -> Mark \union {NoMark}]
  BY <1>3
<1>5. QED
  BY <1>2, <1>3, <1>4 DEF FailedBumps

LEMMA TypeInit == Init => TypeOK
<1> SUFFICES ASSUME Init PROVE TypeOK
  OBVIOUS
<1>1. NoTask \in Hands /\ NoTask.left \subseteq DOMAIN NoTask.plan
  BY HubAssumption DEF NoTask, Hands
<1>2. hand \in [Tasks -> Hands]
  BY <1>1 DEF Init
<1>3. \A t \in Tasks : hand[t].left \subseteq DOMAIN hand[t].plan
  BY <1>1 DEF Init
<1>4. cursor \in [Chats -> Mark \union {NoMark}]
  BY DEF Init
<1>5. tx \in 0..MaxConn
  BY HubAssumption DEF Init
<1>6. QED
  BY <1>2, <1>3, <1>4, <1>5 DEF Init, TypeOK, Stages, Hands

\* A client connects, whatever it resumes from.
LEMMA ConnectTyped ==
  ASSUME TypeOK, NEW c \in Conns, NEW last, Connect(c, last)
  PROVE  TypeOK'
<1>0. hand \in [Tasks -> Hands]
  BY DEF TypeOK, Hands
<1>1. PICK after \in ResumeAfter(last) :
        hand' = [hand EXCEPT ![c] =
                   ReplayTask(c, SubSeq(ring, after + 1, Len(ring)))]
  BY DEF Connect
<1> DEFINE h == ReplayTask(c, SubSeq(ring, after + 1, Len(ring)))
<1>2. h \in Hands /\ h.left \subseteq DOMAIN h.plan
  BY BacklogType, ReplayTaskType DEF TypeOK
<1> HIDE DEF h
<1>3. hand' = [hand EXCEPT ![c] = h]
  BY <1>1 DEF h
<1>4. /\ hand' \in [Tasks -> Hands]
      /\ \A t \in Tasks : hand'[t].left \subseteq DOMAIN hand'[t].plan
  BY <1>0, <1>2, <1>3 DEF TypeOK
<1>5. /\ open' \subseteq Conns
      /\ stage' \in [Conns -> Stages]
      /\ tx' \in 0..MaxConn
  BY HubAssumption DEF Connect, TypeOK, Stages
<1>6. QED
  BY <1>4, <1>5 DEF Connect, TypeOK, Hands

LEMMA TypeNext == TypeOK /\ [Next]_hubVars => TypeOK'
<1> SUFFICES ASSUME TypeOK, [Next]_hubVars PROVE TypeOK'
  OBVIOUS
<1> USE HubAssumption
<1>0. hand \in [Tasks -> Hands]
  BY DEF TypeOK, Hands
<1>1. ASSUME NEW p \in Publishers, NEW i \in Items, Publish(p, i)
      PROVE  TypeOK'
  <2>1. i \in Item
    BY ItemsType
  <2>2. ring' \in Seq(Item)
    <3>1. Append(ring, i) \in Seq(Item) /\ Append(ring, i) # <<>>
      BY <2>1, AppendType DEF TypeOK
    <3>2. Tail(Append(ring, i)) \in Seq(Item)
      BY <3>1, HeadTailProperties
    <3>3. QED
      BY <1>1, <3>1, <3>2 DEF Publish, PushRing, TypeOK
  <2>3. log' \in Seq(Item)
    <3>1. log \in Seq(Item) /\ Append(log, i) \in Seq(Item)
      BY <2>1, AppendType DEF TypeOK
    <3>2. QED
      BY <1>1, <3>1 DEF Publish
  <2>4. dropped' \in Nat
    BY <1>1 DEF Publish, TypeOK
  <2>5. /\ hand' \in [Tasks -> Hands]
        /\ \A t \in Tasks : hand'[t].left \subseteq DOMAIN hand'[t].plan
    <3> DEFINE h == [to |-> tx, plan |-> <<Live(i)>>, left |-> {1},
                     noting |-> <<>>]
    <3>1. h \in Hands /\ h.left \subseteq DOMAIN h.plan
      BY <2>1, LiveHandType DEF TypeOK
    <3>2. hand' = hand \/ hand' = [hand EXCEPT ![p] = h]
      BY <1>1 DEF Publish
    <3> HIDE DEF h
    <3>3. QED
      BY <1>0, <3>1, <3>2 DEF TypeOK
  <2>6. QED
    BY <1>1, <2>2, <2>3, <2>4, <2>5 DEF Publish, TypeOK, Hands
<1>2. ASSUME NEW c \in Conns, NEW last \in ResumeIds, Connect(c, last)
      PROVE  TypeOK'
  BY <1>2, ConnectTyped
<1>3. ASSUME NEW c \in Conns, PublishReady(c)
      PROVE  TypeOK'
  <2> DEFINE h == IF tx = 0 THEN NoTask
                  ELSE [to |-> tx, plan |-> <<Live(ReadyItem)>>,
                        left |-> {1}, noting |-> <<>>]
  <2>1. h \in Hands /\ h.left \subseteq DOMAIN h.plan
    BY LiveHandType, ReadyItemType DEF TypeOK, NoTask
  <2>2. hand' = [hand EXCEPT ![c] = h]
    BY <1>3 DEF PublishReady
  <2> HIDE DEF h
  <2>3. /\ hand' \in [Tasks -> Hands]
        /\ \A t \in Tasks : hand'[t].left \subseteq DOMAIN hand'[t].plan
    BY <1>0, <2>1, <2>2 DEF TypeOK
  <2>4. QED
    BY <1>3, <2>3 DEF PublishReady, TypeOK, Hands, Stages
<1>4. ASSUME NEW c \in Conns, Receive(c) \/ ClientGone(c)
      PROVE  TypeOK'
  <2>1. chan' \in [Conns -> Seq(Delivery)]
    <3>1. CASE Receive(c)
      BY <3>1, HeadTailProperties DEF Receive, TypeOK
    <3>2. CASE ClientGone(c)
      BY <3>2 DEF ClientGone, TypeOK
    <3>3. QED
      BY <1>4, <3>1, <3>2
  <2>2. QED
    BY <1>4, <2>1 DEF Receive, ClientGone, TypeOK
<1>5. ASSUME NEW t \in Tasks, HandOff(t)
      PROVE  TypeOK'
  <2>1. PICK k \in hand[t].left : Accept(t, k) \/ Refuse(t, k)
    BY <1>5 DEF HandOff
  <2>2. hand[t].plan[k] \in Delivery /\ hand[t].plan[k].item \in Item
    BY <1>0, HandedType
  <2>3. CASE Accept(t, k)
    <3>1. /\ hand' \in [Tasks -> Hands]
          /\ \A u \in Tasks : /\ hand'[u].left \subseteq hand[u].left
                              /\ hand'[u].plan = hand[u].plan
      <4> DEFINE n == IF TrackSeen(hand[t].plan[k].item)
                      THEN <<hand[t].plan[k].item>> ELSE <<>>
      <4>1. n \in Seq(Item)
        BY <2>2
      <4>2. hand' = [hand EXCEPT ![t].left = @ \ {k}, ![t].noting = n]
        BY <2>3 DEF Accept
      <4> HIDE DEF n
      <4>3. QED
        BY <1>0, <4>1, <4>2 DEF Hands
    <3>2. chan' \in [Conns -> Seq(Delivery)]
      BY <2>2, <2>3, AppendType DEF Accept, TypeOK
    <3>3. accepted' \subseteq Item
      BY <2>2, <2>3 DEF Accept, TypeOK
    <3>4. QED
      BY <1>5, <2>3, <3>1, <3>2, <3>3 DEF HandOff, Accept, TypeOK, Hands
  <2>4. CASE Refuse(t, k)
    <3>1. hand' = [hand EXCEPT ![t].left = @ \ {k}]
      BY <2>4 DEF Refuse
    <3>2. /\ hand' \in [Tasks -> Hands]
          /\ \A u \in Tasks : /\ hand'[u].left \subseteq hand[u].left
                              /\ hand'[u].plan = hand[u].plan
      BY <1>0, <3>1 DEF Hands
    <3>3. dropped' \in Nat
      BY <2>4 DEF Refuse, TypeOK
    <3>4. QED
      BY <1>5, <2>4, <3>2, <3>3 DEF HandOff, Refuse, TypeOK, Hands
  <2>5. QED
    BY <2>1, <2>3, <2>4
<1>6. ASSUME NEW t \in Tasks, Note(t)
      PROVE  TypeOK'
  <2>1. Head(hand[t].noting) \in Item
    BY <1>0, <1>6, HeadTailProperties DEF Note, Hands
  <2>2. /\ cursor' \in [Chats -> Mark \union {NoMark}]
        /\ unsaved' \subseteq Item
    <3> DEFINE i == Head(hand[t].noting)
    <3>1. /\ Bump(cursor, i) \in [Chats -> Mark \union {NoMark}]
          /\ FailedBumps(cursor, i) \subseteq [Chats -> Mark \union {NoMark}]
      BY <2>1, FailedBumpsType DEF TypeOK
    <3>2. NotCovered(cursor', t) \subseteq Item
      BY DEF NotCovered, TypeOK
    <3>3. \/ cursor' = Bump(cursor, i) /\ unsaved' = unsaved
          \/ /\ cursor' \in FailedBumps(cursor, i)
             /\ unsaved' = unsaved \union NotCovered(cursor', t)
      BY <1>6 DEF Note
    <3> HIDE DEF i
    <3> QED
      BY <3>1, <3>2, <3>3 DEF TypeOK
  <2>3. hand' = [hand EXCEPT ![t].noting = <<>>]
    BY <1>6 DEF Note
  <2>4. hand' \in [Tasks -> Hands]
    <3>1. <<>> \in Seq(Item)
      OBVIOUS
    <3>2. QED
      BY <1>0, <2>3, <3>1 DEF Hands
  <2>5. \A u \in Tasks : /\ hand'[u].left = hand[u].left
                         /\ hand'[u].plan = hand[u].plan
    BY <1>0, <2>3 DEF Hands
  <2>6. QED
    BY <1>6, <2>2, <2>4, <2>5 DEF Note, TypeOK, Hands
<1>7. CASE DisconnectAll
  BY <1>7 DEF DisconnectAll, TypeOK
<1>8. CASE Tick
  BY <1>8 DEF Tick, TypeOK
<1>9. CASE UNCHANGED hubVars
  BY <1>9 DEF hubVars, TypeOK
<1>10. QED
  BY <1>1, <1>2, <1>3, <1>4, <1>5, <1>6, <1>7, <1>8, <1>9 DEF Next

\* Every reachable state of the hub has its types.
THEOREM TypeCorrect == Spec => []TypeOK
BY TypeInit, TypeNext, PTL DEF Spec

-------------------------------------------------------------------------------
(***************************************************************************)
(* The ring                                                                *)
(***************************************************************************)

LEMMA RingInit == Init => RingIsNewest
BY HubAssumption DEF Init, RingIsNewest

\* Publishing keeps the ring the newest part of the log.
LEMMA RingPublish ==
  ASSUME TypeOK, RingIsNewest, NEW p \in Publishers, NEW i \in Items, Publish(p, i)
  PROVE  RingIsNewest'
<1> USE HubAssumption
<1>1. i \in Item /\ ring \in Seq(Item) /\ log \in Seq(Item)
  BY ItemsType DEF TypeOK
<1>2. /\ Len(ring) = IF Len(log) < RingCap THEN Len(log) ELSE RingCap
      /\ \A k \in 1..Len(ring) : ring[k] = log[Len(log) - Len(ring) + k]
  BY DEF RingIsNewest
<1>3. CASE Transient(i)
  BY <1>2, <1>3 DEF Publish, RingIsNewest
<1>4. CASE ~Transient(i)
  <2>1. ring' = PushRing(ring, i) /\ log' = Append(log, i)
    BY <1>4 DEF Publish
  <2>2. Len(ring) \in Nat /\ Len(log) \in Nat
    BY <1>1
  <2>3. /\ Len(ring') = IF Len(ring) = RingCap THEN RingCap ELSE Len(ring) + 1
        /\ \A k \in 1..Len(ring') :
              ring'[k] = IF Len(ring) = RingCap THEN Append(ring, i)[k + 1]
                                                ELSE Append(ring, i)[k]
    <3>1. Len(ring) <= RingCap
      BY <1>2, <2>2
    <3> DEFINE r == PushRing(ring, i)
    <3>2. /\ Len(r) = IF Len(ring) = RingCap THEN RingCap ELSE Len(ring) + 1
          /\ \A k \in 1..Len(r) :
                r[k] = IF Len(ring) = RingCap THEN Append(ring, i)[k + 1]
                                              ELSE Append(ring, i)[k]
      BY <1>1, <3>1, PushRingType
    <3> HIDE DEF r
    <3>3. ring' = r
      BY <2>1 DEF r
    <3>4. QED
      BY <3>2, <3>3
  <2>4. /\ Len(log') = Len(log) + 1
        /\ \A k \in 1..Len(log) : log'[k] = log[k]
        /\ log'[Len(log) + 1] = i
    BY <1>1, <2>1, AppendProperties
  <2>5. /\ \A k \in 1..Len(ring) : Append(ring, i)[k] = ring[k]
        /\ Append(ring, i)[Len(ring) + 1] = i
    BY <1>1, AppendProperties
  <2>6. Len(ring') = IF Len(log') < RingCap THEN Len(log') ELSE RingCap
    BY <1>2, <2>2, <2>3, <2>4
  <2>7. ASSUME NEW k \in 1..Len(ring')
        PROVE  ring'[k] = log'[Len(log') - Len(ring') + k]
    <3>1. CASE Len(ring) = RingCap
      <4>1. k \in 1..Len(ring) /\ ring'[k] = Append(ring, i)[k + 1]
        BY <2>2, <2>3, <3>1
      <4>2. Len(log') - Len(ring') + k = Len(log) - Len(ring) + (k + 1)
        BY <2>2, <2>3, <2>4, <3>1, <4>1
      <4>3. CASE k = Len(ring)
        BY <2>2, <2>4, <2>5, <4>1, <4>2, <4>3
      <4>4. CASE k < Len(ring)
        <5>1. k + 1 \in 1..Len(ring)
          BY <2>2, <4>1, <4>4
        <5>2. Len(log) - Len(ring) + (k + 1) \in 1..Len(log)
          BY <1>2, <2>2, <5>1
        <5>3. QED
          BY <1>2, <2>4, <2>5, <4>1, <4>2, <5>1, <5>2
      <4>5. QED
        BY <2>2, <4>1, <4>3, <4>4
    <3>2. CASE Len(ring) # RingCap
      <4>1. Len(ring) = Len(log) /\ Len(ring') = Len(log')
        BY <1>2, <2>2, <2>3, <2>4, <3>2
      <4>2. ring'[k] = Append(ring, i)[k]
        BY <2>3, <3>2
      <4>3. k \in 1..Len(ring) \/ k = Len(ring) + 1
        BY <2>2, <2>3, <3>2
      <4>4. Len(log') - Len(ring') + k = k
        BY <2>2, <2>4, <4>1, <4>3
      <4>5. CASE k = Len(ring) + 1
        BY <2>4, <2>5, <4>1, <4>2, <4>4, <4>5
      <4>6. CASE k \in 1..Len(ring)
        <5>1. Len(log) - Len(ring) + k = k
          BY <2>2, <4>1, <4>6
        <5>2. QED
          BY <1>2, <2>4, <2>5, <4>1, <4>2, <4>4, <4>6, <5>1
      <4>7. QED
        BY <4>3, <4>5, <4>6
    <3>3. QED
      BY <3>1, <3>2
  <2>8. QED
    BY <2>6, <2>7 DEF RingIsNewest
<1>5. QED
  BY <1>3, <1>4

LEMMA RingNext == TypeOK /\ RingIsNewest /\ [Next]_hubVars => RingIsNewest'
<1> SUFFICES ASSUME TypeOK, RingIsNewest, [Next]_hubVars PROVE RingIsNewest'
  OBVIOUS
<1>1. CASE \E p \in Publishers, i \in Items : Publish(p, i)
  BY <1>1, RingPublish
<1>2. CASE UNCHANGED <<ring, log>>
  BY <1>2 DEF RingIsNewest
<1>3. QED
  BY <1>1, <1>2 DEF Next, Connect, PublishReady, Receive, ClientGone, HandOff,
     Note, DisconnectAll, Tick, hubVars

\* However publishers and connections interleave, the ring is the newest part
\* of what was published, in order (EventHub::publish).
THEOREM RingCorrect == Spec => []RingIsNewest
BY RingInit, RingNext, TypeCorrect, PTL DEF Spec

-------------------------------------------------------------------------------
(***************************************************************************)
(* The queue of a replay                                                   *)
(***************************************************************************)

ReplayedIn(q) == {k \in DOMAIN q : q[k].replayed}

\* The queue of a connection with no receiver is empty, and so is that of a
\* connection still to come.
ClosedIsEmpty ==
    \A c \in Conns : /\ c \notin open => chan[c] = <<>>
                     /\ stage[c] = "new" => c \notin open

\* Only the task of a connection replays into its queue.
ReplaysItsOwn ==
    \A t \in Tasks :
        \A k \in DOMAIN hand[t].plan : hand[t].plan[k].replayed => hand[t].to = t

\* What a connection was replayed and what is left of its replay never come to
\* more than the ring holds: nothing is read before the replay is over.
ReplayWithinRing ==
    \A c \in open :
        stage[c] = "replaying" =>
            Cardinality(ReplayedIn(chan[c])) + Cardinality(hand[c].left)
                <= RingCap

RoomInv == ClosedIsEmpty /\ ReplaysItsOwn /\ ReplayWithinRing

\* The positions left of a plan are finitely many.
LEMMA FewPositions ==
  ASSUME NEW n \in Nat, NEW S \in SUBSET (1..n)
  PROVE  /\ IsFiniteSet(S)
         /\ Cardinality(S) \in Nat
         /\ Cardinality(S) <= n
<1>1. IsFiniteSet(1..n) /\ Cardinality(1..n) = n
  BY FS_Interval
<1>2. IsFiniteSet(S) /\ Cardinality(S) <= n
  BY <1>1, FS_Subset
<1>3. QED
  BY <1>2, FS_CardinalityType

LEMMA LeftIsFinite ==
  ASSUME TypeOK, NEW t \in Tasks
  PROVE  IsFiniteSet(hand[t].left) /\ Cardinality(hand[t].left) \in Nat
<1> DEFINE p == hand[t].plan
<1>1. p \in Seq(Delivery) /\ hand[t].left \subseteq DOMAIN p
  BY DEF TypeOK
<1> HIDE DEF p
<1>2. Len(p) \in Nat /\ DOMAIN p = 1..Len(p)
  BY <1>1
<1>3. hand[t].left \in SUBSET (1..Len(p))
  BY <1>1, <1>2
<1>4. QED
  BY <1>2, <1>3, FewPositions

\* The items of a queue are the replayed ones and the others.
LEMMA QueueParts ==
  ASSUME NEW q \in Seq(Delivery)
  PROVE  /\ IsFiniteSet(ReplayedIn(q))
         /\ Cardinality(ReplayedIn(q)) \in Nat
         /\ Cardinality({k \in DOMAIN q : ~q[k].replayed}) \in Nat
         /\ Len(q) = Cardinality(ReplayedIn(q))
                       + Cardinality({k \in DOMAIN q : ~q[k].replayed})
<1> DEFINE R == ReplayedIn(q)
           L == {k \in DOMAIN q : ~q[k].replayed}
<1>1. DOMAIN q = 1..Len(q) /\ Len(q) \in Nat
  OBVIOUS
<1>2. IsFiniteSet(DOMAIN q) /\ Cardinality(DOMAIN q) = Len(q)
  BY <1>1, FS_Interval
<1>3. R \subseteq DOMAIN q /\ L \subseteq DOMAIN q
  BY DEF ReplayedIn
<1>4. R \union L = DOMAIN q /\ R \intersect L = {}
  BY DEF ReplayedIn
<1> HIDE DEF R, L
<1>5. IsFiniteSet(R) /\ IsFiniteSet(L)
  BY <1>2, <1>3, FS_Subset
<1>6. Cardinality(R) \in Nat /\ Cardinality(L) \in Nat
  BY <1>5, FS_CardinalityType
<1>7. Cardinality(R \union L) = Cardinality(R) + Cardinality(L)
  <2>1. Cardinality(R \union L) =
          Cardinality(R) + Cardinality(L) - Cardinality(R \intersect L)
    BY <1>5, FS_Union
  <2>2. Cardinality(R \intersect L) = 0
    BY <1>4, FS_EmptySet
  <2>3. QED
    BY <1>6, <2>1, <2>2
<1>8. QED
  BY <1>2, <1>4, <1>5, <1>6, <1>7 DEF R, L

\* One more item in a queue is at most one more replayed item.
LEMMA QueueGrows ==
  ASSUME NEW q \in Seq(Delivery), NEW d \in Delivery
  PROVE  /\ Cardinality(ReplayedIn(Append(q, d)))
              <= Cardinality(ReplayedIn(q)) + 1
         /\ ~d.replayed => ReplayedIn(Append(q, d)) = ReplayedIn(q)
<1> DEFINE s == Append(q, d)
<1>1. /\ Len(s) = Len(q) + 1 /\ DOMAIN s = 1..Len(s)
      /\ \A k \in 1..Len(q) : s[k] = q[k]
      /\ s[Len(q) + 1] = d
      /\ DOMAIN q = 1..Len(q) /\ Len(q) \in Nat
  BY AppendProperties
<1> HIDE DEF s
<1>2. \A k \in DOMAIN s : k \in DOMAIN q \/ k = Len(q) + 1
  BY <1>1
<1>3. \A k \in DOMAIN q : k \in DOMAIN s /\ s[k] = q[k]
  BY <1>1
<1>4. CASE ~d.replayed
  <2>1. ReplayedIn(s) = ReplayedIn(q)
    BY <1>1, <1>2, <1>3, <1>4 DEF ReplayedIn
  <2>2. Cardinality(ReplayedIn(q)) \in Nat
    BY QueueParts
  <2>3. ReplayedIn(Append(q, d)) = ReplayedIn(q)
    BY <2>1 DEF s
  <2>4. QED
    BY <2>2, <2>3
<1>5. CASE d.replayed
  <2>1. ReplayedIn(s) = ReplayedIn(q) \union {Len(q) + 1}
    <3>1. Len(q) + 1 \in DOMAIN s
      BY <1>1
    <3>2. QED
      BY <1>1, <1>2, <1>3, <1>5, <3>1 DEF ReplayedIn
  <2>2. Len(q) + 1 \notin ReplayedIn(q)
    BY <1>1 DEF ReplayedIn
  <2>3. Cardinality(ReplayedIn(s)) = Cardinality(ReplayedIn(q)) + 1
    BY <2>1, <2>2, QueueParts, FS_AddElement
  <2>4. Cardinality(ReplayedIn(q)) \in Nat
    BY QueueParts
  <2>5. Cardinality(ReplayedIn(Append(q, d))) = Cardinality(ReplayedIn(q)) + 1
    BY <2>3 DEF s
  <2>6. QED
    BY <1>5, <2>4, <2>5
<1>6. QED
  BY <1>4, <1>5

LEMMA RoomInit == Init => RoomInv
<1> SUFFICES ASSUME Init PROVE RoomInv
  OBVIOUS
<1>1. ClosedIsEmpty
  BY DEF Init, ClosedIsEmpty
<1>2. \A t \in Tasks : hand[t].plan = <<>>
  BY DEF Init, NoTask
<1>3. ReplaysItsOwn
  BY <1>2 DEF ReplaysItsOwn
<1>4. ReplayWithinRing
  BY DEF Init, ReplayWithinRing
<1>5. QED
  BY <1>1, <1>3, <1>4 DEF RoomInv

\* A step that gives one task t something live to hand over, and leaves the
\* queues alone, preserves the invariant when no replay of t goes on after it.
LEMMA RoomFrame ==
  ASSUME RoomInv, NEW t,
         UNCHANGED <<chan, open>>,
         \A u \in Tasks : u # t => hand'[u] = hand[u],
         t \in Tasks =>
            \A k \in DOMAIN hand'[t].plan : ~hand'[t].plan[k].replayed,
         \A c \in Conns : /\ stage'[c] = "new" => stage[c] = "new"
                          /\ stage'[c] = "replaying" =>
                                stage[c] = "replaying" /\ c # t,
         open \subseteq Conns
  PROVE  RoomInv'
<1>1. ClosedIsEmpty'
  BY DEF RoomInv, ClosedIsEmpty
<1>2. ReplaysItsOwn'
  <2> SUFFICES ASSUME NEW u \in Tasks, NEW k \in DOMAIN hand'[u].plan,
                      hand'[u].plan[k].replayed
               PROVE  hand'[u].to = u
    BY DEF ReplaysItsOwn
  <2>1. u # t
    OBVIOUS
  <2>2. hand'[u] = hand[u]
    BY <2>1
  <2>3. QED
    BY <2>2 DEF RoomInv, ReplaysItsOwn
<1>3. ReplayWithinRing'
  <2> SUFFICES ASSUME NEW c \in open, stage'[c] = "replaying"
               PROVE  Cardinality(ReplayedIn(chan[c]))
                        + Cardinality(hand'[c].left) <= RingCap
    BY DEF ReplayWithinRing
  <2>1. c \in Conns /\ c # t /\ stage[c] = "replaying"
    OBVIOUS
  <2>2. hand'[c] = hand[c]
    BY <2>1
  <2>3. QED
    BY <2>1, <2>2 DEF RoomInv, ReplayWithinRing
<1>4. QED
  BY <1>1, <1>2, <1>3 DEF RoomInv

\* A client connects: its queue is empty and its replay within the ring.
LEMMA RoomConnect ==
  ASSUME TypeOK, RingIsNewest, RoomInv, NEW c \in Conns, NEW last,
         Connect(c, last)
  PROVE  RoomInv'
<1> USE HubAssumption
<1>0. /\ hand \in [Tasks -> Hands] /\ stage \in [Conns -> Stages]
      /\ open \subseteq Conns
  BY DEF TypeOK, Hands
<1>1. PICK after \in ResumeAfter(last) :
        hand' = [hand EXCEPT ![c] =
                   ReplayTask(c, SubSeq(ring, after + 1, Len(ring)))]
  BY DEF Connect
<1> DEFINE b == SubSeq(ring, after + 1, Len(ring))
           h == ReplayTask(c, b)
<1>2. b \in Seq(Item) /\ Len(b) <= Len(ring)
  BY BacklogType DEF TypeOK
<1>3. Len(ring) <= RingCap /\ Len(ring) \in Nat /\ RingCap \in Nat
  BY DEF RingIsNewest, TypeOK
<1> HIDE DEF b
<1>4. h.to = c /\ h.left = PlanPositions(b, ReplayMax, Horizon, now)
  BY DEF ReplayTask
<1>5. h.left \subseteq 1..Len(b) /\ Len(b) \in Nat
  BY <1>2, <1>4, PlanWithinBacklog
<1> HIDE DEF h
<1>6. Cardinality(h.left) <= RingCap /\ Cardinality(h.left) \in Nat
  <2>1. Cardinality(h.left) <= Len(b) /\ Cardinality(h.left) \in Nat
    BY <1>5, FewPositions
  <2>2. QED
    BY <1>2, <1>3, <1>5, <2>1
<1>7. /\ hand'[c] = h
      /\ \A t \in Tasks : t # c => hand'[t] = hand[t]
  BY <1>0, <1>1 DEF h, b
<1>8. /\ stage[c] = "new"
      /\ stage' = [stage EXCEPT ![c] = "replaying"]
      /\ open' = open \union {c} /\ chan' = chan
  BY DEF Connect
<1>9. chan[c] = <<>>
  BY <1>8 DEF RoomInv, ClosedIsEmpty
<1>10. ClosedIsEmpty'
  BY <1>0, <1>8 DEF RoomInv, ClosedIsEmpty
<1>11. ReplaysItsOwn'
  <2> SUFFICES ASSUME NEW u \in Tasks, NEW k \in DOMAIN hand'[u].plan,
                      hand'[u].plan[k].replayed
               PROVE  hand'[u].to = u
    BY DEF ReplaysItsOwn
  <2>1. CASE u = c
    BY <1>4, <1>7, <2>1
  <2>2. CASE u # c
    <3>1. hand'[u] = hand[u]
      BY <1>7, <2>2
    <3>2. QED
      BY <3>1 DEF RoomInv, ReplaysItsOwn
  <2>3. QED
    BY <2>1, <2>2
<1>12. ReplayWithinRing'
  <2> SUFFICES ASSUME NEW d \in open', stage'[d] = "replaying"
               PROVE  Cardinality(ReplayedIn(chan'[d]))
                        + Cardinality(hand'[d].left) <= RingCap
    BY DEF ReplayWithinRing
  <2>1. CASE d = c
    <3>1. ReplayedIn(chan'[d]) = {}
      BY <1>8, <1>9, <2>1 DEF ReplayedIn
    <3>2. QED
      BY <1>3, <1>6, <1>7, <2>1, <3>1, FS_EmptySet
  <2>2. CASE d # c
    <3>1. d \in open /\ d \in Conns
      BY <1>0, <1>8, <2>2
    <3>2. hand'[d] = hand[d] /\ stage[d] = "replaying"
      BY <1>0, <1>7, <1>8, <2>2, <3>1
    <3>3. QED
      BY <1>8, <3>1, <3>2 DEF RoomInv, ReplayWithinRing
  <2>3. QED
    BY <2>1, <2>2
<1>13. QED
  BY <1>10, <1>11, <1>12 DEF RoomInv

\* A hand-over takes one delivery from what is left, and at most that one
\* enters a queue.
LEMMA RoomHandOff ==
  ASSUME TypeOK, TypeOK', RoomInv, NEW t \in Tasks, HandOff(t)
  PROVE  RoomInv'
<1> USE HubAssumption
<1>0. /\ hand \in [Tasks -> Hands] /\ open \subseteq Conns
      /\ chan \in [Conns -> Seq(Delivery)]
  BY DEF TypeOK, Hands
<1>1. PICK k \in hand[t].left : Accept(t, k) \/ Refuse(t, k)
  BY DEF HandOff
<1>2. k \in DOMAIN hand[t].plan /\ hand[t].plan[k] \in Delivery
  BY <1>0, HandedType
<1> DEFINE a == hand[t].to
           d == hand[t].plan[k]
<1>3. /\ \A u \in Tasks : u # t => hand'[u] = hand[u]
      /\ hand'[t].left = hand[t].left \ {k}
      /\ \A u \in Tasks : /\ hand'[u].plan = hand[u].plan
                          /\ hand'[u].to = hand[u].to
  <2>1. CASE Accept(t, k)
    BY <1>0, <2>1 DEF Accept, Hands
  <2>2. CASE Refuse(t, k)
    BY <1>0, <2>2 DEF Refuse, Hands
  <2>3. QED
    BY <1>1, <2>1, <2>2
<1>4. UNCHANGED <<open, stage>>
  BY DEF HandOff
<1>5. \/ a \in open /\ chan' = [chan EXCEPT ![a] = Append(@, d)]
      \/ chan' = chan
  BY <1>1 DEF Accept, Refuse, CanSend
<1> HIDE DEF a, d
<1>6. \A c \in Conns : \/ chan'[c] = chan[c]
                       \/ c = a /\ c \in open /\ chan'[c] = Append(chan[c], d)
  BY <1>0, <1>5
<1>7. ClosedIsEmpty'
  BY <1>4, <1>6 DEF RoomInv, ClosedIsEmpty
<1>8. ReplaysItsOwn'
  BY <1>3 DEF RoomInv, ReplaysItsOwn
<1>9. ReplayWithinRing'
  <2> SUFFICES ASSUME NEW c \in open, stage[c] = "replaying"
               PROVE  Cardinality(ReplayedIn(chan'[c]))
                        + Cardinality(hand'[c].left) <= RingCap
    BY <1>4 DEF ReplayWithinRing
  <2>1. c \in Conns /\ c \in Tasks /\ chan[c] \in Seq(Delivery)
    BY <1>0
  <2>2. Cardinality(ReplayedIn(chan[c])) + Cardinality(hand[c].left) <= RingCap
    BY DEF RoomInv, ReplayWithinRing
  <2>3. Cardinality(ReplayedIn(chan[c])) \in Nat
    BY <2>1, QueueParts
  <2>4. IsFiniteSet(hand[c].left) /\ Cardinality(hand[c].left) \in Nat
    BY <2>1, LeftIsFinite
  <2>5. CASE c = t
    <3>1. Cardinality(hand'[c].left) = Cardinality(hand[c].left) - 1
      BY <1>3, <2>4, <2>5, FS_RemoveElement
    <3>2. Cardinality(ReplayedIn(chan'[c]))
            <= Cardinality(ReplayedIn(chan[c])) + 1
          /\ Cardinality(ReplayedIn(chan'[c])) \in Nat
      <4>1. d \in Delivery
        BY <1>2 DEF d
      <4>2. chan'[c] \in Seq(Delivery)
        BY <2>1 DEF TypeOK
      <4>3. Cardinality(ReplayedIn(chan'[c])) \in Nat
        BY <4>2, QueueParts
      <4>4. CASE chan'[c] = chan[c]
        BY <2>3, <4>4
      <4>5. CASE chan'[c] = Append(chan[c], d)
        BY <2>1, <4>1, <4>3, <4>5, QueueGrows
      <4>6. QED
        BY <1>6, <2>1, <4>4, <4>5
    <3>3. QED
      BY <2>2, <2>3, <2>4, <3>1, <3>2
  <2>6. CASE c # t
    <3>1. hand'[c] = hand[c]
      BY <1>3, <2>1, <2>6
    <3>2. ReplayedIn(chan'[c]) = ReplayedIn(chan[c])
      <4>1. CASE chan'[c] = chan[c]
        BY <4>1
      <4>2. CASE c = a /\ chan'[c] = Append(chan[c], d)
        <5>1. ~d.replayed
          BY <1>2, <2>6, <4>2 DEF a, d, RoomInv, ReplaysItsOwn
        <5>2. d \in Delivery
          BY <1>2 DEF d
        <5>3. QED
          BY <2>1, <4>2, <5>1, <5>2, QueueGrows
      <4>3. QED
        BY <1>6, <2>1, <4>1, <4>2
    <3>3. QED
      BY <2>2, <3>1, <3>2
  <2>7. QED
    BY <2>5, <2>6
<1>10. QED
  BY <1>7, <1>8, <1>9 DEF RoomInv

LEMMA RoomNext == TypeOK /\ RingIsNewest /\ RoomInv /\ [Next]_hubVars => RoomInv'
<1> SUFFICES ASSUME TypeOK, RingIsNewest, RoomInv, [Next]_hubVars
             PROVE  RoomInv'
  OBVIOUS
<1> USE HubAssumption
<1>0. /\ hand \in [Tasks -> Hands] /\ stage \in [Conns -> Stages]
      /\ open \subseteq Conns
      /\ chan \in [Conns -> Seq(Delivery)]
  BY DEF TypeOK, Hands
<1>1. ASSUME NEW p \in Publishers, NEW i \in Items, Publish(p, i)
      PROVE  RoomInv'
  <2> DEFINE h == [to |-> tx, plan |-> <<Live(i)>>, left |-> {1},
                   noting |-> <<>>]
  <2>1. UNCHANGED <<chan, open, stage>>
    BY <1>1 DEF Publish
  <2>2. hand' = hand \/ hand' = [hand EXCEPT ![p] = h]
    BY <1>1 DEF Publish
  <2>3. \A k \in DOMAIN h.plan : ~h.plan[k].replayed
    BY DEF Live
  <2>4. p \notin Conns
    OBVIOUS
  <2> HIDE DEF h
  <2>5. CASE hand' = [hand EXCEPT ![p] = h]
    <3>1. hand'[p] = h /\ \A u \in Tasks : u # p => hand'[u] = hand[u]
      BY <1>0, <2>5
    <3>2. QED
      BY <1>0, <2>1, <2>3, <2>4, <3>1, RoomFrame
  <2>6. CASE hand' = hand
    BY <2>1, <2>6 DEF RoomInv, ClosedIsEmpty, ReplaysItsOwn, ReplayWithinRing
  <2>7. QED
    BY <2>2, <2>5, <2>6
<1>2. ASSUME NEW c \in Conns, NEW last \in ResumeIds, Connect(c, last)
      PROVE  RoomInv'
  BY <1>2, RoomConnect
<1>3. ASSUME NEW c \in Conns, PublishReady(c)
      PROVE  RoomInv'
  <2> DEFINE h == IF tx = 0 THEN NoTask
                  ELSE [to |-> tx, plan |-> <<Live(ReadyItem)>>,
                        left |-> {1}, noting |-> <<>>]
  <2>1. \A k \in DOMAIN h.plan : ~h.plan[k].replayed
    BY DEF Live, NoTask
  <2>2. hand' = [hand EXCEPT ![c] = h]
        /\ stage' = [stage EXCEPT ![c] = "ready"]
        /\ UNCHANGED <<chan, open>>
    BY <1>3 DEF PublishReady
  <2> HIDE DEF h
  <2>3. hand'[c] = h /\ \A u \in Tasks : u # c => hand'[u] = hand[u]
    BY <1>0, <2>2
  <2>4. \A b \in Conns : /\ stage'[b] = "new" => stage[b] = "new"
                         /\ stage'[b] = "replaying" =>
                              stage[b] = "replaying" /\ b # c
    BY <1>0, <2>2
  <2>5. QED
    BY <1>0, <2>1, <2>2, <2>3, <2>4, RoomFrame
<1>4. ASSUME NEW c \in Conns, Receive(c) \/ ClientGone(c)
      PROVE  RoomInv'
  <2>1. /\ UNCHANGED <<hand, stage>>
        /\ open' \subseteq open
        /\ \A b \in Conns : b # c => chan'[b] = chan[b]
        /\ \A b \in open \ open' : b = c
    BY <1>0, <1>4 DEF Receive, ClientGone
  <2>2. /\ c \notin open' => chan'[c] = <<>>
        /\ c \in open' => stage[c] = "ready"
    <3>1. CASE Receive(c)
      BY <3>1 DEF Receive, Streaming
    <3>2. CASE ClientGone(c)
      BY <1>0, <3>2 DEF ClientGone
    <3>3. QED
      BY <1>4, <3>1, <3>2
  <2>3. ClosedIsEmpty'
    BY <2>1, <2>2 DEF RoomInv, ClosedIsEmpty
  <2>4. ReplaysItsOwn'
    BY <2>1 DEF RoomInv, ReplaysItsOwn
  <2>5. ReplayWithinRing'
    BY <1>0, <2>1, <2>2 DEF RoomInv, ReplayWithinRing
  <2>6. QED
    BY <2>3, <2>4, <2>5 DEF RoomInv
<1>5. ASSUME NEW t \in Tasks, HandOff(t)
      PROVE  RoomInv'
  BY <1>5, TypeNext, RoomHandOff
<1>6. ASSUME NEW t \in Tasks, Note(t)
      PROVE  RoomInv'
  <2>1. \A u \in Tasks : /\ hand'[u].plan = hand[u].plan
                         /\ hand'[u].to = hand[u].to
                         /\ hand'[u].left = hand[u].left
    BY <1>0, <1>6 DEF Note, Hands
  <2>2. UNCHANGED <<chan, open, stage>>
    BY <1>6 DEF Note
  <2>3. ReplayWithinRing'
    BY <1>0, <2>1, <2>2 DEF RoomInv, ReplayWithinRing
  <2>4. QED
    BY <2>1, <2>2, <2>3 DEF RoomInv, ClosedIsEmpty, ReplaysItsOwn
<1>7. CASE UNCHANGED <<chan, open, stage, hand>>
  BY <1>7 DEF RoomInv, ClosedIsEmpty, ReplaysItsOwn, ReplayWithinRing
<1>8. QED
  BY <1>1, <1>2, <1>3, <1>4, <1>5, <1>6, <1>7 DEF Next, DisconnectAll, Tick,
     hubVars

LEMMA RoomFits == TypeOK /\ RoomInv => ReplayFits
<1> SUFFICES ASSUME TypeOK, RoomInv, NEW c \in open, stage[c] = "replaying",
                    ~(Cardinality(LiveIn(c)) > RingCap)
             PROVE  Len(chan[c]) + Cardinality(hand[c].left) <= ChanCap
  BY DEF ReplayFits
<1> USE HubAssumption
<1>0. /\ hand \in [Tasks -> Hands] /\ c \in Conns /\ c \in Tasks
      /\ chan[c] \in Seq(Delivery)
  BY DEF TypeOK, Hands
<1>1. Cardinality(ReplayedIn(chan[c])) + Cardinality(hand[c].left) <= RingCap
  BY DEF RoomInv, ReplayWithinRing
<1>2. /\ Cardinality(ReplayedIn(chan[c])) \in Nat
      /\ Cardinality(LiveIn(c)) \in Nat
      /\ Len(chan[c]) = Cardinality(ReplayedIn(chan[c])) + Cardinality(LiveIn(c))
  BY <1>0, QueueParts DEF LiveIn
<1>3. Cardinality(hand[c].left) \in Nat
  BY <1>0, LeftIsFinite
<1>4. QED
  BY <1>1, <1>2, <1>3 DEF ChanCap

\* A replay has room in the queue it is written into, unless live items that
\* overtook it are more than the ring holds (CHANNEL_CAPACITY).
THEOREM ReplayHasRoom == Spec => []ReplayFits
BY RoomInit, RoomNext, RoomFits, TypeCorrect, RingCorrect, PTL DEF Spec

-------------------------------------------------------------------------------
(***************************************************************************)
(* The missed-DM cursor                                                    *)
(***************************************************************************)

\* A connection that does not exist yet hands nothing over.
NewConnsIdle == \A c \in Conns : stage[c] = "new" => Idle(c)

\* A task moves the cursor for DMs that were accepted.
NotingAccepted ==
    \A t \in Tasks :
        hand[t].noting # <<>> =>
            /\ Head(hand[t].noting) \in accepted
            /\ TrackSeen(Head(hand[t].noting))

\* Each accepted DM is behind the mark of its chat, or some task is about to
\* move the mark for it, or a failed write lost it.
AcceptedCovered ==
    \A i \in accepted \ unsaved :
        TrackSeen(i) =>
            \/ ~Precedes(cursor[i.chat], MarkOf(i))
            \/ \E t \in Tasks : /\ hand[t].noting # <<>>
                              /\ Head(hand[t].noting) = i

CursorInv ==
    /\ NewConnsIdle
    /\ NotingAccepted
    /\ CursorWasAccepted
    /\ AcceptedCovered

LEMMA CursorInit == Init => CursorInv
BY DEF Init, CursorInv, NewConnsIdle, NotingAccepted, CursorWasAccepted,
   AcceptedCovered, Idle, NoTask

\* What bump_locked leaves: the mark of the item's chat is at the item or where
\* it was, and past neither; no other mark moves.
LEMMA BumpEffect ==
  ASSUME NEW cur \in [Chats -> Mark \union {NoMark}], NEW i \in Item
  PROVE  /\ Bump(cur, i) \in [Chats -> Mark \union {NoMark}]
         /\ Bump(cur, i)[i.chat] \in {cur[i.chat], MarkOf(i)}
         /\ ~Precedes(Bump(cur, i)[i.chat], MarkOf(i))
         /\ \A ch \in Chats : ch # i.chat => Bump(cur, i)[ch] = cur[ch]
         /\ \A ch \in Chats : ~Precedes(Bump(cur, i)[ch], cur[ch])
<1>1. i.chat \in Chats /\ MarkOf(i) \in Mark /\ cur[i.chat] \in Mark \union {NoMark}
  BY MarkOrder DEF Item
<1>2. \A m \in Mark \union {NoMark} : ~Precedes(m, m)
  BY MarkOrder
<1>3. CASE Precedes(cur[i.chat], MarkOf(i))
  <2>1. Bump(cur, i) = [cur EXCEPT ![i.chat] = MarkOf(i)]
    BY <1>3 DEF Bump
  <2>2. ~Precedes(MarkOf(i), cur[i.chat])
    BY <1>1, <1>3, MarkOrder
  <2>3. QED
    BY <1>1, <1>2, <2>1, <2>2
<1>4. CASE ~Precedes(cur[i.chat], MarkOf(i))
  <2>1. Bump(cur, i) = cur
    BY <1>4 DEF Bump
  <2>2. QED
    BY <1>2, <1>4, <2>1
<1>5. QED
  BY <1>3, <1>4

\* A failed write leaves each mark where it was, gone, or at the item of the chat.
LEMMA FailedBumpsReach ==
  ASSUME NEW cur \in [Chats -> Mark \union {NoMark}], NEW i \in Item,
         NEW new, new = Bump(cur, i) \/ new \in FailedBumps(cur, i),
         NEW ch \in Chats
  PROVE  /\ new[ch] \in {cur[ch], NoMark, MarkOf(i)}
         /\ new[ch] = MarkOf(i) => ch = i.chat \/ new[ch] \in {cur[ch], NoMark}
<1>1. Emptied(cur) \in [Chats -> Mark \union {NoMark}] /\ Emptied(cur)[ch] = NoMark
  BY DEF Emptied
<1>2. \A c \in [Chats -> Mark \union {NoMark}] :
        /\ Bump(c, i)[ch] \in {c[ch], MarkOf(i)}
        /\ ch # i.chat => Bump(c, i)[ch] = c[ch]
  BY BumpEffect
<1>3. QED
  BY <1>1, <1>2 DEF FailedBumps

\* A write that succeeds covers the DM it is for, and uncovers no other.
LEMMA NotedIsCovered ==
  ASSUME TypeOK, AcceptedCovered, HubAssumption, NEW t \in Tasks,
         hand[t].noting # <<>>, Head(hand[t].noting) \in Item,
         cursor' = Bump(cursor, Head(hand[t].noting)),
         UNCHANGED <<accepted, unsaved>>,
         \A u \in Tasks : u # t => hand'[u] = hand[u]
  PROVE  AcceptedCovered'
<1> DEFINE i == Head(hand[t].noting)
<1>1. /\ cursor \in [Chats -> Mark \union {NoMark}]
      /\ accepted \subseteq Item
  BY DEF TypeOK
<1>2. /\ ~Precedes(cursor'[i.chat], MarkOf(i))
      /\ \A ch \in Chats : ~Precedes(cursor'[ch], cursor[ch])
      /\ cursor' \in [Chats -> Mark \union {NoMark}]
  BY <1>1, BumpEffect
<1> SUFFICES ASSUME NEW j \in accepted \ unsaved, TrackSeen(j)
             PROVE  \/ ~Precedes(cursor'[j.chat], MarkOf(j))
                    \/ \E u \in Tasks : /\ hand'[u].noting # <<>>
                                      /\ Head(hand'[u].noting) = j
  BY DEF AcceptedCovered
<1>3. CASE \E u \in Tasks : /\ hand[u].noting # <<>>
                            /\ Head(hand[u].noting) = j
  <2>1. PICK u \in Tasks : hand[u].noting # <<>> /\ Head(hand[u].noting) = j
    BY <1>3
  <2>2. CASE u = t
    BY <1>2, <2>1, <2>2
  <2>3. CASE u # t
    BY <2>1, <2>3
  <2>4. QED
    BY <2>2, <2>3
<1>4. CASE ~Precedes(cursor[j.chat], MarkOf(j))
  <2>1. j \in Item /\ j.chat \in Chats /\ MarkOf(j) \in Mark
    BY <1>1, MarkOrder DEF Item
  <2>2. /\ cursor[j.chat] \in Mark \union {NoMark}
        /\ cursor'[j.chat] \in Mark \union {NoMark}
        /\ ~Precedes(cursor'[j.chat], cursor[j.chat])
    BY <1>1, <1>2, <2>1
  <2> HIDE DEF i
  <2>3. QED
    BY <1>4, <2>1, <2>2, MarkOrder
<1>5. QED
  BY <1>3, <1>4 DEF AcceptedCovered

\* A step that leaves the cursor, the accepted items and what the tasks note
\* alone, and leaves a connection new or idle, preserves the invariant.
LEMMA CursorFrame ==
  ASSUME CursorInv,
         UNCHANGED <<cursor, accepted, unsaved>>,
         \A t \in Tasks : hand'[t].noting = hand[t].noting,
         \A c \in Conns : stage'[c] = "new" =>
            stage[c] = "new" /\ hand'[c].left = hand[c].left
  PROVE  CursorInv'
<1>1. NewConnsIdle'
  BY DEF CursorInv, NewConnsIdle, Idle
<1>2. NotingAccepted'
  BY DEF CursorInv, NotingAccepted
<1>3. CursorWasAccepted'
  BY DEF CursorInv, CursorWasAccepted
<1>4. AcceptedCovered'
  BY DEF CursorInv, AcceptedCovered
<1>5. QED
  BY <1>1, <1>2, <1>3, <1>4 DEF CursorInv

LEMMA CursorNext == TypeOK /\ CursorInv /\ [Next]_hubVars => CursorInv'
<1> SUFFICES ASSUME TypeOK, CursorInv, [Next]_hubVars PROVE CursorInv'
  OBVIOUS
<1> USE HubAssumption
<1>0. /\ hand \in [Tasks -> Hands]
      /\ stage \in [Conns -> Stages]
      /\ cursor \in [Chats -> Mark \union {NoMark}]
      /\ accepted \subseteq Item
  BY DEF TypeOK, Hands
<1>1. ASSUME NEW p \in Publishers, NEW i \in Items, Publish(p, i)
      PROVE  CursorInv'
  <2> DEFINE h == [to |-> tx, plan |-> <<Live(i)>>, left |-> {1},
                   noting |-> <<>>]
  <2>1. hand' = hand \/ hand' = [hand EXCEPT ![p] = h]
    BY <1>1 DEF Publish
  <2>2. hand[p].noting = <<>> /\ h.noting = <<>>
    BY <1>1 DEF Publish, Idle
  <2> HIDE DEF h
  <2>3. \A t \in Tasks : hand'[t].noting = hand[t].noting
    BY <1>0, <2>1, <2>2
  <2>4. \A c \in Conns : hand'[c] = hand[c]
    BY <1>0, <2>1
  <2>5. UNCHANGED <<cursor, accepted, unsaved, stage>>
    BY <1>1 DEF Publish
  <2>6. QED
    BY <2>3, <2>4, <2>5, CursorFrame
<1>2. ASSUME NEW c \in Conns, NEW last \in ResumeIds, Connect(c, last)
      PROVE  CursorInv'
  <2>1. PICK after \in ResumeAfter(last) :
          hand' = [hand EXCEPT ![c] =
                     ReplayTask(c, SubSeq(ring, after + 1, Len(ring)))]
    BY <1>2 DEF Connect
  <2> DEFINE h == ReplayTask(c, SubSeq(ring, after + 1, Len(ring)))
  <2>2. h.noting = <<>>
    BY DEF ReplayTask
  <2>3. hand[c].noting = <<>>
    BY <1>2 DEF Connect, CursorInv, NewConnsIdle, Idle
  <2>4. hand' = [hand EXCEPT ![c] = h]
    BY <2>1
  <2> HIDE DEF h
  <2>5. \A t \in Tasks : hand'[t].noting = hand[t].noting
    BY <1>0, <2>2, <2>3, <2>4
  <2>6. stage' = [stage EXCEPT ![c] = "replaying"] /\ UNCHANGED <<cursor, accepted, unsaved>>
    BY <1>2 DEF Connect
  <2>7. \A b \in Conns : stage'[b] = "new" =>
           stage[b] = "new" /\ hand'[b].left = hand[b].left
    BY <1>0, <2>4, <2>6
  <2>8. QED
    BY <2>5, <2>6, <2>7, CursorFrame
<1>3. ASSUME NEW c \in Conns, PublishReady(c)
      PROVE  CursorInv'
  <2> DEFINE h == IF tx = 0 THEN NoTask
                  ELSE [to |-> tx, plan |-> <<Live(ReadyItem)>>,
                        left |-> {1}, noting |-> <<>>]
  <2>1. h.noting = <<>> /\ hand[c].noting = <<>>
    BY <1>3 DEF NoTask, PublishReady, Idle
  <2>2. hand' = [hand EXCEPT ![c] = h]
    BY <1>3 DEF PublishReady
  <2> HIDE DEF h
  <2>3. \A t \in Tasks : hand'[t].noting = hand[t].noting
    BY <1>0, <2>1, <2>2
  <2>4. stage' = [stage EXCEPT ![c] = "ready"] /\ UNCHANGED <<cursor, accepted, unsaved>>
    BY <1>3 DEF PublishReady
  <2>5. \A b \in Conns : stage'[b] = "new" =>
           stage[b] = "new" /\ hand'[b].left = hand[b].left
    BY <1>0, <2>2, <2>4
  <2>6. QED
    BY <2>3, <2>4, <2>5, CursorFrame
<1>4. ASSUME NEW c \in Conns, Receive(c) \/ ClientGone(c)
      PROVE  CursorInv'
  BY <1>4, CursorFrame DEF Receive, ClientGone
<1>5. ASSUME NEW t \in Tasks, HandOff(t)
      PROVE  CursorInv'
  <2>1. PICK k \in hand[t].left : Accept(t, k) \/ Refuse(t, k)
    BY <1>5 DEF HandOff
  <2>2. hand[t].noting = <<>> /\ UNCHANGED <<cursor, unsaved, stage>>
    BY <1>5 DEF HandOff
  <2>3. \A c \in Conns : stage[c] = "new" => c # t
    BY <2>1 DEF CursorInv, NewConnsIdle, Idle
  <2>4. CASE Accept(t, k)
    <3> DEFINE d == hand[t].plan[k]
               n == IF TrackSeen(d.item) THEN <<d.item>> ELSE <<>>
    <3>1. d.item \in Item
      BY <1>0, HandedType
    <3>2. /\ hand' = [hand EXCEPT ![t].left = @ \ {k}, ![t].noting = n]
          /\ accepted' = accepted \union {d.item}
      BY <2>4 DEF Accept
    <3>3. /\ n # <<>> => TrackSeen(d.item) /\ Head(n) = d.item
          /\ TrackSeen(d.item) => n # <<>> /\ Head(n) = d.item
      OBVIOUS
    <3> HIDE DEF n, d
    <3>4. /\ hand'[t].noting = n
          /\ \A u \in Tasks : u # t => hand'[u] = hand[u]
      BY <1>0, <3>2 DEF Hands
    <3>5. NewConnsIdle'
      BY <1>0, <2>2, <2>3, <3>4 DEF CursorInv, NewConnsIdle, Idle
    <3>6. NotingAccepted'
      <4> SUFFICES ASSUME NEW u \in Tasks, hand'[u].noting # <<>>
                   PROVE  /\ Head(hand'[u].noting) \in accepted'
                          /\ TrackSeen(Head(hand'[u].noting))
        BY DEF NotingAccepted
      <4>1. CASE u = t
        BY <3>2, <3>3, <3>4, <4>1
      <4>2. CASE u # t
        <5>1. hand'[u] = hand[u]
          BY <3>4, <4>2
        <5>2. /\ Head(hand[u].noting) \in accepted
              /\ TrackSeen(Head(hand[u].noting))
          BY <5>1 DEF CursorInv, NotingAccepted
        <5>3. Head(hand'[u].noting) = Head(hand[u].noting)
          BY <5>1
        <5>4. accepted \subseteq accepted'
          BY <3>2
        <5>5. QED
          BY <5>2, <5>3, <5>4
      <4>3. QED
        BY <4>1, <4>2
    <3>7. CursorWasAccepted'
      BY <2>2, <3>2 DEF CursorInv, CursorWasAccepted
    <3>8. AcceptedCovered'
      <4> SUFFICES ASSUME NEW i \in accepted' \ unsaved', TrackSeen(i)
                   PROVE  \/ ~Precedes(cursor'[i.chat], MarkOf(i))
                          \/ \E u \in Tasks : /\ hand'[u].noting # <<>>
                                            /\ Head(hand'[u].noting) = i
        BY DEF AcceptedCovered
      <4>1. CASE i = d.item
        BY <3>3, <3>4, <4>1
      <4>2. CASE i \in accepted \ unsaved
        BY <2>2, <3>4, <4>2 DEF CursorInv, AcceptedCovered
      <4>3. QED
        BY <2>2, <3>2, <4>1, <4>2
    <3>9. QED
      BY <3>5, <3>6, <3>7, <3>8 DEF CursorInv
  <2>5. CASE Refuse(t, k)
    <3>1. hand' = [hand EXCEPT ![t].left = @ \ {k}] /\ UNCHANGED accepted
      BY <2>5 DEF Refuse
    <3>2. \A u \in Tasks : /\ hand'[u].noting = hand[u].noting
                           /\ u # t => hand'[u] = hand[u]
      BY <1>0, <3>1 DEF Hands
    <3>3. QED
      BY <2>2, <2>3, <3>1, <3>2, CursorFrame
  <2>6. QED
    BY <2>1, <2>4, <2>5
<1>6. ASSUME NEW t \in Tasks, Note(t)
      PROVE  CursorInv'
  <2> DEFINE i == Head(hand[t].noting)
  <2>1. /\ i \in accepted /\ TrackSeen(i)
        /\ i \in Item
    BY <1>0, <1>6 DEF Note, CursorInv, NotingAccepted
  <2>2. /\ hand' = [hand EXCEPT ![t].noting = <<>>]
        /\ UNCHANGED <<accepted, stage>>
        /\ \/ cursor' = Bump(cursor, i) /\ UNCHANGED unsaved
           \/ /\ cursor' \in FailedBumps(cursor, i)
              /\ unsaved' = unsaved \union NotCovered(cursor', t)
    BY <1>6 DEF Note
  <2>3. /\ hand'[t].noting = <<>>
        /\ \A u \in Tasks : /\ u # t => hand'[u] = hand[u]
                             /\ hand'[u].left = hand[u].left
    BY <1>0, <2>2 DEF Hands
  <2> HIDE DEF i
  <2>4. \A ch \in Chats : cursor'[ch] \in {cursor[ch], NoMark, MarkOf(i)}
                          /\ (cursor'[ch] = MarkOf(i) =>
                                \/ ch = i.chat
                                \/ cursor'[ch] \in {cursor[ch], NoMark})
    BY <1>0, <2>1, <2>2, FailedBumpsReach
  <2>5. NewConnsIdle'
    BY <1>0, <2>2, <2>3 DEF CursorInv, NewConnsIdle, Idle
  <2>6. NotingAccepted'
    BY <2>2, <2>3 DEF CursorInv, NotingAccepted
  <2>7. CursorWasAccepted'
    BY <2>1, <2>2, <2>4 DEF CursorInv, CursorWasAccepted
  <2>8. AcceptedCovered'
    <3>1. CASE cursor' = Bump(cursor, i) /\ UNCHANGED unsaved
      <4>1. AcceptedCovered
        BY DEF CursorInv
      <4>2. hand[t].noting # <<>>
        BY <1>6 DEF Note
      <4>3. QED
        BY <2>1, <2>2, <2>3, <3>1, <4>1, <4>2, NotedIsCovered DEF i
    <3>2. CASE unsaved' = unsaved \union NotCovered(cursor', t)
      <4> SUFFICES ASSUME NEW j \in accepted, j \notin unsaved', TrackSeen(j)
                   PROVE  \/ ~Precedes(cursor'[j.chat], MarkOf(j))
                          \/ \E u \in Tasks : /\ hand'[u].noting # <<>>
                                            /\ Head(hand'[u].noting) = j
        BY <2>2 DEF AcceptedCovered
      <4>1. j \notin NotCovered(cursor', t)
        BY <3>2
      <4>2. \/ ~Precedes(cursor'[j.chat], MarkOf(j))
            \/ \E u \in Tasks \ {t} : hand[u].noting = <<j>>
        BY <4>1 DEF NotCovered
      <4>3. ASSUME NEW u \in Tasks \ {t}, hand[u].noting = <<j>>
            PROVE  hand'[u].noting # <<>> /\ Head(hand'[u].noting) = j
        BY <2>3, <4>3
      <4>4. QED
        BY <4>2, <4>3
    <3>3. QED
      BY <2>2, <3>1, <3>2
  <2>9. QED
    BY <2>5, <2>6, <2>7, <2>8 DEF CursorInv
<1>7. CASE DisconnectAll
  BY <1>7, CursorFrame DEF DisconnectAll
<1>8. CASE Tick
  BY <1>8, CursorFrame DEF Tick
<1>9. CASE UNCHANGED hubVars
  BY <1>9, CursorFrame DEF hubVars
<1>10. QED
  BY <1>1, <1>2, <1>3, <1>4, <1>5, <1>6, <1>7, <1>8, <1>9 DEF Next

LEMMA CursorInvariant == Spec => []CursorInv
BY CursorInit, CursorNext, TypeCorrect, PTL DEF Spec

\* The missed-DM cursor names only DMs a client queue accepted: it advances on
\* hand-over, not on receipt from the relay.
THEOREM CursorNamesAccepted == Spec => []CursorWasAccepted
<1>1. CursorInv => CursorWasAccepted
  BY DEF CursorInv
<1>2. QED
  BY <1>1, CursorInvariant, PTL

\* No accepted DM is left ahead of the mark by publishers racing for the file,
\* but for those a read or write of the file that failed unnoticed has lost.
THEOREM CursorComplete == Spec => []CursorCoversAccepted
<1>1. CursorInv => CursorCoversAccepted
  BY DEF CursorInv, AcceptedCovered, CursorCoversAccepted
<1>2. QED
  BY <1>1, CursorInvariant, PTL

-------------------------------------------------------------------------------
(***************************************************************************)
(* What sse_dropped = 0 means                                              *)
(***************************************************************************)

\* Transient items are not retained, hence not in the log.
LogHasIds == \A k \in DOMAIN log : ~Transient(log[k])

\* A publisher hands over one item.
PublisherHandsOne == \A p \in Publishers : hand[p].left \subseteq {1}

DropInv ==
    /\ LogHasIds
    /\ PublisherHandsOne
    /\ ZeroDropsMeansAccepted

LEMMA DropInit == Init => DropInv
BY DEF Init, DropInv, LogHasIds, PublisherHandsOne, ZeroDropsMeansAccepted,
   NoTask

\* A step that leaves the log and the publishers' tasks alone and neither lowers
\* the count nor loses an accepted item preserves the invariant.
LEMMA DropFrame ==
  ASSUME DropInv,
         UNCHANGED log,
         \A p \in Publishers : hand'[p].left = hand[p].left /\ hand'[p].plan = hand[p].plan,
         accepted \subseteq accepted',
         dropped' = 0 => dropped = 0
  PROVE  DropInv'
BY DEF DropInv, LogHasIds, PublisherHandsOne, ZeroDropsMeansAccepted

LEMMA DropNext == TypeOK /\ DropInv /\ [Next]_hubVars => DropInv'
<1> SUFFICES ASSUME TypeOK, DropInv, [Next]_hubVars PROVE DropInv'
  OBVIOUS
<1> USE HubAssumption
<1>0. /\ hand \in [Tasks -> Hands]
      /\ log \in Seq(Item)
      /\ dropped \in Nat
  BY DEF TypeOK, Hands
<1>1. ASSUME NEW p \in Publishers, NEW i \in Items, Publish(p, i)
      PROVE  DropInv'
  <2> DEFINE h == [to |-> tx, plan |-> <<Live(i)>>, left |-> {1},
                   noting |-> <<>>]
  <2>1. i \in Item /\ hand[p].left = {}
    BY <1>1, ItemsType DEF Publish, Idle
  <2>2. UNCHANGED accepted
    BY <1>1 DEF Publish
  <2>3. h.left = {1} /\ h.plan[1].item = i
    BY DEF Live
  <2>4. \/ tx = 0 /\ hand' = hand
        \/ tx # 0 /\ hand' = [hand EXCEPT ![p] = h] /\ dropped' = dropped
    BY <1>1 DEF Publish
  <2> HIDE DEF h
  <2>5. PublisherHandsOne'
    BY <1>0, <2>3, <2>4 DEF DropInv, PublisherHandsOne
  <2>6. ASSUME NEW q \in Publishers, hand[q].left # {}
        PROVE  hand'[q] = hand[q]
    BY <1>0, <2>1, <2>4, <2>6
  <2>7. dropped' = 0 => dropped = 0
    BY <1>0, <1>1 DEF Publish
  <2>8. CASE Transient(i)
    <3>1. UNCHANGED log
      BY <1>1, <2>8 DEF Publish
    <3>2. QED
      BY <2>2, <2>5, <2>6, <2>7, <3>1
         DEF DropInv, LogHasIds, ZeroDropsMeansAccepted
  <2>9. CASE ~Transient(i)
    <3>1. log' = Append(log, i)
      BY <1>1, <2>9 DEF Publish
    <3>2. /\ DOMAIN log' = 1..(Len(log) + 1)
          /\ DOMAIN log = 1..Len(log)
          /\ Len(log) \in Nat
          /\ \A k \in 1..Len(log) : log'[k] = log[k]
          /\ log'[Len(log) + 1] = i
      BY <1>0, <2>1, <3>1, AppendProperties
    <3>3. LogHasIds'
      BY <2>9, <3>2 DEF DropInv, LogHasIds
    <3>4. ASSUME dropped' = 0, NEW k \in DOMAIN log'
          PROVE  \/ log'[k] \in accepted'
                 \/ \E q \in Publishers : /\ hand'[q].left # {}
                                         /\ hand'[q].plan[1].item = log'[k]
      <4>1. CASE k = Len(log) + 1
        <5>1. tx # 0
          BY <1>0, <1>1, <2>9, <3>4 DEF Publish
        <5>2. hand'[p] = h
          BY <1>0, <2>4, <5>1
        <5>3. QED
          BY <2>3, <3>2, <4>1, <5>2
      <4>2. CASE k \in DOMAIN log
        BY <2>2, <2>6, <2>7, <3>2, <3>4, <4>2
           DEF DropInv, ZeroDropsMeansAccepted
      <4>3. QED
        BY <3>2, <4>1, <4>2
    <3>5. QED
      BY <2>5, <3>3, <3>4 DEF DropInv, ZeroDropsMeansAccepted
  <2>10. QED
    BY <2>8, <2>9
<1>2. ASSUME NEW c \in Conns,
             (\E last \in ResumeIds : Connect(c, last)) \/ PublishReady(c)
      PROVE  DropInv'
  <2>1. \A p \in Publishers : hand'[p] = hand[p]
    BY <1>0, <1>2 DEF Connect, PublishReady
  <2>2. UNCHANGED <<log, accepted, dropped>>
    BY <1>2 DEF Connect, PublishReady
  <2>3. QED
    BY <2>1, <2>2, DropFrame
<1>3. ASSUME NEW c \in Conns, Receive(c) \/ ClientGone(c)
      PROVE  DropInv'
  BY <1>3, DropFrame DEF Receive, ClientGone
<1>4. ASSUME NEW t \in Tasks, HandOff(t)
      PROVE  DropInv'
  <2>1. PICK k \in hand[t].left : Accept(t, k) \/ Refuse(t, k)
    BY <1>4 DEF HandOff
  <2>2. UNCHANGED log
    BY <1>4 DEF HandOff
  <2>3. /\ accepted \subseteq accepted'
        /\ dropped' = 0 => dropped = 0
    <3>1. CASE Accept(t, k)
      <4>1. accepted' = accepted \union {hand[t].plan[k].item}
        BY <3>1 DEF Accept
      <4>2. dropped' = dropped
        BY <3>1 DEF Accept
      <4>3. QED
        BY <4>1, <4>2
    <3>2. CASE Refuse(t, k)
      <4>1. accepted' = accepted
        BY <3>2 DEF Refuse
      <4>2. dropped' = dropped \/ dropped' = dropped + 1
        BY <3>2 DEF Refuse
      <4>3. QED
        BY <1>0, <4>1, <4>2
    <3>3. QED
      BY <2>1, <3>1, <3>2
  <2>4. /\ hand'[t].left = hand[t].left \ {k}
        /\ \A u \in Tasks : /\ hand'[u].plan = hand[u].plan
                            /\ u # t => hand'[u] = hand[u]
    <3>1. CASE Accept(t, k)
      <4> DEFINE note == IF TrackSeen(hand[t].plan[k].item)
                         THEN <<hand[t].plan[k].item>> ELSE <<>>
      <4>1. hand' = [hand EXCEPT ![t].left = @ \ {k}, ![t].noting = note]
        BY <3>1 DEF Accept
      <4> HIDE DEF note
      <4>2. QED
        BY <1>0, <4>1 DEF Hands
    <3>2. CASE Refuse(t, k)
      <4>1. hand' = [hand EXCEPT ![t].left = @ \ {k}]
        BY <3>2 DEF Refuse
      <4>2. QED
        BY <1>0, <4>1 DEF Hands
    <3>3. QED
      BY <2>1, <3>1, <3>2
  <2>7. \A p \in Publishers : p # t => hand'[p] = hand[p]
    BY <2>4
  <2>5. CASE t \notin Publishers
    <3>1. \A p \in Publishers : hand'[p] = hand[p]
      BY <2>5, <2>7
    <3>2. \A p \in Publishers : hand'[p].left = hand[p].left /\ hand'[p].plan = hand[p].plan
      BY <3>1
    <3>3. QED
      BY <2>2, <2>3, <3>2, DropFrame
  <2>6. CASE t \in Publishers
    <3>1. k = 1
      BY <2>1, <2>6 DEF DropInv, PublisherHandsOne
    <3>2. PublisherHandsOne' /\ LogHasIds'
      <4>1. LogHasIds'
        BY <2>2 DEF DropInv, LogHasIds
      <4>2. ASSUME NEW p \in Publishers
            PROVE  hand'[p].left \subseteq {1}
        <5>1. hand[p].left \subseteq {1}
          BY DEF DropInv, PublisherHandsOne
        <5>2. CASE p = t
          BY <2>4, <5>1, <5>2
        <5>3. CASE p # t
          <6>1. hand'[p] = hand[p]
            BY <2>7, <5>3
          <6>2. QED
            BY <5>1, <6>1
        <5>4. QED
          BY <5>2, <5>3
      <4>3. QED
        BY <4>1, <4>2 DEF PublisherHandsOne
    <3>3. ASSUME dropped' = 0, NEW n \in DOMAIN log
          PROVE  \/ log[n] \in accepted'
                 \/ \E q \in Publishers : /\ hand'[q].left # {}
                                         /\ hand'[q].plan[1].item = log[n]
      <4>1. CASE log[n] \in accepted
        BY <2>3, <4>1
      <4>2. CASE \E q \in Publishers : /\ hand[q].left # {}
                                       /\ hand[q].plan[1].item = log[n]
        <5>1. PICK q \in Publishers : /\ hand[q].left # {}
                                     /\ hand[q].plan[1].item = log[n]
          BY <4>2
        <5>2. CASE q # t
          <6>1. hand'[q] = hand[q]
            BY <2>7, <5>2
          <6>2. QED
            BY <5>1, <6>1
        <5>3. CASE q = t
          <6>1. ~Transient(hand[t].plan[k].item)
            BY <3>1, <5>1, <5>3 DEF DropInv, LogHasIds
          <6>2. ~Refuse(t, k)
            BY <1>0, <3>3, <6>1 DEF Refuse
          <6>3. QED
            BY <2>1, <3>1, <5>1, <5>3, <6>2 DEF Accept
        <5>4. QED
          BY <5>2, <5>3
      <4>3. QED
        BY <2>3, <3>3, <4>1, <4>2 DEF DropInv, ZeroDropsMeansAccepted
    <3>4. QED
      BY <2>2, <3>2, <3>3 DEF DropInv, ZeroDropsMeansAccepted
  <2>8. QED
    BY <2>5, <2>6
<1>5. ASSUME NEW t \in Tasks, Note(t)
      PROVE  DropInv'
  <2>1. \A p \in Publishers : hand'[p].left = hand[p].left /\ hand'[p].plan = hand[p].plan
    BY <1>0, <1>5 DEF Note, Hands
  <2>2. QED
    BY <1>5, <2>1, DropFrame DEF Note
<1>6. CASE DisconnectAll
  BY <1>6, DropFrame DEF DisconnectAll
<1>7. CASE Tick
  BY <1>7, DropFrame DEF Tick
<1>8. CASE UNCHANGED hubVars
  BY <1>8, DropFrame DEF hubVars
<1>9. QED
  BY <1>1, <1>2, <1>3, <1>4, <1>5, <1>6, <1>7, <1>8 DEF Next

\* sse_dropped = 0 means that every published item was accepted by a client
\* queue or is about to be handed to one.
THEOREM ZeroDropsCorrect == Spec => []ZeroDropsMeansAccepted
<1>1. DropInv => ZeroDropsMeansAccepted
  BY DEF DropInv
<1>2. QED
  BY <1>1, DropInit, DropNext, TypeCorrect, PTL DEF Spec

-------------------------------------------------------------------------------
(***************************************************************************)
(* The listener: the inductive invariant                                   *)
(***************************************************************************)

\* An item is on its way to the listener: in the hands of a task of the hub, in
\* the queue of the connection, or on the wire.
InHand(i) == \E t \in Tasks : \E k \in hand[t].left :
                 hand[t].to = conn /\ hand[t].plan[k].item = i
InQueue(i) == \E k \in DOMAIN chan[conn] : chan[conn][k].item = i
OnWire(i) == \E k \in DOMAIN wire :
                 wire[k].field = "data" /\ wire[k].delivery.item = i
Coming(i) == InHand(i) \/ InQueue(i) \/ OnWire(i)

\* It is on its way, or has been tried or refused.
Accounted(i) == Coming(i) \/ i \in tried \union overflow

\* The ids the resume point has, or may have without another connection.
IdOnWire(n) == \E k \in DOMAIN wire : wire[k].field = "id" /\ wire[k].id = n
MayResumeAt(n) ==
    \/ n = lastId \/ n = pendingId \/ IdOnWire(n)
    \/ \E i \in Item : i.id = n /\ Coming(i)

\* The connection took over at place b of the ring: what lies after it comes or
\* came through the connection, and the resume point will not lie before it.
TookOverAt(b) ==
    /\ \A k \in DOMAIN ring : k > b => Accounted(ring[k])
    /\ b # 0 => \A n \in Nat : MayResumeAt(n) /\ n # 0 =>
                    \E j \in DOMAIN ring : j >= b /\ ring[j].id = n

\* A connection that is to come has nothing yet.
Unused(c) ==
    /\ c # tx /\ c # conn /\ c \notin open /\ chan[c] = <<>>
    /\ \A t \in Tasks : hand[t].left # {} => hand[t].to # c

WireLines == [field : {"data"}, delivery : Delivery] \union
             [field : {"id"}, id : Nat]

ListenerInv ==
    /\ conn \in 0..MaxConn
    /\ wire \in Seq(WireLines)
    /\ pendingId \in Nat /\ lastId \in Nat
    /\ conn # 0 => tx = conn
    /\ Len(ring) <= RingCap
    /\ \A k \in DOMAIN ring : ring[k].id # 0
    /\ \A c \in Conns : stage[c] = "new" => Unused(c)

CaughtUpInv ==
    conn # 0 /\ conn \in open => \E b \in 0..Len(ring) : TookOverAt(b)

QuietInv == TypeOK /\ ListenerInv /\ CaughtUpInv

LEMMA QuietInvInit == DeliveryInit => QuietInv
  <1> SUFFICES ASSUME DeliveryInit PROVE QuietInv
    OBVIOUS
  <1>1. TypeOK
    BY TypeInit DEF DeliveryInit
  <1>2. ListenerInv
    BY HubAssumption DEF DeliveryInit, Init, ListenerInv, Unused, NoTask
  <1> QED BY <1>1, <1>2 DEF QuietInv, CaughtUpInv, DeliveryInit

\* What the prover needs to know of a state's types.
LEMMA Typed ==
    ASSUME QuietInv
    PROVE  /\ ring \in Seq(Item) /\ Len(ring) \in Nat /\ DOMAIN ring = 1..Len(ring)
           /\ hand \in [Tasks -> Hands]
           /\ \A t \in Tasks : hand[t].left \subseteq DOMAIN hand[t].plan
           /\ \A t \in Tasks : \A k \in hand[t].left :
                 hand[t].plan[k] \in Delivery /\ hand[t].plan[k].item \in Item
           /\ chan \in [Conns -> Seq(Delivery)]
           /\ conn # 0 => conn \in Conns
  <1>1. TypeOK
    BY DEF QuietInv
  <1>2. hand \in [Tasks -> Hands]
    BY <1>1 DEF TypeOK, Hands
  <1>3. \A t \in Tasks : \A k \in hand[t].left :
                 hand[t].plan[k] \in Delivery /\ hand[t].plan[k].item \in Item
    BY <1>1, <1>2, HandedType
  <1>4. ring \in Seq(Item)
    BY <1>1 DEF TypeOK
  <1>5. Len(ring) \in Nat /\ DOMAIN ring = 1..Len(ring)
    BY <1>4
  <1>6. conn # 0 => conn \in Conns
    BY HubAssumption DEF QuietInv, ListenerInv
  <1> QED BY <1>1, <1>2, <1>3, <1>4, <1>5, <1>6 DEF TypeOK

-------------------------------------------------------------------------------
(***************************************************************************)
(* Steps that move what is on its way                                      *)
(***************************************************************************)

\* A step that leaves the ring, loses nothing with an id and brings no new id
\* keeps the place at which the connection took over.
LEMMA MovingOnKeepsPlace ==
    ASSUME QuietInv, ring' = ring, conn' = conn, open' \subseteq open,
           tried \subseteq tried', overflow \subseteq overflow',
           conn # 0 /\ conn \in open' =>
              \A i \in Item : i.id # 0 /\ Coming(i) => Accounted(i)',
           conn # 0 /\ conn \in open' =>
              \A n \in Nat \ {0} : MayResumeAt(n)' => MayResumeAt(n)
    PROVE  CaughtUpInv'
  <1> SUFFICES ASSUME conn # 0, conn \in open'
               PROVE  \E b \in 0..Len(ring) : TookOverAt(b)'
    BY DEF CaughtUpInv
  <1>1. PICK b \in 0..Len(ring) : TookOverAt(b)
    BY DEF QuietInv, CaughtUpInv
  <1>2. ASSUME NEW k \in DOMAIN ring, k > b PROVE Accounted(ring[k])'
    <2>1. ring[k] \in Item /\ ring[k].id # 0
      BY Typed DEF QuietInv, ListenerInv
    <2>2. Accounted(ring[k])
      BY <1>1, <1>2 DEF TookOverAt
    <2>3. CASE Coming(ring[k])
      BY <2>1, <2>3
    <2>4. CASE ring[k] \in tried \union overflow
      BY <2>4 DEF Accounted
    <2> QED BY <2>2, <2>3, <2>4 DEF Accounted
  <1>3. TookOverAt(b)'
    BY <1>1, <1>2 DEF TookOverAt
  <1> QED BY <1>3

\* What a task does not hand over stays in hand.
LEMMA HandedOver ==
    ASSUME QuietInv, NEW t \in Tasks, NEW k \in hand[t].left,
           Accept(t, k) \/ Refuse(t, k)
    PROVE  /\ \A u \in Tasks : hand'[u].to = hand[u].to /\ hand'[u].plan = hand[u].plan
           /\ hand'[t].left = hand[t].left \ {k}
           /\ \A u \in Tasks \ {t} : hand'[u].left = hand[u].left
  <1> DEFINE i == hand[t].plan[k].item
             n == IF TrackSeen(i) THEN <<i>> ELSE <<>>
  <1>1. hand \in [Tasks -> Hands]
    BY Typed
  <1>2. CASE hand' = [hand EXCEPT ![t].left = @ \ {k}, ![t].noting = n]
    <2> HIDE DEF n
    <2> QED BY <1>1, <1>2 DEF Hands
  <1>3. CASE hand' = [hand EXCEPT ![t].left = @ \ {k}]
    BY <1>1, <1>3 DEF Hands
  <1> QED BY <1>2, <1>3 DEF Accept, Refuse

\* A task hands an item to the queue of its connection, or finds the queue full,
\* which is remembered, or closed.
LEMMA HandOverKeepsInv ==
    ASSUME QuietInv, NEW t \in Tasks, HandOver(t)
    PROVE  ListenerInv' /\ CaughtUpInv'
  <1> USE Typed
  <1>1. PICK k \in hand[t].left : Accept(t, k) \/ Refuse(t, k)
    BY DEF HandOver, HandOff
  <1>2. PICK d \in Delivery : d = hand[t].plan[k] /\ d.item \in Item
    OBVIOUS
  <1>3. /\ \A u \in Tasks : hand'[u].to = hand[u].to /\ hand'[u].plan = hand[u].plan
        /\ hand'[t].left = hand[t].left \ {k}
        /\ \A u \in Tasks \ {t} : hand'[u].left = hand[u].left
    BY <1>1, HandedOver
  <1>4. chan' = chan \/ chan' = [chan EXCEPT ![hand[t].to] = Append(@, d)]
    BY <1>1, <1>2 DEF Accept, Refuse
  <1>5. ListenerInv'
    <2>1. ASSUME NEW c \in Conns, stage[c] = "new" PROVE Unused(c)'
      <3>1. Unused(c) /\ hand[t].to # c
        BY <2>1, <1>1 DEF QuietInv, ListenerInv, Unused
      <3>2. chan'[c] = chan[c]
        BY <1>4, <3>1
      <3> QED BY <1>3, <3>1, <3>2 DEF Unused, HandOver, HandOff, listenerVars
    <2> QED BY <2>1 DEF HandOver, HandOff, listenerVars, ListenerInv, QuietInv
  <1>6. ASSUME conn # 0, conn \in open', NEW i \in Item, i.id # 0, Coming(i)
        PROVE  Accounted(i)'
    <2>1. conn \in Conns /\ chan[conn] \in Seq(Delivery)
      BY <1>6
    <2>2. CASE InHand(i)
      <3>1. PICK u \in Tasks : \E j \in hand[u].left :
               hand[u].to = conn /\ hand[u].plan[j].item = i
        BY <2>2 DEF InHand
      <3>2. PICK j \in hand[u].left : hand[u].to = conn /\ hand[u].plan[j].item = i
        BY <3>1
      <3>3. CASE u # t \/ j # k
        <4>1. j \in hand'[u].left /\ hand'[u].to = conn' /\ hand'[u].plan[j].item = i
          BY <1>3, <3>2, <3>3 DEF HandOver, listenerVars
        <4> QED BY <4>1 DEF InHand, Coming, Accounted
      <3>4. CASE u = t /\ j = k /\ Accept(t, k)
        <4>1. chan'[conn] = Append(chan[conn], d) /\ d.item = i
          BY <1>2, <2>1, <3>2, <3>4 DEF Accept
        <4>2. chan'[conn][Len(chan[conn]) + 1] = d
              /\ Len(chan[conn]) + 1 \in DOMAIN chan'[conn]
          BY <2>1, <4>1
        <4>3. InQueue(i)'
          BY <4>1, <4>2 DEF InQueue, HandOver, listenerVars
        <4> QED BY <4>3 DEF Coming, Accounted
      <3>5. CASE u = t /\ j = k /\ Refuse(t, k)
        <4>1. dropped' # dropped /\ hand[t].to \in open
          BY <1>6, <3>2, <3>5 DEF Refuse, Transient, HandOver, HandOff, QuietInv, TypeOK
        <4>2. k \in hand[t].left \ hand'[t].left
          BY <1>3
        <4>3. i \in overflow'
          BY <3>2, <3>5, <4>1, <4>2 DEF HandOver
        <4> QED BY <4>3 DEF Accounted
      <3> QED BY <1>1, <3>3, <3>4, <3>5
    <2>3. CASE InQueue(i)
      <3>1. PICK j \in DOMAIN chan[conn] : chan[conn][j].item = i
        BY <2>3 DEF InQueue
      <3>2. chan'[conn] = chan[conn] \/ chan'[conn] = Append(chan[conn], d)
        BY <1>4, <2>1
      <3>3. j \in DOMAIN chan'[conn] /\ chan'[conn][j] = chan[conn][j]
        BY <2>1, <3>2
      <3>4. InQueue(i)'
        BY <3>1, <3>3 DEF InQueue, HandOver, listenerVars
      <3> QED BY <3>4 DEF Coming, Accounted
    <2>4. CASE OnWire(i)
      BY <2>4 DEF OnWire, Coming, Accounted, HandOver, listenerVars
    <2> QED BY <1>6, <2>2, <2>3, <2>4 DEF Coming
  <1>7. ASSUME conn # 0, conn \in open', NEW n \in Nat \ {0}, MayResumeAt(n)'
        PROVE  MayResumeAt(n)
    <2>1. conn \in Conns /\ chan[conn] \in Seq(Delivery)
      BY <1>7
    <2>2. ASSUME NEW i \in Item, Coming(i)' PROVE Coming(i)
      <3>1. CASE InHand(i)'
        BY <1>3, <3>1 DEF InHand, Coming, HandOver, listenerVars
      <3>2. CASE InQueue(i)'
        <4>1. PICK j \in DOMAIN chan'[conn] : chan'[conn][j].item = i
          BY <3>2 DEF InQueue, HandOver, listenerVars
        <4>2. CASE chan'[conn] = chan[conn]
          BY <4>1, <4>2 DEF InQueue, Coming
        <4>3. CASE hand[t].to = conn /\ chan'[conn] = Append(chan[conn], d)
          <5>1. (j \in DOMAIN chan[conn] /\ chan'[conn][j] = chan[conn][j])
                \/ chan'[conn][j] = d
            BY <2>1, <4>1, <4>3
          <5>2. d.item = i => InHand(i)
            BY <1>1, <1>2, <4>3 DEF InHand
          <5> QED BY <4>1, <5>1, <5>2 DEF InQueue, Coming
        <4> QED BY <1>4, <2>1, <4>2, <4>3
      <3>3. CASE OnWire(i)'
        BY <3>3 DEF OnWire, Coming, HandOver, listenerVars
      <3> QED BY <2>2, <3>1, <3>2, <3>3 DEF Coming
    <2> QED BY <1>7, <2>2 DEF MayResumeAt, IdOnWire, HandOver, listenerVars
  <1>8. /\ ring' = ring /\ conn' = conn /\ open' = open
        /\ tried' = tried /\ overflow \subseteq overflow'
    BY DEF HandOver, HandOff, listenerVars
  <1>9. CaughtUpInv'
    BY <1>6, <1>7, <1>8, MovingOnKeepsPlace
  <1> QED BY <1>5, <1>9

\* The lines of a frame are about one delivery, the first is its data.
LEMMA FrameLines ==
    ASSUME NEW d \in Delivery
    PROVE  /\ Frame(d) \in Seq(WireLines)
           /\ \A k \in DOMAIN Frame(d) :
                 \/ Frame(d)[k].field = "data" /\ Frame(d)[k].delivery = d
                 \/ Frame(d)[k].field = "id" /\ Frame(d)[k].id = d.item.id
           /\ 1 \in DOMAIN Frame(d)
           /\ Frame(d)[1].field = "data" /\ Frame(d)[1].delivery = d
  <1>1. DataLine(d) \in WireLines /\ IdLine(d.item.id) \in WireLines
    BY DEF DataLine, IdLine, WireLines, Delivery, Item
  <1>2. PICK t : /\ t \in Seq(WireLines) /\ Frame(d) = <<DataLine(d)>> \o t
                 /\ t = <<>> \/ t = <<IdLine(d.item.id)>>
    <2> DEFINE t == IF Transient(d.item) THEN <<>> ELSE <<IdLine(d.item.id)>>
    <2>1. <<>> \in Seq(WireLines) /\ <<IdLine(d.item.id)>> \in Seq(WireLines)
      BY <1>1
    <2>2. t = <<>> \/ t = <<IdLine(d.item.id)>>
      OBVIOUS
    <2>3. Frame(d) = <<DataLine(d)>> \o t
      BY DEF Frame
    <2> HIDE DEF t
    <2> QED BY <2>1, <2>2, <2>3
  <1>3. /\ DataLine(d).field = "data" /\ DataLine(d).delivery = d
        /\ IdLine(d.item.id).field = "id" /\ IdLine(d.item.id).id = d.item.id
    BY DEF DataLine, IdLine
  <1>4. /\ Frame(d) \in Seq(WireLines) /\ Len(Frame(d)) = 1 + Len(t)
        /\ Frame(d)[1] = DataLine(d)
        /\ \A k \in 2..Len(Frame(d)) : Frame(d)[k] = t[k - 1]
    <2> DEFINE h == <<DataLine(d)>>
    <2>1. h \in Seq(WireLines)
      BY <1>1
    <2>2. Len(h) = 1 /\ h[1] = DataLine(d) /\ Len(t) \in Nat
      BY <1>2
    <2>4. Frame(d) = h \o t
      BY <1>2
    <2> HIDE DEF h
    <2>3. /\ h \o t \in Seq(WireLines) /\ Len(h \o t) = 1 + Len(t)
          /\ \A k \in 1..1 + Len(t) : (h \o t)[k] = IF k <= 1 THEN h[k] ELSE t[k - 1]
      BY <1>2, <2>1, <2>2, ConcatProperties
    <2> QED BY <2>2, <2>3, <2>4
  <1>5. \A k \in DOMAIN Frame(d) : k = 1 \/ Frame(d)[k] = IdLine(d.item.id)
    BY <1>2, <1>4
  <1>6. 1 \in DOMAIN Frame(d)
    BY <1>2, <1>4
  <1> QED BY <1>3, <1>4, <1>5, <1>6

LEMMA FrameIds ==
    ASSUME NEW d \in Delivery, NEW k \in DOMAIN Frame(d), Frame(d)[k].field = "id"
    PROVE  Frame(d)[k].id = d.item.id
  BY FrameLines

\* The stream sends the head of the queue.
LEMMA SendFrameKeepsInv ==
    ASSUME QuietInv, NEW c \in Conns, SendFrame(c)
    PROVE  ListenerInv' /\ CaughtUpInv'
  <1> USE Typed
  <1>1. PICK d \in Delivery : d = Head(chan[c]) /\ d.item \in Item
    <2>1. chan[c] \in Seq(Delivery) /\ chan[c] # <<>>
      BY DEF SendFrame, Receive
    <2>2. Head(chan[c]) \in Delivery
      BY <2>1, HeadTailProperties
    <2> QED BY <2>2 DEF Delivery
  <1>2. /\ conn = c /\ wire' = Frame(d)
        /\ chan[c] \in Seq(Delivery) /\ chan[c] # <<>>
        /\ chan'[c] = Tail(chan[c])
        /\ \A b \in Conns \ {c} : chan'[b] = chan[b]
    BY <1>1 DEF SendFrame, Receive
  <1>3. /\ Len(chan'[c]) = Len(chan[c]) - 1 /\ Len(chan[c]) \in Nat
        /\ DOMAIN chan'[c] = 1..Len(chan'[c])
        /\ \A k \in DOMAIN chan'[c] : chan'[c][k] = chan[c][k + 1]
    BY <1>2, HeadTailProperties
  <1>4. ListenerInv'
    <2>1. wire' \in Seq(WireLines)
      BY <1>2, FrameLines
    <2>2. ASSUME NEW b \in Conns, stage[b] = "new" PROVE Unused(b)'
      BY <1>2, <2>2 DEF QuietInv, ListenerInv, Unused, SendFrame, Receive, Streaming
    <2> QED BY <2>1, <2>2 DEF SendFrame, Receive, ListenerInv, QuietInv
  <1>5. ASSUME NEW i \in Item, Coming(i) PROVE Accounted(i)'
    <2>1. CASE InHand(i)
      BY <2>1 DEF InHand, Coming, Accounted, SendFrame, Receive
    <2>2. CASE InQueue(i)
      <3>1. PICK j \in 1..Len(chan[c]) : chan[c][j].item = i
        BY <1>2, <2>2 DEF InQueue
      <3>2. CASE j = 1
        <4>1. d.item = i
          BY <1>1, <1>2, <3>1, <3>2
        <4>2. OnWire(i)'
          <5>1. /\ 1 \in DOMAIN wire'
                /\ wire'[1].field = "data" /\ wire'[1].delivery.item = i
            BY <1>2, <4>1, FrameLines
          <5> QED BY <5>1 DEF OnWire
        <4> QED BY <4>2 DEF Coming, Accounted
      <3>3. CASE j # 1
        <4>1. j - 1 \in DOMAIN chan'[c] /\ chan'[c][j - 1].item = i
          BY <1>3, <3>1, <3>3
        <4>2. InQueue(i)'
          BY <1>2, <4>1 DEF InQueue, SendFrame
        <4> QED BY <4>2 DEF Coming, Accounted
      <3> QED BY <3>2, <3>3
    <2>3. ~OnWire(i)
      BY DEF OnWire, SendFrame
    <2> QED BY <1>5, <2>1, <2>2, <2>3 DEF Coming
  <1>6. InQueue(d.item)
    BY <1>1, <1>2 DEF InQueue
  <1>7. ASSUME NEW n \in Nat \ {0}, MayResumeAt(n)' PROVE MayResumeAt(n)
    <2>1. IdOnWire(n)' => n = d.item.id
      <3> SUFFICES ASSUME NEW k \in DOMAIN wire', wire'[k].field = "id", wire'[k].id = n
                   PROVE  n = d.item.id
        BY DEF IdOnWire
      <3>1. k \in DOMAIN Frame(d) /\ Frame(d)[k].field = "id" /\ Frame(d)[k].id = n
        BY <1>2
      <3> QED BY <3>1, FrameIds
    <2>2. ASSUME NEW i \in Item, Coming(i)' PROVE Coming(i)
      <3>1. CASE InHand(i)'
        BY <3>1 DEF InHand, Coming, SendFrame, Receive
      <3>2. CASE InQueue(i)'
        <4>1. PICK j \in DOMAIN chan'[c] : chan'[c][j].item = i
          BY <1>2, <3>2 DEF InQueue, SendFrame
        <4>2. j + 1 \in DOMAIN chan[c] /\ chan[c][j + 1].item = i
          BY <1>2, <1>3, <4>1
        <4> QED BY <1>2, <4>2 DEF InQueue, Coming
      <3>3. CASE OnWire(i)'
        <4>1. i = d.item
          BY <1>2, <3>3, FrameLines DEF OnWire
        <4> QED BY <1>6, <4>1 DEF Coming
      <3> QED BY <2>2, <3>1, <3>2, <3>3 DEF Coming
    <2>3. (\E i \in Item : i.id = n /\ Coming(i))' => MayResumeAt(n)
      BY <2>2 DEF MayResumeAt
    <2>4. IdOnWire(n)' => MayResumeAt(n)
      BY <1>1, <1>6, <2>1 DEF MayResumeAt, Coming
    <2> QED BY <1>7, <2>3, <2>4 DEF MayResumeAt, SendFrame
  <1>8. /\ ring' = ring /\ conn' = conn /\ open' = open
        /\ tried' = tried /\ overflow' = overflow
    BY DEF SendFrame, Receive, fateVars
  <1>9. CaughtUpInv'
    BY <1>5, <1>7, <1>8, MovingOnKeepsPlace
  <1> QED BY <1>4, <1>9

\* A line is read: an id, or a delivery, which is tried then.
LEMMA ReadKeepsInv ==
    ASSUME QuietInv, ReadId \/ ReadData
    PROVE  ListenerInv' /\ CaughtUpInv'
  <1> USE Typed
  <1>1. /\ wire # <<>> /\ wire \in Seq(WireLines) /\ wire' = Tail(wire)
        /\ UNCHANGED <<hubVars, conn, overflow>>
        /\ tried \subseteq tried'
    BY DEF ReadId, ReadData, QuietInv, ListenerInv, fateVars
  <1>2. /\ Len(wire') = Len(wire) - 1 /\ Len(wire) \in Nat
        /\ DOMAIN wire = 1..Len(wire) /\ DOMAIN wire' = 1..Len(wire')
        /\ \A k \in DOMAIN wire' : k + 1 \in DOMAIN wire /\ wire'[k] = wire[k + 1]
        /\ \A k \in DOMAIN wire : k # 1 => k - 1 \in DOMAIN wire'
                                           /\ wire'[k - 1] = wire[k]
        /\ wire' \in Seq(WireLines)
        /\ Head(wire) = wire[1] /\ 1 \in DOMAIN wire /\ wire[1] \in WireLines
    BY <1>1, HeadTailProperties
  <1>3. /\ pendingId' \in Nat /\ lastId' \in Nat
        /\ \A n \in Nat \ {0} : n = lastId' \/ n = pendingId' => MayResumeAt(n)
    <2>1. CASE ReadId
      <3>1. Head(wire).field = "id" /\ pendingId' = wire[1].id /\ lastId' = lastId
        BY <1>2, <2>1 DEF ReadId
      <3>2. wire[1].id \in Nat
        BY <1>2, <3>1 DEF WireLines
      <3> QED BY <1>2, <3>1, <3>2 DEF MayResumeAt, IdOnWire, QuietInv, ListenerInv
    <2>2. CASE ReadData
      BY <2>2 DEF ReadData, MayResumeAt, QuietInv, ListenerInv
    <2> QED BY <2>1, <2>2
  <1>4. ListenerInv'
    <2>1. ASSUME NEW b \in Conns, stage[b] = "new" PROVE Unused(b)'
      BY <1>1, <2>1 DEF QuietInv, ListenerInv, Unused, hubVars
    <2> QED BY <1>1, <1>2, <1>3, <2>1 DEF ListenerInv, QuietInv, hubVars
  <1>5. ASSUME NEW i \in Item, Coming(i) PROVE Accounted(i)'
    <2>1. CASE InHand(i)
      BY <1>1, <2>1 DEF InHand, Coming, Accounted, hubVars
    <2>2. CASE InQueue(i)
      BY <1>1, <2>2 DEF InQueue, Coming, Accounted, hubVars
    <2>3. CASE OnWire(i)
      <3>1. PICK k \in DOMAIN wire : wire[k].field = "data" /\ wire[k].delivery.item = i
        BY <2>3 DEF OnWire
      <3>2. CASE k = 1
        <4>1. ReadData
          BY <1>2, <3>1, <3>2 DEF ReadId
        <4>2. i \in tried'
          BY <1>2, <3>1, <3>2, <4>1 DEF ReadData
        <4> QED BY <4>2 DEF Accounted
      <3>3. CASE k # 1
        BY <1>2, <3>1, <3>3 DEF OnWire, Coming, Accounted
      <3> QED BY <3>2, <3>3
    <2> QED BY <1>5, <2>1, <2>2, <2>3 DEF Coming
  <1>6. ASSUME NEW n \in Nat \ {0}, MayResumeAt(n)' PROVE MayResumeAt(n)
    <2>1. IdOnWire(n)' => IdOnWire(n)
      BY <1>2 DEF IdOnWire
    <2>2. ASSUME NEW i \in Item, Coming(i)' PROVE Coming(i)
      BY <1>1, <1>2, <2>2 DEF Coming, InHand, InQueue, OnWire, hubVars
    <2> QED BY <1>3, <1>6, <2>1, <2>2 DEF MayResumeAt
  <1>7. CaughtUpInv'
    BY <1>1, <1>5, <1>6, MovingOnKeepsPlace DEF hubVars
  <1> QED BY <1>4, <1>7

\* A task of get_events goes on to publish `ready', which has no id.
LEMMA ReadyKeepsInv ==
    ASSUME QuietInv, NEW c \in Conns, PublishReady(c),
           UNCHANGED <<listenerVars, fateVars>>
    PROVE  ListenerInv' /\ CaughtUpInv'
  <1> USE Typed
  <1> DEFINE h == IF tx = 0 THEN NoTask
                  ELSE [to |-> tx, plan |-> <<Live(ReadyItem)>>,
                        left |-> {1}, noting |-> <<>>]
  <1>1. /\ hand' = [hand EXCEPT ![c] = h] /\ hand[c].left = {}
        /\ h.left # {} => h.to = tx
        /\ \A k \in h.left : h.plan[k].item.id = 0
        /\ stage' = [stage EXCEPT ![c] = "ready"]
    BY DEF PublishReady, NoTask, Idle, Live, ReadyItem
  <1> HIDE DEF h
  <1>2. /\ hand'[c] = h
        /\ \A t \in Tasks \ {c} : hand'[t] = hand[t]
    BY <1>1
  <1>3. ListenerInv'
    <2>1. ASSUME NEW b \in Conns, stage'[b] = "new" PROVE Unused(b)'
      <3>1. stage[b] = "new"
        BY <1>1, <2>1 DEF QuietInv, TypeOK
      <3>2. Unused(b)
        BY <3>1 DEF QuietInv, ListenerInv
      <3> QED BY <1>1, <1>2, <3>2 DEF Unused, PublishReady, listenerVars
    <2> QED BY <2>1 DEF ListenerInv, QuietInv, PublishReady, listenerVars
  <1>4. ASSUME NEW i \in Item, Coming(i) PROVE Coming(i)'
    <2>1. InHand(i) => InHand(i)'
      BY <1>1, <1>2 DEF InHand, listenerVars
    <2> QED BY <1>4, <2>1 DEF Coming, InQueue, OnWire, PublishReady, listenerVars
  <1>5. ASSUME NEW n \in Nat \ {0}, MayResumeAt(n)' PROVE MayResumeAt(n)
    <2>1. ASSUME NEW i \in Item, i.id # 0, Coming(i)' PROVE Coming(i)
      <3>1. InHand(i)' => InHand(i)
        BY <1>1, <1>2, <2>1 DEF InHand, listenerVars
      <3> QED BY <2>1, <3>1 DEF Coming, InQueue, OnWire, PublishReady, listenerVars
    <2> QED BY <1>5, <2>1 DEF MayResumeAt, IdOnWire, listenerVars
  <1>6. /\ ring' = ring /\ conn' = conn /\ open' = open
        /\ tried' = tried /\ overflow' = overflow
    BY DEF PublishReady, listenerVars, fateVars
  <1>7. CaughtUpInv'
    BY <1>4, <1>5, <1>6, MovingOnKeepsPlace DEF Accounted
  <1> QED BY <1>3, <1>7

\* A DM is noted.
LEMMA NoteKeepsInv ==
    ASSUME QuietInv, NEW t \in Tasks, Note(t), UNCHANGED <<listenerVars, fateVars>>
    PROVE  ListenerInv' /\ CaughtUpInv'
  <1> USE Typed
  <1>1. \A u \in Tasks : /\ hand'[u].to = hand[u].to /\ hand'[u].plan = hand[u].plan
                         /\ hand'[u].left = hand[u].left
    BY DEF Note, Hands
  <1>2. ListenerInv'
    <2>1. ASSUME NEW b \in Conns, stage[b] = "new" PROVE Unused(b)'
      BY <1>1, <2>1 DEF QuietInv, ListenerInv, Unused, Note, listenerVars
    <2> QED BY <2>1 DEF ListenerInv, QuietInv, Note, listenerVars
  <1>3. \A i \in Item : Coming(i)' <=> Coming(i)
    BY <1>1 DEF Coming, InHand, InQueue, OnWire, Note, listenerVars
  <1>4. \A n \in Nat : MayResumeAt(n)' => MayResumeAt(n)
    BY <1>3 DEF MayResumeAt, IdOnWire, listenerVars
  <1>5. /\ ring' = ring /\ conn' = conn /\ open' = open
        /\ tried' = tried /\ overflow' = overflow
    BY DEF Note, listenerVars, fateVars
  <1>6. CaughtUpInv'
    BY <1>3, <1>4, <1>5, MovingOnKeepsPlace DEF Accounted
  <1> QED BY <1>2, <1>6
-------------------------------------------------------------------------------
(***************************************************************************)
(* Steps that move the ring or the connection                              *)
(***************************************************************************)

\* An item enters the ring and is handed to the connection; the places of the
\* ring move down when the oldest item goes.
LEMMA PublishKeepsInv ==
    ASSUME QuietInv, NEW p \in Publishers, NEW x \in Items, Publish(p, x),
           UNCHANGED <<listenerVars, fateVars>>
    PROVE  ListenerInv' /\ CaughtUpInv'
  <1>0. /\ ring \in Seq(Item) /\ Len(ring) \in Nat /\ DOMAIN ring = 1..Len(ring)
        /\ hand \in [Tasks -> Hands]
    BY Typed
  <1> DEFINE h == [to |-> tx, plan |-> <<Live(x)>>, left |-> {1}, noting |-> <<>>]
  <1>1. /\ hand' = hand \/ hand' = [hand EXCEPT ![p] = h]
        /\ tx # 0 => hand' = [hand EXCEPT ![p] = h]
        /\ tx = 0 => hand' = hand
        /\ hand[p].left = {}
        /\ h.to = tx /\ h.left = {1} /\ h.plan[1].item = x
    BY DEF Publish, Idle, Live
  <1> HIDE DEF h
  <1>2. /\ tx # 0 => hand'[p] = h
        /\ \A t \in Tasks \ {p} : hand'[t] = hand[t]
    BY <1>0, <1>1
  <1>3. x \in Item /\ Len(ring) <= RingCap /\ RingCap \in Nat \ {0}
    BY ItemsType, HubAssumption DEF QuietInv, ListenerInv
  <1>4. CASE Transient(x)
    <2>1. ring' = ring /\ x.id = 0
      BY <1>4 DEF Publish, Transient
    <2>2. ListenerInv'
      <3>1. ASSUME NEW c \in Conns, stage[c] = "new" PROVE Unused(c)'
        BY <1>1, <1>2, <3>1 DEF Unused, QuietInv, ListenerInv, Publish, listenerVars
      <3> QED BY <2>1, <3>1 DEF QuietInv, ListenerInv, Publish, listenerVars
    <2>3. ASSUME NEW i \in Item, Coming(i) PROVE Coming(i)'
      <3>1. InHand(i) => InHand(i)'
        BY <1>1, <1>2 DEF InHand, listenerVars
      <3> QED BY <2>3, <3>1 DEF Coming, InQueue, OnWire, Publish, listenerVars
    <2>4. ASSUME NEW i \in Item, i.id # 0, Coming(i)' PROVE Coming(i)
      <3>1. InHand(i)' => InHand(i)
        BY <1>1, <1>2, <2>1, <2>4 DEF InHand, listenerVars
      <3> QED BY <2>4, <3>1 DEF Coming, InQueue, OnWire, Publish, listenerVars
    <2>5. \A n \in Nat \ {0} : MayResumeAt(n)' => MayResumeAt(n)
      BY <2>4 DEF MayResumeAt, IdOnWire, listenerVars
    <2>6. /\ conn' = conn /\ open' = open
          /\ tried' = tried /\ overflow' = overflow
      BY DEF Publish, listenerVars, fateVars
    <2>7. CaughtUpInv'
      BY <2>1, <2>3, <2>5, <2>6, MovingOnKeepsPlace DEF Accounted
    <2> QED BY <2>2, <2>7
  <1>5. CASE ~Transient(x)
    <2>0. ring' = PushRing(ring, x) /\ x.id # 0
      BY <1>5 DEF Publish, Transient
    <2>1. PICK shift \in {0, 1}, r \in Seq(Item) :
             /\ ring' = r
             /\ Len(r) = Len(ring) + 1 - shift /\ Len(r) \in 1..RingCap
             /\ \A k \in 1..Len(r) : r[k] = Append(ring, x)[k + shift]
      <3> DEFINE s == PushRing(ring, x)
      <3>1. /\ s \in Seq(Item)
            /\ Len(s) = IF Len(ring) = RingCap THEN RingCap ELSE Len(ring) + 1
            /\ \A k \in 1..Len(s) :
                  s[k] = IF Len(ring) = RingCap THEN Append(ring, x)[k + 1]
                                                ELSE Append(ring, x)[k]
        BY <1>0, <1>3, PushRingType
      <3> HIDE DEF s
      <3>2. CASE Len(ring) = RingCap
        <4>1. Len(s) = Len(ring) + 1 - 1 /\ Len(s) \in 1..RingCap
          BY <1>0, <1>3, <3>1, <3>2
        <4> QED BY <2>0, <3>1, <3>2, <4>1 DEF s
      <3>3. CASE Len(ring) # RingCap
        <4>0. Len(ring) + 1 \in 1..RingCap
          <5>1. \A m, n \in Nat : m <= n /\ m # n => m + 1 \in 1..n
            OBVIOUS
          <5>2. Len(ring) \in Nat /\ RingCap \in Nat
            BY <1>0, <1>3
          <5> QED BY <1>3, <3>3, <5>1, <5>2
        <4>1. Len(s) = Len(ring) + 1 - 0 /\ Len(s) \in 1..RingCap
          BY <1>0, <3>1, <3>3, <4>0
        <4>2. \A k \in 1..Len(s) : k + 0 = k
          OBVIOUS
        <4> QED BY <2>0, <3>1, <3>3, <4>1, <4>2 DEF s
      <3> QED BY <3>2, <3>3
    <2>3. /\ DOMAIN r = 1..Len(r) /\ Len(r) \in Nat
          /\ Len(r) \in DOMAIN r /\ r[Len(r)] = x
          /\ \A k \in 1..Len(r) - 1 : r[k] = ring[k + shift]
      <3>1. DOMAIN r = 1..Len(r) /\ Len(r) \in Nat
        BY <2>1
      <3>2. Len(r) \in 1..Len(r) /\ Len(r) + shift = Len(ring) + 1
        <4>1. shift = 0 => Len(r) = Len(ring) + 1
          BY <1>0, <2>1
        <4>2. shift = 1 => Len(r) = Len(ring)
          BY <1>0, <2>1
        <4> QED BY <1>0, <2>1, <3>1, <4>1, <4>2
      <3>3. Append(ring, x)[Len(ring) + 1] = x
        BY <1>0, <1>3, AppendProperties
      <3>4. ASSUME NEW k \in 1..Len(r) - 1 PROVE r[k] = ring[k + shift]
        <4>1. k + shift \in 1..Len(ring) /\ k \in 1..Len(r)
          BY <1>0, <2>1, <3>1
        <4>2. Append(ring, x)[k + shift] = ring[k + shift]
          BY <1>0, <1>3, <4>1, AppendProperties
        <4> QED BY <2>1, <3>1, <4>2
      <3> QED BY <2>1, <3>1, <3>2, <3>3, <3>4
    <2>4. ListenerInv'
      <3>1. ASSUME NEW c \in Conns, stage[c] = "new" PROVE Unused(c)'
        BY <1>1, <1>2, <3>1 DEF Unused, QuietInv, ListenerInv, Publish, listenerVars
      <3>2. \A k \in DOMAIN r : r[k].id # 0
        <4>1. \A k \in DOMAIN ring : ring[k].id # 0
          BY DEF QuietInv, ListenerInv
        <4>2. ASSUME NEW k \in 1..Len(r) - 1 PROVE r[k].id # 0
          <5>1. k + shift \in DOMAIN ring
            BY <1>0, <2>1, <2>3
          <5> QED BY <2>3, <4>1, <5>1
        <4> QED BY <2>0, <2>1, <2>3, <4>2
      <3> QED BY <2>1, <3>1, <3>2 DEF QuietInv, ListenerInv, Publish, listenerVars
    <2>5. CaughtUpInv'
      <3> SUFFICES ASSUME conn # 0, conn \in open
                   PROVE  \E b \in 0..Len(r) : TookOverAt(b)'
        BY <2>1 DEF CaughtUpInv, Publish, listenerVars
      <3>1. PICK b \in 0..Len(ring) : TookOverAt(b)
        BY DEF QuietInv, CaughtUpInv
      <3>2. PICK e \in 0..Len(r) : e = IF b = 0 THEN 0 ELSE b - shift
        <4>1. b \in 0..Len(ring) /\ Len(r) \in Nat
          BY <2>3
        <4> QED BY <1>0, <2>1, <4>1
      <3>3. tx = conn
        BY DEF QuietInv, ListenerInv
      <3>4. Coming(x)'
        <4>1. p \in Tasks /\ 1 \in hand'[p].left /\ hand'[p].to = conn'
              /\ hand'[p].plan[1].item = x
          BY <1>1, <1>2, <3>3 DEF listenerVars
        <4> QED BY <4>1 DEF InHand, Coming
      <3>5. ASSUME NEW i, Accounted(i) PROVE Accounted(i)'
        <4>1. InHand(i) => InHand(i)'
          BY <1>1, <1>2 DEF InHand, listenerVars
        <4> QED BY <3>5, <4>1 DEF Accounted, Coming, InQueue, OnWire, Publish,
                                  listenerVars, fateVars
      <3>6. ASSUME NEW k \in DOMAIN r, k > e PROVE Accounted(r[k])'
        <4>1. CASE k = Len(r)
          BY <2>3, <3>4, <4>1 DEF Accounted
        <4>2. CASE k # Len(r)
          <5>1. r[k] = ring[k + shift] /\ k \in 1..Len(r) - 1
            BY <2>3, <3>6, <4>2
          <5>0. k + shift \in DOMAIN ring
            BY <1>0, <2>1, <2>3, <5>1
          <5>4. k + shift > b
            BY <2>1, <3>2, <3>6, <5>1
          <5>2. Accounted(ring[k + shift])
            BY <3>1, <5>0, <5>4 DEF TookOverAt
          <5> QED BY <3>5, <5>1, <5>2
        <4> QED BY <4>1, <4>2
      <3>7. ASSUME e # 0, NEW n \in Nat, MayResumeAt(n)', n # 0
            PROVE  \E j \in DOMAIN r : j >= e /\ r[j].id = n
        <4>1. CASE n = x.id
          <5>1. Len(r) >= e
            BY <2>3, <3>2
          <5> QED BY <2>3, <4>1, <5>1
        <4>2. CASE n # x.id
          <5>1. ASSUME NEW i \in Item, i # x, Coming(i)' PROVE Coming(i)
            <6>1. InHand(i)' => InHand(i)
              BY <1>1, <1>2, <5>1 DEF InHand, listenerVars
            <6> QED BY <5>1, <6>1 DEF Coming, InQueue, OnWire, Publish, listenerVars
          <5>2. MayResumeAt(n)
            BY <3>7, <4>2, <5>1 DEF MayResumeAt, IdOnWire, listenerVars
          <5>3. PICK j \in DOMAIN ring : j >= b /\ ring[j].id = n
            BY <3>1, <3>2, <3>7, <5>2 DEF TookOverAt
          <5>4. j - shift \in 1..Len(r) - 1 /\ j - shift >= e
            BY <1>0, <2>1, <2>3, <3>2, <3>7, <5>3
          <5>5. r[j - shift] = ring[j]
            BY <2>1, <2>3, <5>3, <5>4
          <5> QED BY <2>1, <2>3, <5>3, <5>4, <5>5
        <4> QED BY <4>1, <4>2
      <3>8. TookOverAt(e)'
        BY <2>1, <3>6, <3>7 DEF TookOverAt
      <3> QED BY <2>1, <3>8
    <2> QED BY <2>4, <2>5
  <1> QED BY <1>4, <1>5

\* A plan without a horizon, and with a budget no backlog exceeds, is the backlog.
LEMMA AllIsPlanned ==
    ASSUME Horizon = 0, ReplayMax = RingCap,
           NEW s \in Seq(Item), Len(s) <= RingCap
    PROVE  PlanPositions(s, ReplayMax, Horizon, now) = 1..Len(s)
  <1>1. Len(s) \in Nat /\ DOMAIN s = 1..Len(s)
    OBVIOUS
  <1>2. \A k \in DOMAIN s : Fresh(s[k], Horizon, now)
    BY DEF Fresh
  <1>3. ASSUME NEW k \in DOMAIN s
        PROVE  Cardinality({j \in DOMAIN s : j > k /\ Fresh(s[j], Horizon, now)})
                 < ReplayMax
    <2> DEFINE later == {j \in DOMAIN s : j > k /\ Fresh(s[j], Horizon, now)}
    <2>1. later \subseteq 2..Len(s)
      BY <1>1
    <2>2. IsFiniteSet(2..Len(s)) /\ Cardinality(2..Len(s)) = Len(s) - 1
      <3>1. Len(s) >= 1
        BY <1>1
      <3>2. /\ IsFiniteSet(2..Len(s))
            /\ Cardinality(2..Len(s)) = IF 2 > Len(s) THEN 0 ELSE Len(s) - 2 + 1
        <4>1. 2 \in Int /\ Len(s) \in Int
          BY <1>1
        <4> QED BY <4>1, FS_Interval
      <3> QED BY <1>1, <3>1, <3>2
    <2> HIDE DEF later
    <2>3. Cardinality(later) \in Nat /\ Cardinality(later) <= Len(s) - 1
      <3>1. IsFiniteSet(later) /\ Cardinality(later) <= Cardinality(2..Len(s))
        BY <2>1, <2>2, FS_Subset
      <3>2. Cardinality(later) \in Nat
        BY <3>1, FS_CardinalityType
      <3> QED BY <2>2, <3>1, <3>2
    <2>4. Cardinality(later) < ReplayMax
      BY <1>1, <2>3, HubAssumption
    <2> QED BY <2>4 DEF later
  <1> QED BY <1>1, <1>2, <1>3 DEF PlanPositions

\* The listener connects: the whole backlog after its resume point is in hand.
LEMMA SubscribeKeepsInv ==
    ASSUME Horizon = 0, ReplayMax = RingCap,
           QuietInv, NEW c \in Conns, Subscribe(c)
    PROVE  ListenerInv' /\ CaughtUpInv'
  <1>0. /\ ring \in Seq(Item) /\ Len(ring) \in Nat /\ DOMAIN ring = 1..Len(ring)
        /\ hand \in [Tasks -> Hands]
        /\ Len(ring) <= RingCap /\ lastId \in Nat
    BY Typed DEF QuietInv, ListenerInv
  <1>1. PICK after \in ResumeAfter(lastId) :
           hand' = [hand EXCEPT ![c] =
                      ReplayTask(c, SubSeq(ring, after + 1, Len(ring)))]
    BY DEF Subscribe, Connect, ResumeId
  <1>2. /\ after \in 0..Len(ring)
        /\ lastId # 0 /\ after # 0 => ring[after].id = lastId
    BY <1>0 DEF ResumeAfter
  <1> DEFINE s == SubSeq(ring, after + 1, Len(ring))
  <1>3. /\ s \in Seq(Item) /\ Len(s) = Len(ring) - after
        /\ \A k \in 1..Len(s) : s[k] = ring[after + k]
    <2>1. \A k \in after + 1..Len(ring) : ring[k] \in Item
      BY <1>0, <1>2, ElementOfSeq
    <2>2. after + 1 \in 1..Len(ring) + 1 /\ Len(ring) - (after + 1) + 1 = Len(ring) - after
      BY <1>0, <1>2
    <2>3. /\ s \in Seq(Item)
          /\ Len(s) = IF after + 1 <= Len(ring) THEN Len(ring) - (after + 1) + 1 ELSE 0
          /\ \A k \in 1..Len(ring) - (after + 1) + 1 : s[k] = ring[after + 1 + k - 1]
      BY <1>0, <1>2, <2>1, SubSeqProperties
    <2>4. \A k \in Nat : after + 1 + k - 1 = after + k
      BY <1>2
    <2> HIDE DEF s
    <2>5. Len(s) = Len(ring) - after
      <3>1. after \in Nat /\ Len(ring) \in Nat /\ after <= Len(ring)
        BY <1>0, <1>2
      <3>2. Len(s) = IF after + 1 <= Len(ring) THEN Len(ring) - (after + 1) + 1 ELSE 0
        BY <2>3
      <3>3. \A m, n \in Nat : m <= n =>
               n - m = IF m + 1 <= n THEN n - (m + 1) + 1 ELSE 0
        OBVIOUS
      <3> QED BY <3>1, <3>2, <3>3
    <2>6. ASSUME NEW k \in 1..Len(s) PROVE s[k] = ring[after + k]
      <3>1. k \in 1..Len(ring) - (after + 1) + 1 /\ k \in Nat
        BY <2>2, <2>5
      <3>2. s[k] = ring[after + 1 + k - 1]
        BY <2>3, <3>1
      <3>3. after + 1 + k - 1 = after + k
        BY <2>4, <3>1
      <3> QED BY <3>2, <3>3
    <2> QED BY <2>3, <2>5, <2>6
  <1> HIDE DEF s
  <1>4. /\ hand'[c].to = c /\ hand'[c].left = 1..Len(s)
        /\ \A k \in 1..Len(s) : hand'[c].plan[k].item = ring[after + k]
        /\ \A t \in Tasks \ {c} : hand'[t] = hand[t]
    <2>1. hand' = [hand EXCEPT ![c] = ReplayTask(c, s)]
      BY <1>1 DEF s
    <2>2. PlanPositions(s, ReplayMax, Horizon, now) = 1..Len(s)
      <3>1. Len(s) <= RingCap
        BY <1>0, <1>2, <1>3, HubAssumption
      <3> QED BY <1>3, <3>1, AllIsPlanned
    <2>3. DOMAIN s = 1..Len(s)
      BY <1>3
    <2>4. /\ ReplayTask(c, s).to = c /\ ReplayTask(c, s).left = 1..Len(s)
          /\ \A k \in 1..Len(s) : ReplayTask(c, s).plan[k].item = s[k]
      BY <2>2, <2>3 DEF ReplayTask, Replayed
    <2> QED BY <1>0, <1>3, <2>1, <2>4
  <1>5. Unused(c)
    BY DEF Subscribe, Connect, QuietInv, ListenerInv
  <1>6. ListenerInv'
    <2>1. ASSUME NEW b \in Conns, stage'[b] = "new" PROVE Unused(b)'
      <3>1. b # c /\ stage[b] = "new"
        BY <2>1 DEF Subscribe, Connect, QuietInv, TypeOK
      <3>2. Unused(b)
        BY <3>1 DEF QuietInv, ListenerInv
      <3> QED BY <1>4, <3>1, <3>2 DEF Unused, Subscribe, Connect
    <2>2. <<>> \in Seq(WireLines) /\ c \in 0..MaxConn
      BY HubAssumption
    <2> QED BY <2>1, <2>2 DEF Subscribe, Connect, QuietInv, ListenerInv
  <1>7. ASSUME NEW k \in 1..Len(ring), k > after PROVE Coming(ring[k])'
    <2>1. k - after \in 1..Len(s) /\ after + (k - after) = k
      BY <1>0, <1>2, <1>3, <1>7
    <2>2. k - after \in hand'[c].left /\ hand'[c].plan[k - after].item = ring[k]
      BY <1>4, <2>1
    <2>3. conn' = c /\ ring' = ring
      BY DEF Subscribe, Connect
    <2>4. PICK x : x = ring[k]
      OBVIOUS
    <2>5. InHand(x)'
      BY <1>4, <2>2, <2>3, <2>4 DEF InHand
    <2> QED BY <2>3, <2>4, <2>5 DEF Coming
  <1>8. ASSUME NEW i \in Item, Coming(i)'
        PROVE  \E j \in 1..Len(ring) : j >= after /\ ring[j] = i
    <2>1. conn' = c /\ wire' = <<>> /\ chan'[c] = <<>>
      BY <1>5 DEF Subscribe, Connect, Unused
    <2>2. PICK t \in Tasks : \E k \in hand'[t].left :
             hand'[t].to = c /\ hand'[t].plan[k].item = i
      BY <1>8, <2>1 DEF Coming, InHand, InQueue, OnWire
    <2>3. t = c
      BY <1>4, <1>5, <2>2 DEF Unused
    <2>4. PICK k \in 1..Len(s) : ring[after + k] = i
      BY <1>4, <2>2, <2>3
    <2> QED BY <1>0, <1>2, <1>3, <2>4
  <1>9. ASSUME after # 0, NEW n \in Nat, MayResumeAt(n)', n # 0
        PROVE  \E j \in 1..Len(ring) : j >= after /\ ring[j].id = n
    <2>1. lastId' = lastId /\ pendingId' = 0 /\ wire' = <<>>
      BY DEF Subscribe
    <2>2. n = lastId \/ \E i \in Item : i.id = n /\ Coming(i)'
      BY <1>9, <2>1 DEF MayResumeAt, IdOnWire
    <2> QED BY <1>0, <1>2, <1>8, <1>9, <2>2
  <1>10. ring' = ring
    BY DEF Subscribe, Connect
  <1>11. TookOverAt(after)'
    BY <1>0, <1>7, <1>9, <1>10 DEF TookOverAt, Accounted
  <1>12. CaughtUpInv'
    BY <1>2, <1>10, <1>11 DEF CaughtUpInv
  <1> QED BY <1>6, <1>12

\* The server's side of a connection goes away.
LEMMA ServerSideGoneKeepsInv ==
    ASSUME QuietInv, NEW c \in Conns, ServerSideGone(c)
    PROVE  ListenerInv' /\ CaughtUpInv'
  <1> USE Typed
  <1>1. /\ open' = open \ {c} /\ chan'[c] = <<>>
        /\ \A b \in Conns \ {c} : chan'[b] = chan[b]
    BY DEF ServerSideGone, ClientGone
  <1>2. ListenerInv'
    <2>1. ASSUME NEW b \in Conns, stage[b] = "new" PROVE Unused(b)'
      BY <1>1, <2>1 DEF QuietInv, ListenerInv, Unused, ServerSideGone, ClientGone,
                        listenerVars
    <2> QED BY <2>1 DEF ServerSideGone, ClientGone, listenerVars, ListenerInv, QuietInv
  <1>3. ASSUME conn # 0, conn \in open' PROVE \A i \in Item : Coming(i)' <=> Coming(i)
    BY <1>1, <1>3 DEF Coming, InHand, InQueue, OnWire, ServerSideGone, ClientGone,
                      listenerVars
  <1>4. ASSUME conn # 0, conn \in open'
        PROVE  \A n \in Nat : MayResumeAt(n)' => MayResumeAt(n)
    BY <1>3, <1>4 DEF MayResumeAt, IdOnWire, ServerSideGone, listenerVars
  <1>5. /\ ring' = ring /\ conn' = conn
        /\ tried' = tried /\ overflow' = overflow
    BY DEF ServerSideGone, ClientGone, listenerVars, fateVars
  <1>6. CaughtUpInv'
    BY <1>1, <1>3, <1>4, <1>5, MovingOnKeepsPlace DEF Accounted
  <1> QED BY <1>2, <1>6

\* The stream ends, or everything does: nothing is owed until the next connection.
LEMMA EndsKeepInv ==
    ASSUME QuietInv, StreamEnds \/ SidecarRestart
    PROVE  ListenerInv' /\ CaughtUpInv'
  <1>1. conn' = 0 /\ wire' = <<>> /\ pendingId' = 0
    BY DEF StreamEnds, SidecarRestart
  <1>2. CaughtUpInv'
    BY <1>1 DEF CaughtUpInv
  <1>3. <<>> \in Seq(WireLines) /\ 0 \in 0..MaxConn /\ 0 \in Nat /\ 0 \notin Conns
    BY HubAssumption
  <1>4. CASE StreamEnds
    <2>1. ASSUME NEW b \in Conns, stage[b] = "new" PROVE Unused(b)'
      BY <1>1, <1>3, <1>4, <2>1 DEF QuietInv, ListenerInv, Unused, StreamEnds, hubVars
    <2> QED BY <1>1, <1>2, <1>3, <1>4, <2>1 DEF QuietInv, ListenerInv, StreamEnds, hubVars
  <1>5. CASE SidecarRestart
    <2>1. ASSUME NEW b \in Conns, stage'[b] = "new" PROVE Unused(b)'
      BY <1>1, <1>3, <1>5, <2>1 DEF Unused, SidecarRestart, NoTask
    <2>2. ring' = <<>> /\ tx' = 0 /\ lastId' \in Nat
      BY <1>5 DEF SidecarRestart, QuietInv, ListenerInv
    <2>3. Len(ring') <= RingCap /\ DOMAIN ring' = {}
      BY <2>2, HubAssumption
    <2> QED BY <1>1, <1>2, <1>3, <2>1, <2>2, <2>3 DEF ListenerInv
  <1> QED BY <1>4, <1>5

-------------------------------------------------------------------------------
(***************************************************************************)
(* Nothing owed is left                                                    *)
(***************************************************************************)

LEMMA DeliveryTypeNext ==
    ASSUME TypeOK, [DeliveryNext]_deliveryVars
    PROVE  TypeOK'
  <1>1. ASSUME [Next]_hubVars PROVE TypeOK'
    BY <1>1, TypeNext
  <1>2. ASSUME NEW c \in Conns, Subscribe(c) PROVE TypeOK'
    BY <1>2, ConnectTyped DEF Subscribe
  <1>3. CASE SidecarRestart
    <2>1. NoTask \in Hands /\ NoTask.left = {}
      BY HubAssumption DEF NoTask, Hands
    <2>2. hand' \in [Tasks -> Hands] /\ \A t \in Tasks : hand'[t].left = {}
      BY <1>3, <2>1 DEF SidecarRestart
    <2>3. stage' \in [Conns -> Stages]
      BY <1>3 DEF SidecarRestart, TypeOK, Stages
    <2> QED BY <1>3, <2>2, <2>3, HubAssumption DEF SidecarRestart, TypeOK, Hands
  <1>4. CASE ReadId \/ ReadData \/ StreamEnds \/ UNCHANGED deliveryVars
    BY <1>1, <1>4 DEF ReadId, ReadData, StreamEnds, deliveryVars
  <1>5. CASE \E p \in Publishers, i \in Items : Publish(p, i)
    BY <1>1, <1>5 DEF Next
  <1>6. ASSUME NEW c \in Conns, PublishReady(c) \/ SendFrame(c) \/ ServerSideGone(c)
        PROVE  TypeOK'
    BY <1>1, <1>6 DEF Next, SendFrame, ServerSideGone
  <1>7. ASSUME NEW t \in Tasks, Note(t) \/ HandOver(t) PROVE TypeOK'
    BY <1>1, <1>7 DEF Next, HandOver
  <1> QED
    BY <1>2, <1>3, <1>4, <1>5, <1>6, <1>7 DEF DeliveryNext, SystemNext, WorldNext

\* One step per action.
LEMMA QuietInvNext ==
    ASSUME Horizon = 0, ReplayMax = RingCap, QuietInv, [DeliveryNext]_deliveryVars
    PROVE  QuietInv'
  <1>1. TypeOK'
    BY DeliveryTypeNext DEF QuietInv
  <1>2. ListenerInv' /\ CaughtUpInv'
    <2>1. CASE UNCHANGED deliveryVars
      BY <2>1 DEF deliveryVars, hubVars, listenerVars, fateVars, QuietInv, ListenerInv,
                  CaughtUpInv, Unused, TookOverAt, Accounted, Coming, InHand, InQueue,
                  OnWire, MayResumeAt, IdOnWire
    <2>2. CASE SystemNext
      BY <2>2, ReadyKeepsInv, NoteKeepsInv, HandOverKeepsInv, SubscribeKeepsInv,
         SendFrameKeepsInv, ReadKeepsInv DEF SystemNext
    <2>3. CASE WorldNext
      BY <2>3, PublishKeepsInv, ServerSideGoneKeepsInv, EndsKeepInv DEF WorldNext
    <2> QED BY <2>1, <2>2, <2>3 DEF DeliveryNext
  <1> QED BY <1>1, <1>2 DEF QuietInv

\* README "so a dropped stream recovers the gap instead of losing it": with a
\* replay that skips nothing, a live connection on which sidecar and listener have
\* nothing left to do has tried all that the ring holds behind its resume point,
\* but for what a full queue refused.
THEOREM NothingOwedIsLeft ==
    ASSUME Horizon = 0, ReplayMax = RingCap
    PROVE  DeliverySpec => []QuietMeansCaughtUp
  <1>1. QuietInv => QuietMeansCaughtUp
    <2> SUFFICES ASSUME QuietInv, Quiet, NEW i \in Items, Owed(i)
                 PROVE  i \in tried \union overflow
      BY DEF QuietMeansCaughtUp
    <2>1. conn \in Conns /\ ring \in Seq(Item) /\ DOMAIN ring = 1..Len(ring)
          /\ lastId \in Nat
      BY Typed DEF Quiet, QuietInv, ListenerInv
    <2>2. PICK b \in 0..Len(ring) : TookOverAt(b)
      BY DEF Quiet, Streaming, QuietInv, CaughtUpInv
    <2>3. PICK k \in DOMAIN ring :
             ring[k] = i /\ \A j \in DOMAIN ring : ring[j].id = lastId => j < k
      BY DEF Owed
    <2>4. k > b
      <3>1. CASE b = 0
        BY <2>1, <3>1
      <3>2. CASE b # 0
        <4>1. PICK j \in DOMAIN ring : j >= b /\ ring[j].id = lastId
          BY <2>1, <2>2, <3>2 DEF TookOverAt, MayResumeAt, Owed
        <4> QED BY <2>1, <2>3, <4>1
      <3> QED BY <3>1, <3>2
    <2>5. ~Coming(i)
      BY <2>1 DEF Quiet, Idle, Coming, InHand, InQueue, OnWire
    <2> QED BY <2>2, <2>3, <2>4, <2>5 DEF TookOverAt, Accounted
  <1>2. QuietInv /\ [DeliveryNext]_deliveryVars => QuietInv'
    BY QuietInvNext
  <1> QED BY <1>1, <1>2, QuietInvInit, PTL DEF DeliverySpec

-------------------------------------------------------------------------------
(***************************************************************************)
(* Sequences without repetition                                            *)
(***************************************************************************)

\* Appending a new element keeps a sequence free of repetition.
LEMMA AppendNew ==
    ASSUME NEW S, NEW s \in Seq(S), IsInjective(s), NEW e \in S, e \notin Range(s)
    PROVE  /\ Append(s, e) \in Seq(S) /\ IsInjective(Append(s, e))
           /\ Range(Append(s, e)) = Range(s) \union {e}
  BY DEF IsInjective, Range

\* Removing an element that occurs once leaves all the others, in their order.
LEMMA RemoveOnce ==
    ASSUME NEW S, NEW s \in Seq(S), IsInjective(s), NEW e
    PROVE  /\ RemoveFirst(s, e) \in Seq(S) /\ IsInjective(RemoveFirst(s, e))
           /\ Range(RemoveFirst(s, e)) = Range(s) \ {e}
           /\ Len(RemoveFirst(s, e)) <= Len(s)
  <1>0. DOMAIN s = 1..Len(s)
    OBVIOUS
  <1>1. CASE e \notin Range(s)
    <2>1. RemoveFirst(s, e) = s
      BY <1>0, <1>1 DEF RemoveFirst, Range
    <2> QED BY <1>1, <2>1
  <1>2. CASE e \in Range(s)
    <2>1. PICK k \in 1..Len(s) : s[k] = e
      BY <1>2 DEF Range
    <2>2. {i \in 1..Len(s) : s[i] = e} = {k}
      BY <2>1 DEF IsInjective
    <2>3. Min({k}) = k
      BY <2>1 DEF Min
    <2>4. RemoveFirst(s, e) = RemoveAt(s, k)
      BY <2>1, <2>2, <2>3 DEF RemoveFirst, SelectInSeq
    <2> DEFINE r == RemoveAt(s, k)
    <2>5. /\ r \in Seq(S) /\ Len(r) = Len(s) - 1
          /\ \A i \in 1..Len(s) - 1 : r[i] = IF i < k THEN s[i] ELSE s[i + 1]
      <3> DEFINE left == SubSeq(s, 1, k - 1)
                 right == SubSeq(s, k + 1, Len(s))
      <3>1. /\ left \in Seq(S) /\ Len(left) = k - 1
            /\ \A i \in 1..k - 1 : left[i] = s[i]
        BY <2>1, SubSeqProperties
      <3>2. /\ right \in Seq(S) /\ Len(right) = Len(s) - k
            /\ \A i \in 1..Len(s) - k : right[i] = s[k + i]
        BY <2>1, SubSeqProperties
      <3>3. r = left \o right
        BY DEF RemoveAt
      <3> HIDE DEF left, right, r
      <3>4. /\ r \in Seq(S) /\ Len(r) = Len(left) + Len(right)
            /\ \A i \in 1..Len(left) + Len(right) :
                  r[i] = IF i <= Len(left) THEN left[i] ELSE right[i - Len(left)]
        BY <3>1, <3>2, <3>3, ConcatProperties
      <3>5. Len(left) + Len(right) = Len(s) - 1
        BY <2>1, <3>1, <3>2
      <3> SUFFICES ASSUME NEW i \in 1..Len(s) - 1
                   PROVE  r[i] = IF i < k THEN s[i] ELSE s[i + 1]
        BY <3>4, <3>5
      <3>6. CASE i < k
        <4>1. i \in 1..k - 1 /\ i <= Len(left)
          BY <2>1, <3>1, <3>6
        <4>2. left[i] = s[i]
          BY <3>1, <4>1
        <4> QED BY <3>4, <3>5, <3>6, <4>1, <4>2
      <3>7. CASE i >= k
        <4>1. i - Len(left) \in 1..Len(s) - k
          BY <2>1, <3>1, <3>7
        <4>2. right[i - Len(left)] = s[k + (i - Len(left))]
          BY <3>2, <4>1
        <4>3. k + (i - Len(left)) = i + 1 /\ ~(i <= Len(left))
          BY <2>1, <3>1, <3>7
        <4> QED BY <3>4, <3>5, <3>7, <4>2, <4>3
      <3> QED BY <3>6, <3>7
    <2> HIDE DEF r
    <2>6. IsInjective(r)
      <3>1. DOMAIN r = 1..Len(s) - 1
        BY <2>5
      <3> SUFFICES ASSUME NEW i \in 1..Len(s) - 1, NEW j \in 1..Len(s) - 1, r[i] = r[j]
                   PROVE  i = j
        BY <3>1 DEF IsInjective
      <3>2. \A n \in 1..Len(s) - 1 : \E m \in 1..Len(s) :
               /\ r[n] = s[m] /\ m = IF n < k THEN n ELSE n + 1
        BY <2>1, <2>5
      <3>3. PICK m \in 1..Len(s) : r[i] = s[m] /\ m = IF i < k THEN i ELSE i + 1
        BY <3>2
      <3>4. PICK n \in 1..Len(s) : r[j] = s[n] /\ n = IF j < k THEN j ELSE j + 1
        BY <3>2
      <3>5. m = n
        BY <1>0, <3>3, <3>4 DEF IsInjective
      <3> QED BY <2>1, <3>3, <3>4, <3>5
    <2>7. Range(r) \subseteq Range(s) \ {e}
      <3> SUFFICES ASSUME NEW i \in 1..Len(s) - 1
                   PROVE  r[i] \in Range(s) \ {e}
        BY <2>5 DEF Range
      <3>1. PICK j \in 1..Len(s) : j # k /\ r[i] = s[j]
        <4>1. CASE i < k
          BY <2>1, <2>5, <4>1
        <4>2. CASE i >= k
          <5>1. i + 1 \in 1..Len(s) /\ i + 1 # k
            BY <2>1, <4>2
          <5>2. r[i] = s[i + 1]
            <6>1. ~(i < k)
              BY <2>1, <4>2
            <6> QED BY <2>5, <6>1
          <5> QED BY <5>1, <5>2
        <4> QED BY <2>1, <4>1, <4>2
      <3> QED BY <1>0, <2>1, <3>1 DEF Range, IsInjective
    <2>8. Range(s) \ {e} \subseteq Range(r)
      <3> SUFFICES ASSUME NEW i \in 1..Len(s), i # k
                   PROVE  s[i] \in Range(r)
        BY <1>0, <2>1 DEF Range
      <3>1. DOMAIN r = 1..Len(s) - 1
        BY <2>5
      <3>2. CASE i < k
        BY <2>1, <2>5, <3>1, <3>2 DEF Range
      <3>3. CASE i > k
        <4>1. i - 1 \in 1..Len(s) - 1 /\ r[i - 1] = s[i]
          BY <2>1, <2>5, <3>3
        <4> QED BY <3>1, <4>1 DEF Range
      <3> QED BY <3>2, <3>3
    <2> QED BY <2>4, <2>5, <2>6, <2>7, <2>8 DEF r
  <1> QED BY <1>1, <1>2

-------------------------------------------------------------------------------
(***************************************************************************)
(* What may come: nothing is published twice                               *)
(***************************************************************************)

\* Item i is in the hub or on its way to the listener, by whatever connection.
InFlight(i) ==
    \/ \E k \in DOMAIN ring : ring[k] = i
    \/ \E t \in Tasks : \E k \in hand[t].left : hand[t].plan[k].item = i
    \/ \E c \in Conns : \E k \in DOMAIN chan[c] : chan[c][k].item = i
    \/ OnWire(i)

Logged(i) == \E k \in DOMAIN log : log[k] = i

\* An event with message m is in flight, or yet to be published.
MayCome(m) ==
    \E i \in Items : i.kind \in MessageKinds /\ i.id = m /\ (~Logged(i) \/ InFlight(i))

Typing == TypeOK /\ wire \in Seq(WireLines)

\* Nothing that was published is published again, and what comes into flight
\* comes from a publisher, but for `ready'.
NothingNewComes ==
    /\ \A i \in Item : Logged(i) => Logged(i)'
    /\ \A i \in Item : i.kind # "ready" /\ InFlight(i)' =>
          InFlight(i) \/ (i \in Items /\ ~Logged(i) /\ (Transient(i) \/ Logged(i)'))

\* The types the steps below need.
LEMMA TypedFlight ==
    ASSUME Typing
    PROVE  /\ ring \in Seq(Item) /\ Len(ring) \in Nat /\ DOMAIN ring = 1..Len(ring)
           /\ log \in Seq(Item) /\ Len(log) \in Nat /\ DOMAIN log = 1..Len(log)
           /\ hand \in [Tasks -> Hands]
           /\ \A t \in Tasks : \A k \in hand[t].left :
                 hand[t].plan[k] \in Delivery /\ hand[t].plan[k].item \in Item
           /\ chan \in [Conns -> Seq(Delivery)]
           /\ wire \in Seq(WireLines)
           /\ Len(wire) \in Nat /\ DOMAIN wire = 1..Len(wire)
  <1>1. TypeOK
    BY DEF Typing
  <1>2. hand \in [Tasks -> Hands]
    BY <1>1 DEF TypeOK, Hands
  <1>3. \A t \in Tasks : \A k \in hand[t].left :
                 hand[t].plan[k] \in Delivery /\ hand[t].plan[k].item \in Item
    BY <1>1, <1>2, HandedType
  <1>4. ring \in Seq(Item) /\ log \in Seq(Item)
    BY <1>1 DEF TypeOK
  <1>5. /\ Len(ring) \in Nat /\ DOMAIN ring = 1..Len(ring)
        /\ Len(log) \in Nat /\ DOMAIN log = 1..Len(log)
    BY <1>4
  <1>6. wire \in Seq(WireLines) /\ Len(wire) \in Nat /\ DOMAIN wire = 1..Len(wire)
    BY DEF Typing
  <1> QED BY <1>1, <1>2, <1>3, <1>4, <1>5, <1>6 DEF TypeOK

\* The head of a sequence leaves it, the others stay.
LEMMA TailElements ==
    ASSUME NEW S, NEW s \in Seq(S), s # <<>>
    PROVE  /\ Tail(s) \in Seq(S) /\ Head(s) = s[1] /\ 1 \in DOMAIN s /\ s[1] \in S
           /\ \A k \in DOMAIN Tail(s) : k + 1 \in DOMAIN s /\ Tail(s)[k] = s[k + 1]
  BY HeadTailProperties

LEMMA HandOverMoves ==
    ASSUME Typing, NEW t \in Tasks, HandOver(t)
    PROVE  wire' = wire /\ NothingNewComes
  <1> USE TypedFlight
  <1>1. PICK k \in hand[t].left : Accept(t, k) \/ Refuse(t, k)
    BY DEF HandOver, HandOff
  <1>2. /\ \A u \in Tasks : hand'[u].plan = hand[u].plan /\ hand'[u].left \subseteq hand[u].left
    <2>1. CASE Accept(t, k)
      <3> DEFINE n == IF TrackSeen(hand[t].plan[k].item) THEN <<hand[t].plan[k].item>> ELSE <<>>
      <3>1. hand' = [hand EXCEPT ![t].left = @ \ {k}, ![t].noting = n]
        BY <2>1 DEF Accept
      <3> HIDE DEF n
      <3> QED BY <3>1 DEF Hands
    <2>2. CASE Refuse(t, k)
      BY <2>2 DEF Refuse, Hands
    <2> QED BY <1>1, <2>1, <2>2
  <1>3. ASSUME NEW c \in Conns, NEW j \in DOMAIN chan'[c]
        PROVE  chan'[c][j] = hand[t].plan[k] \/ (j \in DOMAIN chan[c] /\ chan'[c][j] = chan[c][j])
    <2>1. CASE chan' = chan
      BY <2>1
    <2>2. CASE Accept(t, k)
      <3>1. PICK d : d = hand[t].plan[k]
        OBVIOUS
      <3>2. chan' = [chan EXCEPT ![hand[t].to] = Append(@, d)] /\ d \in Delivery
        BY <2>2, <3>1 DEF Accept
      <3>3. CASE c = hand[t].to
        <4>1. chan'[c] = Append(chan[c], d) /\ chan[c] \in Seq(Delivery)
          BY <3>2, <3>3
        <4>2. j = Len(chan[c]) + 1 \/ j \in 1..Len(chan[c])
          BY <3>2, <4>1
        <4> QED BY <3>1, <3>2, <4>1, <4>2
      <3>4. CASE c # hand[t].to
        BY <3>2, <3>4
      <3> QED BY <3>3, <3>4
    <2> QED BY <1>1, <2>1, <2>2 DEF Refuse
  <1>4. /\ UNCHANGED <<ring, log>> /\ wire' = wire
    BY DEF HandOver, HandOff, listenerVars
  <1>5. ASSUME NEW i \in Item, InFlight(i)' PROVE InFlight(i)
    <2>1. CASE \E u \in Tasks : \E j \in hand'[u].left : hand'[u].plan[j].item = i
      BY <1>2, <2>1 DEF InFlight
    <2>2. CASE \E c \in Conns : \E j \in DOMAIN chan'[c] : chan'[c][j].item = i
      <3>1. PICK c \in Conns : \E j \in DOMAIN chan'[c] : chan'[c][j].item = i
        BY <2>2
      <3>2. PICK j \in DOMAIN chan'[c] : chan'[c][j].item = i
        BY <3>1
      <3>3. CASE chan'[c][j] = hand[t].plan[k]
        BY <1>1, <3>2, <3>3 DEF InFlight
      <3>4. CASE j \in DOMAIN chan[c] /\ chan'[c][j] = chan[c][j]
        BY <3>2, <3>4 DEF InFlight
      <3> QED BY <1>3, <3>3, <3>4
    <2>3. CASE (\E j \in DOMAIN ring' : ring'[j] = i) \/ OnWire(i)'
      BY <1>4, <2>3 DEF InFlight, OnWire
    <2> QED BY <1>5, <2>1, <2>2, <2>3 DEF InFlight
  <1> QED BY <1>4, <1>5 DEF NothingNewComes, Logged

LEMMA SendFrameMoves ==
    ASSUME Typing, NEW c \in Conns, SendFrame(c)
    PROVE  wire' \in Seq(WireLines) /\ NothingNewComes
  <1> USE TypedFlight
  <1>1. chan[c] \in Seq(Delivery) /\ chan[c] # <<>>
    BY DEF SendFrame, Receive
  <1>2. PICK d \in Delivery : d = Head(chan[c]) /\ d = chan[c][1] /\ 1 \in DOMAIN chan[c]
    BY <1>1, TailElements
  <1>3. wire' = Frame(d) /\ wire' \in Seq(WireLines)
    BY <1>2, FrameLines DEF SendFrame
  <1>4. /\ chan' = [chan EXCEPT ![c] = Tail(chan[c])] /\ UNCHANGED <<ring, log, hand>>
    BY DEF SendFrame, Receive
  <1>5. ASSUME NEW b \in Conns, NEW k \in DOMAIN chan'[b]
        PROVE  \E j \in DOMAIN chan[b] : chan'[b][k] = chan[b][j]
    <2>1. CASE b = c
      BY <1>1, <1>4, <2>1, TailElements
    <2>2. CASE b # c
      BY <1>4, <2>2
    <2> QED BY <2>1, <2>2
  <1>6. \A i : OnWire(i)' => d.item = i
    BY <1>3, FrameLines DEF OnWire
  <1>7. ASSUME NEW i \in Item, InFlight(i)' PROVE InFlight(i)
    <2>1. CASE \E b \in Conns : \E j \in DOMAIN chan'[b] : chan'[b][j].item = i
      BY <1>5, <2>1 DEF InFlight
    <2>2. CASE OnWire(i)'
      BY <1>2, <1>6, <2>2 DEF InFlight
    <2>3. CASE \/ \E j \in DOMAIN ring' : ring'[j] = i
               \/ \E t \in Tasks : \E j \in hand'[t].left : hand'[t].plan[j].item = i
      BY <1>4, <2>3 DEF InFlight
    <2> QED BY <1>7, <2>1, <2>2, <2>3 DEF InFlight
  <1> QED BY <1>3, <1>4, <1>7 DEF NothingNewComes, Logged

LEMMA ReadMoves ==
    ASSUME Typing, ReadId \/ ReadData
    PROVE  wire' \in Seq(WireLines) /\ NothingNewComes
  <1> USE TypedFlight
  <1>1. wire # <<>> /\ wire' = Tail(wire) /\ UNCHANGED hubVars
    BY DEF ReadId, ReadData
  <1>2. /\ wire' \in Seq(WireLines)
        /\ \A k \in DOMAIN wire' : k + 1 \in DOMAIN wire /\ wire'[k] = wire[k + 1]
    BY <1>1, TailElements
  <1>3. \A i : OnWire(i)' => OnWire(i)
    BY <1>2 DEF OnWire
  <1>4. UNCHANGED <<ring, log, hand, chan>>
    BY <1>1 DEF hubVars
  <1>5. \A i \in Item : InFlight(i)' => InFlight(i)
    BY <1>3, <1>4 DEF InFlight
  <1> QED BY <1>2, <1>4, <1>5 DEF NothingNewComes, Logged

\* `ready' comes from no publisher.
LEMMA ReadyMoves ==
    ASSUME Typing, NEW c \in Conns, PublishReady(c), UNCHANGED listenerVars
    PROVE  wire' = wire /\ NothingNewComes
  <1> USE TypedFlight
  <1> DEFINE h == IF tx = 0 THEN NoTask
                  ELSE [to |-> tx, plan |-> <<Live(ReadyItem)>>,
                        left |-> {1}, noting |-> <<>>]
  <1>1. /\ hand' = [hand EXCEPT ![c] = h]
        /\ \A k \in h.left : h.plan[k].item.kind = "ready"
        /\ UNCHANGED <<ring, log, chan, wire>>
    BY DEF PublishReady, NoTask, Live, ReadyItem, listenerVars
  <1> HIDE DEF h
  <1>2. /\ hand'[c] = h
        /\ \A t \in Tasks \ {c} : hand'[t] = hand[t]
    BY <1>1
  <1>3. \A i \in Item : i.kind # "ready" /\ InFlight(i)' => InFlight(i)
    BY <1>1, <1>2 DEF InFlight, OnWire
  <1> QED BY <1>1, <1>3 DEF NothingNewComes, Logged

\* A replay is of the ring.
LEMMA SubscribeMoves ==
    ASSUME Typing, NEW c \in Conns, Subscribe(c)
    PROVE  wire' \in Seq(WireLines) /\ NothingNewComes
  <1> USE TypedFlight
  <1>1. PICK after \in ResumeAfter(lastId) :
           hand' = [hand EXCEPT ![c] =
                      ReplayTask(c, SubSeq(ring, after + 1, Len(ring)))]
    BY DEF Subscribe, Connect, ResumeId
  <1>2. after \in 0..Len(ring)
    BY DEF ResumeAfter
  <1> DEFINE s == SubSeq(ring, after + 1, Len(ring))
  <1>3. s \in Seq(Item) /\ \A k \in 1..Len(s) : after + k \in DOMAIN ring /\ s[k] = ring[after + k]
    <2>1. \A k \in after + 1..Len(ring) : ring[k] \in Item
      BY <1>2, ElementOfSeq
    <2>2. after + 1 \in Int /\ Len(ring) \in Int
      BY <1>2
    <2>3. /\ s \in Seq(Item)
          /\ Len(s) = IF after + 1 <= Len(ring) THEN Len(ring) - (after + 1) + 1 ELSE 0
          /\ \A k \in 1..Len(ring) - (after + 1) + 1 : s[k] = ring[after + 1 + k - 1]
      BY <2>1, <2>2, SubSeqProperties
    <2> HIDE DEF s
    <2>4. ASSUME NEW k \in 1..Len(s)
          PROVE  after + k \in DOMAIN ring /\ s[k] = ring[after + k]
      <3>1. Len(s) = Len(ring) - (after + 1) + 1 /\ after + 1 <= Len(ring)
        BY <1>2, <2>3
      <3>2. after + k \in 1..Len(ring) /\ after + 1 + k - 1 = after + k
        BY <1>2, <3>1
      <3> QED BY <2>3, <3>1, <3>2
    <2> QED BY <2>3, <2>4
  <1> HIDE DEF s
  <1>4. /\ hand'[c] = ReplayTask(c, s)
        /\ \A t \in Tasks \ {c} : hand'[t] = hand[t]
    BY <1>1 DEF s
  <1>5. \A k \in hand'[c].left : k \in 1..Len(s) /\ hand'[c].plan[k].item = s[k]
    <2>1. DOMAIN s = 1..Len(s)
      BY <1>3
    <2>2. ReplayTask(c, s).left \subseteq DOMAIN s
      BY PlanWithinBacklog DEF ReplayTask
    <2>3. \A k \in DOMAIN s : ReplayTask(c, s).plan[k].item = s[k]
      BY DEF ReplayTask, Replayed
    <2> QED BY <1>4, <2>1, <2>2, <2>3
  <1>6. wire' = <<>> /\ UNCHANGED <<ring, log, chan>> /\ DOMAIN <<>> = {}
    BY DEF Subscribe, Connect
  <1>7. ASSUME NEW i \in Item, InFlight(i)' PROVE InFlight(i)
    <2>1. CASE \E t \in Tasks : \E k \in hand'[t].left : hand'[t].plan[k].item = i
      <3>1. PICK t \in Tasks : \E k \in hand'[t].left : hand'[t].plan[k].item = i
        BY <2>1
      <3>2. CASE t = c
        <4>1. PICK k \in 1..Len(s) : s[k] = i
          BY <1>5, <3>1, <3>2
        <4>2. after + k \in DOMAIN ring /\ ring[after + k] = i
          BY <1>3, <4>1
        <4> QED BY <4>2 DEF InFlight
      <3>3. CASE t # c
        BY <1>4, <3>1, <3>3 DEF InFlight
      <3> QED BY <3>2, <3>3
    <2>2. CASE \/ \E j \in DOMAIN ring' : ring'[j] = i
               \/ \E b \in Conns : \E j \in DOMAIN chan'[b] : chan'[b][j].item = i
      BY <1>6, <2>2 DEF InFlight
    <2>3. ~OnWire(i)'
      BY <1>6 DEF OnWire
    <2> QED BY <1>7, <2>1, <2>2, <2>3 DEF InFlight
  <1> QED BY <1>6, <1>7 DEF NothingNewComes, Logged

\* What is published was not published before.
LEMMA PublishMoves ==
    ASSUME Typing, NEW p \in Publishers, NEW x \in Items, Publish(p, x),
           UNCHANGED listenerVars
    PROVE  wire' = wire /\ NothingNewComes
  <1> USE TypedFlight
  <1>0. x \in Item /\ ~Logged(x) /\ UNCHANGED <<chan, wire>>
    BY ItemsType DEF Publish, Logged, listenerVars
  <1>1. \A t \in Tasks : \A k \in hand'[t].left :
          hand'[t].plan[k].item = x \/ (hand'[t] = hand[t])
    <2> DEFINE h == [to |-> tx, plan |-> <<Live(x)>>, left |-> {1}, noting |-> <<>>]
    <2>1. hand' = hand \/ hand' = [hand EXCEPT ![p] = h]
      BY DEF Publish
    <2>2. \A k \in h.left : h.plan[k].item = x
      BY DEF Live
    <2> HIDE DEF h
    <2> QED BY <2>1, <2>2
  <1>2. \A k \in DOMAIN ring' : ring'[k] = x \/ \E j \in DOMAIN ring : ring'[k] = ring[j]
    <2>1. CASE ring' = PushRing(ring, x)
      <3> DEFINE r == Append(ring, x)
      <3>1. r \in Seq(Item) /\ \A k \in DOMAIN r : r[k] = x \/ \E j \in DOMAIN ring : r[k] = ring[j]
        BY <1>0
      <3>2. ring' = r \/ (ring' = Tail(r) /\ r # <<>>)
        <4>1. r # <<>>
          BY <1>0, AppendType
        <4> QED BY <2>1, <4>1 DEF PushRing
      <3> HIDE DEF r
      <3>3. CASE ring' = Tail(r) /\ r # <<>>
        <4>1. \A k \in DOMAIN ring' : k + 1 \in DOMAIN r /\ ring'[k] = r[k + 1]
          BY <3>1, <3>3, TailElements
        <4> QED BY <3>1, <4>1
      <3> QED BY <3>1, <3>2, <3>3
    <2>2. CASE ring' = ring
      BY <2>2
    <2> QED BY <2>1, <2>2 DEF Publish
  <1>3. /\ \A i : Logged(i) => Logged(i)'
        /\ Transient(x) \/ Logged(x)'
    <2>1. CASE log' = Append(log, x)
      <3>1. /\ DOMAIN log' = 1..Len(log) + 1 /\ log'[Len(log) + 1] = x
            /\ \A k \in DOMAIN log : k \in DOMAIN log' /\ log'[k] = log[k]
        BY <1>0, <2>1
      <3>2. Len(log) + 1 \in DOMAIN log'
        BY <3>1
      <3> QED BY <3>1, <3>2 DEF Logged
    <2>2. CASE log' = log /\ Transient(x)
      BY <2>2 DEF Logged
    <2> QED BY <2>1, <2>2 DEF Publish
  <1>4. ASSUME NEW i \in Item, InFlight(i)', i # x PROVE InFlight(i)
    <2>1. CASE \E t \in Tasks : \E k \in hand'[t].left : hand'[t].plan[k].item = i
      BY <1>1, <1>4, <2>1 DEF InFlight
    <2>2. CASE \E k \in DOMAIN ring' : ring'[k] = i
      BY <1>2, <1>4, <2>2 DEF InFlight
    <2>3. CASE \/ \E c \in Conns : \E k \in DOMAIN chan'[c] : chan'[c][k].item = i
               \/ OnWire(i)'
      BY <1>0, <2>3 DEF InFlight, OnWire
    <2> QED BY <1>4, <2>1, <2>2, <2>3 DEF InFlight
  <1> QED BY <1>0, <1>3, <1>4 DEF NothingNewComes

\* Connections end, the sidecar dies, a DM is noted, or nothing happens.
LEMMA OtherMoves ==
    ASSUME Typing,
           \/ \E c \in Conns : ServerSideGone(c)
           \/ \E t \in Tasks : Note(t) /\ UNCHANGED listenerVars
           \/ StreamEnds \/ SidecarRestart \/ UNCHANGED deliveryVars
    PROVE  wire' \in Seq(WireLines) /\ NothingNewComes
  <1> USE TypedFlight
  <1>0. DOMAIN <<>> = {} /\ <<>> \in Seq(WireLines)
    OBVIOUS
  <1>1. CASE \E c \in Conns : ServerSideGone(c)
    <2>1. PICK c \in Conns : ServerSideGone(c)
      BY <1>1
    <2>2. /\ chan' = [chan EXCEPT ![c] = <<>>] /\ UNCHANGED <<ring, log, hand, wire>>
      BY <2>1 DEF ServerSideGone, ClientGone, listenerVars
    <2>3. \A b \in Conns : \A k \in DOMAIN chan'[b] : b # c /\ chan'[b] = chan[b]
      BY <1>0, <2>2
    <2>4. \A i \in Item : InFlight(i)' => InFlight(i)
      BY <2>2, <2>3 DEF InFlight, OnWire
    <2> QED BY <2>2, <2>4 DEF NothingNewComes, Logged
  <1>2. CASE \E t \in Tasks : Note(t) /\ UNCHANGED listenerVars
    <2>1. /\ \A u \in Tasks : hand'[u].plan = hand[u].plan /\ hand'[u].left = hand[u].left
          /\ UNCHANGED <<ring, log, chan, wire>>
      BY <1>2 DEF Note, Hands, listenerVars
    <2>2. \A i \in Item : InFlight(i)' => InFlight(i)
      BY <2>1 DEF InFlight, OnWire
    <2> QED BY <2>1, <2>2 DEF NothingNewComes, Logged
  <1>3. CASE StreamEnds
    <2>1. wire' = <<>> /\ UNCHANGED <<ring, log, hand, chan>>
      BY <1>3 DEF StreamEnds, hubVars
    <2>2. \A i \in Item : InFlight(i)' => InFlight(i)
      BY <1>0, <2>1 DEF InFlight, OnWire
    <2> QED BY <1>0, <2>1, <2>2 DEF NothingNewComes, Logged
  <1>4. CASE SidecarRestart
    <2>1. /\ wire' = <<>> /\ ring' = <<>> /\ UNCHANGED log
          /\ \A c \in Conns : chan'[c] = <<>>
          /\ \A t \in Tasks : hand'[t].left = {}
      BY <1>4 DEF SidecarRestart, NoTask
    <2>2. \A i : ~InFlight(i)'
      BY <1>0, <2>1 DEF InFlight, OnWire
    <2> QED BY <1>0, <2>1, <2>2 DEF NothingNewComes, Logged
  <1>5. CASE UNCHANGED deliveryVars
    <2>1. UNCHANGED <<ring, log, hand, chan, wire>>
      BY <1>5 DEF deliveryVars, hubVars, listenerVars
    <2>2. \A i : InFlight(i)' => InFlight(i)
      BY <2>1 DEF InFlight, OnWire
    <2> QED BY <2>1, <2>2 DEF NothingNewComes, Logged
  <1> QED BY <1>1, <1>2, <1>3, <1>4, <1>5

LEMMA Moves ==
    ASSUME Typing, [DeliveryNext]_deliveryVars
    PROVE  Typing' /\ NothingNewComes
  <1>1. TypeOK'
    BY DeliveryTypeNext DEF Typing
  <1>2. wire \in Seq(WireLines)
    BY DEF Typing
  <1>3. CASE UNCHANGED deliveryVars \/ StreamEnds \/ SidecarRestart
    BY <1>1, <1>3, OtherMoves DEF Typing
  <1>4. CASE \E p \in Publishers, x \in Items : Publish(p, x) /\ UNCHANGED listenerVars
    BY <1>1, <1>2, <1>4, PublishMoves DEF Typing
  <1>5. ASSUME NEW c \in Conns,
               \/ PublishReady(c) /\ UNCHANGED listenerVars
               \/ Subscribe(c) \/ SendFrame(c) \/ ServerSideGone(c)
        PROVE  wire' \in Seq(WireLines) /\ NothingNewComes
    BY <1>2, <1>5, ReadyMoves, SubscribeMoves, SendFrameMoves, OtherMoves
  <1>6. ASSUME NEW t \in Tasks, (Note(t) /\ UNCHANGED listenerVars) \/ HandOver(t)
        PROVE  wire' \in Seq(WireLines) /\ NothingNewComes
    BY <1>2, <1>6, OtherMoves, HandOverMoves
  <1>7. CASE ReadId \/ ReadData
    BY <1>1, <1>7, ReadMoves DEF Typing
  <1> QED
    BY <1>1, <1>3, <1>4, <1>5, <1>6, <1>7 DEF Typing, DeliveryNext, SystemNext, WorldNext

-------------------------------------------------------------------------------
(***************************************************************************)
(* One fate: the inductive invariant                                       *)
(***************************************************************************)

\* An id is in the cache after it was touched, which has room for all the ids of
\* a set no larger than it is.
LEMMA TouchKeeps ==
    ASSUME NEW S, NEW s \in Seq(S), IsInjective(s), Len(s) <= DedupMax, NEW m \in S
    PROVE  /\ Touch(s, m) \in Seq(S) /\ IsInjective(Touch(s, m))
           /\ Len(Touch(s, m)) <= DedupMax
           /\ m \in Range(Touch(s, m))
           /\ Range(Touch(s, m)) \subseteq Range(s) \union {m}
           /\ (\A t \in Seq(S) : IsInjective(t) => Len(t) <= DedupMax) =>
                 Range(s) \subseteq Range(Touch(s, m))
  <1> DEFINE r == RemoveFirst(s, m)
             u == Append(r, m)
  <1>1. /\ r \in Seq(S) /\ IsInjective(r) /\ Range(r) = Range(s) \ {m}
        /\ Len(r) <= Len(s)
    BY RemoveOnce
  <1> HIDE DEF r
  <1>2. m \notin Range(r)
    BY <1>1
  <1>3. u \in Seq(S) /\ IsInjective(u) /\ Range(u) = Range(s) \union {m}
    BY <1>1, <1>2, AppendNew
  <1>4. /\ Len(u) \in Nat /\ DOMAIN u = 1..Len(u) /\ u # <<>> /\ Len(u) >= 1 /\ u[Len(u)] = m
        /\ DedupMax \in Nat \ {0}
    <2>1. Len(u) = Len(r) + 1 /\ Len(r) \in Nat /\ u[Len(r) + 1] = m
      BY <1>1, AppendProperties
    <2> HIDE DEF u
    <2> QED BY <1>3, <2>1, DeliveryAssumption DEF DeliveryAssumption
  <1>5. Touch(s, m) = IF Len(u) > DedupMax THEN Tail(u) ELSE u
    BY DEF Touch, r
  <1> HIDE DEF u
  <1>6. CASE Len(u) > DedupMax
    <2> DEFINE v == Tail(u)
    <2>1. /\ v \in Seq(S) /\ Len(v) = Len(u) - 1 /\ DOMAIN v = 1..Len(u) - 1
          /\ \A k \in DOMAIN v : v[k] = u[k + 1]
      BY <1>3, <1>4, HeadTailProperties
    <2>2. Len(v) <= DedupMax
      <3>1. Len(u) <= DedupMax + 1
        <4>1. Len(r) <= Len(s)
          BY <1>1
        <4>2. Len(u) = Len(r) + 1 /\ Len(r) \in Nat /\ Len(s) \in Nat
          BY <1>1 DEF u
        <4> QED BY <1>4, <4>1, <4>2
      <3> QED BY <1>4, <2>1, <3>1
    <2> HIDE DEF v
    <2>3. IsInjective(v)
      <3> SUFFICES ASSUME NEW j \in DOMAIN v, NEW k \in DOMAIN v, v[j] = v[k]
                   PROVE  j = k
        BY DEF IsInjective
      <3>1. j + 1 \in DOMAIN u /\ k + 1 \in DOMAIN u /\ u[j + 1] = u[k + 1]
        BY <1>4, <2>1
      <3>2. j + 1 = k + 1
        BY <1>3, <3>1 DEF IsInjective
      <3> QED BY <2>1, <3>2
    <2>4. m \in Range(v)
      <3>1. Len(u) - 1 \in DOMAIN v /\ v[Len(u) - 1] = m
        BY <1>4, <1>6, <2>1
      <3> QED BY <3>1 DEF Range
    <2>5. Range(v) \subseteq Range(u)
      <3> SUFFICES ASSUME NEW k \in DOMAIN v PROVE v[k] \in Range(u)
        BY DEF Range
      <3>1. k + 1 \in DOMAIN u /\ v[k] = u[k + 1]
        BY <1>4, <2>1
      <3> QED BY <3>1 DEF Range
    <2>6. ~\A t \in Seq(S) : IsInjective(t) => Len(t) <= DedupMax
      BY <1>3, <1>4, <1>6
    <2>7. Touch(s, m) = v
      BY <1>5, <1>6 DEF v
    <2> QED BY <1>3, <2>1, <2>2, <2>3, <2>4, <2>5, <2>6, <2>7
  <1>7. CASE ~(Len(u) > DedupMax)
    <2>1. Touch(s, m) = u
      BY <1>5, <1>7
    <2> QED BY <1>3, <1>4, <1>7, <2>1
  <1> QED BY <1>6, <1>7

\* A message comes in one event, which has an id.
OneEventPerMessage ==
    \A i, j \in Items :
        i.kind \in MessageKinds /\ j.kind \in MessageKinds /\ i.id = j.id =>
            i = j /\ ~Transient(i)

\* A living adapter forgets the id of a message only when no event with it may
\* come any more.
KeepsWhatMayCome ==
    \A m \in Messages :
        IsDuplicate(m) /\ ~IsDuplicate(m)' => seen' = <<>> \/ ~MayCome(m)'

\* What is in flight was published.
FlightLogged ==
    \A i \in Item : i.kind # "ready" /\ InFlight(i) =>
        i \in Items /\ (Transient(i) \/ Logged(i))

\* A message that met its fate is remembered, or will not come again; one that was
\* handled was published.
FatesRemembered ==
    \A m \in Messages : fate[m] # <<>> =>
        /\ IsDuplicate(m) \/ ~MayCome(m)
        /\ ~Life!Forgotten(m) => \E i \in Items : i.kind \in MessageKinds /\ i.id = m /\ Logged(i)

CacheInv == seen \in Seq(Nat) /\ IsInjective(seen) /\ Len(seen) <= DedupMax

\* The inductive invariant.
FateInv ==
    /\ Typing /\ FlightLogged /\ CacheInv
    /\ fate \in [Messages -> Seq(Fates)] /\ FatesRemembered

LEMMA FateInvInit == DeliveryInit => FateInv
  <1> SUFFICES ASSUME DeliveryInit PROVE FateInv
    OBVIOUS
  <1>1. TypeOK
    BY TypeInit DEF DeliveryInit
  <1>2. /\ ring = <<>> /\ wire = <<>> /\ seen = <<>> /\ DOMAIN <<>> = {}
        /\ \A c \in Conns : chan[c] = <<>>
        /\ \A t \in Tasks : hand[t].left = {}
        /\ \A m \in Messages : fate[m] = <<>>
        /\ fate \in [Messages -> Seq(Fates)]
    <2>1. fate \in [Messages -> {<<>>}]
      BY DEF DeliveryInit
    <2>2. <<>> \in Seq(Fates)
      OBVIOUS
    <2>3. fate \in [Messages -> Seq(Fates)]
      BY <2>1, <2>2
    <2> QED BY <2>1, <2>3 DEF DeliveryInit, Init, NoTask
  <1>3. FlightLogged
    <2>1. \A i : ~InFlight(i)
      BY <1>2 DEF InFlight, OnWire
    <2> QED BY <2>1 DEF FlightLogged
  <1>4. CacheInv
    BY <1>2, DeliveryAssumption DEF DeliveryAssumption, CacheInv, IsInjective
  <1> QED BY <1>1, <1>2, <1>3, <1>4 DEF FateInv, Typing, FatesRemembered

\* What may come could come before.
LEMMA MayComeShrinks ==
    ASSUME NothingNewComes, NEW m, MayCome(m)'
    PROVE  MayCome(m)
  <1>1. PICK i \in Items : i.kind \in MessageKinds /\ i.id = m
                           /\ (~Logged(i)' \/ InFlight(i)')
    BY DEF MayCome
  <1>2. i \in Item /\ i.kind # "ready"
    BY <1>1, ItemsType DEF MessageKinds
  <1>3. ~Logged(i) \/ InFlight(i)
    BY <1>1, <1>2 DEF NothingNewComes
  <1> QED BY <1>1, <1>3 DEF MayCome

LEMMA FlightStaysLogged ==
    ASSUME FlightLogged, NothingNewComes
    PROVE  FlightLogged'
  BY DEF FlightLogged, NothingNewComes

\* Nothing happens to a message.
LEMMA FatesStay ==
    ASSUME FateInv, [DeliveryNext]_deliveryVars, UNCHANGED <<seen, fate>>
    PROVE  FateInv'
  <1>1. Typing' /\ NothingNewComes
    BY Moves DEF FateInv
  <1>2. FlightLogged'
    BY <1>1, FlightStaysLogged DEF FateInv
  <1>3. FatesRemembered'
    <2> SUFFICES ASSUME NEW m \in Messages, fate[m] # <<>>
                 PROVE  /\ IsDuplicate(m)' \/ ~MayCome(m)'
                        /\ ~Life!Forgotten(m) =>
                              \E i \in Items : i.kind \in MessageKinds /\ i.id = m /\ Logged(i)'
      BY DEF FatesRemembered, Life!Forgotten
    <2>1. IsDuplicate(m)' \/ ~MayCome(m)'
      BY <1>1, MayComeShrinks DEF FateInv, FatesRemembered, IsDuplicate
    <2>2. ASSUME NEW i \in Items, Logged(i) PROVE Logged(i)'
      BY <1>1, <2>2, ItemsType DEF NothingNewComes
    <2> QED BY <2>1, <2>2 DEF FateInv, FatesRemembered
  <1>4. CacheInv'
    BY DEF FateInv, CacheInv
  <1> QED BY <1>1, <1>2, <1>3, <1>4 DEF FateInv

\* An event is read.  What was on the wire could come, so that its message has a
\* fate already only if it is remembered.
LEMMA ReadDataFates ==
    ASSUME OneEventPerMessage, FateInv, ReadData, KeepsWhatMayCome
    PROVE  FateInv' /\ [Life!LifeNext]_fate
  <1>1. Typing' /\ NothingNewComes
    BY Moves DEF FateInv, DeliveryNext, SystemNext
  <1>2. FlightLogged'
    BY <1>1, FlightStaysLogged DEF FateInv
  <1>3. /\ wire # <<>> /\ wire \in Seq(WireLines) /\ Head(wire) = wire[1]
        /\ 1 \in DOMAIN wire /\ wire[1] \in WireLines /\ wire[1].field = "data"
    BY TypedFlight, TailElements DEF FateInv, ReadData
  <1>4. PICK d \in Delivery : d = Head(wire).delivery
    BY <1>3 DEF WireLines
  <1> DEFINE i == d.item
  <1>5. i \in Item /\ InFlight(i)
    <2>1. OnWire(i)
      BY <1>3, <1>4 DEF OnWire
    <2> QED BY <2>1 DEF InFlight, Delivery
  <1>6. PICK ok \in BOOLEAN : Dispatch(d, ok)
    BY <1>4 DEF ReadData
  <1>7. i.kind # "ready" => i \in Items /\ (Transient(i) \/ Logged(i))
    BY <1>5 DEF FateInv, FlightLogged
  <1>8. CacheInv /\ fate \in [Messages -> Seq(Fates)] /\ FatesRemembered
    BY DEF FateInv
  \* The mark at x and the fate of at most the one message.
  <1>9. ASSUME NEW x \in Nat, seen' = Touch(seen, x),
               fate' \in [Messages -> Seq(Fates)],
               \A m \in Messages : m # x => fate'[m] = fate[m],
               x \in Messages /\ fate'[x] # fate[x] /\ fate'[x] # <<"forgotten">> =>
                  \E j \in Items : j.kind \in MessageKinds /\ j.id = x /\ Logged(j)
        PROVE  FateInv'
    <2>1. /\ seen' \in Seq(Nat) /\ IsInjective(seen') /\ Len(seen') <= DedupMax
          /\ x \in Range(seen')
      BY <1>8, <1>9, TouchKeeps DEF CacheInv
    <2>2. IsDuplicate(x)'
      BY <2>1 DEF IsDuplicate, Range
    <2>3. seen' # <<>>
      BY <2>2 DEF IsDuplicate
    <2>4. FatesRemembered'
      <3> SUFFICES ASSUME NEW m \in Messages, fate'[m] # <<>>
                   PROVE  /\ IsDuplicate(m)' \/ ~MayCome(m)'
                          /\ fate'[m] # <<"forgotten">> =>
                              \E j \in Items : j.kind \in MessageKinds /\ j.id = m /\ Logged(j)'
        BY DEF FatesRemembered, Life!Forgotten
      <3>1. IsDuplicate(m)' \/ ~MayCome(m)'
        <4>1. CASE m = x
          BY <2>2, <4>1
        <4>2. CASE m # x /\ IsDuplicate(m)
          BY <2>3, <4>2 DEF KeepsWhatMayCome
        <4>3. CASE m # x /\ ~IsDuplicate(m)
          BY <1>1, <1>8, <1>9, <4>3, MayComeShrinks DEF FatesRemembered
        <4> QED BY <4>1, <4>2, <4>3
      <3>2. ASSUME fate'[m] # <<"forgotten">>
            PROVE  \E j \in Items : j.kind \in MessageKinds /\ j.id = m /\ Logged(j)
        <4>1. CASE fate'[m] = fate[m]
          BY <1>8, <3>2, <4>1 DEF FatesRemembered, Life!Forgotten
        <4>2. CASE fate'[m] # fate[m]
          BY <1>9, <3>2, <4>2
        <4> QED BY <4>1, <4>2
      <3>3. \A j \in Items : Logged(j) => Logged(j)'
        BY <1>1, ItemsType DEF NothingNewComes
      <3> QED BY <3>1, <3>2, <3>3
    <2> QED BY <1>1, <1>2, <1>9, <2>1, <2>4 DEF FateInv, CacheInv
  <1>10. CASE i.kind \in MessageKinds
    <2>1. HandleMessage(d, ok)
      BY <1>6, <1>10 DEF Dispatch, MessageKinds
    <2>2. i \in Items /\ i.id \in Messages /\ i.id \in Nat /\ Logged(i)
      <3>1. i \in Items /\ i.kind # "ready"
        BY <1>7, <1>10 DEF MessageKinds
      <3>2. ~Transient(i)
        BY <1>10, <3>1 DEF OneEventPerMessage
      <3> QED BY <1>5, <1>7, <1>10, <3>1, <3>2 DEF Messages, Item
    <2>3. CASE UNCHANGED <<seen, fate>>
      BY <2>3, FatesStay DEF DeliveryNext, SystemNext
    <2>4. CASE seen' = Touch(seen, i.id) /\ UNCHANGED fate
      BY <1>8, <1>9, <2>2, <2>4
    <2>5. CASE /\ seen' = Touch(seen, i.id) /\ ~IsDuplicate(i.id) /\ NewMessage(d, ok)
      <3>1. PICK f \in Fates \ {"forgotten"} :
               fate' = [fate EXCEPT ![i.id] = Append(@, f)]
        BY <2>5 DEF NewMessage
      <3>2. MayCome(i.id)
        BY <1>5, <1>10, <2>2 DEF MayCome
      <3>3. fate[i.id] = <<>>
        BY <1>8, <2>2, <2>5, <3>2 DEF FatesRemembered
      <3>4. fate' = [fate EXCEPT ![i.id] = <<f>>]
        BY <3>1, <3>3
      <3>5. Life!Settle(i.id, f)
        BY <3>3, <3>4 DEF Life!Settle
      <3>6. FateInv'
        <4>1. fate' \in [Messages -> Seq(Fates)]
          <5>1. <<f>> \in Seq(Fates)
            BY <3>1
          <5> QED BY <1>8, <3>4, <5>1
        <4> QED BY <1>8, <1>9, <1>10, <2>2, <2>5, <3>4, <4>1
      <3> QED BY <2>2, <3>5, <3>6 DEF Life!LifeNext
    <2> QED BY <2>1, <2>3, <2>4, <2>5 DEF HandleMessage
  <1>11. CASE i.kind = "delete"
    <2>1. HandleDelete(d)
      BY <1>6, <1>11 DEF Dispatch, MessageKinds
    <2>2. i.target \in Nat
      BY <1>5 DEF Item
    <2>3. CASE i.target \in Messages /\ fate[i.target] = <<>>
      <3>1. /\ seen' = Touch(seen, i.target)
            /\ fate' = [fate EXCEPT ![i.target] = <<"forgotten">>]
        BY <2>1, <2>3 DEF HandleDelete
      <3>2. Life!Settle(i.target, "forgotten") /\ "forgotten" \in Fates
        BY <2>3, <3>1 DEF Life!Settle, Fates
      <3>3. FateInv'
        <4>1. fate' \in [Messages -> Seq(Fates)]
          <5>1. <<"forgotten">> \in Seq(Fates)
            BY <3>2
          <5> QED BY <1>8, <3>1, <5>1
        <4>2. fate'[i.target] = <<"forgotten">>
          BY <1>8, <2>3, <3>1
        <4> QED BY <1>8, <1>9, <2>2, <3>1, <4>1, <4>2
      <3> QED BY <2>3, <3>2, <3>3 DEF Life!LifeNext
    <2>4. CASE ~(i.target \in Messages /\ fate[i.target] = <<>>)
      <3>1. seen' = Touch(seen, i.target) /\ fate' = fate
        BY <2>1, <2>4 DEF HandleDelete
      <3> QED BY <1>8, <1>9, <2>2, <3>1
    <2> QED BY <2>3, <2>4
  <1>12. CASE i.kind \notin MessageKinds /\ i.kind # "delete"
    <2>1. UNCHANGED <<seen, fate>>
      BY <1>6, <1>12 DEF Dispatch
    <2> QED BY <2>1, FatesStay DEF DeliveryNext, SystemNext
  <1> QED BY <1>10, <1>11, <1>12

\* The sidecar restarts, and the adapter stays or is replaced by one that
\* remembers nothing; what was handled will not come to it.
LEMMA RestartFates ==
    ASSUME OneEventPerMessage, FateInv, SidecarRestart
    PROVE  FateInv' /\ [Life!LifeNext]_fate
  <1>1. Typing' /\ NothingNewComes
    BY Moves DEF FateInv, DeliveryNext, WorldNext
  <1>2. FlightLogged'
    BY <1>1, FlightStaysLogged DEF FateInv
  <1>3. CASE UNCHANGED <<seen, fate>>
    BY <1>3, FatesStay DEF DeliveryNext, WorldNext
  <1>4. CASE /\ seen' = <<>>
             /\ fate' = [m \in Messages |->
                           IF fate[m] = <<"forgotten">> THEN <<>> ELSE fate[m]]
    <2>1. Life!TakeOver
      BY <1>4 DEF Life!TakeOver, Life!Forgotten
    <2>2. fate' \in [Messages -> Seq(Fates)] /\ CacheInv'
      <3>1. <<>> \in Seq(Fates) /\ <<>> \in Seq(Nat) /\ Len(<<>>) = 0 /\ DOMAIN <<>> = {}
        OBVIOUS
      <3>2. fate' \in [Messages -> Seq(Fates)]
        BY <1>4, <3>1 DEF FateInv
      <3>3. CacheInv'
        BY <1>4, <3>1, DeliveryAssumption DEF DeliveryAssumption, CacheInv, IsInjective
      <3> QED BY <3>2, <3>3
    <2>3. /\ wire' = <<>> /\ ring' = <<>> /\ log' = log /\ DOMAIN <<>> = {}
          /\ \A c \in Conns : chan'[c] = <<>>
          /\ \A t \in Tasks : hand'[t].left = {}
      BY DEF SidecarRestart, NoTask
    <2>4. \A i : ~InFlight(i)'
      BY <2>3 DEF InFlight, OnWire
    <2>5. FatesRemembered'
      <3> SUFFICES ASSUME NEW m \in Messages, fate'[m] # <<>>
                   PROVE  /\ ~MayCome(m)'
                          /\ \E i \in Items : i.kind \in MessageKinds /\ i.id = m /\ Logged(i)'
        BY DEF FatesRemembered
      <3>1. fate[m] # <<>> /\ fate[m] # <<"forgotten">>
        BY <1>4
      <3>2. PICK i \in Items : i.kind \in MessageKinds /\ i.id = m /\ Logged(i)
        BY <3>1 DEF FateInv, FatesRemembered, Life!Forgotten
      <3>3. Logged(i)'
        BY <2>3, <3>2 DEF Logged
      <3>4. ~MayCome(m)'
        BY <2>4, <3>2, <3>3 DEF MayCome, OneEventPerMessage
      <3> QED BY <3>2, <3>3, <3>4
    <2> QED BY <1>1, <1>2, <2>1, <2>2, <2>5 DEF FateInv, Life!LifeNext
  <1> QED BY <1>3, <1>4 DEF SidecarRestart

\* Every step is a step of a message's life, or none.
LEMMA FateInvNext ==
    ASSUME OneEventPerMessage, FateInv, [DeliveryNext]_deliveryVars,
           [KeepsWhatMayCome]_deliveryVars
    PROVE  FateInv' /\ [Life!LifeNext]_fate
  <1>1. CASE ReadData
    <2>1. CASE KeepsWhatMayCome
      BY <1>1, <2>1, ReadDataFates
    <2>2. CASE UNCHANGED deliveryVars
      BY <2>2, FatesStay DEF deliveryVars, listenerVars, fateVars
    <2> QED BY <2>1, <2>2
  <1>2. CASE SidecarRestart
    BY <1>2, RestartFates
  <1>3. CASE UNCHANGED <<seen, fate>>
    BY <1>3, FatesStay
  <1> QED
    BY <1>1, <1>2, <1>3
       DEF DeliveryNext, SystemNext, WorldNext, HandOver, Subscribe, SendFrame, ReadId,
           ServerSideGone, StreamEnds, deliveryVars, listenerVars, fateVars

\* A message meets one fate, whatever streams break, sidecars restart or adapters
\* are replaced, and whatever is replayed, when a living adapter forgets the id of
\* a message only once no event with it may come: Delivery implements MessageLife.
THEOREM OneFateWhenKept ==
    ASSUME OneEventPerMessage
    PROVE  DeliverySpec /\ [][KeepsWhatMayCome]_deliveryVars => OneFate
  <1>1. DeliveryInit => Life!LifeInit
    BY DEF DeliveryInit, Life!LifeInit
  <1> QED BY <1>1, FateInvInit, FateInvNext, PTL DEF DeliverySpec, OneFate, Life!LifeSpec
===============================================================================
